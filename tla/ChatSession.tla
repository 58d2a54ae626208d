---------------------------- MODULE ChatSession ----------------------------
(***************************************************************************)
(* One browser tab of Cortex and the conversations it writes.              *)
(*                                                                         *)
(* The tab shows one conversation: the one of the active group, or a new   *)
(* chat that has none yet.  Sending a prompt takes several requests -      *)
(* create the conversation, store the prompt, stream the answer, store the *)
(* answer - and the user may open another conversation, start a new chat,  *)
(* stop the answer or reload the page between any two of them.             *)
(*                                                                         *)
(* The hook useChatSession tells an old continuation from a current one by *)
(* a version counter, finds the conversation to write to through a ref     *)
(* (idRef), and keeps a freshly created conversation from being loaded     *)
(* over the transcript it came from by a marker (skipRef).  A state change *)
(* and the effects React runs for it are one step.                         *)
(***************************************************************************)
EXTENDS Naturals, FiniteSets

CONSTANTS
  Groups,      \* groups the user can open; each remembers one conversation
  Start,       \* the group the page is opened on
  Convs,       \* conversations, existing or still to be created (numbers)
  Existing,    \* the conversations that exist at the start
  None,        \* no conversation
  MaxSends,    \* prompts the user types
  HandOffs,    \* those of them whose answer may end in a hand-off
  Retried,     \* those of them whose requests and streams may be tried again
  MaxMoves,    \* times the user opens something else, or reloads
  MaxPosts,    \* times streamChat posts one prompt before it gives up
  MaxTries     \* requests fetchWithRetry makes of one call

ASSUME ChatAssumption ==
  /\ Start \in Groups /\ Existing \subseteq Convs /\ Convs \subseteq Nat /\ None \notin Convs
  /\ {MaxSends, MaxMoves} \subseteq Nat /\ {HandOffs, Retried} \subseteq SUBSET (1 .. MaxSends)
  /\ {MaxPosts, MaxTries} \subseteq Nat \ {0}

VARIABLES
  group,        \* the group the route names
  convOf,       \* convOf[g]: conversation g is on, or None (kept in localStorage)
  exists,       \* conversations the server has
  stored,       \* messages the server keeps: [conv, send, what, post, copy]
  idRef,        \* activeConversationIdRef
  skipRef,      \* skipNextConversationLoadRef
  version,      \* requestVersionRef
  abortRef,     \* the send whose AbortController is held, or 0
  view,         \* what the transcript area shows: empty, loading, loaded, failed
  loaded,       \* the conversation whose transcript was put on screen last
  bubble,       \* bubble[s]: the answer of s on screen: none, streaming, done
  extra,        \* sends whose implementation message is on screen
  isStreaming,  \* the composer is locked, Stop is offered
  loads,        \* getConversation calls not yet answered
  due,          \* sends whose implementation message waits for its timer
  send,         \* send[s]: the continuation of the s-th prompt
  moves         \* how often the user moved

screen == <<idRef, skipRef, version, abortRef, view, bubble, extra, isStreaming,
            loads, loaded, send>>
vars == <<group, convOf, exists, stored, due, moves, screen>>

Sends == 1 .. MaxSends
\* How often fetchWithRetry sends a request of prompt s.
Tries(s) == IF s \in Retried THEN MaxTries ELSE 1
Working == {"creating", "adding", "streaming", "waiting"}
Ends == {"answer", "stopped", "failed"}

\* Fields of a send: conv, version and group are what its closure captured,
\* orphans counts the requests to create its conversation whose answers were
\* lost, posts and ended belong to streamChat; home (the conversation it was typed
\* in), left (whether its conversation was still being created when the user
\* first moved on) and crossed (whether another prompt's conversation was created
\* before its own) are history.
Send == [phase : Working \cup {"unsent", "over"}, conv : Convs \cup {None},
         version : Nat, group : Groups, finalized : BOOLEAN,
         orphans : 0 .. MaxTries, posts : 0 .. MaxPosts, ended : BOOLEAN, home : Convs \cup {None},
         left : {"no", "creating", "later"}, crossed : BOOLEAN]

TypeOK ==
  /\ group \in Groups
  /\ convOf \in [Groups -> Convs \cup {None}]
  /\ exists \subseteq Convs
  /\ stored \subseteq [conv : Convs, send : Sends, post : Nat, copy : 1 .. MaxTries,
                       what : Ends \cup {"prompt", "implementation"}]
  /\ {idRef, skipRef, loaded} \subseteq Convs \cup {None}
  /\ version \in Nat /\ moves \in 0 .. MaxMoves
  /\ abortRef \in Sends \cup {0}
  /\ view \in {"empty", "loading", "loaded", "failed"}
  /\ bubble \in [Sends -> {"none", "streaming", "done"}]
  /\ extra \subseteq Sends /\ due \subseteq Sends
  /\ isStreaming \in BOOLEAN
  /\ loads \subseteq [conv : Convs, version : Nat]
  /\ send \in [Sends -> Send]

Active == convOf[group]
NoBubbles == [s \in Sends |-> "none"]
\* The answer of s as finalizeAssistant leaves it, if it is on screen at all.
Shown(s) == IF bubble[s] = "none" THEN bubble ELSE [bubble EXCEPT ![s] = "done"]

----------------------------------------------------------------------------
(* What one render does when it shows another conversation.                *)

\* The user moved on: the sends at work remember where they were.
Noted(f) == [s \in Sends |->
  IF f[s].phase \in Working /\ f[s].left = "no"
  THEN [f[s] EXCEPT !.left = IF f[s].phase = "creating" THEN "creating" ELSE "later"]
  ELSE f[s]]

\* AbortController.abort(): streamChat returns without calling back.
Aborted(f) ==
  IF abortRef # 0 /\ f[abortRef].phase \in {"streaming", "waiting"}
  THEN [f EXCEPT ![abortRef].phase = "over"] ELSE f

\* The load effect past its early return: cut the stream, clear the screen
\* and, unless it is a new chat, ask for the transcript.
Opened(c) ==
  /\ version' = version + 1
  /\ abortRef' = 0
  /\ isStreaming' = FALSE
  /\ bubble' = NoBubbles /\ extra' = {}
  /\ send' = Aborted(Noted(send))
  /\ IF c = None
     THEN view' = "empty" /\ UNCHANGED loads
     ELSE /\ view' = "loading"
          /\ loads' = loads \cup {[conv |-> c, version |-> version']}

\* The effects of [activeConversationId]: none when it did not change; the
\* marker of a conversation this tab created suppresses its load.
Showing(c) ==
  \/ /\ c = Active
     /\ send' = Noted(send)
     /\ UNCHANGED <<idRef, skipRef, version, abortRef, view, bubble, extra,
                    isStreaming, loads>>
  \/ /\ c # Active /\ idRef' = c
     /\ c # None /\ skipRef = c
     /\ skipRef' = None
     /\ send' = Noted(send)
     /\ UNCHANGED <<version, abortRef, view, bubble, extra, isStreaming,
                    loads>>
  \/ /\ c # Active /\ idRef' = c
     /\ ~(c # None /\ skipRef = c)
     /\ Opened(c)
     /\ UNCHANGED skipRef

----------------------------------------------------------------------------
Message(c, s, what, n) ==
  [conv |-> c, send |-> s, what |-> what, copy |-> n,
   post |-> IF what = "prompt" THEN 0 ELSE send[s].posts]

\* Each request of add_message inserts a row of its own, or none when the
\* conversation is gone.
Inserted(c, s, what, k) == {Message(c, s, what, n) : n \in {i \in 1 .. k : c \in exists}}

\* A message posted without looking at the outcome.  fetchWithRetry repeats the
\* request after a 503 or a broken connection, so the server keeps any number of
\* copies up to Tries(s), or none.  They are one step: nothing waits for them.
Posts(c, s, what) == \E k \in 0 .. Tries(s) : stored' = stored \cup Inserted(c, s, what, k)

----------------------------------------------------------------------------
(* The user.                                                               *)

Moves == moves < MaxMoves /\ moves' = moves + 1

OpenGroup(g) ==
  /\ Moves
  /\ g # group /\ group' = g
  /\ Showing(convOf[g])
  /\ UNCHANGED <<loaded, convOf, exists, stored, due>>

\* handleSelectConversation, and handleNewChat with None.
SelectConversation(c) ==
  /\ Moves
  /\ c \in exists \cup {None}
  /\ convOf' = [convOf EXCEPT ![group] = c]
  /\ Showing(c)
  /\ UNCHANGED <<loaded, group, exists, stored, due>>

\* The page starts over: what every group was on is read back, all else is lost
\* but the prompts already on their way.
Reload ==
  /\ Moves
  /\ version' = version + 1
  /\ idRef' = Active /\ skipRef' = None /\ abortRef' = 0
  /\ isStreaming' = FALSE /\ bubble' = NoBubbles /\ extra' = {} /\ due' = {}
  /\ loaded' = None
  /\ send' = [s \in Sends |-> IF send[s].phase \in Working
                              THEN [Noted(send)[s] EXCEPT !.phase = "over"]
                              ELSE send[s]]
  /\ IF Active = None THEN view' = "empty" /\ loads' = {}
     ELSE view' = "loading" /\ loads' = {[conv |-> Active, version |-> version']}
  /\ \E sent \in [{s \in Sends : send[s].phase = "adding"} -> 0 .. MaxTries] :
       /\ \A s \in DOMAIN sent : sent[s] <= Tries(s)
       /\ stored' = stored \cup
            UNION {Inserted(send[s].conv, s, "prompt", sent[s]) : s \in DOMAIN sent}
  /\ UNCHANGED <<group, convOf, exists>>

\* sendMessage up to its first await.
SendMessage(s) ==
  /\ ~isStreaming
  /\ send[s].phase = "unsent" /\ \A t \in Sends : t < s => send[t].phase # "unsent"
  /\ isStreaming' = TRUE
  /\ bubble' = [bubble EXCEPT ![s] = "streaming"]
  /\ send' = [send EXCEPT ![s] =
       [@ EXCEPT !.phase = IF idRef = None THEN "creating" ELSE "adding",
                 !.conv = idRef, !.version = version, !.group = group,
                 !.home = Active]]
  /\ UNCHANGED <<loaded, group, convOf, exists, stored, due, moves, idRef,
                 skipRef, version, abortRef, view, extra, loads>>

\* stopStreaming, which looks for the first bubble still streaming.
StopStreaming(s) ==
  /\ isStreaming
  /\ bubble[s] = "streaming" /\ \A t \in Sends : t < s => bubble[t] # "streaming"
  /\ abortRef' = 0
  /\ version' = version + 1
  /\ isStreaming' = FALSE
  /\ bubble' = [bubble EXCEPT ![s] = "done"]
  /\ send' = Aborted(Noted(send))
  /\ IF idRef = None THEN UNCHANGED stored ELSE Posts(idRef, s, "stopped")
  /\ UNCHANGED <<loaded, group, convOf, exists, due, moves, idRef, skipRef,
                 view, extra, loads>>

----------------------------------------------------------------------------
(* getConversation answers.  An answer to an older version is dropped.     *)

KeepsAnyLoad(l) == FALSE   \* mutant: the version is not looked at
Outdated(l) == l.version # version

LoadAnswered(l) ==
  /\ l \in loads
  /\ loads' = loads \ {l}
  /\ \/ /\ Outdated(l)
        /\ UNCHANGED <<view, loaded, bubble, extra>>
     \/ /\ ~Outdated(l)
        /\ view' \in {"loaded", "failed"}
        /\ l.conv \notin exists => view' = "failed"
        /\ loaded' = IF view' = "loaded" THEN l.conv ELSE loaded
        /\ bubble' = NoBubbles /\ extra' = {}
  /\ UNCHANGED <<group, convOf, exists, stored, due, moves, idRef, skipRef,
                 version, abortRef, isStreaming, send>>

\* 404: the shell puts the group back on a new chat.
LoadNotFound(l) ==
  /\ l \in loads /\ ~Outdated(l) /\ l.conv \notin exists
  /\ convOf' = [convOf EXCEPT ![group] = None]
  /\ idRef' = None
  /\ version' = version + 1 /\ abortRef' = 0 /\ isStreaming' = FALSE
  /\ view' = "empty" /\ bubble' = NoBubbles /\ extra' = {}
  /\ send' = Aborted(Noted(send))
  /\ loads' = loads \ {l}
  /\ UNCHANGED <<loaded, group, exists, stored, due, moves, skipRef>>

\* Another tab deletes a conversation with its messages.
Deleted(c) ==
  /\ c \in exists \cap Existing
  /\ exists' = exists \ {c}
  /\ stored' = {m \in stored : m.conv # c}
  /\ UNCHANGED <<group, convOf, due, moves, screen>>

----------------------------------------------------------------------------
(* The continuation of a send.                                             *)

\* The new ids are interchangeable, so they are taken in order.
Fresh(c) == /\ c \notin exists \cup Existing
            /\ \A d \in Convs : d < c => d \in exists \cup Existing

\* The server creates the conversation and its answer is lost: fetchWithRetry
\* asks for another, and the tab never learns of this one.
CreationLost(s, c) ==
  /\ send[s].phase = "creating" /\ send[s].orphans < Tries(s)
  /\ Fresh(c)
  /\ exists' = exists \cup {c}
  /\ send' = [send EXCEPT ![s].orphans = @ + 1]
  /\ UNCHANGED <<loaded, group, convOf, stored, due, moves, idRef, skipRef,
                 version, abortRef, view, bubble, extra, isStreaming, loads>>

\* createConversation answered.  The refs are set whatever is on screen now;
\* the group is the one the prompt was typed in.
ConversationCreated(s, c) ==
  /\ send[s].phase = "creating" /\ send[s].orphans < Tries(s)
  /\ Fresh(c)
  /\ exists' = exists \cup {c}
  /\ convOf' = [convOf EXCEPT ![send[s].group] = c]
  /\ idRef' = c
  /\ skipRef' = IF group = send[s].group THEN None ELSE c
  /\ send' = [t \in Sends |->
       IF t = s THEN [send[s] EXCEPT !.phase = "adding", !.conv = c]
       ELSE [send[t] EXCEPT !.crossed = @ \/ send[t].phase = "creating"]]
  /\ UNCHANGED <<loaded, group, stored, due, moves, version, abortRef, view,
                 bubble, extra, isStreaming, loads>>

\* The prompt is stored, once or, after lost answers, several times; the stream
\* starts unless the version has moved.
PromptAdded(s) ==
  /\ send[s].phase = "adding" /\ send[s].conv \in exists
  /\ \E k \in 1 .. Tries(s) :
       stored' = stored \cup Inserted(send[s].conv, s, "prompt", k)
  /\ IF version # send[s].version
     THEN /\ send' = [send EXCEPT ![s].phase = "over"]
          /\ UNCHANGED abortRef
     ELSE /\ send' = [send EXCEPT ![s].phase = "streaming", ![s].posts = 1]
          /\ abortRef' = s
  /\ UNCHANGED <<loaded, group, convOf, exists, due, moves, idRef, skipRef,
                 version, view, bubble, extra, isStreaming, loads>>

StaysLocked == isStreaming   \* mutant: the catch block forgets the composer
LockAfterFailure == FALSE

\* The catch block: either request was refused, or the answers to all its
\* attempts were lost.  It does not look at the version.
SendFailed(s) ==
  /\ send[s].phase \in {"creating", "adding"}
  /\ bubble' = Shown(s)
  /\ isStreaming' = LockAfterFailure
  /\ send' = [send EXCEPT ![s].phase = "over", ![s].finalized = send[s].conv # None]
  /\ IF send[s].conv = None THEN UNCHANGED stored
     ELSE \E j, k \in 0 .. Tries(s) :
            stored' = stored \cup Inserted(send[s].conv, s, "prompt", j)
                             \cup Inserted(send[s].conv, s, "failed", k)
  /\ UNCHANGED <<loaded, group, convOf, exists, due, moves, idRef, skipRef,
                 version, abortRef, view, extra, loads>>

NeverStored(s) == FALSE   \* mutant: persistAssistant does not check finalized
AlreadyStored(s) == send[s].finalized

\* finalizeAssistant, with the send left in phase p: the answer is stored in
\* the conversation the closure holds, the first time only.
Finalize(s, p, ended) ==
  /\ bubble' = Shown(s)
  /\ isStreaming' = FALSE
  /\ send' = [send EXCEPT ![s].phase = p, ![s].finalized = TRUE, ![s].ended = ended]
  /\ IF AlreadyStored(s) THEN UNCHANGED stored
     ELSE Posts(send[s].conv, s, "answer")

\* A callback that returns early.
Ignored(s, p, ended) ==
  /\ send' = [send EXCEPT ![s].phase = p, ![s].ended = ended]
  /\ UNCHANGED <<bubble, isStreaming, stored>>

\* A completed or failed event; a completed one may hand off, which sets a timer.
TerminalEvent(s) ==
  /\ send[s].phase = "streaming" /\ ~send[s].ended
  /\ IF version # send[s].version
     THEN Ignored(s, "streaming", TRUE) /\ UNCHANGED due
     ELSE Finalize(s, "streaming", TRUE) /\ due' \in {due, due \cup ({s} \cap HandOffs)}
  /\ UNCHANGED <<loaded, group, convOf, exists, moves, idRef, skipRef, version,
                 abortRef, view, extra, loads>>

\* Mutant: a stream that closes without a terminal event is no end.
Silenced(s) ==
  version # send[s].version \/ send[s].finalized \/ ~send[s].ended
Silent(s) == version # send[s].version \/ send[s].finalized

\* onDone, and onError: both return early for an old version and after finalize.
StreamOver(s) ==
  /\ IF Silent(s)
     THEN Ignored(s, "over", send[s].ended)
     ELSE Finalize(s, "over", send[s].ended)
  /\ UNCHANGED <<loaded, group, convOf, exists, due, moves, idRef, skipRef,
                 version, abortRef, view, extra, loads>>

StreamDone(s) == send[s].phase = "streaming" /\ StreamOver(s)

OneMore(s) == s \in Retried /\ send[s].posts <= MaxPosts   \* mutant: one attempt too many
MayPost(s) == s \in Retried /\ send[s].posts < MaxPosts

\* A refused request, or the last of the attempts broken off.
StreamError(s) ==
  /\ send[s].phase = "streaming"
  /\ ~MayPost(s) \/ ~send[s].ended
  /\ StreamOver(s)

\* The connection breaks, before or after the terminal event: try again.
StreamBroken(s) ==
  /\ send[s].phase = "streaming" /\ MayPost(s)
  /\ send' = [send EXCEPT ![s].phase = "waiting"]
  /\ UNCHANGED <<loaded, group, convOf, exists, stored, due, moves, idRef,
                 skipRef, version, abortRef, view, bubble, extra, isStreaming,
                 loads>>

PostAgain(s) ==
  /\ send[s].phase = "waiting"
  /\ send' = [send EXCEPT ![s].phase = "streaming", ![s].posts = @ + 1,
                          ![s].ended = FALSE]
  /\ UNCHANGED <<loaded, group, convOf, exists, stored, due, moves, idRef,
                 skipRef, version, abortRef, view, bubble, extra, isStreaming,
                 loads>>

HandOffToShown(s) == idRef   \* mutant: the ref is read when the timer fires
HandOffTo(s) == send[s].conv

\* The one-second timer of a hand-off appends to whatever is on screen.
ImplementationMessage(s) ==
  /\ s \in due /\ due' = due \ {s}
  /\ extra' = extra \cup {s}
  /\ Posts(HandOffTo(s), s, "implementation")
  /\ UNCHANGED <<loaded, group, convOf, exists, moves, idRef, skipRef, version,
                 abortRef, view, bubble, isStreaming, loads, send>>

----------------------------------------------------------------------------
Init ==
  /\ group = Start
  /\ convOf \in [Groups -> Existing \cup {None}]
  /\ exists = Existing
  /\ stored = {} /\ due = {} /\ extra = {} /\ moves = 0
  /\ idRef = Active /\ skipRef = None /\ abortRef = 0 /\ version = 1
  /\ loaded = None
  /\ bubble = NoBubbles /\ isStreaming = FALSE
  /\ IF Active = None THEN view = "empty" /\ loads = {}
     ELSE view = "loading" /\ loads = {[conv |-> Active, version |-> 1]}
  /\ send = [s \in Sends |->
       [phase |-> "unsent", conv |-> None, version |-> 0, group |-> group,
        finalized |-> FALSE, orphans |-> 0, posts |-> 0, ended |-> FALSE, home |-> None,
        left |-> "no", crossed |-> FALSE]]

\* The answers of the network and of the server, which arrive sooner or later.
Answers(s) ==
  /\ send[s].phase \in Working
  /\ \/ \E c \in Convs : CreationLost(s, c) \/ ConversationCreated(s, c)
     \/ PromptAdded(s) \/ SendFailed(s)
     \/ TerminalEvent(s) \/ StreamDone(s) \/ StreamError(s)
     \/ StreamBroken(s) \/ PostAgain(s)

Next ==
  \/ \E g \in Groups : OpenGroup(g)
  \/ \E c \in Convs \cup {None} : SelectConversation(c)
  \/ Reload
  \/ \E s \in Sends : SendMessage(s) \/ StopStreaming(s) \/ ImplementationMessage(s)
  \/ \E l \in loads : LoadAnswered(l) \/ LoadNotFound(l)
  \/ \E c \in Convs : Deleted(c)
  \/ \E s \in Sends : Answers(s)

Spec == Init /\ [][Next]_vars

\* A request is answered or fails, which the continuation of its prompt always
\* shows; nothing is assumed of the user.
FairSpec == Spec /\ WF_send(\E s \in Sends : Answers(s))
----------------------------------------------------------------------------
(* A conversation was created for a send its user had already left or        *)
(* stopped, or for one of two prompts of a new chat (the failure of an older *)
(* prompt had unlocked the composer between them): the refs then name a      *)
(* conversation that is not the one on screen.                               *)
LateCreation ==
  \E s \in Sends : \/ send[s].left = "creating" /\ send[s].conv # None
                   \/ send[s].crossed

\* What is on screen belongs to the active conversation: an answer to a load
\* or to a prompt never lands in the conversation opened since.
ScreenIsActive ==
  \/ LateCreation
  \/ /\ view = "loaded" => loaded = Active
     /\ \A s \in Sends : bubble[s] # "none" /\ send[s].conv # None
                         => send[s].conv = Active

\* Whatever is stored for a prompt is stored in the conversation it was typed
\* in: the answer, the notice of a stop, the failure, the hand-off.
StoredWhereTyped ==
  \/ LateCreation
  \/ \A m \in stored : /\ m.conv = send[m.send].conv
                       /\ send[m.send].home \in {None, m.conv}

\* A prompt gets one ending: all that is stored of an answer, a stop or a failure
\* is copies of one message, written in one of its posts.  Streamed again after a
\* break, stopped while the answer was arriving, it never gets a second one.  The
\* one exception: stopped while it was still being stored, which then failed, it
\* gets both notices, and no answer.
OneEnding ==
  \A m, n \in stored :
    m.send = n.send /\ {m.what, n.what} \subseteq Ends =>
      /\ m.post = n.post
      /\ m.what = n.what \/ ({m.what, n.what} = {"stopped", "failed"} /\ m.post = 0)

\* The composer is locked only while a send of the current version is at work
\* that will unlock it.
LockedOnlyByWork ==
  isStreaming =>
    \E s \in Sends : /\ send[s].phase \in Working
                     /\ send[s].version = version /\ ~send[s].finalized

\* A prompt that reached its conversation and is over without an ending on screen
\* (whose storing may still fail) was interrupted by the user, never by the
\* network alone.
OnlyTheUserInterrupts ==
  \A s \in Sends :
    send[s].phase = "over" /\ send[s].conv # None /\ ~send[s].finalized
      => send[s].left # "no"

\* The composer never stays locked: again and again it is open.
ComposerReopens == []<>~isStreaming

=============================================================================
