------------------------- MODULE ChatSession_proofs -------------------------
(***************************************************************************)
(* Proofs about ChatSession, for any groups and conversations, any number  *)
(* of prompts, moves, posts and repeated requests.  TLC checks two prompts;*)
(* a conversation created twice for one new chat, the second case of       *)
(* LateCreation, takes three.                                              *)
(***************************************************************************)
EXTENDS ChatSession, TLAPS

----------------------------------------------------------------------------
(* What the user's moves do to the sends at work.                          *)

\* s remembers that it was left, and may be aborted if its phase is in P.
Marked(s, P) ==
  /\ send'[s] \in Send
  /\ send'[s].conv = send[s].conv /\ send'[s].home = send[s].home
  /\ send'[s].version = send[s].version /\ send'[s].group = send[s].group
  /\ send'[s].finalized = send[s].finalized /\ send'[s].posts = send[s].posts
  /\ send'[s].crossed = send[s].crossed
  /\ send'[s].phase = send[s].phase \/ (send[s].phase \in P /\ send'[s].phase = "over")
  /\ send[s].phase \in Working => send'[s].left # "no"
  /\ send[s].phase \notin Working \/ send[s].left # "no" => send'[s].left = send[s].left
  /\ send[s].phase = "creating" /\ send[s].left = "no" => send'[s].left = "creating"
  /\ send'[s].left = "creating" => send[s].left = "creating" \/ send[s].phase = "creating"

AllMarked(P) == /\ send' \in [Sends -> Send]
                /\ \A s \in Sends : Marked(s, P)

LEMMA NotedMarks ==
  ASSUME TypeOK
  PROVE  /\ Noted(send) \in [Sends -> Send]
         /\ send' = Noted(send) => AllMarked({})
<1>1. ASSUME NEW s \in Sends
      PROVE  /\ Noted(send)[s] \in Send
             /\ send' = Noted(send) => Marked(s, {})
  <2>1. send[s] \in Send BY DEF TypeOK
  <2>2. Noted(send)[s] = IF send[s].phase \in Working /\ send[s].left = "no"
          THEN [send[s] EXCEPT !.left = IF send[s].phase = "creating" THEN "creating" ELSE "later"]
          ELSE send[s]
    BY DEF Noted
  <2> QED BY <2>1, <2>2 DEF Marked, Send, Working
<1> QED BY <1>1 DEF AllMarked, Noted

LEMMA AbortedMarks ==
  ASSUME TypeOK, send' = Aborted(Noted(send))
  PROVE  AllMarked({"streaming", "waiting"})
<1> DEFINE N == Noted(send)
<1>1. N \in [Sends -> Send] /\ (send' = N => AllMarked({})) BY NotedMarks
<1>2. CASE ~(abortRef # 0 /\ N[abortRef].phase \in {"streaming", "waiting"})
  BY <1>1, <1>2 DEF Aborted, AllMarked, Marked
<1>3. CASE abortRef # 0 /\ N[abortRef].phase \in {"streaming", "waiting"}
  <2>1. abortRef \in Sends BY <1>3 DEF TypeOK
  <2>2. send' = [N EXCEPT ![abortRef].phase = "over"] BY <1>3 DEF Aborted
  <2>3. ASSUME NEW s \in Sends PROVE Marked(s, {"streaming", "waiting"})
    <3>1. send[s] \in Send BY DEF TypeOK
    <3>2. N[s] = IF send[s].phase \in Working /\ send[s].left = "no"
          THEN [send[s] EXCEPT !.left = IF send[s].phase = "creating" THEN "creating" ELSE "later"]
          ELSE send[s]
      BY DEF Noted
    <3>3. send'[s] = IF s = abortRef THEN [N[s] EXCEPT !.phase = "over"] ELSE N[s]
      BY <1>1, <2>1, <2>2
    <3> QED BY <1>3, <3>1, <3>2, <3>3 DEF Marked, Send, Working
  <2> QED BY <1>1, <2>1, <2>2, <2>3 DEF AllMarked, Send
<1> QED BY <1>2, <1>3

LEMMA ReloadMarks ==
  ASSUME TypeOK, Reload
  PROVE  AllMarked(Working) /\ \A s \in Sends : send'[s].phase \notin Working
<1>1. ASSUME NEW s \in Sends PROVE Marked(s, Working) /\ send'[s].phase \notin Working
  <2>1. send[s] \in Send BY DEF TypeOK
  <2>2. Noted(send)[s] = IF send[s].phase \in Working /\ send[s].left = "no"
          THEN [send[s] EXCEPT !.left = IF send[s].phase = "creating" THEN "creating" ELSE "later"]
          ELSE send[s]
    BY DEF Noted
  <2>3. send'[s] = IF send[s].phase \in Working THEN [Noted(send)[s] EXCEPT !.phase = "over"]
                   ELSE send[s]
    BY DEF Reload
  <2> QED BY <2>1, <2>2, <2>3 DEF Marked, Send, Working
<1> QED BY <1>1 DEF AllMarked, Reload, Marked

\* Showing another conversation: either nothing but marks, or the screen starts over.
LEMMA ShowingMarks ==
  ASSUME TypeOK, NEW c \in Convs \cup {None}, Showing(c)
  PROVE  /\ AllMarked({"streaming", "waiting"})
         /\ \/ /\ UNCHANGED <<version, view, bubble, extra, isStreaming, loads, abortRef>>
               /\ AllMarked({})
               /\ \/ c = Active /\ UNCHANGED <<idRef, skipRef>>
                  \/ skipRef = c /\ c # None /\ idRef' = c /\ skipRef' = None
            \/ /\ Opened(c) /\ idRef' = c /\ UNCHANGED skipRef
<1>1. ASSUME AllMarked({}) PROVE AllMarked({"streaming", "waiting"})
  BY <1>1 DEF AllMarked, Marked
<1>2. CASE send' = Noted(send) BY <1>1, <1>2, NotedMarks DEF Showing, Opened
<1>3. CASE Opened(c)
  <2>1. AllMarked({"streaming", "waiting"}) BY <1>3, AbortedMarks DEF Opened
  <2> QED BY <1>2, <1>3, <2>1 DEF Showing
<1> QED BY <1>2, <1>3 DEF Showing

----------------------------------------------------------------------------
(* Types.                                                                  *)

\* A prompt that waits to be posted again may be posted again.
PostsLeft == \A s \in Sends : send[s].phase = "waiting" => send[s].posts < MaxPosts

Typed == TypeOK /\ PostsLeft

LEMMA InitTyped == Init => Typed
<1> SUFFICES ASSUME Init PROVE Typed
  OBVIOUS
<1> DEFINE unsent == [phase |-> "unsent", conv |-> None, version |-> 0, group |-> group,
                      finalized |-> FALSE, orphans |-> 0, posts |-> 0, ended |-> FALSE,
                      home |-> None,
                      left |-> "no", crossed |-> FALSE]
<1>1. unsent \in Send BY ChatAssumption DEF Init, Send
<1>2. send \in [Sends -> Send] /\ \A s \in Sends : send[s] = unsent BY <1>1 DEF Init
<1>3. Active \in Convs \cup {None} BY ChatAssumption DEF Init, Active
<1>4. loads \subseteq [conv : Convs, version : Nat] BY <1>3 DEF Init
<1>5. bubble \in [Sends -> {"none", "streaming", "done"}] BY DEF Init, NoBubbles
<1>6. PostsLeft BY <1>2 DEF PostsLeft
<1>7. /\ view \in {"empty", "loading", "loaded", "failed"} /\ version \in Nat
      /\ moves \in 0 .. MaxMoves /\ abortRef \in Sends \cup {0}
      /\ {idRef, skipRef, loaded} \subseteq Convs \cup {None}
  BY <1>3, ChatAssumption DEF Init
<1>8. convOf \in [Groups -> Convs \cup {None}] BY ChatAssumption DEF Init
<1>9. /\ exists \subseteq Convs /\ stored = {} /\ extra = {} /\ due = {} /\ group \in Groups
      /\ isStreaming \in BOOLEAN
  BY ChatAssumption DEF Init
<1> HIDE DEF unsent
<1> QED BY <1>2, <1>4, <1>5, <1>6, <1>7, <1>8, <1>9 DEF Typed, TypeOK

\* A continuation changes its own send only.
OnlyChanged(s) == /\ send' \in [Sends -> Send]
                  /\ \A t \in Sends : t # s => send'[t] = send[t]

LEMMA Rewritten ==
  ASSUME TypeOK, NEW s \in Sends, NEW r \in Send, send' = [send EXCEPT ![s] = r]
  PROVE  OnlyChanged(s) /\ send'[s] = r
BY DEF TypeOK, OnlyChanged

LEMMA SendChanged ==
  ASSUME TypeOK, NEW s \in Sends, SendMessage(s)
  PROVE  /\ OnlyChanged(s)
         /\ send'[s] = [send[s] EXCEPT !.phase = IF idRef = None THEN "creating" ELSE "adding",
                          !.conv = idRef, !.version = version, !.group = group, !.home = Active]
<1> DEFINE r == [send[s] EXCEPT !.phase = IF idRef = None THEN "creating" ELSE "adding",
                          !.conv = idRef, !.version = version, !.group = group, !.home = Active]
<1>1. send' = [send EXCEPT ![s] = r] BY DEF SendMessage
<1>2. send[s] \in Send /\ Active \in Convs \cup {None} /\ group \in Groups /\ version \in Nat
      /\ idRef \in Convs \cup {None}
  BY DEF TypeOK, Active
<1>3. r \in Send BY <1>2 DEF Send, Working
<1> QED BY <1>1, <1>3, Rewritten

LEMMA CreationChanged ==
  ASSUME TypeOK, NEW s \in Sends, NEW c \in Convs, ConversationCreated(s, c)
  PROVE  /\ send' \in [Sends -> Send]
         /\ send'[s] = [send[s] EXCEPT !.phase = "adding", !.conv = c]
         /\ \A t \in Sends : t # s =>
              send'[t] = [send[t] EXCEPT !.crossed = @ \/ send[t].phase = "creating"]
<1>1. ASSUME NEW t \in Sends
      PROVE  /\ [send[t] EXCEPT !.phase = "adding", !.conv = c] \in Send
             /\ [send[t] EXCEPT !.crossed = @ \/ send[t].phase = "creating"] \in Send
  <2>1. send[t] \in Send BY DEF TypeOK
  <2>2. (send[t].crossed \/ send[t].phase = "creating") \in BOOLEAN OBVIOUS
  <2> QED BY <2>1, <2>2 DEF Send, Working
<1> QED BY <1>1 DEF ConversationCreated

LEMMA TriesBounded ==
  ASSUME NEW s \in Sends
  PROVE  Tries(s) \in 1 .. MaxTries /\ \A k \in 0 .. Tries(s) : k \in 0 .. MaxTries
BY ChatAssumption DEF Tries

LEMMA LossChanged ==
  ASSUME TypeOK, NEW s \in Sends, NEW c \in Convs, CreationLost(s, c)
  PROVE  /\ OnlyChanged(s)
         /\ send'[s] = [send[s] EXCEPT !.orphans = @ + 1]
<1>1. [send[s] EXCEPT !.orphans = @ + 1] \in Send
  <2>1. send[s] \in Send BY DEF TypeOK
  <2>2. send[s].orphans + 1 \in 0 .. MaxTries
    BY <2>1, TriesBounded, ChatAssumption DEF CreationLost, Send
  <2> QED BY <2>1, <2>2 DEF Send
<1>2. send' = [send EXCEPT ![s] = [send[s] EXCEPT !.orphans = @ + 1]]
  BY DEF CreationLost, TypeOK
<1> QED BY <1>1, <1>2, Rewritten

LEMMA AddedChanged ==
  ASSUME TypeOK, NEW s \in Sends, PromptAdded(s)
  PROVE  /\ OnlyChanged(s)
         /\ send'[s] = IF version # send[s].version THEN [send[s] EXCEPT !.phase = "over"]
                       ELSE [send[s] EXCEPT !.phase = "streaming", !.posts = 1]
<1>1. /\ [send[s] EXCEPT !.phase = "over"] \in Send
      /\ [send[s] EXCEPT !.phase = "streaming", !.posts = 1] \in Send
  <2>1. send[s] \in Send /\ 1 \in 0 .. MaxPosts BY ChatAssumption DEF TypeOK
  <2> QED BY <2>1 DEF Send, Working
<1>2. send' = [send EXCEPT ![s] = IF version # send[s].version THEN [send[s] EXCEPT !.phase = "over"]
                       ELSE [send[s] EXCEPT !.phase = "streaming", !.posts = 1]]
  BY DEF PromptAdded, TypeOK
<1> QED BY <1>1, <1>2, Rewritten

LEMMA FailureChanged ==
  ASSUME TypeOK, NEW s \in Sends, SendFailed(s)
  PROVE  /\ OnlyChanged(s)
         /\ send'[s] = [send[s] EXCEPT !.phase = "over", !.finalized = send[s].conv # None]
<1>1. [send[s] EXCEPT !.phase = "over", !.finalized = send[s].conv # None] \in Send
  <2>1. send[s] \in Send /\ (send[s].conv # None) \in BOOLEAN BY DEF TypeOK
  <2> QED BY <2>1 DEF Send, Working
<1>2. send' = [send EXCEPT ![s] = [send[s] EXCEPT !.phase = "over", !.finalized = send[s].conv # None]]
  BY DEF SendFailed, TypeOK
<1> QED BY <1>1, <1>2, Rewritten

\* TerminalEvent, StreamDone and StreamError finalize the answer or ignore the call.
Concludes(s) ==
  \/ /\ version = send[s].version
     /\ \E p \in {"streaming", "over"}, e \in BOOLEAN : Finalize(s, p, e)
  \/ /\ version # send[s].version \/ send[s].finalized
     /\ \E p \in {"streaming", "over"}, e \in BOOLEAN : Ignored(s, p, e)

LEMMA Concluding ==
  ASSUME TypeOK, NEW s \in Sends, TerminalEvent(s) \/ StreamDone(s) \/ StreamError(s)
  PROVE  /\ Concludes(s) /\ send[s].phase = "streaming"
         /\ due' \in {due, due \cup {s}}
         /\ UNCHANGED <<loaded, group, convOf, exists, moves, idRef, skipRef, version,
                        abortRef, view, extra, loads>>
<1>1. send[s].ended \in BOOLEAN BY DEF TypeOK, Send
<1>2. CASE TerminalEvent(s) BY <1>2 DEF TerminalEvent, Concludes
<1>3. CASE StreamOver(s) /\ send[s].phase = "streaming"
  BY <1>1, <1>3 DEF StreamOver, Silent, Concludes
<1> QED BY <1>2, <1>3 DEF StreamDone, StreamError

LEMMA ConclusionChanged ==
  ASSUME TypeOK, NEW s \in Sends, Concludes(s)
  PROVE  /\ OnlyChanged(s)
         /\ \E p \in {"streaming", "over"}, e, f \in BOOLEAN :
              /\ f = (send[s].finalized \/ version = send[s].version)
              /\ send'[s] = [send[s] EXCEPT !.phase = p, !.finalized = f, !.ended = e]
<1>1. ASSUME NEW p \in {"streaming", "over"}, NEW e \in BOOLEAN, NEW f \in BOOLEAN
      PROVE  [send[s] EXCEPT !.phase = p, !.finalized = f, !.ended = e] \in Send
  <2>1. send[s] \in Send BY DEF TypeOK
  <2> QED BY <2>1 DEF Send, Working
<1>2. CASE /\ version = send[s].version
           /\ \E p \in {"streaming", "over"}, e \in BOOLEAN : Finalize(s, p, e)
  <2>1. PICK p \in {"streaming", "over"}, e \in BOOLEAN : Finalize(s, p, e) BY <1>2
  <2>2. send' = [send EXCEPT ![s] = [send[s] EXCEPT !.phase = p, !.finalized = TRUE, !.ended = e]]
    BY <2>1 DEF Finalize, TypeOK
  <2> QED BY <1>1, <1>2, <2>2, Rewritten
<1>3. CASE /\ version # send[s].version \/ send[s].finalized
           /\ \E p \in {"streaming", "over"}, e \in BOOLEAN : Ignored(s, p, e)
  <2>1. PICK p \in {"streaming", "over"}, e \in BOOLEAN : Ignored(s, p, e) BY <1>3
  <2>2. send[s].finalized \in BOOLEAN /\ send[s] \in Send BY DEF TypeOK, Send
  <2> DEFINE f == send[s].finalized \/ version = send[s].version
  <2>3. f \in BOOLEAN /\ f = send[s].finalized BY <1>3, <2>2
  <2>4. send' = [send EXCEPT ![s] = [send[s] EXCEPT !.phase = p, !.ended = e]]
    BY <2>1 DEF Ignored, TypeOK
  <2>5. [send[s] EXCEPT !.phase = p, !.finalized = f, !.ended = e] =
        [send[s] EXCEPT !.phase = p, !.ended = e]
    BY <2>2, <2>3 DEF Send
  <2> QED BY <1>1, <2>3, <2>4, <2>5, Rewritten
<1> QED BY <1>2, <1>3 DEF Concludes

LEMMA BreakChanged ==
  ASSUME TypeOK, NEW s \in Sends, StreamBroken(s)
  PROVE  OnlyChanged(s) /\ send'[s] = [send[s] EXCEPT !.phase = "waiting"]
<1>1. [send[s] EXCEPT !.phase = "waiting"] \in Send BY DEF TypeOK, Send, Working
<1>2. send' = [send EXCEPT ![s] = [send[s] EXCEPT !.phase = "waiting"]]
  BY DEF StreamBroken, TypeOK
<1> QED BY <1>1, <1>2, Rewritten

LEMMA PostChanged ==
  ASSUME Typed, NEW s \in Sends, PostAgain(s)
  PROVE  /\ OnlyChanged(s)
         /\ send'[s] = [send[s] EXCEPT !.phase = "streaming", !.posts = @ + 1, !.ended = FALSE]
<1>1. [send[s] EXCEPT !.phase = "streaming", !.posts = @ + 1, !.ended = FALSE] \in Send
  BY ChatAssumption DEF Typed, TypeOK, PostsLeft, PostAgain, Send, Working
<1>2. send' = [send EXCEPT ![s] =
        [send[s] EXCEPT !.phase = "streaming", !.posts = @ + 1, !.ended = FALSE]]
  BY DEF PostAgain, Typed, TypeOK
<1> QED BY <1>1, <1>2, Rewritten DEF Typed

Kinds == Ends \cup {"prompt", "implementation"}

Messages == [conv : Convs, send : Sends, post : Nat, copy : 1 .. MaxTries, what : Kinds]

\* What the server inserts of a message.
LEMMA InsertedAre ==
  ASSUME TypeOK, NEW c, NEW s \in Sends, NEW w \in Kinds, NEW k \in 0 .. MaxTries
  PROVE  /\ Inserted(c, s, w, k) \subseteq Messages
         /\ \A m \in Inserted(c, s, w, k) :
              /\ m.conv = c /\ m.send = s /\ m.what = w
              /\ w # "prompt" => m.post = send[s].posts
<1> SUFFICES ASSUME NEW n \in 1 .. k, c \in exists
             PROVE  LET m == Message(c, s, w, n)
                    IN  /\ m \in Messages
                        /\ m.conv = c /\ m.send = s /\ m.what = w
                        /\ w # "prompt" => m.post = send[s].posts
  BY DEF Inserted
<1>1. send[s].posts \in Nat BY ChatAssumption DEF TypeOK, Send
<1>2. n \in 1 .. MaxTries /\ c \in Convs BY ChatAssumption DEF TypeOK
<1> QED BY <1>1, <1>2 DEF Message, Messages

\* What is stored after a message was posted.
LEMMA PostedAre ==
  ASSUME TypeOK, NEW c, NEW s \in Sends, NEW w \in Kinds, Posts(c, s, w)
  PROVE  /\ stored' \subseteq Messages
         /\ \A m \in stored' :
              \/ m \in stored
              \/ /\ m.conv = c /\ m.send = s /\ m.what = w
                 /\ w # "prompt" => m.post = send[s].posts
<1>1. PICK k \in 0 .. MaxTries : stored' = stored \cup Inserted(c, s, w, k)
  BY TriesBounded DEF Posts
<1>2. stored \subseteq Messages BY DEF TypeOK, Messages, Kinds
<1>3. /\ Inserted(c, s, w, k) \subseteq Messages
      /\ \A m \in Inserted(c, s, w, k) :
           /\ m.conv = c /\ m.send = s /\ m.what = w
           /\ w # "prompt" => m.post = send[s].posts
  BY InsertedAre
<1> QED BY <1>1, <1>2, <1>3

\* The prompts on their way when the page was reloaded.
LEMMA ReloadStores ==
  ASSUME TypeOK, Reload
  PROVE  /\ stored' \subseteq Messages
         /\ \A m \in stored' : \/ m \in stored
                               \/ /\ m.what = "prompt" /\ m.send \in Sends
                                  /\ m.conv = send[m.send].conv
<1> DEFINE A == {s \in Sends : send[s].phase = "adding"}
<1>1. PICK sent \in [A -> 0 .. MaxTries] :
        stored' = stored \cup UNION {Inserted(send[s].conv, s, "prompt", sent[s]) : s \in DOMAIN sent}
  BY DEF Reload
<1>2. stored \subseteq Messages BY DEF TypeOK, Messages, Kinds
<1>3. \A m \in stored' : m \in stored \/ \E s \in A : m \in Inserted(send[s].conv, s, "prompt", sent[s])
  BY <1>1
<1>4. ASSUME NEW s \in A, NEW m \in Inserted(send[s].conv, s, "prompt", sent[s])
      PROVE  m \in Messages /\ m.what = "prompt" /\ m.send \in Sends /\ m.conv = send[m.send].conv
  <2>1. s \in Sends /\ sent[s] \in 0 .. MaxTries /\ "prompt" \in Kinds BY DEF Kinds
  <2>2. /\ Inserted(send[s].conv, s, "prompt", sent[s]) \subseteq Messages
        /\ m.conv = send[s].conv /\ m.send = s /\ m.what = "prompt"
    BY <2>1, InsertedAre
  <2> QED BY <2>1, <2>2
<1> QED BY <1>2, <1>3, <1>4

\* A prompt that was stored.
LEMMA PromptStores ==
  ASSUME TypeOK, NEW s \in Sends, PromptAdded(s)
  PROVE  /\ stored' \subseteq Messages
         /\ \A m \in stored' : \/ m \in stored
                               \/ /\ m.what = "prompt" /\ m.send \in Sends
                                  /\ m.conv = send[m.send].conv
<1>1. PICK k \in 0 .. MaxTries : stored' = stored \cup Inserted(send[s].conv, s, "prompt", k)
  BY TriesBounded DEF PromptAdded
<1>2. stored \subseteq Messages BY DEF TypeOK, Messages, Kinds
<1>3. "prompt" \in Kinds BY DEF Kinds
<1> QED BY <1>1, <1>2, <1>3, InsertedAre

\* A prompt that failed, perhaps stored all the same, and the notice of it.
LEMMA FailureStores ==
  ASSUME TypeOK, NEW s \in Sends, SendFailed(s)
  PROVE  /\ stored' \subseteq Messages
         /\ \A m \in stored' :
              \/ m \in stored
              \/ /\ m.what \in {"prompt", "failed"} /\ m.send = s
                 /\ m.conv = send[s].conv /\ send[s].conv # None
                 /\ m.what = "failed" => m.post = send[s].posts
<1>1. stored \subseteq Messages BY DEF TypeOK, Messages, Kinds
<1>2. CASE send[s].conv = None BY <1>1, <1>2 DEF SendFailed
<1>3. CASE send[s].conv # None
  <2>1. PICK j \in 0 .. MaxTries, k \in 0 .. MaxTries :
          stored' = stored \cup Inserted(send[s].conv, s, "prompt", j)
                           \cup Inserted(send[s].conv, s, "failed", k)
    BY <1>3, TriesBounded DEF SendFailed
  <2>2. "prompt" \in Kinds /\ "failed" \in Kinds BY DEF Kinds, Ends
  <2> QED BY <1>1, <1>3, <2>1, <2>2, InsertedAre
<1> QED BY <1>2, <1>3

LEMMA OpenedType ==
  ASSUME TypeOK, NEW c \in Convs \cup {None}, Opened(c)
  PROVE  /\ version' = version + 1 /\ version' \in Nat /\ abortRef' = 0 /\ isStreaming' = FALSE
         /\ bubble' = NoBubbles /\ extra' = {}
         /\ view' \in {"empty", "loading"}
         /\ loads' \subseteq loads \cup {[conv |-> c, version |-> version']}
         /\ loads' \subseteq [conv : Convs, version : Nat]
<1>1. version' \in Nat BY DEF Opened, TypeOK
<1> QED BY <1>1 DEF Opened, TypeOK

LEMMA ShowingType ==
  ASSUME TypeOK, NEW c \in Convs \cup {None}, Showing(c)
  PROVE  /\ version' \in Nat /\ abortRef' \in Sends \cup {0} /\ isStreaming' \in BOOLEAN
         /\ bubble' \in [Sends -> {"none", "streaming", "done"}]
         /\ extra' \subseteq Sends
         /\ view' \in {"empty", "loading", "loaded", "failed"}
         /\ loads' \subseteq [conv : Convs, version : Nat]
         /\ {idRef', skipRef'} \subseteq Convs \cup {None}
         /\ send' \in [Sends -> Send]
<1>1. send' \in [Sends -> Send] BY ShowingMarks DEF AllMarked
<1>2. CASE /\ UNCHANGED <<version, view, bubble, extra, isStreaming, loads, abortRef>>
           /\ \/ c = Active /\ UNCHANGED <<idRef, skipRef>>
              \/ skipRef = c /\ c # None /\ idRef' = c /\ skipRef' = None
  BY <1>1, <1>2 DEF TypeOK
<1>3. CASE Opened(c) /\ idRef' = c /\ UNCHANGED skipRef
  <2>1. NoBubbles \in [Sends -> {"none", "streaming", "done"}] BY DEF NoBubbles
  <2> QED BY <1>1, <1>3, <2>1, OpenedType DEF TypeOK
<1> QED BY <1>2, <1>3, ShowingMarks

LEMMA NextTyped ==
  ASSUME Typed, [Next]_vars
  PROVE  Typed'
<1> USE DEF Messages, Kinds
<1>a. TypeOK /\ PostsLeft BY DEF Typed
<1>d. \A s \in Sends : send[s] \in Send BY <1>a DEF TypeOK
<1>e. Moves => moves' \in 0 .. MaxMoves BY <1>a, ChatAssumption DEF Moves, TypeOK
<1>1. ASSUME NEW g \in Groups, OpenGroup(g) PROVE Typed'
  <2>1. convOf[g] \in Convs \cup {None} /\ Showing(convOf[g]) BY <1>a, <1>1 DEF OpenGroup, TypeOK
  <2>2. PostsLeft' BY <1>a, <2>1, ShowingMarks DEF PostsLeft, AllMarked, Marked
  <2>3. TypeOK' BY <1>a, <1>e, <1>1, <2>1, ShowingType DEF TypeOK, OpenGroup
  <2> QED BY <2>2, <2>3 DEF Typed
<1>2. ASSUME NEW c \in Convs \cup {None}, SelectConversation(c) PROVE Typed'
  <2>1. Showing(c) BY <1>2 DEF SelectConversation
  <2>2. PostsLeft' BY <1>a, <2>1, ShowingMarks DEF PostsLeft, AllMarked, Marked
  <2>3. TypeOK' BY <1>a, <1>e, <1>2, <2>1, ShowingType DEF TypeOK, SelectConversation
  <2> QED BY <2>2, <2>3 DEF Typed
<1>3. ASSUME Reload PROVE Typed'
  <2>1. AllMarked(Working) BY <1>a, <1>3, ReloadMarks
  <2>2. PostsLeft' BY <1>a, <2>1 DEF PostsLeft, AllMarked, Marked
  <2>3. stored' \subseteq Messages BY <1>a, <1>3, ReloadStores
  <2>4. Active \in Convs \cup {None} BY <1>a DEF TypeOK, Active
  <2>5. bubble' \in [Sends -> {"none", "streaming", "done"}] BY <1>3 DEF Reload, NoBubbles
  <2>6. version' \in Nat /\ loads' \subseteq [conv : Convs, version : Nat]
    BY <1>a, <1>3, <2>4 DEF Reload, TypeOK
  <2>7. /\ view' \in {"empty", "loading", "loaded", "failed"}
        /\ {idRef', skipRef', loaded'} \subseteq Convs \cup {None}
        /\ moves' \in 0 .. MaxMoves /\ abortRef' \in Sends \cup {0} /\ isStreaming' \in BOOLEAN
        /\ extra' = {} /\ due' = {} /\ UNCHANGED <<group, convOf, exists>>
    BY <1>e, <1>3, <2>4 DEF Reload
  <2>8. TypeOK' BY <1>a, <2>1, <2>3, <2>5, <2>6, <2>7 DEF TypeOK, AllMarked
  <2> QED BY <2>2, <2>8 DEF Typed
<1>4. ASSUME NEW s \in Sends, SendMessage(s) PROVE Typed'
  <2>1. /\ OnlyChanged(s)
        /\ send'[s].phase \in {"creating", "adding"} /\ send'[s].posts = send[s].posts
    <3>1. /\ send[s] \in Send /\ OnlyChanged(s)
          /\ send'[s] = [send[s] EXCEPT !.phase = IF idRef = None THEN "creating" ELSE "adding",
                           !.conv = idRef, !.version = version, !.group = group, !.home = Active]
      BY <1>a, <1>d, <1>4, SendChanged
    <3> QED BY <3>1 DEF Send
  <2>2. PostsLeft' BY <1>a, <2>1 DEF PostsLeft, OnlyChanged
  <2>3. bubble' \in [Sends -> {"none", "streaming", "done"}]
    BY <1>a, <1>4 DEF TypeOK, SendMessage
  <2>4. TypeOK' BY <1>a, <1>4, <2>1, <2>3 DEF TypeOK, SendMessage, OnlyChanged
  <2> QED BY <2>2, <2>4 DEF Typed
<1>5. ASSUME NEW s \in Sends, StopStreaming(s) PROVE Typed'
  <2>1. AllMarked({"streaming", "waiting"}) BY <1>a, <1>5, AbortedMarks DEF StopStreaming
  <2>2. PostsLeft' BY <1>a, <2>1 DEF PostsLeft, AllMarked, Marked
  <2>3. stored' \subseteq Messages
    BY <1>a, <1>5, PostedAre DEF StopStreaming, TypeOK, Ends
  <2>4. bubble' \in [Sends -> {"none", "streaming", "done"}] /\ version' \in Nat
    BY <1>a, <1>5 DEF TypeOK, StopStreaming
  <2>5. TypeOK' BY <1>a, <1>5, <2>1, <2>3, <2>4 DEF TypeOK, StopStreaming, AllMarked
  <2> QED BY <2>2, <2>5 DEF Typed
<1>6. ASSUME NEW s \in Sends, ImplementationMessage(s) PROVE Typed'
  <2>1. stored' \subseteq Messages
    BY <1>a, <1>6, PostedAre DEF ImplementationMessage, HandOffTo
  <2> QED BY <1>a, <1>6, <2>1 DEF Typed, TypeOK, PostsLeft, ImplementationMessage
<1>7. ASSUME NEW l \in loads, LoadAnswered(l) PROVE Typed'
  <2>1. l.conv \in Convs BY <1>a DEF TypeOK
  <2>2. bubble' \in [Sends -> {"none", "streaming", "done"}]
    BY <1>a, <1>7 DEF TypeOK, LoadAnswered, NoBubbles
  <2> QED BY <1>a, <1>7, <2>1, <2>2 DEF Typed, TypeOK, PostsLeft, LoadAnswered
<1>8. ASSUME NEW l \in loads, LoadNotFound(l) PROVE Typed'
  <2>1. AllMarked({"streaming", "waiting"}) BY <1>a, <1>8, AbortedMarks DEF LoadNotFound
  <2>2. PostsLeft' BY <1>a, <2>1 DEF PostsLeft, AllMarked, Marked
  <2>3. bubble' \in [Sends -> {"none", "streaming", "done"}] /\ version' \in Nat
    BY <1>a, <1>8 DEF TypeOK, LoadNotFound, NoBubbles
  <2>4. TypeOK' BY <1>a, <1>8, <2>1, <2>3 DEF TypeOK, LoadNotFound, AllMarked
  <2> QED BY <2>2, <2>4 DEF Typed
<1>9. ASSUME NEW c \in Convs, Deleted(c) PROVE Typed'
  BY <1>a, <1>9 DEF Typed, TypeOK, PostsLeft, Deleted, screen
<1>10. ASSUME NEW s \in Sends, NEW c \in Convs, ConversationCreated(s, c) PROVE Typed'
  <2>1. /\ send' \in [Sends -> Send]
        /\ \A t \in Sends : /\ send'[t].phase = "waiting" => send[t].phase = "waiting"
                            /\ send'[t].posts = send[t].posts
    <3>1. send' \in [Sends -> Send] BY <1>a, <1>10, CreationChanged
    <3>2. ASSUME NEW t \in Sends
          PROVE  (send'[t].phase = "waiting" => send[t].phase = "waiting") /\ send'[t].posts = send[t].posts
      <4>1. /\ send[t] \in Send
            /\ \/ send'[t] = [send[t] EXCEPT !.phase = "adding", !.conv = c]
               \/ send'[t] = [send[t] EXCEPT !.crossed = @ \/ send[t].phase = "creating"]
        BY <1>a, <1>d, <1>10, CreationChanged
      <4> QED BY <4>1 DEF Send
    <3> QED BY <3>1, <3>2
  <2>2. PostsLeft' BY <1>a, <2>1 DEF PostsLeft
  <2>3. TypeOK' BY <1>a, <1>10, <2>1 DEF TypeOK, ConversationCreated, Send
  <2> QED BY <2>2, <2>3 DEF Typed
<1>11. ASSUME NEW s \in Sends, PromptAdded(s) PROVE Typed'
  <2>1. /\ OnlyChanged(s)
        /\ send'[s].phase # "waiting"
    BY <1>a, <1>11, AddedChanged DEF TypeOK, Send
  <2>2. PostsLeft' BY <1>a, <2>1 DEF PostsLeft, OnlyChanged
  <2>3. stored' \subseteq Messages
    BY <1>a, <1>11, PromptStores
  <2>4. TypeOK' BY <1>a, <1>11, <2>1, <2>3 DEF TypeOK, PromptAdded, OnlyChanged
  <2> QED BY <2>2, <2>4 DEF Typed
<1>12. ASSUME NEW s \in Sends, SendFailed(s) PROVE Typed'
  <2>1. /\ OnlyChanged(s)
        /\ send'[s].phase # "waiting"
    BY <1>a, <1>12, FailureChanged DEF TypeOK, Send
  <2>2. PostsLeft' BY <1>a, <2>1 DEF PostsLeft, OnlyChanged
  <2>3. stored' \subseteq Messages
    BY <1>a, <1>12, FailureStores
  <2>4. bubble' \in [Sends -> {"none", "streaming", "done"}]
    BY <1>a, <1>12 DEF TypeOK, SendFailed, Shown
  <2>5. TypeOK' BY <1>a, <1>12, <2>1, <2>3, <2>4 DEF TypeOK, SendFailed, OnlyChanged, LockAfterFailure
  <2> QED BY <2>2, <2>5 DEF Typed
<1>13. ASSUME NEW s \in Sends, TerminalEvent(s) \/ StreamDone(s) \/ StreamError(s) PROVE Typed'
  <2>1. /\ Concludes(s)
        /\ due' \in {due, due \cup {s}}
        /\ UNCHANGED <<loaded, group, convOf, exists, moves, idRef, skipRef, version,
                       abortRef, view, extra, loads>>
    BY <1>a, <1>13, Concluding
  <2>2. OnlyChanged(s) /\ send'[s].phase # "waiting"
    BY <1>a, <2>1, ConclusionChanged DEF TypeOK, Send
  <2>3. PostsLeft' BY <1>a, <2>2 DEF PostsLeft, OnlyChanged
  <2>4. /\ stored' \subseteq Messages
        /\ bubble' \in [Sends -> {"none", "streaming", "done"}]
        /\ isStreaming' \in BOOLEAN
    <3>1. CASE \E p \in {"streaming", "over"}, e \in BOOLEAN : Finalize(s, p, e)
      <4>1. bubble' \in [Sends -> {"none", "streaming", "done"}] /\ isStreaming' \in BOOLEAN
        BY <1>a, <3>1 DEF Finalize, Shown, TypeOK
      <4>2. stored' \subseteq Messages
        <5>1. PICK p \in {"streaming", "over"}, e \in BOOLEAN : Finalize(s, p, e) BY <3>1
        <5>2. CASE AlreadyStored(s) BY <1>a, <5>1, <5>2 DEF Finalize, TypeOK
        <5>3. CASE ~AlreadyStored(s)
          <6>1. Posts(send[s].conv, s, "answer") BY <5>1, <5>3 DEF Finalize
          <6> QED BY <1>a, <6>1, PostedAre DEF Ends
        <5> QED BY <5>2, <5>3
      <4> QED BY <4>1, <4>2
    <3>2. CASE \E p \in {"streaming", "over"}, e \in BOOLEAN : Ignored(s, p, e)
      BY <1>a, <3>2 DEF Ignored, TypeOK
    <3> QED BY <2>1, <3>1, <3>2 DEF Concludes
  <2>5. TypeOK' BY <1>a, <2>1, <2>2, <2>4 DEF TypeOK, OnlyChanged
  <2> QED BY <2>3, <2>5 DEF Typed
<1>14. ASSUME NEW s \in Sends, StreamBroken(s) PROVE Typed'
  <2>1. OnlyChanged(s) /\ send'[s].posts = send[s].posts
    BY <1>a, <1>d, <1>14, BreakChanged DEF Send
  <2>2. PostsLeft' BY <1>a, <1>14, <2>1 DEF PostsLeft, OnlyChanged, StreamBroken, MayPost
  <2>3. TypeOK' BY <1>a, <1>14, <2>1 DEF TypeOK, StreamBroken, OnlyChanged
  <2> QED BY <2>2, <2>3 DEF Typed
<1>15. ASSUME NEW s \in Sends, PostAgain(s) PROVE Typed'
  <2>1. OnlyChanged(s) /\ send'[s].phase # "waiting"
    BY <1>a, <1>15, PostChanged DEF TypeOK, Send
  <2>2. PostsLeft' BY <1>a, <2>1 DEF PostsLeft, OnlyChanged
  <2>3. TypeOK' BY <1>a, <1>15, <2>1 DEF TypeOK, PostAgain, OnlyChanged
  <2> QED BY <2>2, <2>3 DEF Typed
<1>16. ASSUME NEW s \in Sends, NEW c \in Convs, CreationLost(s, c) PROVE Typed'
  <2>1. /\ OnlyChanged(s) /\ send'[s].phase = send[s].phase /\ send'[s].posts = send[s].posts
    BY <1>a, <1>d, <1>16, LossChanged DEF Send
  <2>2. PostsLeft' BY <1>a, <2>1 DEF PostsLeft, OnlyChanged
  <2>3. TypeOK' BY <1>a, <1>16, <2>1 DEF TypeOK, CreationLost, OnlyChanged
  <2> QED BY <2>2, <2>3 DEF Typed
<1>17. CASE UNCHANGED vars
  BY <1>a, <1>17 DEF Typed, TypeOK, PostsLeft, vars, screen
<1> QED BY <1>1, <1>2, <1>3, <1>4, <1>5, <1>6, <1>7, <1>8, <1>9, <1>10, <1>11, <1>12, <1>13,
           <1>14, <1>15, <1>16, <1>17 DEF Next, Answers

\* Every variable of the tab and of the server keeps its type.
THEOREM TypeCorrect == Spec => []TypeOK
<1>1. Init => Typed BY InitTyped
<1>2. Typed /\ [Next]_vars => Typed' BY NextTyped
<1>3. Typed => TypeOK BY DEF Typed
<1> QED BY <1>1, <1>2, <1>3, PTL DEF Spec

----------------------------------------------------------------------------
(* Endings, the composer and interruptions.                                *)

\* What is known of a prompt, whatever the user did.
SendKnown(s) ==
  /\ send[s].phase = "unsent" =>
       /\ send[s].conv = None /\ send[s].home = None /\ bubble[s] = "none"
       /\ ~send[s].finalized /\ send[s].left = "no" /\ ~send[s].crossed
  /\ send[s].phase \in {"creating", "adding"} => ~send[s].finalized
  /\ send[s].phase \in {"unsent", "creating", "adding"} => send[s].posts = 0
  /\ send[s].phase = "creating" => send[s].conv = None /\ send[s].left \in {"no", "creating"}
  /\ send[s].phase \in {"adding", "streaming", "waiting"} => send[s].conv # None
  /\ send[s].version <= version
  /\ bubble[s] = "streaming" =>
       /\ ~send[s].finalized /\ send[s].phase # "unsent"
       /\ send[s].conv = None => send[s].phase = "creating"
  /\ send[s].phase \in Working /\ send[s].version # version => send[s].left # "no"
  /\ send[s].phase = "over" /\ send[s].conv # None /\ ~send[s].finalized => send[s].left # "no"

AllKnown == \A s \in Sends : SendKnown(s)

\* A stopped prompt: no callback of an older version stores anything.
Stopped(s) == send[s].version < version /\ bubble[s] # "streaming" /\ send[s].phase # "unsent"

Endings ==
  \A m \in stored :
    /\ m.what \in {"answer", "failed"} => send[m.send].finalized
    /\ m.what = "stopped" => Stopped(m.send) /\ m.post <= send[m.send].posts

\* What a prompt has got it keeps.
Grows(s) ==
  /\ send[s].finalized => send'[s].finalized
  /\ Stopped(s) => Stopped(s)'
  /\ send[s].posts <= send'[s].posts

\* A step that stores no ending, or an ending of s that has at most been stopped
\* before its stream began.
LEMMA EndingAdded ==
  ASSUME TypeOK, TypeOK', Endings, OneEnding, NEW s \in Sends, NEW w \in Ends, NEW p \in Nat,
         \A m \in stored' : \/ m \in stored \/ m.what \notin Ends
                            \/ m.send = s /\ m.what = w /\ m.post = p,
         \A t \in Sends : Grows(t),
         \A m \in stored : m.send = s /\ m.what \in Ends =>
                             m.what = "stopped" /\ w = "failed" /\ m.post = 0 /\ p = 0,
         w \in {"answer", "failed"} => send'[s].finalized,
         w = "stopped" => Stopped(s)' /\ p <= send'[s].posts
  PROVE  Endings' /\ OneEnding'
<1>1. \A m \in stored : m.send \in Sends /\ m.post \in Nat BY DEF TypeOK
<1>2. \A t \in Sends : send[t].posts \in Nat /\ send'[t].posts \in Nat
  BY ChatAssumption DEF TypeOK, Send
<1>3. Endings'
  <2> SUFFICES ASSUME NEW m \in stored'
               PROVE  /\ m.what \in {"answer", "failed"} => send'[m.send].finalized
                      /\ m.what = "stopped" => Stopped(m.send)' /\ m.post <= send'[m.send].posts
    BY DEF Endings
  <2>1. CASE m \in stored
    <3>1. Grows(m.send) /\ m.post \in Nat /\ send[m.send].posts \in Nat /\ send'[m.send].posts \in Nat
      BY <1>1, <1>2, <2>1
    <3> QED BY <2>1, <3>1 DEF Endings, Grows
  <2>2. CASE m.what \notin Ends BY <2>2 DEF Ends
  <2>3. CASE m.send = s /\ m.what = w /\ m.post = p BY <2>3
  <2> QED BY <2>1, <2>2, <2>3
<1>4. OneEnding'
  <2> SUFFICES ASSUME NEW m \in stored', NEW n \in stored', m.send = n.send,
                      m.what \in Ends, n.what \in Ends
               PROVE  /\ m.post = n.post
                      /\ \/ m.what = n.what
                         \/ {m.what, n.what} = {"stopped", "failed"} /\ m.post = 0
    BY DEF OneEnding
  <2>1. CASE m \in stored /\ n \in stored BY <2>1 DEF OneEnding
  <2>2. CASE m \in stored /\ n \notin stored
    <3>1. n.send = s /\ n.what = w /\ n.post = p BY <2>2
    <3>2. m.what = "stopped" /\ w = "failed" /\ m.post = 0 /\ p = 0 BY <2>2, <3>1
    <3> QED BY <3>1, <3>2
  <2>3. CASE m \notin stored /\ n \in stored
    <3>1. m.send = s /\ m.what = w /\ m.post = p BY <2>3
    <3>2. n.what = "stopped" /\ w = "failed" /\ n.post = 0 /\ p = 0 BY <2>3, <3>1
    <3> QED BY <3>1, <3>2
  <2>4. CASE m \notin stored /\ n \notin stored BY <2>4
  <2> QED BY <2>1, <2>2, <2>3, <2>4
<1> QED BY <1>3, <1>4

LEMMA EndingsKept ==
  ASSUME TypeOK, TypeOK', Endings, OneEnding,
         \A m \in stored' : m \in stored \/ m.what \notin Ends,
         \A s \in Sends : Grows(s)
  PROVE  Endings' /\ OneEnding'
<1>1. \A m \in stored : m.send \in Sends /\ m.post \in Nat BY DEF TypeOK
<1>2. \A s \in Sends : send[s].posts \in Nat /\ send'[s].posts \in Nat
  BY ChatAssumption DEF TypeOK, Send
<1>3. ASSUME NEW m \in stored', m \in stored
      PROVE  /\ m.what \in {"answer", "failed"} => send'[m.send].finalized
             /\ m.what = "stopped" => Stopped(m.send)' /\ m.post <= send'[m.send].posts
  <2>1. Grows(m.send) /\ m.post \in Nat /\ send[m.send].posts \in Nat /\ send'[m.send].posts \in Nat
    BY <1>1, <1>2, <1>3
  <2> QED BY <1>3, <2>1 DEF Endings, Grows
<1>4. Endings' BY <1>3 DEF Endings, Ends
<1>5. OneEnding' BY DEF OneEnding, Ends
<1> QED BY <1>4, <1>5

\* The user's moves, and what else leaves every prompt marked at most.
LEMMA MarkedKnown ==
  ASSUME TypeOK, AllKnown, NEW P \in SUBSET Working, AllMarked(P),
         P \subseteq {"streaming", "waiting"} \/ bubble' = NoBubbles,
         version' \in Nat, version <= version',
         \A s \in Sends : bubble'[s] = bubble[s] \/ bubble'[s] = "done" \/ bubble' = NoBubbles,
         \A s \in Sends : send[s].phase = "unsent" => bubble'[s] = "none"
  PROVE  AllKnown' /\ \A s \in Sends : Grows(s)
<1> SUFFICES ASSUME NEW s \in Sends PROVE SendKnown(s)' /\ Grows(s)
  BY DEF AllKnown
<1>1. /\ SendKnown(s) /\ Marked(s, P) /\ version \in Nat /\ send[s].version \in Nat
      /\ send[s].posts \in Nat
      /\ send[s].phase \in Working \cup {"unsent", "over"}
      /\ bubble'[s] = "streaming" => bubble[s] = "streaming" /\ P \subseteq {"streaming", "waiting"}
  BY ChatAssumption DEF AllKnown, AllMarked, TypeOK, Send, NoBubbles
<1>2. SendKnown(s)' BY <1>1 DEF SendKnown, Marked, Working
<1> QED BY <1>1, <1>2 DEF Grows, Stopped, Marked, Working

\* A continuation: what remains to be shown is about its own prompt.
LEMMA ChangedKnown ==
  ASSUME TypeOK, AllKnown, NEW s \in Sends, OnlyChanged(s), version' = version,
         \A t \in Sends : t # s => bubble'[t] = bubble[t],
         SendKnown(s)'
  PROVE  AllKnown' /\ \A t \in Sends : t # s => Grows(t)
<1>1. \A t \in Sends : send[t].posts \in Nat BY ChatAssumption DEF TypeOK, Send
<1> QED BY <1>1 DEF AllKnown, OnlyChanged, SendKnown, Stopped, Grows

\* The prompt that will unlock the composer.
Unlocks(s) == send[s].phase \in Working /\ send[s].version = version /\ ~send[s].finalized

LEMMA StillLocked ==
  ASSUME LockedOnlyByWork, isStreaming' => isStreaming,
         \A s \in Sends : Unlocks(s) => Unlocks(s)'
  PROVE  LockedOnlyByWork'
BY DEF LockedOnlyByWork, Unlocks

Inv == Typed /\ AllKnown /\ Endings /\ OneEnding /\ LockedOnlyByWork

LEMMA InitInv == Init => Inv
<1> SUFFICES ASSUME Init PROVE Inv
  OBVIOUS
<1>1. Typed BY InitTyped
<1>2. ASSUME NEW s \in Sends PROVE SendKnown(s)
  BY <1>2 DEF Init, SendKnown, NoBubbles, Working
<1>3. Endings /\ OneEnding /\ LockedOnlyByWork BY DEF Init, Endings, OneEnding, LockedOnlyByWork
<1> QED BY <1>1, <1>2, <1>3 DEF Inv, AllKnown

\* Opening another conversation, selecting one, reloading, a transcript not found.
LEMMA MoveInv ==
  ASSUME Inv, Typed', NEW P \in SUBSET Working, AllMarked(P),
         \/ bubble' = NoBubbles /\ isStreaming' = FALSE /\ version' = version + 1
         \/ P = {} /\ UNCHANGED <<bubble, isStreaming, version>>,
         \A m \in stored' : m \in stored \/ m.what \notin Ends
  PROVE  Inv'
<1>a. TypeOK /\ AllKnown /\ Endings /\ OneEnding /\ LockedOnlyByWork BY DEF Inv, Typed
<1>b. TypeOK' /\ version \in Nat /\ version' \in Nat /\ version <= version'
  BY <1>a DEF TypeOK, Typed
<1>1. \A s \in Sends : send[s].phase = "unsent" => bubble'[s] = "none"
  BY <1>a DEF AllKnown, SendKnown, NoBubbles
<1>2. /\ AllKnown'
      /\ \A s \in Sends : Grows(s)
  BY <1>a, <1>b, <1>1, MarkedKnown
<1>3. Endings' /\ OneEnding' BY <1>a, <1>b, <1>2, EndingsKept
<1>4. LockedOnlyByWork'
  <2>1. CASE isStreaming' = FALSE BY <2>1 DEF LockedOnlyByWork
  <2>2. CASE P = {} /\ UNCHANGED <<bubble, isStreaming, version>>
    <3>1. \A s \in Sends : Unlocks(s) => Unlocks(s)' BY <2>2 DEF Unlocks, AllMarked, Marked
    <3> QED BY <1>a, <2>2, <3>1, StillLocked
  <2> QED BY <2>1, <2>2
<1> QED BY <1>2, <1>3, <1>4 DEF Inv

LEMMA NextInv ==
  ASSUME Inv, [Next]_vars
  PROVE  Inv'
<1>a. TypeOK /\ AllKnown /\ Endings /\ OneEnding /\ LockedOnlyByWork BY DEF Inv, Typed
<1>b. Typed /\ Typed' /\ TypeOK' BY NextTyped DEF Inv, Typed
<1>c. /\ version \in Nat
      /\ \A s \in Sends : send[s] \in Send /\ SendKnown(s) /\ send[s].posts \in Nat
  BY <1>a, ChatAssumption DEF TypeOK, AllKnown, Send
<1>d. \A m \in stored : m.send \in Sends BY <1>a DEF TypeOK
<1>e. stored' = stored => \A m \in stored' : m \in stored \/ m.what \notin Ends OBVIOUS
<1>f. {"streaming", "waiting"} \in SUBSET Working /\ {} \in SUBSET Working BY DEF Working
<1>1. ASSUME NEW c \in Convs \cup {None}, Showing(c), stored' = stored PROVE Inv'
  <2>1. \/ AllMarked({}) /\ UNCHANGED <<bubble, isStreaming, version>>
        \/ /\ AllMarked({"streaming", "waiting"})
           /\ bubble' = NoBubbles /\ isStreaming' = FALSE /\ version' = version + 1
    BY <1>a, <1>1, ShowingMarks DEF Opened
  <2> QED BY <1>b, <1>e, <1>f, <1>1, <2>1, MoveInv
<1>2. ASSUME NEW g \in Groups, OpenGroup(g) PROVE Inv'
  BY <1>a, <1>1, <1>2 DEF OpenGroup, TypeOK
<1>3. ASSUME NEW c \in Convs \cup {None}, SelectConversation(c) PROVE Inv'
  BY <1>1, <1>3 DEF SelectConversation
<1>4. ASSUME Reload PROVE Inv'
  <2>1. AllMarked(Working) BY <1>a, <1>4, ReloadMarks
  <2>2. \A m \in stored' : m \in stored \/ m.what \notin Ends
    BY <1>a, <1>4, ReloadStores DEF Ends
  <2> QED BY <1>b, <1>4, <2>1, <2>2, MoveInv DEF Reload
<1>5. ASSUME NEW s \in Sends, SendMessage(s) PROVE Inv'
  <2>1. /\ OnlyChanged(s) /\ send[s] \in Send
        /\ send'[s] = [send[s] EXCEPT !.phase = IF idRef = None THEN "creating" ELSE "adding",
                          !.conv = idRef, !.version = version, !.group = group, !.home = Active]
    BY <1>a, <1>c, <1>5, SendChanged
  <2>2. /\ send'[s].phase = (IF idRef = None THEN "creating" ELSE "adding")
        /\ send'[s].conv = idRef /\ send'[s].version = version
        /\ send'[s].finalized = send[s].finalized /\ send'[s].left = send[s].left
        /\ send'[s].posts = send[s].posts
    BY <2>1 DEF Send
  <2>3. /\ send[s].phase = "unsent" /\ version' = version /\ stored' = stored
        /\ bubble'[s] = "streaming" /\ \A t \in Sends : t # s => bubble'[t] = bubble[t]
    BY <1>a, <1>5 DEF SendMessage, TypeOK
  <2>4. SendKnown(s)' BY <1>c, <2>2, <2>3 DEF SendKnown, Working
  <2>5. AllKnown' /\ \A t \in Sends : Grows(t)
    <3>1. Grows(s) BY <1>c, <2>2, <2>3 DEF Grows, Stopped
    <3> QED BY <1>a, <2>1, <2>3, <2>4, <3>1, ChangedKnown
  <2>6. Endings' /\ OneEnding' BY <1>a, <1>b, <1>e, <2>3, <2>5, EndingsKept
  <2>7. Unlocks(s)' BY <1>c, <2>2, <2>3 DEF Unlocks, SendKnown, Working
  <2> QED BY <1>b, <2>5, <2>6, <2>7 DEF Inv, LockedOnlyByWork, Unlocks
<1>6. ASSUME NEW s \in Sends, StopStreaming(s) PROVE Inv'
  <2>1. AllMarked({"streaming", "waiting"}) BY <1>a, <1>6, AbortedMarks DEF StopStreaming
  <2>2. /\ bubble[s] = "streaming" /\ version' = version + 1 /\ isStreaming' = FALSE
        /\ bubble'[s] = "done" /\ \A t \in Sends : t # s => bubble'[t] = bubble[t]
    BY <1>a, <1>6 DEF StopStreaming, TypeOK
  <2>3. AllKnown' /\ \A t \in Sends : Grows(t)
    <3>1. \A t \in Sends : send[t].phase = "unsent" => bubble'[t] = "none"
      BY <1>c, <2>2 DEF SendKnown
    <3>2. version' \in Nat /\ version <= version' BY <1>c, <2>2
    <3> QED BY <1>a, <1>f, <2>1, <2>2, <3>1, <3>2, MarkedKnown
  <2>4. \A m \in stored' : \/ m \in stored
                           \/ m.send = s /\ m.what = "stopped" /\ m.post = send[s].posts
    <3>1. CASE idRef = None BY <1>6, <3>1 DEF StopStreaming
    <3>2. CASE idRef # None
      <4>1. Posts(idRef, s, "stopped") /\ "stopped" \in Kinds
        BY <1>6, <3>2 DEF StopStreaming, Kinds, Ends
      <4> QED BY <1>a, <4>1, PostedAre
    <3> QED BY <3>1, <3>2
  <2>5. Stopped(s)' /\ send'[s].posts = send[s].posts
    <3>1. /\ send'[s].version = send[s].version /\ send'[s].phase # "unsent" /\ send[s].version \in Nat
          /\ send'[s].posts = send[s].posts
      BY <1>c, <2>1, <2>2 DEF AllMarked, Marked, SendKnown, Send
    <3>2. send[s].version < version' BY <1>c, <2>2, <3>1 DEF SendKnown
    <3> QED BY <2>2, <3>1, <3>2 DEF Stopped
  <2>6. \A m \in stored : m.what \in Ends => m.send # s
    <3> SUFFICES ASSUME NEW m \in stored, m.what \in Ends, m.send = s PROVE FALSE
      OBVIOUS
    <3>1. ~send[s].finalized /\ ~Stopped(s) BY <1>c, <2>2 DEF SendKnown, Stopped
    <3> QED BY <1>a, <3>1 DEF Endings, Ends
  <2>7. "stopped" \in Ends /\ send[s].posts \in Nat /\ send[s].posts <= send'[s].posts
    BY <1>c, <2>5 DEF Ends
  <2>8. Endings' /\ OneEnding'
    BY <1>a, <1>b, <2>3, <2>4, <2>5, <2>6, <2>7, EndingAdded
  <2>9. LockedOnlyByWork' BY <2>2 DEF LockedOnlyByWork
  <2> QED BY <1>b, <2>3, <2>8, <2>9 DEF Inv
<1>7. ASSUME UNCHANGED <<send, version, isStreaming>>,
             bubble' = bubble \/ bubble' = NoBubbles,
             \A m \in stored' : m \in stored \/ m.what \notin Ends
      PROVE  Inv'
  <2>1. ASSUME NEW s \in Sends PROVE SendKnown(s)' /\ Grows(s)
    <3>1. bubble'[s] = bubble[s] \/ bubble'[s] = "none" BY <1>7 DEF NoBubbles
    <3> QED BY <1>c, <1>7, <3>1 DEF SendKnown, Stopped, Grows
  <2>2. Endings' /\ OneEnding' BY <1>a, <1>b, <1>7, <2>1, EndingsKept
  <2>3. LockedOnlyByWork' BY <1>a, <1>7 DEF LockedOnlyByWork
  <2> QED BY <1>b, <2>1, <2>2, <2>3 DEF Inv, AllKnown
<1>8. ASSUME NEW s \in Sends, ImplementationMessage(s) PROVE Inv'
  <2>1. \A m \in stored' : m \in stored \/ m.what \notin Ends
    BY <1>a, <1>8, PostedAre DEF ImplementationMessage, Kinds, Ends
  <2> QED BY <1>7, <1>8, <2>1 DEF ImplementationMessage
<1>9. ASSUME NEW l \in loads, LoadAnswered(l) PROVE Inv'
  BY <1>7, <1>9 DEF LoadAnswered
<1>10. ASSUME NEW l \in loads, LoadNotFound(l) PROVE Inv'
  <2>1. AllMarked({"streaming", "waiting"}) BY <1>a, <1>10, AbortedMarks DEF LoadNotFound
  <2> QED BY <1>b, <1>e, <1>f, <1>10, <2>1, MoveInv DEF LoadNotFound
<1>11. ASSUME NEW c \in Convs, Deleted(c) PROVE Inv'
  <2>1. UNCHANGED <<send, version, isStreaming, bubble>> BY <1>11 DEF Deleted, screen
  <2>2. \A m \in stored' : m \in stored BY <1>11 DEF Deleted
  <2> QED BY <1>7, <2>1, <2>2
<1>12. ASSUME NEW s \in Sends, NEW c \in Convs, ConversationCreated(s, c) PROVE Inv'
  <2>1. /\ send'[s] = [send[s] EXCEPT !.phase = "adding", !.conv = c]
        /\ \A t \in Sends : t # s =>
              send'[t] = [send[t] EXCEPT !.crossed = @ \/ send[t].phase = "creating"]
    BY <1>a, <1>12, CreationChanged
  <2>2. send[s].phase = "creating" /\ c # None /\ UNCHANGED <<bubble, version, isStreaming, stored>>
    BY <1>12, ChatAssumption DEF ConversationCreated
  <2>3. ASSUME NEW t \in Sends
        PROVE  SendKnown(t)' /\ Grows(t) /\ (Unlocks(t) => Unlocks(t)')
    <3>1. SendKnown(t) /\ send[t] \in Send /\ send[t].posts \in Nat BY <1>c
    <3>2. CASE t = s
      <4>1. /\ send'[s].phase = "adding" /\ send'[s].conv = c
            /\ send'[s].finalized = send[s].finalized /\ send'[s].version = send[s].version
            /\ send'[s].left = send[s].left /\ send'[s].posts = send[s].posts
        BY <2>1, <3>1, <3>2 DEF Send
      <4> QED BY <2>2, <3>1, <3>2, <4>1 DEF SendKnown, Stopped, Grows, Unlocks, Working
    <3>3. CASE t # s
      <4>1. /\ send'[t].phase = send[t].phase /\ send'[t].conv = send[t].conv
            /\ send'[t].finalized = send[t].finalized /\ send'[t].version = send[t].version
            /\ send'[t].left = send[t].left /\ send'[t].home = send[t].home
            /\ send'[t].posts = send[t].posts
            /\ send[t].phase = "unsent" => send'[t].crossed = send[t].crossed
        <5> DEFINE b == send[t].crossed \/ send[t].phase = "creating"
        <5>1. send'[t] = [send[t] EXCEPT !.crossed = b] BY <2>1, <3>3
        <5>2. send[t].phase = "unsent" => b = send[t].crossed BY <3>1 DEF Send
        <5> HIDE DEF b
        <5> QED BY <3>1, <5>1, <5>2 DEF Send
      <4> QED BY <2>2, <3>1, <4>1 DEF SendKnown, Stopped, Grows, Unlocks
    <3> QED BY <3>2, <3>3
  <2>4. Endings' /\ OneEnding' BY <1>a, <1>b, <1>e, <2>2, <2>3, EndingsKept
  <2>5. LockedOnlyByWork' BY <1>a, <2>2, <2>3, StillLocked
  <2> QED BY <1>b, <2>3, <2>4, <2>5 DEF Inv, AllKnown
<1>13. ASSUME NEW s \in Sends, OnlyChanged(s), SendKnown(s)',
              UNCHANGED <<version, isStreaming>>,
              \A t \in Sends : t # s => bubble'[t] = bubble[t],
              \A m \in stored' : m \in stored \/ m.what \notin Ends,
              Grows(s), Unlocks(s) => Unlocks(s)'
       PROVE  Inv'
  <2>1. /\ AllKnown'
        /\ \A t \in Sends : Grows(t)
    BY <1>a, <1>13, ChangedKnown
  <2>2. Endings' /\ OneEnding' BY <1>a, <1>b, <1>13, <2>1, EndingsKept
  <2>3. LockedOnlyByWork' BY <1>a, <1>13, StillLocked DEF OnlyChanged, Unlocks
  <2> QED BY <1>b, <2>1, <2>2, <2>3 DEF Inv
<1>14. ASSUME NEW s \in Sends, PromptAdded(s) PROVE Inv'
  <2>1. /\ OnlyChanged(s) /\ send[s] \in Send /\ SendKnown(s)
        /\ send'[s] = IF version # send[s].version THEN [send[s] EXCEPT !.phase = "over"]
                      ELSE [send[s] EXCEPT !.phase = "streaming", !.posts = 1]
    BY <1>a, <1>c, <1>14, AddedChanged
  <2>2. /\ send'[s].phase = (IF version # send[s].version THEN "over" ELSE "streaming")
        /\ send'[s].conv = send[s].conv /\ send'[s].version = send[s].version
        /\ send'[s].finalized = send[s].finalized /\ send'[s].left = send[s].left
        /\ send'[s].posts \in Nat /\ send[s].posts <= send'[s].posts
    <3>1. send[s].posts = 0 BY <2>1, <1>14 DEF PromptAdded, SendKnown
    <3> QED BY <2>1, <3>1 DEF Send
  <2>3. send[s].phase = "adding" /\ UNCHANGED <<version, isStreaming, bubble>>
    BY <1>14 DEF PromptAdded
  <2>4. \A m \in stored' : m \in stored \/ m.what \notin Ends
    BY <1>a, <1>14, PromptStores DEF Ends
  <2>5. SendKnown(s)' /\ Grows(s) /\ (Unlocks(s) => Unlocks(s)')
    BY <2>1, <2>2, <2>3 DEF SendKnown, Stopped, Grows, Unlocks, Working
  <2> QED BY <1>13, <2>1, <2>2, <2>3, <2>4, <2>5
<1>15. ASSUME NEW s \in Sends, SendFailed(s) PROVE Inv'
  <2>1. /\ OnlyChanged(s) /\ send[s] \in Send /\ SendKnown(s)
        /\ send'[s] = [send[s] EXCEPT !.phase = "over", !.finalized = send[s].conv # None]
    BY <1>a, <1>c, <1>15, FailureChanged
  <2>2. /\ send'[s].phase = "over" /\ send'[s].finalized = (send[s].conv # None)
        /\ send'[s].conv = send[s].conv /\ send'[s].version = send[s].version
        /\ send'[s].left = send[s].left /\ send'[s].posts = send[s].posts
    BY <2>1 DEF Send
  <2>3. /\ send[s].phase \in {"creating", "adding"} /\ version' = version
        /\ isStreaming' = FALSE /\ bubble'[s] \in {"none", "done"}
        /\ \A t \in Sends : t # s => bubble'[t] = bubble[t]
    BY <1>a, <1>15 DEF SendFailed, LockAfterFailure, Shown, TypeOK
  <2>4. send[s].posts = 0 /\ ~send[s].finalized BY <2>1, <2>3 DEF SendKnown
  <2>5. SendKnown(s)' /\ Grows(s)
    <3>1. send[s].posts <= send'[s].posts BY <2>2, <2>4
    <3> QED BY <2>1, <2>2, <2>3, <2>4, <3>1 DEF SendKnown, Stopped, Grows, Working
  <2>6. AllKnown' /\ \A t \in Sends : Grows(t)
    BY <1>a, <2>1, <2>3, <2>5, ChangedKnown
  <2>7. Endings' /\ OneEnding'
    <3>1. \A m \in stored' :
            \/ m \in stored
            \/ /\ m.what \in {"prompt", "failed"} /\ m.send = s /\ send[s].conv # None
               /\ m.what = "failed" => m.post = send[s].posts
      BY <1>a, <1>15, FailureStores
    <3>2. CASE send[s].conv = None
      <4>1. \A m \in stored' : m \in stored \/ m.what \notin Ends BY <3>1, <3>2
      <4> QED BY <1>a, <1>b, <2>6, <4>1, EndingsKept
    <3>3. CASE send[s].conv # None
      <4>1. \A m \in stored' : \/ m \in stored \/ m.what \notin Ends
                               \/ m.send = s /\ m.what = "failed" /\ m.post = 0
        BY <2>4, <3>1 DEF Ends
      <4>2. ASSUME NEW m \in stored, m.send = s, m.what \in Ends
            PROVE  m.what = "stopped" /\ m.post = 0
        <5>1. m.what = "stopped" BY <1>a, <2>4, <4>2 DEF Endings, Ends
        <5>2. m.post \in Nat /\ m.post <= 0 BY <1>a, <2>4, <4>2, <5>1 DEF Endings, TypeOK
        <5> QED BY <5>1, <5>2
      <4>3. send'[s].finalized /\ "failed" \in Ends BY <2>2, <3>3 DEF Ends
      <4> QED BY <1>a, <1>b, <2>6, <4>1, <4>2, <4>3, EndingAdded
    <3> QED BY <3>2, <3>3
  <2> QED BY <1>b, <2>3, <2>6, <2>7 DEF Inv, LockedOnlyByWork
<1>16. ASSUME NEW s \in Sends, TerminalEvent(s) \/ StreamDone(s) \/ StreamError(s) PROVE Inv'
  <2>1. Concludes(s) /\ send[s].phase = "streaming" /\ version' = version
    BY <1>a, <1>16, Concluding
  <2>2. PICK p \in {"streaming", "over"}, e \in BOOLEAN, f \in BOOLEAN :
          /\ f = (send[s].finalized \/ version = send[s].version)
          /\ send'[s] = [send[s] EXCEPT !.phase = p, !.finalized = f, !.ended = e]
    BY <1>a, <2>1, ConclusionChanged
  <2>3. OnlyChanged(s) /\ send[s] \in Send /\ SendKnown(s) BY <1>a, <1>c, <2>1, ConclusionChanged
  <2>4. /\ send'[s].phase = p /\ send'[s].finalized = f
        /\ send'[s].conv = send[s].conv /\ send'[s].version = send[s].version
        /\ send'[s].left = send[s].left /\ send[s].finalized \in BOOLEAN
        /\ send'[s].posts = send[s].posts /\ send[s].posts \in Nat
    BY <1>c, <2>2, <2>3 DEF Send
  <2>5. CASE /\ version # send[s].version \/ send[s].finalized
             /\ \E q \in {"streaming", "over"}, d \in BOOLEAN : Ignored(s, q, d)
    <3>1. UNCHANGED <<bubble, isStreaming, stored>>
      <4>1. PICK q \in {"streaming", "over"}, d \in BOOLEAN : Ignored(s, q, d) BY <2>5
      <4> QED BY <4>1 DEF Ignored
    <3>2. SendKnown(s)' /\ Grows(s) /\ (Unlocks(s) => Unlocks(s)')
      BY <2>1, <2>2, <2>3, <2>4, <2>5, <3>1 DEF SendKnown, Stopped, Grows, Unlocks, Working
    <3> QED BY <1>13, <1>e, <2>1, <2>2, <2>3, <2>4, <3>1, <3>2
  <2>6. CASE version = send[s].version
             /\ \E q \in {"streaming", "over"}, d \in BOOLEAN : Finalize(s, q, d)
    <3>1. /\ isStreaming' = FALSE /\ bubble'[s] \in {"none", "done"} /\ f
          /\ \A t \in Sends : t # s => bubble'[t] = bubble[t]
      BY <1>a, <2>2, <2>6 DEF Finalize, Shown, TypeOK
    <3>2. SendKnown(s)' /\ Grows(s)
      BY <2>1, <2>3, <2>4, <2>6, <3>1 DEF SendKnown, Stopped, Grows, Working
    <3>3. /\ AllKnown'
          /\ \A t \in Sends : Grows(t)
      BY <1>a, <2>1, <2>3, <2>4, <3>1, <3>2, ChangedKnown
    <3>4. CASE send[s].finalized
      <4>1. stored' = stored BY <2>6, <3>4 DEF Finalize, AlreadyStored
      <4>2. Endings' /\ OneEnding' BY <1>a, <1>b, <1>e, <3>3, <4>1, EndingsKept
      <4> QED BY <1>b, <3>1, <3>3, <4>2 DEF Inv, LockedOnlyByWork
    <3>5. CASE ~send[s].finalized
      <4>1. \A m \in stored' : \/ m \in stored
                               \/ m.send = s /\ m.what = "answer" /\ m.post = send[s].posts
        <5>1. Posts(send[s].conv, s, "answer") /\ "answer" \in Kinds
          BY <2>6, <3>5 DEF Finalize, AlreadyStored, Kinds, Ends
        <5> QED BY <1>a, <5>1, PostedAre
      <4>2. \A m \in stored : m.what \in Ends => m.send # s
        <5> SUFFICES ASSUME NEW m \in stored, m.what \in Ends, m.send = s PROVE FALSE
          OBVIOUS
        <5>1. ~Stopped(s) BY <1>c, <2>6 DEF Stopped
        <5> QED BY <1>a, <3>5, <5>1 DEF Endings, Ends
      <4>3. send'[s].finalized /\ "answer" \in Ends BY <2>4, <3>1 DEF Ends
      <4>4. Endings' /\ OneEnding'
        BY <1>a, <1>b, <2>4, <3>3, <4>1, <4>2, <4>3, EndingAdded
      <4> QED BY <1>b, <3>1, <3>3, <4>4 DEF Inv, LockedOnlyByWork
    <3> QED BY <3>4, <3>5
  <2> QED BY <2>1, <2>5, <2>6 DEF Concludes
<1>17. ASSUME NEW s \in Sends, StreamBroken(s) PROVE Inv'
  <2>1. /\ OnlyChanged(s) /\ send[s] \in Send /\ SendKnown(s)
        /\ send'[s] = [send[s] EXCEPT !.phase = "waiting"]
    BY <1>a, <1>c, <1>17, BreakChanged
  <2>2. /\ send'[s].phase = "waiting"
        /\ send'[s].conv = send[s].conv /\ send'[s].version = send[s].version
        /\ send'[s].finalized = send[s].finalized /\ send'[s].left = send[s].left
        /\ send'[s].posts \in Nat /\ send[s].posts <= send'[s].posts
    BY <1>c, <2>1 DEF Send, SendKnown
  <2>3. send[s].phase = "streaming" /\ UNCHANGED <<version, isStreaming, bubble, stored>>
    BY <1>17 DEF StreamBroken
  <2>4. SendKnown(s)' /\ Grows(s) /\ (Unlocks(s) => Unlocks(s)')
    BY <2>1, <2>2, <2>3 DEF SendKnown, Stopped, Grows, Unlocks, Working
  <2> QED BY <1>13, <1>e, <2>1, <2>2, <2>3, <2>4
<1>18. ASSUME NEW s \in Sends, PostAgain(s) PROVE Inv'
  <2>1. /\ OnlyChanged(s) /\ send[s] \in Send /\ SendKnown(s)
        /\ send'[s] = [send[s] EXCEPT !.phase = "streaming", !.posts = @ + 1, !.ended = FALSE]
    BY <1>b, <1>c, <1>18, PostChanged
  <2>2. /\ send'[s].phase = "streaming"
        /\ send'[s].conv = send[s].conv /\ send'[s].version = send[s].version
        /\ send'[s].finalized = send[s].finalized /\ send'[s].left = send[s].left
        /\ send'[s].posts \in Nat /\ send[s].posts <= send'[s].posts
    BY <1>c, <2>1 DEF Send, SendKnown
  <2>3. send[s].phase = "waiting" /\ UNCHANGED <<version, isStreaming, bubble, stored>>
    BY <1>18 DEF PostAgain
  <2>4. SendKnown(s)' /\ Grows(s) /\ (Unlocks(s) => Unlocks(s)')
    BY <2>1, <2>2, <2>3 DEF SendKnown, Stopped, Grows, Unlocks, Working
  <2> QED BY <1>13, <1>e, <2>1, <2>2, <2>3, <2>4
<1>19. ASSUME NEW s \in Sends, NEW c \in Convs, CreationLost(s, c) PROVE Inv'
  <2>1. /\ OnlyChanged(s) /\ send[s] \in Send /\ SendKnown(s)
        /\ send'[s] = [send[s] EXCEPT !.orphans = @ + 1]
    BY <1>a, <1>c, <1>19, LossChanged
  <2>2. /\ send'[s].phase = send[s].phase /\ send'[s].home = send[s].home
        /\ send'[s].conv = send[s].conv /\ send'[s].version = send[s].version
        /\ send'[s].crossed = send[s].crossed
        /\ send'[s].finalized = send[s].finalized /\ send'[s].left = send[s].left
        /\ send'[s].posts = send[s].posts /\ send[s].posts \in Nat
    BY <1>c, <2>1 DEF Send
  <2>3. UNCHANGED <<version, isStreaming, bubble, stored>>
    BY <1>19 DEF CreationLost
  <2>4. SendKnown(s)' /\ Grows(s) /\ (Unlocks(s) => Unlocks(s)')
    BY <2>1, <2>2, <2>3 DEF SendKnown, Stopped, Grows, Unlocks, Working
  <2> QED BY <1>13, <1>e, <2>1, <2>2, <2>3, <2>4
<1>20. CASE UNCHANGED vars BY <1>7, <1>e, <1>20 DEF vars, screen
<1> QED BY <1>2, <1>3, <1>4, <1>5, <1>6, <1>8, <1>9, <1>10, <1>11, <1>12, <1>14, <1>15, <1>16,
           <1>17, <1>18, <1>19, <1>20 DEF Next, Answers

LEMMA AlwaysInv == Spec => []Inv
BY InitInv, NextInv, PTL DEF Spec

\* A prompt never gets two endings, however often its stream breaks and is posted
\* again, whatever the user stops, and however often fetchWithRetry repeats a
\* request: all that is stored of an answer, a stop or a failure is copies of one
\* message, but for the two notices of a prompt that was stopped while it was
\* being stored and then failed.
THEOREM OneEndingEach == Spec => []OneEnding
<1>1. Inv => OneEnding BY DEF Inv
<1> QED BY <1>1, AlwaysInv, PTL

\* The composer is never locked without a prompt that will unlock it.
THEOREM NeverLockedInVain == Spec => []LockedOnlyByWork
<1>1. Inv => LockedOnlyByWork BY DEF Inv
<1> QED BY <1>1, AlwaysInv, PTL

\* Only the user takes its ending from a prompt.
THEOREM InterruptedByTheUser == Spec => []OnlyTheUserInterrupts
<1>1. Inv => OnlyTheUserInterrupts BY DEF Inv, AllKnown, SendKnown, OnlyTheUserInterrupts
<1> QED BY <1>1, AlwaysInv, PTL

----------------------------------------------------------------------------
(* The conversation on screen, and the one that is written to.  Unless a   *)
(* conversation was created too late, both refs are right, and a prompt    *)
(* whose conversation is being created is on a new chat.                   *)

LateOf(s) == (send[s].left = "creating" /\ send[s].conv # None) \/ send[s].crossed

WellPlaced(s) ==
  /\ send[s].phase = "creating" /\ (send[s].left = "no" \/ bubble[s] # "none") => Active = None
  /\ send[s].phase = "creating" /\ send[s].left = "no" => group = send[s].group
  /\ bubble[s] # "none" /\ send[s].conv # None => send[s].conv = Active
  /\ send[s].home \in {None, send[s].conv}

InPlace ==
  /\ skipRef = None /\ idRef = Active
  /\ view = "loaded" => loaded = Active /\ loaded # None
  /\ \A l \in loads : l.version = version => l.conv = Active
  /\ \A s \in Sends : WellPlaced(s)
  /\ \A m \in stored : m.conv = send[m.send].conv

Placed == /\ \A l \in loads : l.version <= version
          /\ LateCreation \/ InPlace

LEMMA LateIs == LateCreation <=> \E s \in Sends : LateOf(s)
BY DEF LateCreation, LateOf

\* What most steps do to a prompt: nothing, or a mark.
Steady(s) ==
  /\ send'[s].conv = send[s].conv /\ send'[s].home = send[s].home
  /\ send'[s].group = send[s].group /\ send'[s].crossed = send[s].crossed
  /\ send'[s].phase = "creating" => send[s].phase = "creating"
  /\ send[s].left # "no" => send'[s].left = send[s].left
  /\ send'[s].left = "creating" => send[s].left = "creating" \/ send[s].phase = "creating"

LEMMA MarkedSteady ==
  ASSUME NEW P, AllMarked(P)
  PROVE  \A s \in Sends : Steady(s) /\ (send[s].phase = "creating" => send'[s].left # "no")
BY DEF AllMarked, Marked, Steady, Working

LEMMA PlaceKept ==
  ASSUME Inv, Placed, TypeOK',
         \A s \in Sends : Steady(s),
         ~LateCreation => \A m \in stored' : m \in stored \/ (m.send \in Sends /\ m.conv = send[m.send].conv),
         \/ /\ Active' = Active /\ UNCHANGED <<idRef, skipRef>>
            /\ \/ group' = group
               \/ \A s \in Sends : send[s].phase = "creating" => send'[s].left # "no"
            /\ \A s \in Sends : bubble[s] = "none" => bubble'[s] = "none"
            /\ \/ view' = view /\ loaded' = loaded
               \/ view' # "loaded"
               \/ ~LateCreation => loaded' = Active /\ Active # None
            /\ version' \in {version, version + 1} /\ loads' \subseteq loads
         \/ /\ bubble' = NoBubbles /\ view' # "loaded"
            /\ idRef' = Active' /\ skipRef' \in {skipRef, None}
            /\ \A s \in Sends : send[s].phase = "creating" => send'[s].left # "no"
            /\ version' = version + 1
            /\ loads' \subseteq loads \cup {[conv |-> Active', version |-> version']}
  PROVE  Placed'
<1>a. TypeOK /\ \A s \in Sends : SendKnown(s) BY DEF Inv, Typed, AllKnown
<1>b. version \in Nat /\ \A l \in loads : l.version \in Nat /\ l.version <= version
  BY <1>a DEF TypeOK, Placed
<1>1. \A l \in loads' : l.version <= version'
  BY <1>b
<1>2. CASE LateCreation
  <2>1. \A s \in Sends : LateOf(s) => LateOf(s)' BY DEF LateOf, Steady
  <2> QED BY <1>1, <1>2, <2>1, LateIs DEF Placed, LateCreation, LateOf
<1>3. CASE ~LateCreation
  <2>1. InPlace BY <1>3 DEF Placed
  <2>2. skipRef' = None /\ idRef' = Active' BY <2>1 DEF InPlace
  <2>3. view' = "loaded" => loaded' = Active' /\ loaded' # None BY <1>3, <2>1 DEF InPlace
  <2>4. \A l \in loads' : l.version = version' => l.conv = Active'
    BY <1>b, <2>1 DEF InPlace
  <2>5. ASSUME NEW s \in Sends PROVE WellPlaced(s)'
    <3>1. WellPlaced(s) /\ Steady(s) /\ SendKnown(s) BY <1>a, <2>1 DEF InPlace
    <3>2. NoBubbles[s] = "none" BY DEF NoBubbles
    <3> QED BY <3>1, <3>2 DEF WellPlaced, Steady
  <2>6. \A m \in stored' : m.conv = send'[m.send].conv
    <3>1. \A m \in stored : m.send \in Sends BY <1>a DEF TypeOK
    <3> QED BY <1>3, <2>1, <3>1 DEF InPlace, Steady
  <2> QED BY <1>1, <2>2, <2>3, <2>4, <2>5, <2>6 DEF Placed, InPlace
<1> QED BY <1>2, <1>3

LEMMA InitPlaced == Init => Placed
<1> SUFFICES ASSUME Init PROVE Placed
  OBVIOUS
<1>1. Active \in Convs \cup {None} BY ChatAssumption DEF Init, Active
<1>2. \A l \in loads : l.version = 1 /\ l.conv = Active BY DEF Init
<1>3. \A s \in Sends : WellPlaced(s) BY DEF Init, WellPlaced, NoBubbles
<1>4. idRef = Active /\ skipRef = None /\ view # "loaded" /\ stored = {} /\ version = 1
  BY DEF Init
<1> QED BY <1>2, <1>3, <1>4 DEF Placed, InPlace

LEMMA NextPlaced ==
  ASSUME Inv, Placed, [Next]_vars
  PROVE  Placed'
<1>a. TypeOK /\ TypeOK' /\ \A s \in Sends : SendKnown(s) /\ send[s] \in Send
  BY NextTyped DEF Inv, Typed, AllKnown, TypeOK
<1>b. \A m \in stored : m.send \in Sends /\ m.conv \in Convs BY <1>a DEF TypeOK
<1>c. None \notin Convs BY ChatAssumption
<1>d. version \in Nat BY <1>a DEF TypeOK
\* A step that shows nothing else and does not move.
<1>1. ASSUME \A s \in Sends : Steady(s),
             \A m \in stored' : m \in stored \/ (m.send \in Sends /\ m.conv = send[m.send].conv),
             UNCHANGED <<group, convOf, idRef, skipRef, view, loaded, version, loads>>,
             \A s \in Sends : bubble[s] = "none" => bubble'[s] = "none"
      PROVE  Placed'
  <2>1. Active' = Active BY <1>1 DEF Active
  <2> QED BY <1>a, <1>d, <1>1, <2>1, PlaceKept
\* Another conversation is shown.
<1>2. ASSUME NEW c \in Convs \cup {None}, Showing(c), Active' = c, UNCHANGED <<stored, loaded>>
      PROVE  Placed'
  <2>1. CASE /\ AllMarked({}) /\ c = Active
             /\ UNCHANGED <<version, view, bubble, loads, idRef, skipRef>>
    <3>1. \A s \in Sends : Steady(s) /\ (send[s].phase = "creating" => send'[s].left # "no")
      BY <2>1, MarkedSteady
    <3> QED BY <1>a, <1>d, <1>2, <2>1, <3>1, PlaceKept
  <2>2. CASE AllMarked({}) /\ skipRef = c /\ c # None
             /\ UNCHANGED <<version, loads>>
    <3>1. LateCreation BY <2>2 DEF Placed, InPlace
    <3>2. \A s \in Sends : LateOf(s) => LateOf(s)' BY <2>2, MarkedSteady DEF LateOf, Steady
    <3>3. LateCreation' BY <3>1, <3>2, LateIs DEF LateCreation, LateOf
    <3> QED BY <2>2, <3>3 DEF Placed
  <2>3. CASE AllMarked({"streaming", "waiting"}) /\ Opened(c) /\ idRef' = c /\ UNCHANGED skipRef
    <3>1. \A s \in Sends : Steady(s) /\ (send[s].phase = "creating" => send'[s].left # "no")
      BY <2>3, MarkedSteady
    <3>2. /\ bubble' = NoBubbles /\ view' # "loaded" /\ version' = version + 1
          /\ loads' \subseteq loads \cup {[conv |-> Active', version |-> version']}
      BY <1>2, <2>3 DEF Opened
    <3> QED BY <1>a, <1>2, <2>3, <3>1, <3>2, PlaceKept
  <2> QED BY <1>a, <1>2, <2>1, <2>2, <2>3, ShowingMarks
<1>3. ASSUME NEW g \in Groups, OpenGroup(g) PROVE Placed'
  <2>1. Active' = convOf[g] /\ convOf[g] \in Convs \cup {None}
    BY <1>a, <1>3 DEF OpenGroup, Active, TypeOK
  <2> QED BY <1>2, <1>3, <2>1 DEF OpenGroup
<1>4. ASSUME NEW c \in Convs \cup {None}, SelectConversation(c) PROVE Placed'
  <2>1. Active' = c BY <1>a, <1>4 DEF SelectConversation, Active, TypeOK
  <2> QED BY <1>2, <1>4, <2>1 DEF SelectConversation
<1>5. ASSUME Reload PROVE Placed'
  <2>1. \A s \in Sends : Steady(s) /\ (send[s].phase = "creating" => send'[s].left # "no")
    BY <1>a, <1>5, ReloadMarks, MarkedSteady
  <2>2. Active' = Active BY <1>5 DEF Reload, Active
  <2>3. \A m \in stored' : m \in stored \/ (m.send \in Sends /\ m.conv = send[m.send].conv)
    BY <1>a, <1>5, ReloadStores
  <2>4. /\ bubble' = NoBubbles /\ view' # "loaded" /\ idRef' = Active' /\ skipRef' = None
        /\ version' = version + 1
        /\ loads' \subseteq loads \cup {[conv |-> Active', version |-> version']}
    BY <1>5, <2>2 DEF Reload
  <2> QED BY <1>a, <2>1, <2>3, <2>4, PlaceKept
<1>6. ASSUME NEW s \in Sends, SendMessage(s) PROVE Placed'
  <2>1. /\ OnlyChanged(s) /\ send[s] \in Send /\ SendKnown(s)
        /\ send'[s] = [send[s] EXCEPT !.phase = IF idRef = None THEN "creating" ELSE "adding",
                          !.conv = idRef, !.version = version, !.group = group, !.home = Active]
    BY <1>a, <1>6, SendChanged
  <2>2. /\ send'[s].phase = (IF idRef = None THEN "creating" ELSE "adding")
        /\ send'[s].conv = idRef /\ send'[s].home = Active /\ send'[s].group = group
        /\ send'[s].left = send[s].left /\ send'[s].crossed = send[s].crossed
    BY <2>1 DEF Send
  <2>3. /\ send[s].phase = "unsent"
        /\ UNCHANGED <<version, stored, group, idRef, skipRef, view, loaded, loads>>
        /\ \A t \in Sends : t # s => bubble'[t] = bubble[t]
        /\ Active' = Active
    BY <1>a, <1>6 DEF SendMessage, TypeOK, Active
  <2>4. send[s].conv = None /\ send[s].left = "no" /\ ~send[s].crossed BY <2>1, <2>3 DEF SendKnown
  <2>5. ASSUME LateCreation PROVE LateCreation'
    <3>1. \A t \in Sends : LateOf(t) => LateOf(t)' BY <2>1, <2>4 DEF LateOf, OnlyChanged
    <3> QED BY <2>5, <3>1, LateIs DEF LateCreation, LateOf
  <2>6. ASSUME InPlace PROVE InPlace'
    <3>1. idRef = Active BY <2>6 DEF InPlace
    <3>2. WellPlaced(s)' BY <2>2, <2>3, <2>4, <3>1 DEF WellPlaced
    <3>3. \A t \in Sends : t # s => WellPlaced(t)'
      BY <2>1, <2>3, <2>6 DEF InPlace, WellPlaced, OnlyChanged
    <3>4. \A m \in stored : m.send # s BY <1>b, <1>c, <2>4, <2>6 DEF InPlace
    <3>5. \A m \in stored' : m.conv = send'[m.send].conv
      BY <1>b, <2>1, <2>3, <2>6, <3>4 DEF InPlace, OnlyChanged
    <3> QED BY <2>3, <2>6, <3>2, <3>3, <3>5 DEF InPlace
  <2> QED BY <2>3, <2>5, <2>6 DEF Placed
<1>7. ASSUME NEW s \in Sends, StopStreaming(s) PROVE Placed'
  <2>1. AllMarked({"streaming", "waiting"}) BY <1>a, <1>7, AbortedMarks DEF StopStreaming
  <2>2. \A t \in Sends : Steady(t) BY <2>1, MarkedSteady
  <2>3. /\ bubble[s] = "streaming" /\ Active' = Active
        /\ UNCHANGED <<group, idRef, skipRef, view, loaded, loads>> /\ version' = version + 1
        /\ \A t \in Sends : bubble[t] = "none" => bubble'[t] = "none"
    BY <1>a, <1>7 DEF StopStreaming, TypeOK, Active
  <2>4. ASSUME ~LateCreation, NEW m \in stored'
        PROVE  m \in stored \/ (m.send \in Sends /\ m.conv = send[m.send].conv)
    <3>1. InPlace /\ SendKnown(s) BY <1>a, <2>4 DEF Placed
    <3>2. send[s].conv = idRef BY <2>3, <3>1 DEF InPlace, WellPlaced, SendKnown
    <3>3. m \in stored \/ (m.send = s /\ m.conv = idRef)
      <4>1. CASE idRef = None BY <1>7, <4>1 DEF StopStreaming
      <4>2. CASE idRef # None
        <5>1. Posts(idRef, s, "stopped") /\ "stopped" \in Kinds
          BY <1>7, <4>2 DEF StopStreaming, Kinds, Ends
        <5> QED BY <1>a, <5>1, PostedAre
      <4> QED BY <4>1, <4>2
    <3> QED BY <3>2, <3>3
  <2> QED BY <1>a, <2>2, <2>3, <2>4, PlaceKept
<1>8. ASSUME NEW s \in Sends, ImplementationMessage(s) PROVE Placed'
  <2>1. \A m \in stored' : m \in stored \/ (m.send \in Sends /\ m.conv = send[m.send].conv)
    BY <1>a, <1>8, PostedAre DEF ImplementationMessage, HandOffTo, Kinds
  <2> QED BY <1>1, <1>8, <2>1 DEF ImplementationMessage, Steady
<1>9. ASSUME NEW l \in loads, LoadAnswered(l) PROVE Placed'
  <2>1. Active' = Active BY <1>9 DEF LoadAnswered, Active
  <2>2. \A s \in Sends : Steady(s) BY <1>9 DEF LoadAnswered, Steady
  <2>3. l.conv \in Convs BY <1>a DEF TypeOK
  <2>4. ASSUME ~LateCreation, ~Outdated(l) PROVE l.conv = Active /\ Active # None
    BY <1>c, <2>3, <2>4 DEF Placed, InPlace, Outdated
  <2>5. \/ view' = view /\ loaded' = loaded
        \/ view' # "loaded"
        \/ ~LateCreation => loaded' = Active /\ Active # None
    BY <1>9, <2>4 DEF LoadAnswered
  <2>6. /\ UNCHANGED <<group, idRef, skipRef, version, stored>> /\ loads' \subseteq loads
        /\ \A s \in Sends : bubble[s] = "none" => bubble'[s] = "none"
    BY <1>9 DEF LoadAnswered, NoBubbles
  <2> QED BY <1>a, <1>d, <2>1, <2>2, <2>5, <2>6, PlaceKept
<1>10. ASSUME NEW l \in loads, LoadNotFound(l) PROVE Placed'
  <2>1. AllMarked({"streaming", "waiting"}) BY <1>a, <1>10, AbortedMarks DEF LoadNotFound
  <2>2. \A s \in Sends : Steady(s) /\ (send[s].phase = "creating" => send'[s].left # "no")
    BY <2>1, MarkedSteady
  <2>3. Active' = None BY <1>a, <1>10 DEF LoadNotFound, Active, TypeOK
  <2> QED BY <1>a, <1>10, <2>2, <2>3, PlaceKept DEF LoadNotFound
<1>11. ASSUME NEW c \in Convs, Deleted(c) PROVE Placed'
  BY <1>1, <1>11 DEF Deleted, screen, Steady
<1>12. ASSUME NEW s \in Sends, NEW c \in Convs, ConversationCreated(s, c) PROVE Placed'
  <2>1. /\ send'[s] = [send[s] EXCEPT !.phase = "adding", !.conv = c]
        /\ \A t \in Sends : t # s =>
              send'[t] = [send[t] EXCEPT !.crossed = @ \/ send[t].phase = "creating"]
    BY <1>a, <1>12, CreationChanged
  <2>2. /\ send[s].phase = "creating" /\ idRef' = c /\ convOf' = [convOf EXCEPT ![send[s].group] = c]
        /\ skipRef' = (IF group = send[s].group THEN None ELSE c)
        /\ UNCHANGED <<group, stored, version, bubble, view, loaded, loads>>
    BY <1>12 DEF ConversationCreated
  <2>3. /\ send'[s].phase = "adding" /\ send'[s].conv = c /\ send'[s].left = send[s].left
        /\ send'[s].home = send[s].home /\ send'[s].crossed = send[s].crossed
    BY <1>a, <2>1 DEF Send
  <2>4. ASSUME NEW t \in Sends, t # s
        PROVE  /\ send'[t].conv = send[t].conv /\ send'[t].left = send[t].left
               /\ send'[t].home = send[t].home /\ send'[t].group = send[t].group
               /\ send'[t].phase = send[t].phase
               /\ send'[t].crossed = (send[t].crossed \/ send[t].phase = "creating")
    <3> DEFINE b == send[t].crossed \/ send[t].phase = "creating"
    <3>1. send'[t] = [send[t] EXCEPT !.crossed = b] BY <2>1, <2>4
    <3> HIDE DEF b
    <3>2. send'[t].crossed = b /\ send'[t].conv = send[t].conv /\ send'[t].left = send[t].left
          /\ send'[t].home = send[t].home /\ send'[t].group = send[t].group
          /\ send'[t].phase = send[t].phase
      BY <1>a, <3>1 DEF Send
    <3> QED BY <3>2 DEF b
  <2>5. CASE LateCreation'
    BY <2>2, <2>5 DEF Placed
  <2>6. CASE ~LateCreation'
    <3>1. \A t \in Sends : ~LateOf(t)'  BY <2>6 DEF LateCreation, LateOf
    <3>2. \A t \in Sends : ~LateOf(t)
      <4>1. send[s].conv = None BY <1>a, <2>2 DEF SendKnown
      <4> QED BY <2>3, <2>4, <3>1, <4>1 DEF LateOf
    <3>3. InPlace /\ SendKnown(s) BY <1>a, <3>2, LateIs DEF Placed
    <3>4. send[s].left = "no" BY <1>c, <2>2, <2>3, <3>1, <3>3 DEF SendKnown, LateOf
    <3>5. Active = None /\ group = send[s].group BY <2>2, <3>3, <3>4 DEF InPlace, WellPlaced
    <3>6. \A t \in Sends : t # s => send[t].phase # "creating" BY <2>4, <3>1 DEF LateOf
    <3>7. Active' = c BY <1>a, <2>2, <3>5 DEF Active, TypeOK
    <3>8. skipRef' = None /\ idRef' = Active' BY <2>2, <3>5, <3>7
    <3>9. view' # "loaded" BY <2>2, <3>3, <3>5 DEF InPlace
    <3>10. \A l \in loads' : l.version = version' => l.conv = Active'
      BY <1>a, <1>c, <2>2, <3>3, <3>5 DEF InPlace, TypeOK
    <3>11. ASSUME NEW t \in Sends PROVE WellPlaced(t)'
      <4>1. WellPlaced(t) /\ WellPlaced(s) /\ send[s].conv = None BY <2>2, <3>3 DEF InPlace, SendKnown
      <4>2. CASE t = s BY <2>2, <2>3, <3>7, <4>1, <4>2 DEF WellPlaced
      <4>3. CASE t # s
        BY <2>2, <2>4, <3>5, <3>6, <4>1, <4>3 DEF WellPlaced
      <4> QED BY <4>2, <4>3
    <3>12. \A m \in stored' : m.conv = send'[m.send].conv
      <4>1. send[s].conv = None BY <2>2, <3>3 DEF SendKnown
      <4>2. \A m \in stored : m.send # s BY <1>b, <1>c, <3>3, <4>1 DEF InPlace
      <4> QED BY <1>b, <2>2, <2>4, <3>3, <4>2 DEF InPlace
    <3>13. \A l \in loads' : l.version <= version' BY <2>2 DEF Placed
    <3> QED BY <3>8, <3>9, <3>10, <3>11, <3>12, <3>13 DEF InPlace, Placed
  <2> QED BY <2>5, <2>6
\* The continuations after that: they write to the conversation they hold.
<1>13. ASSUME NEW s \in Sends, OnlyChanged(s), Steady(s),
              \A t \in Sends : t # s => bubble'[t] = bubble[t],
              bubble[s] = "none" => bubble'[s] = "none",
              \A m \in stored' : m \in stored \/ (m.send \in Sends /\ m.conv = send[m.send].conv),
              UNCHANGED <<group, convOf, idRef, skipRef, view, loaded, version, loads>>
       PROVE  Placed'
  <2>1. \A t \in Sends : Steady(t) BY <1>13 DEF OnlyChanged, Steady
  <2> QED BY <1>1, <1>13, <2>1
<1>14. ASSUME NEW s \in Sends, PromptAdded(s) PROVE Placed'
  <2>1. OnlyChanged(s) /\ Steady(s)
    <3>1. /\ OnlyChanged(s)
          /\ send'[s] = IF version # send[s].version THEN [send[s] EXCEPT !.phase = "over"]
                        ELSE [send[s] EXCEPT !.phase = "streaming", !.posts = 1]
      BY <1>a, <1>14, AddedChanged
    <3> QED BY <1>a, <3>1 DEF Steady, Send
  <2>2. \A m \in stored' : m \in stored \/ (m.send \in Sends /\ m.conv = send[m.send].conv)
    BY <1>a, <1>14, PromptStores
  <2> QED BY <1>13, <1>14, <2>1, <2>2 DEF PromptAdded
<1>15. ASSUME NEW s \in Sends, SendFailed(s) PROVE Placed'
  <2>1. OnlyChanged(s) /\ Steady(s)
    <3>1. /\ OnlyChanged(s)
          /\ send'[s] = [send[s] EXCEPT !.phase = "over", !.finalized = send[s].conv # None]
      BY <1>a, <1>15, FailureChanged
    <3> QED BY <1>a, <3>1 DEF Steady, Send
  <2>2. \A m \in stored' : m \in stored \/ (m.send \in Sends /\ m.conv = send[m.send].conv)
    BY <1>a, <1>15, FailureStores
  <2>3. /\ \A t \in Sends : t # s => bubble'[t] = bubble[t]
        /\ bubble[s] = "none" => bubble'[s] = "none"
    BY <1>a, <1>15 DEF SendFailed, Shown, TypeOK
  <2> QED BY <1>13, <1>15, <2>1, <2>2, <2>3 DEF SendFailed
<1>16. ASSUME NEW s \in Sends, TerminalEvent(s) \/ StreamDone(s) \/ StreamError(s) PROVE Placed'
  <2>1. /\ Concludes(s) /\ send[s].phase = "streaming"
        /\ UNCHANGED <<group, convOf, idRef, skipRef, view, loaded, version, loads>>
    BY <1>a, <1>16, Concluding
  <2>2. OnlyChanged(s) /\ Steady(s)
    <3>1. OnlyChanged(s) BY <1>a, <2>1, ConclusionChanged
    <3>2. PICK p \in {"streaming", "over"}, e \in BOOLEAN, f \in BOOLEAN :
            send'[s] = [send[s] EXCEPT !.phase = p, !.finalized = f, !.ended = e]
      BY <1>a, <2>1, ConclusionChanged
    <3> QED BY <1>a, <3>1, <3>2 DEF Steady, Send
  <2>3. /\ \A t \in Sends : t # s => bubble'[t] = bubble[t]
        /\ bubble[s] = "none" => bubble'[s] = "none"
        /\ \A m \in stored' : m \in stored \/ (m.send \in Sends /\ m.conv = send[m.send].conv)
    <3>1. CASE \E p \in {"streaming", "over"}, e \in BOOLEAN : Finalize(s, p, e)
      <4>1. PICK p \in {"streaming", "over"}, e \in BOOLEAN : Finalize(s, p, e) BY <3>1
      <4>2. /\ \A t \in Sends : t # s => bubble'[t] = bubble[t]
            /\ bubble[s] = "none" => bubble'[s] = "none"
        BY <1>a, <4>1 DEF Finalize, Shown, TypeOK
      <4>3. \A m \in stored' : m \in stored \/ (m.send = s /\ m.conv = send[s].conv)
        <5>1. CASE AlreadyStored(s) BY <4>1, <5>1 DEF Finalize
        <5>2. CASE ~AlreadyStored(s)
          <6>1. Posts(send[s].conv, s, "answer") /\ "answer" \in Kinds
            BY <4>1, <5>2 DEF Finalize, Kinds, Ends
          <6> QED BY <1>a, <6>1, PostedAre
        <5> QED BY <5>1, <5>2
      <4> QED BY <4>2, <4>3
    <3>2. CASE \E p \in {"streaming", "over"}, e \in BOOLEAN : Ignored(s, p, e)
      <4>1. PICK p \in {"streaming", "over"}, e \in BOOLEAN : Ignored(s, p, e) BY <3>2
      <4> QED BY <4>1 DEF Ignored
    <3> QED BY <2>1, <3>1, <3>2 DEF Concludes
  <2> QED BY <1>13, <2>1, <2>2, <2>3
<1>17. ASSUME NEW s \in Sends, StreamBroken(s) PROVE Placed'
  <2>1. OnlyChanged(s) /\ Steady(s)
    <3>1. OnlyChanged(s) /\ send'[s] = [send[s] EXCEPT !.phase = "waiting"]
      BY <1>a, <1>17, BreakChanged
    <3> QED BY <1>a, <3>1 DEF Steady, Send
  <2> QED BY <1>13, <1>17, <2>1 DEF StreamBroken
<1>18. ASSUME NEW s \in Sends, PostAgain(s) PROVE Placed'
  <2>1. OnlyChanged(s) /\ Steady(s)
    <3>1. /\ OnlyChanged(s)
          /\ send'[s] = [send[s] EXCEPT !.phase = "streaming", !.posts = @ + 1, !.ended = FALSE]
      BY <1>18, PostChanged DEF Inv
    <3> QED BY <1>a, <3>1 DEF Steady, Send
  <2> QED BY <1>13, <1>18, <2>1 DEF PostAgain
<1>19. ASSUME NEW s \in Sends, NEW c \in Convs, CreationLost(s, c) PROVE Placed'
  <2>1. OnlyChanged(s) /\ Steady(s)
    <3>1. OnlyChanged(s) /\ send'[s] = [send[s] EXCEPT !.orphans = @ + 1]
      BY <1>a, <1>19, LossChanged
    <3> QED BY <1>a, <3>1 DEF Steady, Send
  <2> QED BY <1>13, <1>19, <2>1 DEF CreationLost
<1>20. CASE UNCHANGED vars BY <1>1, <1>20 DEF vars, screen, Steady
<1> QED BY <1>3, <1>4, <1>5, <1>6, <1>7, <1>8, <1>9, <1>10, <1>11, <1>12, <1>14, <1>15, <1>16,
           <1>17, <1>18, <1>19, <1>20 DEF Next, Answers

LEMMA AlwaysPlaced == Spec => [](Inv /\ Placed)
<1>1. Init => Inv /\ Placed BY InitInv, InitPlaced
<1>2. Inv /\ Placed /\ [Next]_vars => (Inv /\ Placed)' BY NextInv, NextPlaced
<1> QED BY <1>1, <1>2, PTL DEF Spec

\* Unless a conversation is created too late, what is on screen belongs to the
\* active conversation, for any number of prompts.
THEOREM ScreenNeverMixed == Spec => []ScreenIsActive
<1>1. Placed => ScreenIsActive BY DEF Placed, InPlace, WellPlaced, ScreenIsActive
<1> QED BY <1>1, AlwaysPlaced, PTL

\* Unless a conversation is created too late, every message of a prompt is
\* stored in the conversation it was typed in.
THEOREM NothingMisplaced == Spec => []StoredWhereTyped
<1>1. Inv /\ Placed => StoredWhereTyped
  <2>1. Inv => \A m \in stored : m.send \in Sends BY DEF Inv, Typed, TypeOK
  <2> QED BY <2>1 DEF Placed, InPlace, WellPlaced, StoredWhereTyped
<1> QED BY <1>1, AlwaysPlaced, PTL

=============================================================================
