--------------------------- MODULE DirectMessages ---------------------------
(***************************************************************************)
(* The messages page of the web client and the server it reads from.       *)
(*                                                                         *)
(* The page shows one conversation.  It learns of messages on three ways:  *)
(* the head page it loads when a conversation is opened (and again, by     *)
(* polling, while the socket is not trusted), the pushes of a WebSocket,   *)
(* and the recovery it runs after every acknowledged subscription, which   *)
(* reads everything after a cursor it keeps for each conversation.         *)
(* wsConnected ("Live") turns the polling off.                             *)
(*                                                                         *)
(* Asking for a page and the server's reading of it are one step; the      *)
(* answer arrives in a later one, in any order.  Messages are numbered in  *)
(* the order in which the server stores them.                              *)
(***************************************************************************)
EXTENDS Naturals, Sequences, FiniteSets, TLC

CONSTANTS
  Convs,        \* the conversations of the signed-in profile
  None,         \* no conversation, no cursor
  MaxMessages,  \* messages that are sent
  HeadPage,     \* messages of a head page (50 in the program)
  SyncPage,     \* messages of a recovery page (100)
  QueueSize,    \* pushes the server queues for a socket (64)
  MaxMoves,     \* times the user opens a conversation, or none
  MaxTroubles,  \* times something fails, or the tab is hidden or cut off
  MaxConnects   \* calls of connect() that get past its first guard

Sym == Permutations(Convs)

ASSUME MessagesAssumption ==
  /\ Convs # {} /\ None \notin Convs \cup Nat
  /\ {MaxMessages, MaxMoves, MaxTroubles} \subseteq Nat
  /\ {HeadPage, SyncPage, QueueSize, MaxConnects} \subseteq Nat \ {0}

VARIABLES
  msgs,      \* the conversation of every message stored so far
  unsent,    \* messages stored and not yet broadcast
  server,    \* server[i]: the server's end of socket i
  sel,       \* selectedId
  shown,     \* messages on screen
  cursor,    \* messageSyncCursorsRef
  loads,     \* page requests under way
  live,      \* wsConnected
  conn,      \* conn[i]: how far the i-th connect() and its socket have come
  socket,    \* the socket the handlers see (shared by all of them), or 0
  wsRef,     \* wsRef, or 0
  subRef,    \* subscribedConversationRef
  timer,     \* reconnectTimer is set
  online,    \* navigator.onLine
  moves, troubles,
  lapses     \* history: what may have let messages slip during this visit

hub == <<msgs, unsent>>
screen == <<sel, shown, cursor>>
link == <<live, conn, socket, wsRef, subRef, timer, online>>
vars == <<hub, server, screen, loads, link, moves, troubles, lapses>>

\* A call of connect() and the socket it creates share their number.
Sockets == 1 .. MaxConnects
Messages == 1 .. MaxMessages
Lapses == {"overlap", "page", "late", "token", "history"}

Frame == [type : {"ack", "gap"}, conv : Convs]
Request == [type : {"subscribe", "unsubscribe"}, conv : Convs]
NoServer == [up |-> FALSE, subs |-> {}, in |-> <<>>, tx |-> <<>>, gap |-> None,
             out |-> <<>>]
\* "first" and "after" are recoveries, without and with a cursor ("from").
Load == [kind : {"initial", "quiet", "first", "after"}, conv : Convs, from : 0 .. MaxMessages,
         page : SUBSET Messages, to : 0 .. MaxMessages, more : BOOLEAN]

TypeOK ==
  /\ msgs \in Seq(Convs) /\ Len(msgs) <= MaxMessages
  /\ unsent \subseteq 1 .. Len(msgs)
  /\ \A i \in Sockets :
       /\ DOMAIN server[i] = DOMAIN NoServer
       /\ server[i].up \in BOOLEAN /\ server[i].subs \subseteq Convs
       /\ server[i].in \in Seq(Request) /\ server[i].out \in Seq(Frame)
       /\ server[i].tx \in Seq(Messages) /\ Len(server[i].tx) <= QueueSize
       /\ server[i].gap \in Convs \cup {None}
  /\ sel \in Convs \cup {None} /\ subRef \in Convs \cup {None}
  /\ shown \subseteq 1 .. Len(msgs)
  /\ cursor \in [Convs -> 0 .. MaxMessages \cup {None}]
  /\ loads \subseteq Load
  /\ {live, timer, online} \subseteq BOOLEAN
  /\ conn \in [Sockets -> {"free", "token", "ticket", "connecting", "open",
                           "closing", "over"}]
  /\ socket \in Sockets \cup {0} /\ wsRef \in {0, socket}
  /\ moves \in 0 .. MaxMoves /\ troubles \in 0 .. MaxTroubles
  /\ lapses \subseteq Lapses

----------------------------------------------------------------------------
(* What the server stores.                                                 *)

Of(c) == {m \in 1 .. Len(msgs) : msgs[m] = c}
\* social_list_messages: the newest n.
Newest(c, n) == {m \in Of(c) : Cardinality({k \in Of(c) : k > m}) < n}
\* social_list_messages_after: the oldest n after sequence a.
After(c, a, n) ==
  {m \in Of(c) : m > a /\ Cardinality({k \in Of(c) : k > a /\ k < m}) < n}
Last(s, otherwise) ==
  IF s = {} THEN otherwise ELSE CHOOSE m \in s : \A k \in s : k <= m

\* A head page carries the cursor after its newest message (0 if it is empty).
HeadOf(kind, c, n) ==
  [kind |-> kind, conv |-> c, from |-> 0, page |-> Newest(c, n), to |-> Last(Newest(c, n), 0),
   more |-> FALSE]
HeadPages(kind, c) == IF c = None THEN {} ELSE {HeadOf(kind, c, HeadPage)}
Sync(c, a) ==
  LET page == After(c, a, SyncPage)
  IN  [kind |-> "after", conv |-> c, from |-> a, page |-> page, to |-> Last(page, a),
       more |-> \E m \in Of(c) : m > Last(page, a)]

\* A message is stored in one transaction and broadcast after it.
StoreMessage(c) ==
  /\ Len(msgs) < MaxMessages /\ unsent = {}
  /\ msgs' = Append(msgs, c)
  /\ unsent' = unsent \cup {Len(msgs')}
  /\ UNCHANGED <<server, screen, loads, link, moves, troubles, lapses>>

RoomForOneMore(s) == Len(s.tx) <= QueueSize   \* mutant: off by one
HasRoom(s) == Len(s.tx) < QueueSize

ForgetsGap(s, c) == [s EXCEPT !.subs = @ \ {c}]   \* mutant: dropped silently
SlowConsumer(s, c) == [s EXCEPT !.subs = @ \ {c}, !.gap = IF @ = None THEN c ELSE @]

\* broadcast_dm_event: queued for every subscriber whose queue is not full.
Broadcast(m) ==
  /\ m \in unsent /\ unsent' = unsent \ {m}
  /\ server' = [i \in Sockets |->
       IF msgs[m] \notin server[i].subs THEN server[i]
       ELSE IF HasRoom(server[i])
       THEN [server[i] EXCEPT !.tx = Append(@, m)]
       ELSE SlowConsumer(server[i], msgs[m])]
  /\ UNCHANGED <<msgs, screen, loads, link, moves, troubles, lapses>>

----------------------------------------------------------------------------
(* handle_social_ws: one turn of its select loop.                          *)

Sends(i, frame, s) == server' = [server EXCEPT ![i] = [s EXCEPT !.out = Append(@, frame)]]

\* Unsubscribed is acknowledged too; the client does not look at it.
HandleFrame(i) ==
  /\ server[i].up /\ server[i].in # <<>>
  /\ LET r == server[i].in[1]
         s == [server[i] EXCEPT !.in = Tail(@)]
     IN  \/ /\ r.type = "subscribe"
            /\ Sends(i, [type |-> "ack", conv |-> r.conv],
                     [s EXCEPT !.subs = @ \cup {r.conv}])
         \/ /\ r.type = "unsubscribe"
            /\ server' = [server EXCEPT ![i] = [s EXCEPT !.subs = @ \ {r.conv}]]
  /\ UNCHANGED <<hub, screen, loads, link, moves, troubles, lapses>>

\* The end of the loop: what was queued is lost, what was sent still arrives.
Down(s) == [NoServer EXCEPT !.out = s.out]

SendGap(i) ==
  /\ server[i].up /\ server[i].gap # None
  /\ Sends(i, [type |-> "gap", conv |-> server[i].gap], Down(server[i]))
  /\ UNCHANGED <<hub, screen, loads, link, moves, troubles, lapses>>

Trouble == troubles < MaxTroubles /\ troubles' = troubles + 1

\* The connection breaks or the server stops.
SocketBreaks(i) ==
  /\ Trouble
  /\ server[i].up
  /\ server' = [server EXCEPT ![i] = Down(@)]
  /\ UNCHANGED <<hub, screen, loads, link, moves, lapses>>

----------------------------------------------------------------------------
(* The screen.                                                             *)

Request1(type, c) == IF c = None THEN <<>> ELSE <<[type |-> type, conv |-> c]>>
Asked(i, requests) ==
  IF server[i].up THEN [server EXCEPT ![i].in = @ \o requests] ELSE server

\* The effects of a new selectedId: an empty screen, its head page is asked for
\* (the one of the conversation before is cancelled), and an open socket is
\* subscribed anew.
Select(c) ==
  /\ moves < MaxMoves /\ moves' = moves + 1
  /\ c # sel /\ sel' = c
  /\ shown' = {} /\ lapses' = lapses \cap {"overlap"}
  /\ loads' = {l \in loads : l.kind # "initial"} \cup HeadPages("initial", c)
  /\ IF wsRef # 0 /\ conn[wsRef] = "open"
     THEN /\ server' = Asked(wsRef,
               (IF subRef = c THEN <<>> ELSE Request1("unsubscribe", subRef)
                                             \o Request1("subscribe", c)))
          /\ live' = IF c = None THEN TRUE ELSE IF subRef # c THEN FALSE ELSE live
          /\ subRef' = c
     ELSE UNCHANGED <<server, live, subRef>>
  /\ UNCHANGED <<hub, cursor, conn, socket, wsRef, timer, online, troubles>>

AnyVisit(c) == TRUE       \* mutant: selectedIdRef is not looked at
Current(c) == c = sel

\* A page whose oldest message does not reach back to what is on screen.
Skips(page) ==
  \E m \in Of(sel) : /\ m \notin shown \cup page
                     /\ \E k \in shown : k < m
                     /\ \E k \in page : k > m

\* Where the next recovery starts, and where those under way started.
Cursors == ({cursor[sel]} \ {None})
             \cup {l.from : l \in {k \in loads : k.kind = "after" /\ k.conv = sel}}
\* An old page, or push, and a cursor that is past messages missing after it.
Late(page, to) == \E m \in Of(sel) \ (shown \cup page) : to < m /\ \E b \in Cursors : m <= b

\* Every page is merged into what is on screen.
Merge(l) ==
  /\ shown' = shown \cup l.page
  /\ cursor' = [cursor EXCEPT ![l.conv] = l.to]
  /\ lapses' = lapses \cup (IF l.kind # "after" /\ Skips(l.page) THEN {"page"} ELSE {})
                     \cup (IF Late(l.page, l.to) THEN {"late"} ELSE {})

InitialArrives(l) ==
  /\ l \in loads /\ l.kind = "initial" /\ loads' = loads \ {l}
  /\ Merge(l)
  /\ UNCHANGED <<hub, server, sel, link, moves, troubles>>

InitialFails(l) ==
  /\ Trouble
  /\ l \in loads /\ l.kind = "initial" /\ loads' = loads \ {l}
  /\ lapses' = lapses \cup {"history"}
  /\ UNCHANGED <<hub, server, screen, link, moves>>

\* loadMessagesFor, quiet: a failure changes nothing.
\* Polls are six seconds apart: one that finds a page still under way is left out.
Poll ==
  /\ ~live /\ sel # None
  /\ loads = {}
  /\ loads' = loads \cup HeadPages("quiet", sel)
  /\ UNCHANGED <<hub, server, screen, link, moves, troubles, lapses>>

QuietArrives(l) ==
  /\ l \in loads /\ l.kind = "quiet" /\ loads' = loads \ {l}
  /\ \/ Current(l.conv) /\ Merge(l)
     \/ UNCHANGED <<shown, cursor, lapses>>
  /\ UNCHANGED <<hub, server, sel, link, moves, troubles>>

----------------------------------------------------------------------------
(* recoverMessagesFor, and what its promise does in the end.               *)

\* The page goes live if the socket the handlers see is the current one and open.
Recovered(c) ==
  live' = (live \/ (wsRef # 0 /\ wsRef = socket /\ conn[socket] = "open" /\ c = sel))

CloseSocket ==
  conn' = IF socket # 0 /\ conn[socket] = "open"
          THEN [conn EXCEPT ![socket] = "closing"] ELSE conn

\* What it asks for first.
Recovery(c) ==
  IF cursor[c] = None THEN HeadOf("first", c, SyncPage) ELSE Sync(c, cursor[c])

More(l) == l.more

RecoveryArrives(l) ==
  /\ l \in loads /\ l.kind \in {"first", "after"}
  /\ \/ /\ ~Current(l.conv)
        /\ loads' = loads \ {l}
        /\ UNCHANGED <<shown, cursor, lapses, live>>
     \/ /\ Current(l.conv) /\ Merge(l)
        /\ IF More(l)
           THEN loads' = (loads \ {l}) \cup {Sync(l.conv, l.to)} /\ UNCHANGED live
           ELSE loads' = loads \ {l} /\ Recovered(l.conv)
  /\ UNCHANGED <<hub, server, sel, conn, socket, wsRef, subRef, timer,
                 online, moves, troubles>>

RecoveryFails(l) ==
  /\ Trouble
  /\ l \in loads /\ l.kind \in {"first", "after"} /\ loads' = loads \ {l}
  /\ live' = FALSE /\ CloseSocket
  /\ UNCHANGED <<hub, server, screen, socket, wsRef, subRef, timer, online,
                 moves, lapses>>

----------------------------------------------------------------------------
(* The socket effect.  detachSocket takes the handlers off and closes.     *)

InFlight == {i \in Sockets : conn[i] \in {"token", "ticket"}}
IsOpen(i) == i # 0 /\ conn[i] = "open"

Detached(is) == [i \in Sockets |-> IF i \in is THEN "over" ELSE conn[i]]
Hangup(is) == [i \in Sockets |-> IF i \in is THEN NoServer ELSE server[i]]

\* connect() up to its first await; offline it only takes Live away.
Connects ==
  IF ~online' THEN live' = FALSE /\ UNCHANGED <<conn, lapses>>
  ELSE \E i \in Sockets :
         /\ conn[i] = "free" /\ \A j \in Sockets : j < i => conn[j] # "free"
         /\ conn' = [conn EXCEPT ![i] = "token"]
         /\ lapses' = IF InFlight = {} /\ wsRef = 0 THEN lapses ELSE lapses \cup {"overlap"}
         /\ UNCHANGED live

\* The reconnect timer fires; the other callers of connect() are Visible and Online.
Reconnect ==
  /\ timer /\ timer' = FALSE
  /\ online' = online
  /\ Connects
  /\ UNCHANGED <<hub, server, screen, loads, socket, wsRef, subRef, moves, troubles>>

\* The token is there: the socket before is detached, the ticket asked for.
TokenArrives(i) ==
  /\ conn[i] = "token"
  /\ conn' = [Detached({socket}) EXCEPT ![i] = "ticket"]
  /\ server' = Hangup({socket})
  /\ socket' = 0 /\ wsRef' = 0
  /\ UNCHANGED <<hub, screen, loads, live, subRef, timer, online, moves,
                 troubles, lapses>>

TicketArrives(i) ==
  /\ conn[i] = "ticket"
  /\ conn' = [conn EXCEPT ![i] = "connecting"]
  /\ socket' = i /\ wsRef' = i
  /\ UNCHANGED <<hub, server, screen, loads, live, subRef, timer, online,
                 moves, troubles, lapses>>

\* Either request fails, or there is no token: try again later.
ConnectFails(i) ==
  /\ Trouble
  /\ conn[i] \in {"token", "ticket"}
  /\ conn' = [conn EXCEPT ![i] = "over"]
  /\ live' = FALSE
  /\ timer' = (timer \/ online)
  /\ UNCHANGED <<hub, server, screen, loads, socket, wsRef, subRef, online,
                 moves, lapses>>

\* onopen.  It subscribes through the shared variable, which may by now name
\* a later socket; with nothing to subscribe to the page is live at once.
Opened(i) ==
  /\ conn[i] = "connecting"
  /\ conn' = [conn EXCEPT ![i] = "open"]
  /\ LET up == [server EXCEPT ![i].up = TRUE]
     IN  IF sel # None /\ socket # 0 /\ conn'[socket] = "open"
         THEN /\ server' = IF up[socket].up
                           THEN [up EXCEPT ![socket].in = @ \o Request1("subscribe", sel)]
                           ELSE up
              /\ subRef' = sel /\ live' = FALSE
         ELSE server' = up /\ live' = TRUE /\ UNCHANGED subRef
  /\ UNCHANGED <<hub, screen, loads, socket, wsRef, timer, online, moves,
                 troubles, lapses>>

\* onmessage.
Receive(i) ==
  /\ IsOpen(i) /\ server[i].out # <<>>
  /\ server' = [server EXCEPT ![i].out = Tail(@)]
  /\ LET f == server[i].out[1]
     IN  \/ /\ f.type = "ack"
            /\ loads' = loads \cup (IF f.conv = sel THEN {Recovery(sel)} ELSE {})
            /\ UNCHANGED <<live, conn>>
         \/ /\ f.type = "gap"
            /\ IF f.conv = sel THEN live' = FALSE /\ CloseSocket
                               ELSE UNCHANGED <<live, conn>>
            /\ UNCHANGED loads
  /\ UNCHANGED <<hub, sel, shown, cursor, socket, wsRef, subRef, timer, online,
                 moves, troubles, lapses>>

\* The same, but getToken has none for a moment: nothing is read, yet the
\* promise of the recovery is fulfilled.
ReceiveWithoutToken(i) ==
  /\ Trouble
  /\ IsOpen(i) /\ server[i].out # <<>>
  /\ server[i].out[1] = [type |-> "ack", conv |-> sel]
  /\ server' = [server EXCEPT ![i].out = Tail(@)]
  /\ Recovered(sel)
  /\ lapses' = lapses \cup {"token"}
  /\ UNCHANGED <<hub, screen, loads, conn, socket, wsRef, subRef, timer, online, moves>>

\* The server takes the next push from the queue and the page receives it, after
\* whatever was sent before.
Push(i) ==
  /\ IsOpen(i) /\ server[i].out = <<>> /\ server[i].tx # <<>>
  /\ server' = [server EXCEPT ![i].tx = Tail(@)]
  /\ LET m == server[i].tx[1]
     IN  IF ~Current(msgs[m]) THEN UNCHANGED <<shown, lapses>>
         ELSE /\ shown' = shown \cup {m}
              /\ lapses' = lapses \cup (IF Late({m}, m) THEN {"late"} ELSE {})
  /\ UNCHANGED <<hub, sel, cursor, loads, link, moves, troubles>>

NoTimer == FALSE     \* mutant: onclose does not try again
TryAgain == online

\* onclose: of a socket closed here, or broken with nothing left to receive.
Closed(i) ==
  /\ \/ conn[i] = "closing"
     \/ IsOpen(i) /\ ~server[i].up /\ server[i].out = <<>>
  /\ conn' = [conn EXCEPT ![i] = "over"]
  /\ server' = Hangup({i})
  /\ wsRef' = 0 /\ subRef' = None /\ live' = FALSE
  /\ timer' = (timer \/ TryAgain)
  /\ UNCHANGED <<hub, screen, loads, socket, online, moves, troubles, lapses>>

\* The handshake fails.
Refused(i) ==
  /\ Trouble
  /\ conn[i] = "connecting"
  /\ conn' = [conn EXCEPT ![i] = "over"]
  /\ wsRef' = 0 /\ subRef' = None /\ live' = FALSE
  /\ timer' = (timer \/ TryAgain)
  /\ UNCHANGED <<hub, server, screen, loads, socket, online, moves, lapses>>

GoOffline ==
  /\ Trouble
  /\ online /\ online' = FALSE
  /\ live' = FALSE /\ timer' = FALSE
  /\ conn' = Detached({socket}) /\ server' = Hangup({socket})
  /\ socket' = 0 /\ wsRef' = 0 /\ subRef' = None
  /\ UNCHANGED <<hub, screen, loads, moves, lapses>>

GoOnline ==
  /\ ~online /\ online' = TRUE
  /\ timer' = FALSE
  /\ Connects
  /\ UNCHANGED <<hub, server, screen, loads, socket, wsRef, subRef, moves, troubles>>

\* The tab was hidden and is seen again: load, and connect unless that is under way
\* (a connect() that waits for its token or its ticket is not looked for).
Visible ==
  /\ Trouble
  /\ loads' = loads \cup HeadPages("quiet", sel)
  /\ online' = online
  /\ IF wsRef # 0 /\ conn[wsRef] \in {"connecting", "open"}
     THEN UNCHANGED <<conn, live, timer, lapses>>
     ELSE timer' = FALSE /\ Connects
  /\ UNCHANGED <<hub, server, screen, socket, wsRef, subRef, moves>>

----------------------------------------------------------------------------
Init ==
  /\ msgs = <<>> /\ unsent = {}
  /\ server = [i \in Sockets |-> NoServer]
  /\ sel \in Convs \cup {None} /\ shown = {}
  /\ cursor = [c \in Convs |-> None]
  /\ loads = HeadPages("initial", sel)
  /\ live = FALSE /\ conn = [i \in Sockets |-> IF i = 1 THEN "token" ELSE "free"]
  /\ socket = 0 /\ wsRef = 0 /\ subRef = None /\ timer = FALSE /\ online = TRUE
  /\ moves = 0 /\ troubles = 0 /\ lapses = {}

\* What the network, the server and the browser do by themselves.
Connection(i) ==
  \/ TokenArrives(i) \/ TicketArrives(i) \/ Opened(i) \/ Receive(i) \/ Closed(i)
  \/ HandleFrame(i) \/ Push(i) \/ SendGap(i)
Answer(l) == InitialArrives(l) \/ QuietArrives(l)
             \/ RecoveryArrives(l)
Failure ==
  \/ \E l \in loads : InitialFails(l) \/ RecoveryFails(l)
  \/ \E i \in Sockets : ConnectFails(i) \/ Refused(i) \/ SocketBreaks(i)
                        \/ ReceiveWithoutToken(i)
  \/ GoOffline \/ Visible

Next ==
  \/ \E c \in Convs \cup {None} : Select(c)
  \/ \E c \in Convs : StoreMessage(c)
  \/ \E m \in unsent : Broadcast(m)
  \/ \E i \in Sockets : Connection(i)
  \/ \E l \in loads : Answer(l)
  \/ Poll \/ Reconnect \/ GoOnline
  \/ Failure

Spec == Init /\ [][Next]_vars

----------------------------------------------------------------------------
\* The message reaches the screen without any further poll.
Coming(m) ==
  LET s == server[wsRef]
  IN  \/ \E l \in loads :
           /\ l.conv = sel /\ l.kind # "quiet"
           /\ m \in l.page \/ l.more
      \/ wsRef # 0 /\
           \/ ~s.up \/ s.gap # None
           \/ m \in unsent /\ sel \in s.subs
           \/ m \in {s.tx[n] : n \in 1 .. Len(s.tx)}
           \/ \E n \in 1 .. Len(s.in) : s.in[n] = [type |-> "subscribe", conv |-> sel]
           \/ \E n \in 1 .. Len(s.out) : s.out[n] = [type |-> "ack", conv |-> sel]

\* History: older than all on screen, or than a head page that is under way.
Older(m) ==
  \/ shown # {} /\ \A k \in shown : m < k
  \/ \E l \in loads : /\ l.kind \in {"initial", "first"} /\ l.conv = sel
                      /\ l.page # {} /\ \A k \in l.page : m < k

\* While the page says Live and does not poll, no message is missed: what is
\* not history is on screen or on its way.
CaughtUp == live /\ sel # None => \A m \in Of(sel) \ shown : Coming(m) \/ Older(m)

\* The page catches up whenever it goes live, but for the five lapses.
LiveIsCaughtUp == lapses = {} => CaughtUp

\* Only messages of the open conversation are on screen.
ShownIsSelected == \A m \in shown : msgs[m] = sel

\* A page that is online always has a socket, or is about to try for one.
NeverAbandoned ==
  online => \/ timer \/ InFlight # {}
            \/ \E i \in Sockets : conn[i] \in {"connecting", "open", "closing"}
=============================================================================
