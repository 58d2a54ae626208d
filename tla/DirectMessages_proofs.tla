----------------------- MODULE DirectMessages_proofs -----------------------
(***************************************************************************)
(* Proofs about DirectMessages, for any conversations, messages, page and  *)
(* queue sizes, moves, failures and connections: what is on screen (Visit),*)
(* that the page keeps trying to connect (Trying), the types (IInv), and   *)
(* that while it is live nothing is missed (NothingMissed).                *)
(***************************************************************************)
EXTENDS DirectMessages, FiniteMath

----------------------------------------------------------------------------
(* One conversation on screen.  Every page is of the conversation it was    *)
(* asked for; the ones that are merged without a look at the selection are  *)
(* cancelled when it changes.                                               *)

Stored == 1 .. Len(msgs)

HubOK == msgs \in Seq(Convs) /\ unsent \subseteq Stored

Queued == /\ server \in [Sockets -> [up : BOOLEAN, subs : SUBSET Convs, in : Seq(Request),
                                     tx : Seq(Stored), gap : Convs \cup {None}, out : Seq(Frame)]]

PageOK(l) == l.page \subseteq Of(l.conv) /\ (l.kind = "initial" => l.conv = sel)

Shown == \A m \in shown : m \in Of(sel)

Visit == /\ HubOK /\ Queued /\ Shown /\ (sel \in Convs \cup {None})
         /\ \A l \in loads : PageOK(l)
         /\ subRef \in Convs \cup {None} /\ socket \in Sockets \cup {0} /\ wsRef \in {0, socket}

LEMMA PagesOK ==
  ASSUME NEW c
  PROVE  /\ \A k : HeadOf(k, c, HeadPage).page \subseteq Of(c) /\ HeadOf(k, c, SyncPage).page \subseteq Of(c)
         /\ \A a : Sync(c, a).page \subseteq Of(c) /\ Sync(c, a).conv = c /\ Sync(c, a).kind = "after"
         /\ \A k, n : HeadOf(k, c, n).conv = c /\ HeadOf(k, c, n).kind = k
BY DEF HeadOf, Sync, Newest, After

LEMMA AskedPagesOK ==
  ASSUME NEW c
  PROVE  /\ \A l \in HeadPages("initial", c) : l.page \subseteq Of(c) /\ l.conv = c
         /\ \A l \in HeadPages("quiet", c) : l.page \subseteq Of(c) /\ l.conv = c /\ l.kind = "quiet"
         /\ Recovery(c).page \subseteq Of(c) /\ Recovery(c).conv = c /\ Recovery(c).kind \in {"first", "after"}
BY PagesOK DEF HeadPages, Recovery

\* The server's end of a socket stays a record of its kind.
Ends == [up : BOOLEAN, subs : SUBSET Convs, in : Seq(Request), tx : Seq(Stored),
         gap : Convs \cup {None}, out : Seq(Frame)]

LEMMA NoServerIsEnd == NoServer \in Ends
BY DEF NoServer, Ends

LEMMA DownIsEnd == ASSUME NEW s \in Ends PROVE Down(s) \in Ends
<1>1. NoServer \in Ends /\ s.out \in Seq(Frame)
  BY NoServerIsEnd DEF Ends
<1> QED BY <1>1 DEF Down, Ends

LEMMA HangupQueued == ASSUME Visit, NEW is, server' = Hangup(is), UNCHANGED msgs PROVE Queued'
BY NoServerIsEnd DEF Hangup, Visit, Queued, Ends, Stored

LEMMA OneEndQueued ==
  ASSUME Visit, NEW i \in Sockets, NEW e \in Ends, server' = [server EXCEPT ![i] = e], UNCHANGED msgs
  PROVE  Queued'
BY DEF Visit, Queued, Ends, Stored

LEMMA RequestsOK ==
  ASSUME Visit, NEW i \in Sockets, NEW r \in Seq(Request)
  PROVE  /\ [server[i] EXCEPT !.in = @ \o r] \in Ends
         /\ Asked(i, r) \in [Sockets -> Ends]
<1>1. server[i] \in Ends /\ server \in [Sockets -> Ends]
  BY DEF Visit, Queued, Ends
<1>2. server[i].in \o r \in Seq(Request)
  BY <1>1 DEF Ends
<1>3. [server[i] EXCEPT !.in = @ \o r] \in Ends
  BY <1>1, <1>2 DEF Ends
<1> QED BY <1>1, <1>3 DEF Asked

LEMMA Request1OK ==
  ASSUME NEW c \in Convs \cup {None}, NEW t \in {"subscribe", "unsubscribe"}
  PROVE  Request1(t, c) \in Seq(Request)
<1>1. <<>> \in Seq(Request)
  OBVIOUS
<1>2. CASE c # None
  <2>1. [type |-> t, conv |-> c] \in Request
    BY <1>2 DEF Request
  <2> QED BY <1>2, <2>1 DEF Request1
<1> QED BY <1>1, <1>2 DEF Request1

\* One more message: what is queued and on screen stays as stored.
LEMMA VisitStore == ASSUME Visit, NEW c \in Convs, StoreMessage(c) PROVE Visit'
<1>1. /\ msgs' \in Seq(Convs) /\ Len(msgs') = Len(msgs) + 1
      /\ \A m \in Stored : msgs'[m] = msgs[m]
  BY DEF StoreMessage, Visit, HubOK, Stored
<1>2. Stored \subseteq Stored' /\ \A d : Of(d) \subseteq Of(d)'
  BY <1>1 DEF Stored, Of, Visit, HubOK
<1>3. HubOK'
  BY <1>1, <1>2 DEF StoreMessage, Visit, HubOK, Stored
<1>4. Queued'
  <2>1. \A q : q \in Seq(Stored) => q \in Seq(Stored')
    BY <1>2
  <2> QED BY <2>1 DEF StoreMessage, Visit, Queued
<1>5. \A l \in loads' : PageOK(l)'
  BY <1>2 DEF StoreMessage, Visit, PageOK, screen
<1> QED BY <1>2, <1>3, <1>4, <1>5 DEF StoreMessage, Visit, Shown, screen, link

LEMMA VisitBroadcast == ASSUME Visit, NEW m \in unsent, Broadcast(m) PROVE Visit'
<1>1. ASSUME NEW i \in Sockets PROVE server'[i] \in Ends
  <2>1. server[i] \in Ends /\ m \in Stored /\ msgs[m] \in Convs
    BY DEF Visit, Queued, Ends, HubOK, Stored
  <2>2. Append(server[i].tx, m) \in Seq(Stored)
    BY <2>1 DEF Ends
  <2>3. [server[i] EXCEPT !.tx = Append(@, m)] \in Ends
    BY <2>1, <2>2 DEF Ends
  <2>4. SlowConsumer(server[i], msgs[m]) \in Ends
    BY <2>1 DEF SlowConsumer, Ends
  <2> QED BY <2>1, <2>3, <2>4 DEF Broadcast
<1>2. Queued'
  BY <1>1 DEF Broadcast, Queued, Ends, Stored
<1> QED BY <1>2 DEF Broadcast, Visit, HubOK, Stored, Shown, PageOK, Of, screen, link

\* The server's turns, and a socket that breaks.
LEMMA VisitServer ==
  ASSUME Visit, NEW i \in Sockets, HandleFrame(i) \/ SendGap(i) \/ SocketBreaks(i)
  PROVE  Visit'
<1>a. server[i] \in Ends
  BY DEF Visit, Queued, Ends
<1>b. UNCHANGED <<hub, screen, loads, link>>
  BY DEF HandleFrame, SendGap, SocketBreaks
<1>1. ASSUME NEW f \in Frame, NEW s \in Ends, Sends(i, f, s) PROVE Queued'
  <2>1. Append(s.out, f) \in Seq(Frame)
    BY DEF Ends
  <2>2. [s EXCEPT !.out = Append(@, f)] \in Ends
    BY <2>1 DEF Ends
  <2> QED BY <1>b, <1>1, <2>2, OneEndQueued DEF Sends, hub
<1>2. CASE SendGap(i)
  <2>1. [type |-> "gap", conv |-> server[i].gap] \in Frame /\ Down(server[i]) \in Ends
    BY <1>a, <1>2, DownIsEnd DEF SendGap, Ends, Frame
  <2>2. Queued'
    BY <1>1, <1>2, <2>1 DEF SendGap
  <2> QED BY <1>b, <2>2 DEF Visit, HubOK, Stored, Shown, PageOK, Of, hub, screen, link
<1>3. CASE SocketBreaks(i)
  <2>1. server' = [server EXCEPT ![i] = Down(server[i])]
    BY <1>3 DEF SocketBreaks, Visit, Queued
  <2>2. Queued'
    BY <1>a, <1>b, <2>1, DownIsEnd, OneEndQueued DEF hub
  <2> QED BY <1>b, <2>2 DEF Visit, HubOK, Stored, Shown, PageOK, Of, hub, screen, link
<1>4. CASE HandleFrame(i)
  <2> DEFINE r == server[i].in[1]
             s == [server[i] EXCEPT !.in = Tail(@)]
  <2>1. r \in Request /\ Tail(server[i].in) \in Seq(Request)
    BY <1>a, <1>4 DEF HandleFrame, Ends
  <2>2. s \in Ends
    BY <1>a, <2>1 DEF Ends
  <2>3. [s EXCEPT !.subs = @ \cup {r.conv}] \in Ends /\ [s EXCEPT !.subs = @ \ {r.conv}] \in Ends
    BY <2>1, <2>2 DEF Ends, Request
  <2>4. [type |-> "ack", conv |-> r.conv] \in Frame
    BY <2>1 DEF Request, Frame
  <2>5. Queued'
    BY <1>b, <1>1, <1>4, <2>3, <2>4, OneEndQueued DEF HandleFrame, hub
  <2> QED BY <1>b, <2>5 DEF Visit, HubOK, Stored, Shown, PageOK, Of, hub, screen, link
<1> QED BY <1>2, <1>3, <1>4

\* The user opens another conversation: the screen is empty, the head page of
\* the conversation before is not waited for any more.
LEMMA VisitSelect == ASSUME Visit, NEW c \in Convs \cup {None}, Select(c) PROVE Visit'
<1>1. UNCHANGED hub /\ sel' = c /\ shown' = {} /\ subRef' \in Convs \cup {None}
  BY DEF Select, Visit
<1>2. UNCHANGED <<socket, wsRef>>
  BY DEF Select
<1>3. \A l \in loads' : PageOK(l)'
  <2> SUFFICES ASSUME NEW l \in loads' PROVE PageOK(l)'
    OBVIOUS
  <2>1. (l \in loads /\ l.kind # "initial") \/ l \in HeadPages("initial", c)
    BY DEF Select
  <2> QED BY <1>1, <2>1, AskedPagesOK DEF Visit, PageOK, Of, hub
<1>4. Queued'
  <2>1. CASE UNCHANGED server
    BY <1>1, <2>1 DEF Visit, Queued, Stored, hub
  <2>2. CASE wsRef # 0 /\ server' = Asked(wsRef,
               (IF subRef = c THEN <<>> ELSE Request1("unsubscribe", subRef)
                                             \o Request1("subscribe", c)))
    <3> DEFINE rs == IF subRef = c THEN <<>> ELSE Request1("unsubscribe", subRef)
                                                  \o Request1("subscribe", c)
    <3>1. Request1("unsubscribe", subRef) \in Seq(Request) /\ Request1("subscribe", c) \in Seq(Request)
      BY Request1OK DEF Visit
    <3>2. rs \in Seq(Request)
      BY <3>1
    <3>3. wsRef \in Sockets
      BY <2>2 DEF Visit
    <3>4. server' \in [Sockets -> Ends]
      BY <2>2, <3>2, <3>3, RequestsOK
    <3> QED BY <1>1, <3>4 DEF Queued, Ends, Stored, hub
  <2> QED BY <2>1, <2>2 DEF Select
<1> QED BY <1>1, <1>2, <1>3, <1>4 DEF Visit, HubOK, Stored, Shown, hub

\* Pages are asked for.
LEMMA VisitAsks ==
  ASSUME Visit, Poll \/ Visible \/ (\E i \in Sockets : ReceiveWithoutToken(i) \/ Receive(i))
  PROVE  Visit'
<1>1. UNCHANGED <<hub, screen, socket, wsRef, subRef>>
  BY DEF Poll, Visible, Receive, ReceiveWithoutToken, link, screen
<1>2. \A l \in loads' : PageOK(l)'
  <2> SUFFICES ASSUME NEW l \in loads' PROVE PageOK(l)'
    OBVIOUS
  <2>1. l \in loads \/ l \in HeadPages("quiet", sel) \/ l = Recovery(sel)
    BY DEF Poll, Visible, Receive, ReceiveWithoutToken
  <2> QED BY <1>1, <2>1, AskedPagesOK DEF Visit, PageOK, Of, hub, screen
<1>3. Queued'
  <2>1. CASE UNCHANGED server
    BY <1>1, <2>1 DEF Visit, Queued, Stored, hub
  <2>2. ASSUME NEW i \in Sockets, server[i].out # <<>>,
               server' = [server EXCEPT ![i].out = Tail(@)]
        PROVE  Queued'
    <3>1. server[i] \in Ends /\ server \in [Sockets -> Ends]
      BY DEF Visit, Queued, Ends
    <3>2. Tail(server[i].out) \in Seq(Frame)
      BY <2>2, <3>1 DEF Ends
    <3>3. [server[i] EXCEPT !.out = Tail(@)] \in Ends
      BY <3>1, <3>2 DEF Ends
    <3>4. server' = [server EXCEPT ![i] = [server[i] EXCEPT !.out = Tail(@)]]
      BY <2>2, <3>1
    <3> QED BY <1>1, <3>3, <3>4, OneEndQueued DEF hub
  <2> QED BY <2>1, <2>2 DEF Poll, Visible, Receive, ReceiveWithoutToken
<1> QED BY <1>1, <1>2, <1>3 DEF Visit, HubOK, Stored, Shown, Of, hub, screen

\* Pages arrive, or do not.
LEMMA VisitAnswers ==
  ASSUME Visit, NEW l \in loads, Answer(l) \/ InitialFails(l) \/ RecoveryFails(l)
  PROVE  Visit'
<1>1. UNCHANGED <<hub, server, sel, socket, wsRef, subRef>>
  BY DEF Answer, InitialArrives, QuietArrives, RecoveryArrives, InitialFails, RecoveryFails, link,
     screen
<1>2. \A k \in loads' : PageOK(k)'
  <2> SUFFICES ASSUME NEW k \in loads' PROVE PageOK(k)'
    OBVIOUS
  <2>1. k \in loads \/ k = Sync(l.conv, l.to)
    BY DEF Answer, InitialArrives, QuietArrives, RecoveryArrives, InitialFails, RecoveryFails
  <2> QED BY <1>1, <2>1, PagesOK DEF Visit, PageOK, Of, hub
<1>3. shown' = shown \/ (shown' = shown \cup l.page /\ l.conv = sel)
  BY DEF Answer, InitialArrives, QuietArrives, RecoveryArrives, InitialFails, RecoveryFails, Merge,
     Current, Visit, PageOK, screen
<1>4. Shown'
  BY <1>1, <1>3 DEF Visit, Shown, PageOK, Of, hub
<1> QED BY <1>1, <1>2, <1>4 DEF Visit, HubOK, Queued, Stored, hub

\* A push is looked at when it arrives, not when it was queued.
LEMMA VisitPush == ASSUME Visit, NEW i \in Sockets, Push(i) PROVE Visit'
<1>a. server[i] \in Ends /\ server \in [Sockets -> Ends] /\ server[i].tx # <<>>
  BY DEF Visit, Queued, Ends, Push
<1>b. UNCHANGED <<hub, sel, loads, link>>
  BY DEF Push
<1>1. server[i].tx[1] \in Stored /\ Tail(server[i].tx) \in Seq(Stored)
  BY <1>a DEF Ends
<1>2. [server[i] EXCEPT !.tx = Tail(@)] \in Ends
  BY <1>a, <1>1 DEF Ends
<1>3. server' = [server EXCEPT ![i] = [server[i] EXCEPT !.tx = Tail(@)]]
  BY <1>a DEF Push
<1>4. Queued'
  BY <1>b, <1>2, <1>3, OneEndQueued DEF hub
<1>5. shown' \subseteq shown \cup {m \in Stored : msgs[m] = sel}
  BY <1>1 DEF Push, Current
<1>6. Shown'
  BY <1>b, <1>5 DEF Visit, Shown, Of, Stored, hub
<1> QED BY <1>b, <1>4, <1>6 DEF Visit, HubOK, Stored, PageOK, Of, hub, link

\* The socket effect changes nothing of what is on screen.
LEMMA VisitConnection ==
  ASSUME Visit, \/ \E i \in Sockets : \/ TokenArrives(i) \/ TicketArrives(i) \/ Opened(i)
                                       \/ Closed(i) \/ ConnectFails(i) \/ Refused(i)
                \/ GoOffline \/ GoOnline \/ Reconnect
  PROVE  Visit'
<1>1. UNCHANGED <<hub, screen, loads>>
  BY DEF TokenArrives, TicketArrives, Opened, Closed, ConnectFails, Refused, GoOffline, GoOnline,
     Reconnect
<1>2. /\ subRef' \in Convs \cup {None}
      /\ socket' \in Sockets \cup {0} /\ wsRef' \in {0, socket'}
  BY DEF TokenArrives, TicketArrives, Opened, Closed, ConnectFails, Refused, GoOffline, GoOnline,
     Reconnect, Visit
<1>3. Queued'
  <2>1. CASE UNCHANGED server
    BY <1>1, <2>1 DEF Visit, Queued, Stored, hub
  <2>2. CASE \E is : server' = Hangup(is)
    BY <1>1, <2>2, HangupQueued DEF hub
  <2>3. ASSUME NEW i \in Sockets, Opened(i) PROVE Queued'
    <3> DEFINE up == [server EXCEPT ![i].up = TRUE]
    <3>1. server \in [Sockets -> Ends] /\ up \in [Sockets -> Ends]
      BY DEF Visit, Queued, Ends
    <3>2. sel # None => Request1("subscribe", sel) \in Seq(Request)
      BY Request1OK DEF Visit
    <3>3. CASE UNCHANGED socket /\ socket \in Sockets /\ sel # None
               /\ server' = [up EXCEPT ![socket].in = @ \o Request1("subscribe", sel)]
      <4>1. up[socket].in \o Request1("subscribe", sel) \in Seq(Request)
        BY <3>1, <3>2, <3>3 DEF Ends
      <4>2. [up[socket] EXCEPT !.in = @ \o Request1("subscribe", sel)] \in Ends
        BY <3>1, <3>3, <4>1 DEF Ends
      <4>3. server' = [up EXCEPT ![socket] = [up[socket] EXCEPT !.in = @ \o Request1("subscribe", sel)]]
        BY <3>1, <3>3
      <4> QED BY <1>1, <3>1, <3>3, <4>2, <4>3 DEF Queued, Ends, Stored, hub
    <3>4. CASE server' = up
      BY <1>1, <3>1, <3>4 DEF Queued, Ends, Stored, hub
    <3> QED BY <2>3, <3>3, <3>4 DEF Opened, Visit
  <2> QED BY <2>1, <2>2, <2>3 DEF TokenArrives, TicketArrives, Closed, ConnectFails, Refused,
                                  GoOffline, GoOnline, Reconnect
<1> QED BY <1>1, <1>2, <1>3 DEF Visit, HubOK, Stored, Shown, PageOK, Of, hub, screen

LEMMA VisitInit == Init => Visit
<1> SUFFICES ASSUME Init PROVE Visit
  OBVIOUS
<1>1. <<>> \in Seq(Convs)
  OBVIOUS
<1>2. server \in [Sockets -> Ends]
  BY NoServerIsEnd DEF Init
<1>3. \A l \in loads : PageOK(l)
  BY AskedPagesOK DEF Init, PageOK
<1> QED BY <1>1, <1>2, <1>3 DEF Init, Visit, HubOK, Queued, Ends, Shown, Stored

LEMMA VisitNext == Visit /\ [Next]_vars => Visit'
<1> SUFFICES ASSUME Visit, [Next]_vars PROVE Visit'
  OBVIOUS
<1>1. CASE UNCHANGED vars
  BY <1>1 DEF vars, hub, screen, link, Visit, HubOK, Queued, Stored, Shown, PageOK, Of
<1>2. ASSUME NEW i \in Sockets, Connection(i) PROVE Visit'
  BY <1>2, VisitAsks, VisitServer, VisitPush, VisitConnection DEF Connection
<1>3. CASE Failure
  BY <1>3, VisitAsks, VisitServer, VisitAnswers, VisitConnection DEF Failure
<1> QED BY <1>1, <1>2, <1>3, VisitSelect, VisitStore, VisitBroadcast, VisitAsks, VisitAnswers,
           VisitConnection DEF Next

\* Whatever arrives late, in whatever order, and however often the user moves:
\* only messages of the open conversation are on screen.
THEOREM ShownIsOfTheSelected == Spec => []ShownIsSelected
<1>1. Visit => ShownIsSelected
  BY DEF Visit, Shown, ShownIsSelected, Of
<1> QED BY <1>1, VisitInit, VisitNext, PTL DEF Spec

----------------------------------------------------------------------------
(* The page never stops trying to connect.                                  *)

Trying == /\ NeverAbandoned /\ online \in BOOLEAN
          /\ DOMAIN conn = Sockets

LEMMA TryingNext == Trying /\ [Next]_vars => Trying'
<1> SUFFICES ASSUME Trying, [Next]_vars PROVE Trying'
  OBVIOUS
<1>1. CASE UNCHANGED <<conn, timer, online>>
  BY <1>1 DEF Trying, NeverAbandoned, InFlight
<1>2. ASSUME Connects, online' \in BOOLEAN PROVE Trying' \/ (UNCHANGED <<conn, online>> /\ ~online)
  BY <1>2 DEF Connects, Trying, NeverAbandoned, InFlight
<1>3. CASE Reconnect \/ GoOnline
  BY <1>2, <1>3 DEF Reconnect, GoOnline, Trying, NeverAbandoned, InFlight, Connects
<1>4. CASE Visible
  BY <1>1, <1>2, <1>4 DEF Visible, Trying, NeverAbandoned, InFlight, Connects
<1>5. CASE GoOffline
  BY <1>5 DEF GoOffline, Trying, NeverAbandoned, Detached
<1>6. ASSUME NEW i \in Sockets, TokenArrives(i) \/ TicketArrives(i) \/ Opened(i) PROVE Trying'
  BY <1>6 DEF TokenArrives, TicketArrives, Opened, Trying, NeverAbandoned, InFlight, Detached
<1>7. ASSUME NEW i \in Sockets, ConnectFails(i) \/ Refused(i) \/ Closed(i) PROVE Trying'
  BY <1>7 DEF ConnectFails, Refused, Closed, TryAgain, Trying, NeverAbandoned
<1>8. ASSUME CloseSocket, UNCHANGED <<timer, online>> PROVE Trying'
  BY <1>8 DEF CloseSocket, Trying, NeverAbandoned, InFlight
<1>9. ASSUME NEW l \in loads, RecoveryFails(l) PROVE Trying'
  BY <1>8, <1>9 DEF RecoveryFails
<1>10. ASSUME NEW i \in Sockets, Receive(i) PROVE Trying'
  BY <1>1, <1>8, <1>10 DEF Receive
<1>11. ASSUME NEW l \in loads, Answer(l) \/ InitialFails(l) PROVE Trying'
  BY <1>1, <1>11 DEF Answer, InitialArrives, QuietArrives, RecoveryArrives, InitialFails, link
<1>12. ASSUME NEW i \in Sockets, \/ HandleFrame(i) \/ Push(i) \/ SendGap(i) \/ SocketBreaks(i)
                                 \/ ReceiveWithoutToken(i)
       PROVE  Trying'
  BY <1>1, <1>12 DEF HandleFrame, Push, SendGap, SocketBreaks, ReceiveWithoutToken, link
<1>13. CASE \/ \E c \in Convs \cup {None} : Select(c)
            \/ \E c \in Convs : StoreMessage(c)
            \/ \E m \in unsent : Broadcast(m)
            \/ Poll \/ UNCHANGED vars
  BY <1>1, <1>13 DEF Select, StoreMessage, Broadcast, Poll, vars, link
<1> QED BY <1>3, <1>4, <1>5, <1>6, <1>7, <1>9, <1>10, <1>11, <1>12, <1>13
        DEF Next, Connection, Failure

\* However requests, handshakes and sockets fail, a page that is online has a
\* socket, is about to get one, or will try again.
THEOREM NeverLeftAlone == Spec => []NeverAbandoned
<1>1. ASSUME Init PROVE Trying
  <2>1. /\ 1 \in Sockets
        /\ conn = [i \in Sockets |-> IF i = 1 THEN "token" ELSE "free"]
        /\ online = TRUE
    BY <1>1, MessagesAssumption DEF Init, Sockets
  <2>2. 1 \in InFlight
    BY <2>1 DEF InFlight
  <2> QED BY <2>1, <2>2 DEF Trying, NeverAbandoned
<1>2. Trying => NeverAbandoned
  BY DEF Trying
<1> QED BY <1>1, <1>2, TryingNext, PTL DEF Spec

----------------------------------------------------------------------------
(* Pages.  A head page is an end of the conversation, a recovery page the   *)
(* stretch after its cursor; what is on neither side of a page is in it.    *)

Heads == {"initial", "quiet", "first"}

PageFacts(l) ==
  /\ l.conv \in Convs /\ l.page \subseteq Of(l.conv)
  /\ l.from \in Of(l.conv) \cup {0} /\ l.to \in Of(l.conv) \cup {0}
  /\ \A k \in l.page : k <= l.to
  /\ l.page # {} => l.to \in l.page
  /\ l.kind \in Heads =>
       /\ l.from = 0 /\ ~l.more
       /\ l.page = {} => l.to = 0
       /\ \A m \in Of(l.conv), k \in l.page : k <= m /\ m <= l.to => m \in l.page
  /\ l.kind = "after" =>
       /\ l.from <= l.to /\ (l.page = {} => l.to = l.from)
       /\ \A k \in l.page : l.from < k
       /\ \A m \in Of(l.conv) : l.from < m /\ m <= l.to => m \in l.page

LEMMA LastIs ==
  ASSUME NEW n \in Nat, NEW s \in SUBSET (0..n), NEW o
  PROVE  IF s = {} THEN Last(s, o) = o
                   ELSE Last(s, o) \in s /\ \A k \in s : k <= Last(s, o)
<1>1. CASE s = {}
  BY <1>1 DEF Last
<1>2. CASE s # {}
  <2>1. \E m \in s : \A k \in s : k <= m
    BY <1>2, GreatestNumber
  <2> QED BY <1>2, <2>1 DEF Last
<1> QED BY <1>1, <1>2

LEMMA OfIsFinite ==
  ASSUME HubOK, NEW c
  PROVE  /\ Len(msgs) \in Nat /\ Of(c) \in SUBSET (1 .. Len(msgs))
         /\ \A s \in SUBSET Of(c) : IsFiniteSet(s) /\ Cardinality(s) \in Nat
         /\ \A s \in SUBSET Of(c) : \A t \in SUBSET s : Cardinality(t) <= Cardinality(s)
<1>1. Len(msgs) \in Nat /\ Of(c) \in SUBSET (1 .. Len(msgs))
  BY DEF HubOK, Of
<1>2. IsFiniteSet(Of(c))
  <2>1. IsFiniteSet(1 .. Len(msgs))
    BY <1>1, FS_Interval
  <2> QED BY <1>1, <2>1, FS_Subset
<1>3. \A s \in SUBSET Of(c) : IsFiniteSet(s)
  BY <1>2, FS_Subset
<1>4. \A s \in SUBSET Of(c) : \A t \in SUBSET s : Cardinality(t) <= Cardinality(s)
  BY <1>3, FS_Subset
<1>5. \A s \in SUBSET Of(c) : Cardinality(s) \in Nat
  BY <1>3, FS_CardinalityType
<1> QED BY <1>1, <1>3, <1>4, <1>5

\* The newest messages are an end of the conversation.
LEMMA NewestIs ==
  ASSUME HubOK, NEW c, NEW n \in Nat \ {0}
  PROVE  /\ Newest(c, n) \subseteq Of(c)
         /\ \A m \in Of(c), k \in Newest(c, n) : k <= m => m \in Newest(c, n)
         /\ \A m \in Of(c) : \E k \in Newest(c, n) : m <= k
<1>1. ASSUME NEW m \in Of(c), NEW k \in Newest(c, n), k <= m PROVE m \in Newest(c, n)
  <2> DEFINE A == {j \in Of(c) : j > m}
             B == {j \in Of(c) : j > k}
  <2>1. k \in Nat /\ m \in Nat /\ Of(c) \subseteq Nat /\ k \in Of(c)
    BY OfIsFinite DEF Newest
  <2>2. A \in SUBSET B /\ B \in SUBSET Of(c) /\ A \in SUBSET Of(c)
    BY <1>1, <2>1
  <2>3. Cardinality(A) <= Cardinality(B) /\ Cardinality(A) \in Nat /\ Cardinality(B) \in Nat
    <3> HIDE DEF A, B
    <3> QED BY <2>2, OfIsFinite
  <2>4. Cardinality(B) < n
    BY DEF Newest
  <2>5. Cardinality(A) < n
    <3> HIDE DEF A, B
    <3> QED BY <2>3, <2>4
  <2> QED BY <2>5 DEF Newest
<1>2. ASSUME NEW m \in Of(c) PROVE \E k \in Newest(c, n) : m <= k
  <2>1. PICK k \in Of(c) : \A j \in Of(c) : j <= k
    <3>1. Of(c) \in SUBSET (0 .. Len(msgs)) /\ Len(msgs) \in Nat /\ Of(c) # {}
      BY <1>2, OfIsFinite
    <3> QED BY <3>1, GreatestNumber
  <2>2. {j \in Of(c) : j > k} = {}
    BY <2>1, OfIsFinite
  <2>3. Cardinality({j \in Of(c) : j > k}) = 0
    BY <2>2, FS_EmptySet
  <2>4. k \in Newest(c, n)
    BY <2>3 DEF Newest
  <2> QED BY <1>2, <2>1, <2>4
<1> QED BY <1>1, <1>2 DEF Newest

\* A recovery page holds, from its cursor on, everything up to its last message.
LEMMA AfterIs ==
  ASSUME HubOK, NEW c, NEW a \in Nat, NEW n \in Nat
  PROVE  /\ After(c, a, n) \subseteq Of(c)
         /\ \A k \in After(c, a, n) : a < k
         /\ \A m \in Of(c), k \in After(c, a, n) : a < m /\ m <= k => m \in After(c, a, n)
<1>1. ASSUME NEW m \in Of(c), NEW k \in After(c, a, n), a < m, m <= k
      PROVE m \in After(c, a, n)
  <2> DEFINE A == {j \in Of(c) : j > a /\ j < m}
             B == {j \in Of(c) : j > a /\ j < k}
  <2>1. k \in Nat /\ m \in Nat /\ Of(c) \subseteq Nat /\ k \in Of(c)
    BY OfIsFinite DEF After
  <2>2. A \in SUBSET B /\ B \in SUBSET Of(c) /\ A \in SUBSET Of(c)
    BY <1>1, <2>1
  <2>3. CASE n \in Nat
    <3>1. Cardinality(A) <= Cardinality(B) /\ Cardinality(A) \in Nat /\ Cardinality(B) \in Nat
      <4> HIDE DEF A, B
      <4> QED BY <2>2, OfIsFinite
    <3>2. Cardinality(B) < n
      BY DEF After
    <3>3. Cardinality(A) < n
      <4> HIDE DEF A, B
      <4> QED BY <2>3, <3>1, <3>2
    <3> QED BY <1>1, <2>1, <3>3 DEF After
  <2> QED BY <2>3
<1> QED BY <1>1, OfIsFinite DEF After

\* What a head page is when it is read ...
LEMMA HeadIs ==
  ASSUME HubOK, Len(msgs) <= MaxMessages, NEW c \in Convs, NEW kind \in Heads, NEW n \in Nat \ {0}
  PROVE  /\ PageFacts(HeadOf(kind, c, n)) /\ HeadOf(kind, c, n) \in Load
         /\ HeadOf(kind, c, n).conv = c /\ HeadOf(kind, c, n).kind = kind
         /\ \A m \in Of(c) : m <= HeadOf(kind, c, n).to
<1> DEFINE p == Newest(c, n)
           t == Last(p, 0)
<1>1. /\ p \subseteq Of(c) /\ \A m \in Of(c), k \in p : k <= m => m \in p
      /\ \A m \in Of(c) : \E k \in p : m <= k
  BY NewestIs
<1>2. Of(c) \in SUBSET (1 .. Len(msgs)) /\ Len(msgs) \in Nat
  BY OfIsFinite
<1>3. IF p = {} THEN t = 0 ELSE t \in p /\ \A k \in p : k <= t
  <2>1. p \in SUBSET (0 .. Len(msgs))
    BY <1>1, <1>2
  <2> HIDE DEF p
  <2> QED BY <1>2, <2>1, LastIs
<1>4. HeadOf(kind, c, n) = [kind |-> kind, conv |-> c, from |-> 0, page |-> p, to |-> t, more |-> FALSE]
  BY DEF HeadOf
<1> HIDE DEF p, t
<1>5. t \in Of(c) \cup {0} /\ \A k \in p : k <= t
  BY <1>1, <1>3
<1>6. \A m \in Of(c) : m <= t
  <2> SUFFICES ASSUME NEW m \in Of(c) PROVE m <= t
    OBVIOUS
  <2>1. PICK k \in p : m <= k
    BY <1>1
  <2>2. m \in Nat /\ k \in Nat /\ t \in Nat /\ k <= t
    BY <1>1, <1>2, <1>5
  <2> QED BY <2>1, <2>2
<1>7. [kind |-> kind, conv |-> c, from |-> 0, page |-> p, to |-> t, more |-> FALSE] \in Load
  <2>1. p \in SUBSET Messages /\ t \in 0 .. MaxMessages /\ 0 \in 0 .. MaxMessages
    BY <1>1, <1>2, <1>5, MessagesAssumption DEF Messages
  <2> QED BY <2>1 DEF Load, Heads
<1>8. PageFacts([kind |-> kind, conv |-> c, from |-> 0, page |-> p, to |-> t, more |-> FALSE])
  BY <1>1, <1>3, <1>5 DEF PageFacts, Heads
<1> QED BY <1>4, <1>6, <1>7, <1>8

\* ... and what a recovery page is.
LEMMA SyncIs ==
  ASSUME HubOK, Len(msgs) <= MaxMessages, NEW c \in Convs, NEW a \in Of(c) \cup {0}
  PROVE  /\ PageFacts(Sync(c, a)) /\ Sync(c, a) \in Load
         /\ Sync(c, a).conv = c /\ Sync(c, a).kind = "after" /\ Sync(c, a).from = a
         /\ \A m \in Of(c) : a < m => m \in Sync(c, a).page \/ Sync(c, a).more
<1> DEFINE p == After(c, a, SyncPage)
           t == Last(p, a)
           more == \E m \in Of(c) : m > t
<1>1. Of(c) \in SUBSET (1 .. Len(msgs)) /\ Len(msgs) \in Nat /\ a \in Nat
  BY OfIsFinite
<1>2. /\ p \subseteq Of(c) /\ \A k \in p : a < k
      /\ \A m \in Of(c), k \in p : a < m /\ m <= k => m \in p
  BY <1>1, AfterIs, MessagesAssumption
<1>3. IF p = {} THEN t = a ELSE t \in p /\ \A k \in p : k <= t
  <2>1. p \in SUBSET (0 .. Len(msgs))
    BY <1>1, <1>2
  <2> HIDE DEF p
  <2> QED BY <1>1, <2>1, LastIs
<1>4. Sync(c, a) = [kind |-> "after", conv |-> c, from |-> a, page |-> p, to |-> t, more |-> more]
  BY DEF Sync
<1>a. \A m \in Of(c) : m > t => more
  OBVIOUS
<1>c. more \in BOOLEAN
  OBVIOUS
<1> HIDE DEF p, t, more
<1>5. t \in Of(c) \cup {0} /\ \A k \in p : k <= t
  BY <1>2, <1>3
<1>6. a <= t /\ t \in Nat
  BY <1>1, <1>2, <1>3, <1>5
<1>b. \A m \in Of(c) : a < m /\ m <= t => m \in p
  <2> SUFFICES ASSUME NEW m \in Of(c), a < m, m <= t PROVE m \in p
    OBVIOUS
  <2>1. CASE p = {}
    <3>1. m <= a /\ m \in Nat /\ a \in Nat
      BY <1>1, <1>3, <2>1
    <3> QED BY <3>1
  <2>2. CASE p # {}
    <3>1. t \in p
      BY <1>3, <2>2
    <3> QED BY <1>2, <3>1
  <2> QED BY <2>1, <2>2
<1>7. \A m \in Of(c) : a < m => m \in p \/ more
  <2> SUFFICES ASSUME NEW m \in Of(c), a < m, ~(m <= t) PROVE more
    BY <1>b
  <2>1. m > t
    BY <1>1, <1>6
  <2> QED BY <1>a, <2>1
<1>8. [kind |-> "after", conv |-> c, from |-> a, page |-> p, to |-> t, more |-> more] \in Load
  <2>1. p \in SUBSET Messages /\ t \in 0 .. MaxMessages /\ a \in 0 .. MaxMessages
    BY <1>1, <1>2, <1>5, MessagesAssumption DEF Messages
  <2> QED BY <1>c, <2>1 DEF Load
<1>9. PageFacts([kind |-> "after", conv |-> c, from |-> a, page |-> p, to |-> t, more |-> more])
  <2> QED BY <1>2, <1>3, <1>5, <1>6, <1>b DEF PageFacts, Heads
<1> QED BY <1>4, <1>7, <1>8, <1>9

\* The pages under way, and the cursors that those before have left.
Reads == /\ Len(msgs) <= MaxMessages
         /\ loads \subseteq Load /\ \A l \in loads : PageFacts(l)
         /\ cursor \in [Convs -> 0 .. MaxMessages \cup {None}]
         /\ \A c \in Convs : cursor[c] \in Of(c) \cup {0, None}
         /\ \A l, k \in loads : l.kind = "initial" /\ k.kind = "initial" => l = k
         /\ \A l \in loads : l.kind = "initial" => l.conv = sel

LEMMA RecoveryIs ==
  ASSUME Visit, Reads, NEW c \in Convs
  PROVE  /\ PageFacts(Recovery(c)) /\ Recovery(c) \in Load
         /\ Recovery(c).conv = c /\ Recovery(c).kind \in {"first", "after"}
         /\ IF cursor[c] = None
            THEN Recovery(c).kind = "first" /\ \A m \in Of(c) : m <= Recovery(c).to
            ELSE /\ Recovery(c).kind = "after" /\ Recovery(c).from = cursor[c]
                 /\ cursor[c] \in Of(c) \cup {0}
                 /\ \A m \in Of(c) : cursor[c] < m => m \in Recovery(c).page \/ Recovery(c).more
<1>1. HubOK /\ Len(msgs) <= MaxMessages /\ "first" \in Heads
  BY DEF Visit, Reads, Heads
<1>2. CASE cursor[c] = None
  <2>1. Recovery(c) = HeadOf("first", c, SyncPage)
    BY <1>2 DEF Recovery
  <2> QED BY <1>1, <1>2, <2>1, HeadIs, MessagesAssumption
<1>3. CASE cursor[c] # None
  <2>1. Recovery(c) = Sync(c, cursor[c]) /\ cursor[c] \in Of(c) \cup {0}
    BY <1>3 DEF Recovery, Reads
  <2> QED BY <1>1, <1>3, <2>1, SyncIs
<1> QED BY <1>2, <1>3

LEMMA HeadPagesAre ==
  ASSUME Visit, Reads, NEW c \in Convs \cup {None}, NEW kind \in {"initial", "quiet"}
  PROVE  /\ c = None => HeadPages(kind, c) = {}
         /\ c # None => \E l : HeadPages(kind, c) = {l} /\ \A m \in Of(c) : m <= l.to
         /\ \A l \in HeadPages(kind, c) : PageFacts(l) /\ l \in Load /\ l.conv = c /\ l.kind = kind
<1>1. HubOK /\ Len(msgs) <= MaxMessages /\ kind \in Heads
  BY DEF Visit, Reads, Heads
<1>2. CASE c # None
  <2>1. HeadPages(kind, c) = {HeadOf(kind, c, HeadPage)} /\ c \in Convs
    BY <1>2 DEF HeadPages
  <2> QED BY <1>1, <1>2, <2>1, HeadIs, MessagesAssumption
<1> QED BY <1>2 DEF HeadPages

\* A message stored later lies behind every page that was read before.
LEMMA PagesGrowOld ==
  ASSUME HubOK, NEW c \in Convs, msgs' = Append(msgs, c), NEW l, PageFacts(l)
  PROVE  PageFacts(l)'
<1>1. Len(msgs) \in Nat /\ Len(msgs') = Len(msgs) + 1 /\ \A m \in 1 .. Len(msgs) : msgs'[m] = msgs[m]
  BY DEF HubOK
<1>2. \A d : Of(d) \subseteq Of(d)' /\ \A m \in Of(d)' : m \notin Of(d) => m = Len(msgs) + 1
  BY <1>1 DEF Of
<1>3. l.to <= Len(msgs) /\ l.to \in Nat /\ l.page \subseteq Nat
  BY <1>1 DEF PageFacts, Of
<1>4. \A m \in Of(l.conv)' : m <= l.to => m \in Of(l.conv)
  BY <1>1, <1>2, <1>3
<1> QED BY <1>2, <1>4 DEF PageFacts

LEMMA ReadsStore == ASSUME Visit, Reads, NEW c \in Convs, StoreMessage(c) PROVE Reads'
<1>1. HubOK /\ msgs' = Append(msgs, c) /\ UNCHANGED <<sel, cursor, loads>>
  BY DEF Visit, StoreMessage, screen
<1>2. Len(msgs) \in Nat /\ Len(msgs') = Len(msgs) + 1 /\ \A m \in 1 .. Len(msgs) : msgs'[m] = msgs[m]
  BY <1>1 DEF HubOK
<1>3. \A d : Of(d) \subseteq Of(d)'
  BY <1>2 DEF Of
<1>4. Len(msgs') <= MaxMessages
  BY <1>2, MessagesAssumption DEF StoreMessage
<1>5. \A l \in loads' : PageFacts(l)'
  BY <1>1, PagesGrowOld DEF Reads
<1>6. \A d \in Convs : cursor'[d] \in Of(d)' \cup {0, None}
  BY <1>1, <1>3 DEF Reads
<1> QED BY <1>1, <1>4, <1>5, <1>6 DEF Reads

LEMMA ReadsSelect == ASSUME Visit, Reads, NEW c \in Convs \cup {None}, Select(c) PROVE Reads'
<1>1. /\ UNCHANGED <<msgs, cursor>> /\ sel' = c
      /\ loads' = {l \in loads : l.kind # "initial"} \cup HeadPages("initial", c)
  BY DEF Select, hub
<1>2. \A l \in HeadPages("initial", c) : PageFacts(l) /\ l \in Load /\ l.conv = c /\ l.kind = "initial"
  BY HeadPagesAre
<1>3. \A l, k \in HeadPages("initial", c) : l = k
  BY HeadPagesAre
<1>4. \A l : PageFacts(l) => PageFacts(l)'
  BY <1>1 DEF PageFacts, Of
<1>5. \A d \in Convs : cursor'[d] \in Of(d)' \cup {0, None}
  BY <1>1 DEF Reads, Of
<1> QED BY <1>1, <1>2, <1>3, <1>4, <1>5 DEF Reads

LEMMA ReadsAsks ==
  ASSUME Visit, Reads, UNCHANGED <<msgs, sel, cursor>>,
         \/ loads' = loads
         \/ loads' = loads \cup HeadPages("quiet", sel)
         \/ sel # None /\ loads' = loads \cup {Recovery(sel)}
  PROVE  Reads'
<1>1. sel \in Convs \cup {None}
  BY DEF Visit
<1>2. \A l \in HeadPages("quiet", sel) : PageFacts(l) /\ l \in Load /\ l.kind = "quiet"
  BY <1>1, HeadPagesAre
<1>3. sel # None => PageFacts(Recovery(sel)) /\ Recovery(sel) \in Load
                    /\ Recovery(sel).kind \in {"first", "after"}
  BY <1>1, RecoveryIs
<1>4. \A l : PageFacts(l) => PageFacts(l)'
  BY DEF PageFacts, Of
<1>5. \A d \in Convs : cursor'[d] \in Of(d)' \cup {0, None}
  BY DEF Reads, Of
<1>6. \A l \in loads' : PageFacts(l) /\ l \in Load /\ (l \notin loads => l.kind # "initial")
  BY <1>2, <1>3 DEF Reads
<1> QED BY <1>4, <1>5, <1>6 DEF Reads

LEMMA ReadsAnswers ==
  ASSUME Visit, Reads, NEW l \in loads, Answer(l) \/ InitialFails(l) \/ RecoveryFails(l)
  PROVE  Reads'
<1>1. UNCHANGED <<msgs, sel>>
  BY DEF Answer, InitialArrives, QuietArrives, RecoveryArrives, InitialFails, RecoveryFails, hub,
     screen
<1>2. PageFacts(l) /\ l \in Load /\ HubOK
  BY DEF Reads, Visit
<1>3. l.conv \in Convs /\ l.to \in Of(l.conv) \cup {0} /\ l.to \in 0 .. MaxMessages
  BY <1>2 DEF PageFacts, Load
<1>4. PageFacts(Sync(l.conv, l.to)) /\ Sync(l.conv, l.to) \in Load /\ Sync(l.conv, l.to).kind = "after"
  BY <1>2, <1>3, SyncIs DEF Reads
<1>5. loads' \subseteq loads \cup {Sync(l.conv, l.to)}
  BY DEF Answer, InitialArrives, QuietArrives, RecoveryArrives, InitialFails, RecoveryFails
<1>6. cursor' = cursor \/ cursor' = [cursor EXCEPT ![l.conv] = l.to]
  BY DEF Answer, InitialArrives, QuietArrives, RecoveryArrives, InitialFails, RecoveryFails, Merge,
     screen
<1>7. /\ cursor' \in [Convs -> 0 .. MaxMessages \cup {None}]
      /\ \A d \in Convs : cursor'[d] \in Of(d)' \cup {0, None}
  BY <1>1, <1>3, <1>6 DEF Reads, Of
<1>8. \A k : PageFacts(k) => PageFacts(k)'
  BY <1>1 DEF PageFacts, Of
<1> QED BY <1>1, <1>4, <1>5, <1>7, <1>8 DEF Reads

LEMMA ReadsRest ==
  ASSUME Reads, UNCHANGED <<msgs, sel, cursor, loads>>
  PROVE  Reads'
BY DEF Reads, PageFacts, Of

LEMMA ReadsNext == Visit /\ Reads /\ [Next]_vars => Reads'
<1> SUFFICES ASSUME Visit, Reads, [Next]_vars PROVE Reads'
  OBVIOUS
<1>1. CASE \/ UNCHANGED vars \/ \E m \in unsent : Broadcast(m)
           \/ GoOnline \/ Reconnect \/ GoOffline
           \/ \E i \in Sockets : \/ TokenArrives(i) \/ TicketArrives(i) \/ Opened(i) \/ Closed(i)
                                 \/ HandleFrame(i) \/ Push(i) \/ SendGap(i) \/ ConnectFails(i)
                                 \/ Refused(i) \/ SocketBreaks(i) \/ ReceiveWithoutToken(i)
  <2>1. UNCHANGED <<msgs, sel, cursor, loads>>
    BY <1>1 DEF vars, hub, screen, Broadcast, GoOnline, Reconnect, GoOffline, TokenArrives,
       TicketArrives, Opened, Closed, HandleFrame, Push, SendGap, ConnectFails, Refused,
       SocketBreaks, ReceiveWithoutToken
  <2> QED BY <2>1, ReadsRest
<1>2. CASE Poll \/ Visible
  BY <1>2, ReadsAsks DEF Poll, Visible, hub, screen
<1>3. ASSUME NEW i \in Sockets, Receive(i) PROVE Reads'
  <2>1. UNCHANGED <<msgs, sel, cursor>>
    BY <1>3 DEF Receive, hub
  <2>2. server[i].out[1].conv \in Convs
    <3>1. server[i].out \in Seq(Frame) /\ server[i].out # <<>>
      BY <1>3 DEF Receive, Visit, Queued
    <3>2. server[i].out[1] \in Frame
      BY <3>1
    <3> QED BY <3>2 DEF Frame
  <2>3. loads' = loads \/ (sel # None /\ loads' = loads \cup {Recovery(sel)})
    BY <1>3, <2>2, MessagesAssumption DEF Receive
  <2> QED BY <2>1, <2>3, ReadsAsks
<1> QED BY <1>1, <1>2, <1>3, ReadsStore, ReadsSelect, ReadsAnswers DEF Next, Connection, Failure

\* The rest of the state.
Phases == {"free", "token", "ticket", "connecting", "open", "closing", "over"}

Bounded == \A i \in Sockets : Len(server[i].tx) <= QueueSize

Fields == /\ live \in BOOLEAN /\ timer \in BOOLEAN /\ online \in BOOLEAN
          /\ conn \in [Sockets -> Phases]
          /\ moves \in 0 .. MaxMoves /\ troubles \in 0 .. MaxTroubles
          /\ lapses \subseteq Lapses

LEMMA FieldsConnects == ASSUME Fields, Connects, timer' \in BOOLEAN, online' \in BOOLEAN,
                               UNCHANGED moves, troubles' \in 0 .. MaxTroubles
                        PROVE  Fields'
BY DEF Fields, Connects, Phases, Lapses

LEMMA TroubleIs == ASSUME Fields, Trouble PROVE troubles' \in 0 .. MaxTroubles
BY MessagesAssumption DEF Fields, Trouble

LEMMA MergeIs == ASSUME Fields, NEW l, Merge(l) PROVE lapses' \subseteq Lapses
BY DEF Fields, Merge, Lapses

LEMMA FieldsNext == Fields /\ [Next]_vars => Fields'
<1> SUFFICES ASSUME Fields, [Next]_vars PROVE Fields'
  OBVIOUS
<1>1. CASE \/ UNCHANGED vars \/ Poll
           \/ \E c \in Convs : StoreMessage(c)
           \/ \E m \in unsent : Broadcast(m)
           \/ \E i \in Sockets : HandleFrame(i) \/ SendGap(i)
  BY <1>1 DEF vars, Poll, StoreMessage, Broadcast, HandleFrame, SendGap, link, Fields
<1>2. ASSUME NEW c \in Convs \cup {None}, Select(c) PROVE Fields'
  <2>1. moves' \in 0 .. MaxMoves /\ lapses' \subseteq Lapses
    BY <1>2, MessagesAssumption DEF Select, Fields
  <2>2. live' \in BOOLEAN
    BY <1>2 DEF Select, Fields
  <2> QED BY <1>2, <2>1, <2>2 DEF Select, Fields
<1>3. CASE Reconnect \/ GoOnline
  BY <1>3, FieldsConnects DEF Reconnect, GoOnline, Fields
<1>4. CASE Visible
  <2>1. troubles' \in 0 .. MaxTroubles /\ UNCHANGED moves /\ UNCHANGED online
    BY <1>4, TroubleIs DEF Visible
  <2>2. CASE UNCHANGED <<conn, live, timer, lapses>>
    BY <2>1, <2>2 DEF Fields
  <2>3. CASE timer' = FALSE /\ Connects
    <3>1. timer' \in BOOLEAN /\ online' \in BOOLEAN
      BY <2>1, <2>3 DEF Fields
    <3> QED BY <2>1, <2>3, <3>1, FieldsConnects
  <2> QED BY <1>4, <2>2, <2>3 DEF Visible
<1>5. CASE GoOffline
  BY <1>5, TroubleIs DEF GoOffline, Fields, Detached, Phases
<1>6. ASSUME NEW i \in Sockets, TokenArrives(i) \/ TicketArrives(i) PROVE Fields'
  BY <1>6 DEF TokenArrives, TicketArrives, Fields, Detached, Phases
<1>7. ASSUME NEW i \in Sockets, Opened(i) PROVE Fields'
  <2>1. live' \in BOOLEAN /\ conn' \in [Sockets -> Phases]
    BY <1>7 DEF Opened, Fields, Phases
  <2> QED BY <1>7, <2>1 DEF Opened, Fields
<1>8. ASSUME NEW i \in Sockets, Closed(i) PROVE Fields'
  BY <1>8 DEF Closed, TryAgain, Fields, Phases
<1>9. ASSUME NEW i \in Sockets, ConnectFails(i) \/ Refused(i) PROVE Fields'
  BY <1>9, TroubleIs DEF ConnectFails, Refused, TryAgain, Fields, Phases
<1>10. ASSUME CloseSocket PROVE conn' \in [Sockets -> Phases]
  BY <1>10 DEF CloseSocket, Fields, Phases
<1>11. ASSUME NEW i \in Sockets, Receive(i) PROVE Fields'
  <2>1. conn' \in [Sockets -> Phases] /\ live' \in BOOLEAN
    BY <1>10, <1>11 DEF Receive, Fields
  <2> QED BY <1>11, <2>1 DEF Receive, Fields
<1>12. ASSUME NEW i \in Sockets, ReceiveWithoutToken(i) PROVE Fields'
  <2>1. live' \in BOOLEAN /\ lapses' \subseteq Lapses
    BY <1>12 DEF ReceiveWithoutToken, Recovered, Fields, Lapses
  <2> QED BY <1>12, <2>1, TroubleIs DEF ReceiveWithoutToken, Fields
<1>13. ASSUME NEW i \in Sockets, Push(i) PROVE Fields'
  <2>1. lapses' \subseteq Lapses
    BY <1>13 DEF Push, Fields, Lapses
  <2> QED BY <1>13, <2>1 DEF Push, link, Fields
<1>14. ASSUME NEW i \in Sockets, SocketBreaks(i) PROVE Fields'
  BY <1>14, TroubleIs DEF SocketBreaks, link, Fields
<1>15. ASSUME NEW l \in loads, InitialArrives(l) \/ QuietArrives(l) PROVE Fields'
  <2>1. lapses' \subseteq Lapses
    BY <1>15, MergeIs DEF InitialArrives, QuietArrives, Fields
  <2> QED BY <1>15, <2>1 DEF InitialArrives, QuietArrives, link, Fields
<1>16. ASSUME NEW l \in loads, RecoveryArrives(l) PROVE Fields'
  <2>1. lapses' \subseteq Lapses /\ live' \in BOOLEAN
    BY <1>16, MergeIs DEF RecoveryArrives, Recovered, Fields
  <2> QED BY <1>16, <2>1 DEF RecoveryArrives, Fields
<1>17. ASSUME NEW l \in loads, InitialFails(l) PROVE Fields'
  BY <1>17, TroubleIs DEF InitialFails, link, Fields, Lapses
<1>18. ASSUME NEW l \in loads, RecoveryFails(l) PROVE Fields'
  BY <1>10, <1>18, TroubleIs DEF RecoveryFails, Fields
<1> QED BY <1>1, <1>2, <1>3, <1>4, <1>5, <1>6, <1>7, <1>8, <1>9, <1>11, <1>12, <1>13, <1>14,
           <1>15, <1>16, <1>17, <1>18 DEF Next, Connection, Answer, Failure

\* What a turn of the server changes.
LEMMA FrameHandled ==
  ASSUME Visit, NEW i \in Sockets, HandleFrame(i)
  PROVE  LET r == server[i].in[1]
         IN  /\ \A j \in Sockets : j # i => server'[j] = server[j]
             /\ server'[i].up = server[i].up /\ server'[i].tx = server[i].tx
             /\ server'[i].gap = server[i].gap /\ server'[i].in = Tail(server[i].in)
             /\ r \in Request
             /\ r.type = "subscribe" =>
                  /\ server'[i].subs = server[i].subs \cup {r.conv}
                  /\ server'[i].out = Append(server[i].out, [type |-> "ack", conv |-> r.conv])
             /\ r.type = "unsubscribe" =>
                  server'[i].subs = server[i].subs \ {r.conv} /\ server'[i].out = server[i].out
<1> DEFINE r == server[i].in[1]
           s == [server[i] EXCEPT !.in = Tail(@)]
<1>1. server[i] \in Ends /\ server \in [Sockets -> Ends]
  BY DEF Visit, Queued, Ends
<1>2. r \in Request
  BY <1>1 DEF HandleFrame, Ends
<1>3. /\ DOMAIN s = DOMAIN server[i] /\ s.up = server[i].up /\ s.tx = server[i].tx /\ s.gap = server[i].gap
      /\ s.in = Tail(server[i].in) /\ s.subs = server[i].subs /\ s.out = server[i].out
      /\ DOMAIN server[i] = {"up", "subs", "in", "tx", "gap", "out"}
  BY <1>1 DEF Ends
<1>4. CASE r.type = "subscribe"
  <2> DEFINE t == [s EXCEPT !.subs = @ \cup {r.conv}]
             e == [t EXCEPT !.out = Append(@, [type |-> "ack", conv |-> r.conv])]
  <2>1. server' = [server EXCEPT ![i] = e]
    BY <1>4 DEF HandleFrame, Sends
  <2>2. /\ e.up = server[i].up /\ e.tx = server[i].tx /\ e.gap = server[i].gap
        /\ e.in = Tail(server[i].in) /\ e.subs = server[i].subs \cup {r.conv}
        /\ e.out = Append(server[i].out, [type |-> "ack", conv |-> r.conv])
    <3> HIDE DEF s, r
    <3> QED BY <1>3
  <2> HIDE DEF e
  <2>3. server'[i] = e /\ \A j \in Sockets : j # i => server'[j] = server[j]
    BY <1>1, <2>1
  <2> QED BY <1>2, <1>4, <2>2, <2>3
<1>5. CASE r.type = "unsubscribe"
  <2> DEFINE e == [s EXCEPT !.subs = @ \ {r.conv}]
  <2>1. server' = [server EXCEPT ![i] = e]
    BY <1>5 DEF HandleFrame
  <2>2. /\ e.up = server[i].up /\ e.tx = server[i].tx /\ e.gap = server[i].gap
        /\ e.in = Tail(server[i].in) /\ e.subs = server[i].subs \ {r.conv}
        /\ e.out = server[i].out
    <3> HIDE DEF s, r
    <3> QED BY <1>3
  <2> HIDE DEF e
  <2>3. server'[i] = e /\ \A j \in Sockets : j # i => server'[j] = server[j]
    BY <1>1, <2>1
  <2> QED BY <1>2, <1>5, <2>2, <2>3
<1> QED BY <1>2, <1>4, <1>5 DEF Request

\* A queue that is full is left alone: its socket is given up instead.
LEMMA BoundedNext == Visit /\ Bounded /\ [Next]_vars => Bounded'
<1> SUFFICES ASSUME Visit, Bounded, [Next]_vars, NEW j \in Sockets PROVE Len(server'[j].tx) <= QueueSize
  BY DEF Bounded
<1>a. server \in [Sockets -> Ends] /\ server[j] \in Ends /\ Len(server[j].tx) <= QueueSize
      /\ QueueSize \in Nat \ {0}
  BY MessagesAssumption DEF Visit, Queued, Ends, Bounded
<1>b. /\ server[j].tx \in Seq(Stored) /\ Len(server[j].tx) \in Nat
      /\ Len(NoServer.tx) = 0
  BY <1>a DEF Ends, NoServer
<1>1. CASE server'[j].tx = server[j].tx
  BY <1>1, <1>a
<1>2. ASSUME NEW is, server' = Hangup(is) PROVE Len(server'[j].tx) <= QueueSize
  BY <1>2, <1>a, <1>b DEF Hangup
<1>3. ASSUME NEW m \in unsent, Broadcast(m) PROVE Len(server'[j].tx) <= QueueSize
  <2>1. server'[j] = IF msgs[m] \notin server[j].subs THEN server[j]
                     ELSE IF HasRoom(server[j]) THEN [server[j] EXCEPT !.tx = Append(@, m)]
                     ELSE SlowConsumer(server[j], msgs[m])
    BY <1>3 DEF Broadcast
  <2>2. CASE HasRoom(server[j]) /\ server'[j] = [server[j] EXCEPT !.tx = Append(@, m)]
    <3>1. server'[j].tx = Append(server[j].tx, m)
      BY <1>a, <2>2 DEF Ends
    <3>2. Len(Append(server[j].tx, m)) = Len(server[j].tx) + 1
      BY <1>b
    <3>3. Len(server[j].tx) < QueueSize
      BY <2>2 DEF HasRoom
    <3> QED BY <1>a, <1>b, <3>1, <3>2, <3>3
  <2>3. CASE server'[j] = SlowConsumer(server[j], msgs[m])
    BY <1>1, <1>a, <2>3 DEF SlowConsumer, Ends
  <2> QED BY <1>1, <2>1, <2>2, <2>3
<1>4. ASSUME NEW i \in Sockets, Push(i) PROVE Len(server'[j].tx) <= QueueSize
  <2>1. server' = [server EXCEPT ![i].tx = Tail(@)] /\ server[i].tx # <<>>
    BY <1>4 DEF Push
  <2>2. CASE i = j
    <3>1. server'[j].tx = Tail(server[j].tx) /\ server[j].tx # <<>>
      BY <1>a, <2>1, <2>2 DEF Ends
    <3>2. Len(Tail(server[j].tx)) = Len(server[j].tx) - 1
      BY <1>b, <3>1
    <3> QED BY <1>a, <1>b, <3>1, <3>2
  <2> QED BY <1>1, <1>a, <2>1, <2>2
<1>5. ASSUME NEW i \in Sockets, SendGap(i) \/ SocketBreaks(i) PROVE Len(server'[j].tx) <= QueueSize
  <2>1. i # j => server'[j] = server[j]
    BY <1>5, <1>a DEF SendGap, SocketBreaks, Sends
  <2>2. Down(server[i]).tx = <<>> /\ DOMAIN Down(server[i]) = DOMAIN NoServer
    BY DEF Down, NoServer
  <2>3. CASE i = j /\ SocketBreaks(i)
    <3>1. server'[j] = Down(server[i])
      BY <1>a, <2>3 DEF SocketBreaks
    <3> QED BY <1>a, <2>2, <3>1
  <2>4. CASE i = j /\ SendGap(i)
    <3>1. server'[j].tx = Down(server[i]).tx
      BY <1>a, <2>2, <2>4 DEF SendGap, Sends, NoServer
    <3> QED BY <1>a, <2>2, <3>1
  <2> QED BY <1>1, <1>5, <1>a, <2>1, <2>3, <2>4
<1>6. ASSUME NEW i \in Sockets, HandleFrame(i) PROVE Len(server'[j].tx) <= QueueSize
  <2>1. server'[j].tx = server[j].tx
    BY <1>6, <1>a, FrameHandled
  <2> QED BY <1>1, <2>1
<1>7. ASSUME NEW i \in Sockets, Opened(i) \/ Receive(i) \/ ReceiveWithoutToken(i) PROVE Len(server'[j].tx) <= QueueSize
  <2>1. server'[j].tx = server[j].tx
    <3>1. CASE Receive(i) \/ ReceiveWithoutToken(i)
      <4>1. server' = [server EXCEPT ![i].out = Tail(@)]
        BY <3>1 DEF Receive, ReceiveWithoutToken
      <4> QED BY <1>a, <4>1 DEF Ends
    <3>2. CASE Opened(i)
      <4> DEFINE up == [server EXCEPT ![i].up = TRUE]
      <4>1. up \in [Sockets -> Ends] /\ up[j].tx = server[j].tx
        BY <1>a DEF Ends
      <4>2. \/ server' = up
            \/ server' = [up EXCEPT ![socket].in = @ \o Request1("subscribe", sel)]
        BY <3>2 DEF Opened
      <4> HIDE DEF up
      <4> QED BY <4>1, <4>2 DEF Ends
    <3> QED BY <1>7, <3>1, <3>2
  <2> QED BY <1>1, <2>1
<1>8. ASSUME NEW c \in Convs \cup {None}, Select(c) PROVE Len(server'[j].tx) <= QueueSize
  <2>1. server'[j].tx = server[j].tx
    <3>1. UNCHANGED server \/ \E r : server' = Asked(wsRef, r)
      BY <1>8 DEF Select
    <3>2. UNCHANGED server \/ \E r : server' = [server EXCEPT ![wsRef].in = @ \o r]
      BY <3>1 DEF Asked
    <3> QED BY <1>a, <3>2 DEF Ends
  <2> QED BY <1>1, <2>1
<1>9. CASE \/ GoOffline \/ \E i \in Sockets : TokenArrives(i) \/ Closed(i)
  BY <1>2, <1>9 DEF GoOffline, TokenArrives, Closed
<1>10. CASE \/ UNCHANGED vars \/ Poll \/ Reconnect \/ GoOnline \/ Visible
            \/ \E c \in Convs : StoreMessage(c)
            \/ \E l \in loads : Answer(l) \/ InitialFails(l) \/ RecoveryFails(l)
            \/ \E i \in Sockets : TicketArrives(i) \/ ConnectFails(i) \/ Refused(i)
  <2>1. UNCHANGED server
    BY <1>10 DEF vars, Poll, Reconnect, GoOnline, Visible, StoreMessage, Answer, InitialArrives,
       QuietArrives, RecoveryArrives, InitialFails, RecoveryFails, TicketArrives, ConnectFails, Refused
  <2> QED BY <1>1, <2>1
<1> QED BY <1>3, <1>4, <1>5, <1>6, <1>7, <1>8, <1>9, <1>10 DEF Next, Connection, Failure

IInv == Visit /\ Reads /\ Fields /\ Bounded

LEMMA IInvInit == Init => IInv
<1> SUFFICES ASSUME Init PROVE IInv
  OBVIOUS
<1>1. Visit
  BY VisitInit
<1>2. Len(msgs) = 0 /\ Len(msgs) <= MaxMessages
  BY MessagesAssumption DEF Init
<1>3. Reads
  <2>1. \A l \in loads : PageFacts(l) /\ l \in Load /\ l.conv = sel /\ l.kind = "initial"
    <3>1. HubOK
      BY <1>1 DEF Visit
    <3>2. sel # None => loads = {HeadOf("initial", sel, HeadPage)} /\ sel \in Convs
      BY DEF Init, HeadPages
    <3>3. sel = None => loads = {}
      BY DEF Init, HeadPages
    <3>4. "initial" \in Heads /\ HeadPage \in Nat \ {0}
      BY MessagesAssumption DEF Heads
    <3> QED BY <1>2, <3>1, <3>2, <3>3, <3>4, HeadIs
  <2>2. \A l, k \in loads : l = k
    BY DEF Init, HeadPages
  <2>3. cursor \in [Convs -> 0 .. MaxMessages \cup {None}] /\ \A c \in Convs : cursor[c] = None
    BY DEF Init
  <2> QED BY <1>2, <2>1, <2>2, <2>3 DEF Reads
<1>4. Fields
  <2>1. live \in BOOLEAN /\ timer \in BOOLEAN /\ online \in BOOLEAN /\ lapses \subseteq Lapses
    BY DEF Init
  <2>2. conn \in [Sockets -> Phases]
    BY DEF Init, Phases
  <2>3. moves \in 0 .. MaxMoves /\ troubles \in 0 .. MaxTroubles
    BY MessagesAssumption DEF Init
  <2> QED BY <2>1, <2>2, <2>3 DEF Fields
<1>5. Bounded
  <2>1. \A i \in Sockets : server[i].tx = <<>>
    BY DEF Init, NoServer
  <2> QED BY <2>1, MessagesAssumption DEF Bounded
<1> QED BY <1>1, <1>3, <1>4, <1>5 DEF IInv

LEMMA IInvNext == IInv /\ [Next]_vars => IInv'
BY VisitNext, ReadsNext, FieldsNext, BoundedNext DEF IInv

\* Every queue is within its bound, every page and cursor of messages that are stored.
THEOREM TypeCorrect == Spec => []TypeOK
<1>1. ASSUME IInv PROVE TypeOK
  <2>1. \A i \in Sockets : /\ DOMAIN server[i] = DOMAIN NoServer
                           /\ server[i].up \in BOOLEAN /\ server[i].subs \subseteq Convs
                           /\ server[i].in \in Seq(Request) /\ server[i].out \in Seq(Frame)
                           /\ server[i].tx \in Seq(Messages)
                           /\ server[i].gap \in Convs \cup {None}
    <3> SUFFICES ASSUME NEW i \in Sockets
                 PROVE  /\ DOMAIN server[i] = DOMAIN NoServer
                        /\ server[i].up \in BOOLEAN /\ server[i].subs \subseteq Convs
                        /\ server[i].in \in Seq(Request) /\ server[i].out \in Seq(Frame)
                        /\ server[i].tx \in Seq(Messages)
                        /\ server[i].gap \in Convs \cup {None}
      OBVIOUS
    <3>1. server[i] \in Ends
      BY <1>1 DEF IInv, Visit, Queued, Ends
    <3>2. Stored \subseteq Messages
      BY <1>1, MessagesAssumption DEF IInv, Visit, HubOK, Reads, Stored, Messages
    <3>3. server[i].tx \in Seq(Messages)
      BY <3>1, <3>2 DEF Ends
    <3> QED BY <3>1, <3>3 DEF Ends, NoServer
  <2>2. \A i \in Sockets : Len(server[i].tx) <= QueueSize
    BY <1>1 DEF IInv, Bounded
  <2>3. shown \subseteq 1 .. Len(msgs)
    BY <1>1 DEF IInv, Visit, Shown, Of
  <2> QED BY <1>1, <2>1, <2>2, <2>3 DEF IInv, Visit, HubOK, Stored, Reads, Fields, Phases, TypeOK
<1> QED BY <1>1, IInvInit, IInvNext, PTL DEF Spec

----------------------------------------------------------------------------
(* One socket at a time, as long as no connect() has passed another.        *)

Alive == {"connecting", "open", "closing"}
Opens == wsRef # 0 /\ conn[wsRef] = "open"

OneLine ==
  /\ \A i \in Sockets : conn[i] \in Alive => i = wsRef
  /\ \A i, j \in InFlight : i = j
  /\ InFlight # {} => wsRef = 0
  /\ wsRef # 0 => wsRef = socket /\ conn[wsRef] \in Alive
  /\ live => Opens
  /\ wsRef = 0 \/ conn[wsRef] = "connecting" => subRef = None
  /\ Opens => subRef = sel

NoOverlap == "overlap" \notin lapses => OneLine

LEMMA OverlapStays == [Next]_vars /\ "overlap" \in lapses => "overlap" \in lapses'
<1> SUFFICES ASSUME [Next]_vars, "overlap" \in lapses PROVE "overlap" \in lapses'
  OBVIOUS
<1>1. CASE \/ UNCHANGED vars \/ Poll
           \/ \E c \in Convs : StoreMessage(c)
           \/ \E m \in unsent : Broadcast(m)
           \/ \E c \in Convs \cup {None} : Select(c)
           \/ Reconnect \/ GoOnline \/ GoOffline \/ Visible
  BY <1>1 DEF vars, Poll, StoreMessage, Broadcast, Select, Reconnect, GoOnline, GoOffline, Visible,
     Connects
<1>2. ASSUME NEW i \in Sockets, \/ Connection(i) \/ ConnectFails(i) \/ Refused(i) \/ SocketBreaks(i)
                                \/ ReceiveWithoutToken(i)
      PROVE  "overlap" \in lapses'
  BY <1>2 DEF Connection, TokenArrives, TicketArrives, Opened, Receive, Closed, HandleFrame, Push,
     SendGap, ConnectFails, Refused, SocketBreaks, ReceiveWithoutToken
<1>3. ASSUME NEW l \in loads, Answer(l) \/ InitialFails(l) \/ RecoveryFails(l)
      PROVE  "overlap" \in lapses'
  BY <1>3 DEF Answer, InitialArrives, QuietArrives, RecoveryArrives, Merge, InitialFails, RecoveryFails
<1> QED BY <1>1, <1>2, <1>3 DEF Next, Failure

LEMMA LineSame == ASSUME OneLine, UNCHANGED <<conn, socket, wsRef, subRef, sel>>, live' => live
                  PROVE  OneLine'
BY DEF OneLine, Opens, InFlight

LEMMA LineConnects ==
  ASSUME IInv, OneLine, Connects, "overlap" \notin lapses', UNCHANGED <<socket, wsRef, subRef, sel>>
  PROVE  OneLine'
<1>1. CASE ~online'
  BY <1>1, LineSame DEF Connects
<1>2. ASSUME NEW i \in Sockets, conn[i] = "free", conn' = [conn EXCEPT ![i] = "token"],
             InFlight = {}, wsRef = 0, UNCHANGED live
      PROVE  OneLine'
  <2>1. InFlight' = {i} /\ ~live'
    BY <1>2 DEF InFlight, OneLine, Opens, IInv, Fields
  <2>2. \A j \in Sockets : conn'[j] \notin Alive
    BY <1>2, MessagesAssumption DEF OneLine, Alive, IInv, Fields, Sockets
  <2> QED BY <1>2, <2>1, <2>2 DEF OneLine, Opens
<1> QED BY <1>1, <1>2 DEF Connects

LEMMA LineCloses ==
  ASSUME IInv, OneLine, CloseSocket, live' = FALSE, UNCHANGED <<socket, wsRef, subRef, sel>>
  PROVE  OneLine' /\ ~Opens'
<1>1. CASE socket # 0 /\ conn[socket] = "open"
  <2>1. wsRef = socket /\ socket \in Sockets
    BY <1>1 DEF IInv, Visit, OneLine, Alive
  <2>2. conn' = [conn EXCEPT ![socket] = "closing"] /\ conn \in [Sockets -> Phases]
    BY <1>1 DEF CloseSocket, IInv, Fields
  <2>3. InFlight' = InFlight
    BY <1>1, <2>1, <2>2 DEF InFlight
  <2> QED BY <1>1, <2>1, <2>2, <2>3 DEF OneLine, Opens, Alive
<1>2. CASE ~(socket # 0 /\ conn[socket] = "open")
  <2>1. UNCHANGED conn
    BY <1>2 DEF CloseSocket
  <2> QED BY <1>2, <2>1, LineSame DEF OneLine, Opens
<1> QED BY <1>1, <1>2

\* detachSocket takes the only socket there is.
LEMMA LineDetached ==
  ASSUME IInv, OneLine, NEW i \in Sockets
  PROVE  Detached({socket})[i] = IF i = socket THEN "over" ELSE conn[i]
BY DEF Detached

LEMMA LineToken == ASSUME IInv, OneLine, NEW i \in Sockets, TokenArrives(i) PROVE OneLine'
<1>1. /\ conn[i] = "token" /\ conn' = [Detached({socket}) EXCEPT ![i] = "ticket"]
      /\ socket' = 0 /\ wsRef' = 0 /\ UNCHANGED <<live, subRef, sel>>
  BY DEF TokenArrives, screen
<1>2. InFlight = {i} /\ wsRef = 0
  BY <1>1 DEF OneLine, InFlight
<1>3. \A j \in Sockets : conn'[j] = IF j = i THEN "ticket" ELSE IF j = socket THEN "over" ELSE conn[j]
  BY <1>1 DEF Detached
<1>4. InFlight' = {i}
  BY <1>2, <1>3 DEF InFlight
<1>5. \A j \in Sockets : conn'[j] \notin Alive
  BY <1>2, <1>3, MessagesAssumption DEF Alive, OneLine, Sockets
<1> QED BY <1>1, <1>2, <1>4, <1>5 DEF OneLine, Opens

LEMMA LineTicket == ASSUME IInv, OneLine, NEW i \in Sockets, TicketArrives(i) PROVE OneLine'
<1>1. /\ conn[i] = "ticket" /\ conn' = [conn EXCEPT ![i] = "connecting"]
      /\ socket' = i /\ wsRef' = i /\ UNCHANGED <<live, subRef, sel>>
  BY DEF TicketArrives, screen
<1>2. InFlight = {i} /\ wsRef = 0 /\ subRef = None /\ ~live
  BY <1>1 DEF OneLine, InFlight, Opens
<1>3. conn \in [Sockets -> Phases] /\ \A j \in Sockets : conn[j] \notin Alive
  BY <1>2, MessagesAssumption DEF IInv, Fields, OneLine, Sockets
<1>4. InFlight' = {} /\ conn'[i] = "connecting"
  BY <1>1, <1>2, <1>3 DEF InFlight
<1>5. \A j \in Sockets : conn'[j] \in Alive <=> j = i
  BY <1>1, <1>3 DEF Alive
<1> QED BY <1>1, <1>2, <1>4, <1>5 DEF OneLine, Opens

LEMMA LineOpened ==
  ASSUME IInv, OneLine, NEW i \in Sockets, Opened(i)
  PROVE  /\ OneLine' /\ i = socket /\ i = wsRef /\ conn' = [conn EXCEPT ![i] = "open"]
         /\ sel # None => server' = [[server EXCEPT ![i].up = TRUE] EXCEPT ![i].in = @ \o Request1("subscribe", sel)]
<1>1. conn[i] = "connecting" /\ conn' = [conn EXCEPT ![i] = "open"] /\ UNCHANGED <<sel, socket, wsRef>>
  BY DEF Opened, screen
<1>2. i = wsRef /\ i = socket /\ i # 0 /\ subRef = None
  BY <1>1, MessagesAssumption DEF OneLine, Alive, Sockets
<1>3. conn \in [Sockets -> Phases] /\ server \in [Sockets -> Ends]
  BY DEF IInv, Fields, Visit, Queued, Ends
<1>4. conn'[i] = "open" /\ \A j \in Sockets : j # i => conn'[j] = conn[j]
  BY <1>1, <1>3
<1>5. InFlight' = {}
  BY <1>1, <1>2, <1>4 DEF InFlight, OneLine
<1>6. subRef' = sel
  BY <1>2, <1>4 DEF Opened
<1>7. \A j \in Sockets : conn'[j] \in Alive => j = i
  BY <1>2, <1>4 DEF OneLine
<1>8. OneLine'
  BY <1>1, <1>2, <1>4, <1>5, <1>6, <1>7 DEF OneLine, Opens, Alive
<1>9. ASSUME sel # None
      PROVE server' = [[server EXCEPT ![i].up = TRUE] EXCEPT ![i].in = @ \o Request1("subscribe", sel)]
  <2> DEFINE up == [server EXCEPT ![i].up = TRUE]
  <2>1. up[i].up = TRUE
    BY <1>3 DEF Ends
  <2>2. server' = IF up[socket].up THEN [up EXCEPT ![socket].in = @ \o Request1("subscribe", sel)] ELSE up
    BY <1>2, <1>4, <1>9 DEF Opened
  <2> HIDE DEF up
  <2>3. server' = [up EXCEPT ![i].in = @ \o Request1("subscribe", sel)]
    BY <1>2, <2>1, <2>2
  <2> QED BY <2>3 DEF up
<1> QED BY <1>1, <1>2, <1>8, <1>9

\* A socket that ends was the only one.
LEMMA LineEnds ==
  ASSUME IInv, OneLine, NEW i \in Sockets, conn[i] \in Alive, conn' = [conn EXCEPT ![i] = "over"],
         wsRef' = 0, subRef' = None, live' = FALSE
  PROVE  OneLine'
<1>1. conn \in [Sockets -> Phases] /\ i = wsRef /\ i # 0
  BY MessagesAssumption DEF IInv, Fields, OneLine, Sockets
<1>2. \A j \in Sockets : conn'[j] = IF j = i THEN "over" ELSE conn[j]
  BY <1>1
<1>3. InFlight' = {}
  BY <1>1, <1>2 DEF InFlight, OneLine
<1>4. \A j \in Sockets : conn'[j] \notin Alive
  BY <1>1, <1>2 DEF OneLine, Alive
<1> QED BY <1>3, <1>4 DEF OneLine, Opens

LEMMA LineOffline == ASSUME IInv, OneLine, GoOffline PROVE OneLine'
<1>1. /\ conn' = Detached({socket}) /\ socket' = 0 /\ wsRef' = 0 /\ subRef' = None /\ live' = FALSE
  BY DEF GoOffline
<1>2. \A j \in Sockets : conn'[j] = IF j = socket THEN "over" ELSE conn[j]
  BY <1>1 DEF Detached
<1>3. \A j \in Sockets : conn'[j] \notin Alive
  BY <1>2, MessagesAssumption DEF OneLine, Alive, Sockets
<1>4. InFlight' \subseteq InFlight
  BY <1>2 DEF InFlight
<1> QED BY <1>1, <1>3, <1>4 DEF OneLine, Opens

LEMMA LineRecovered ==
  ASSUME IInv, OneLine, NEW c, Recovered(c), UNCHANGED <<conn, socket, wsRef, subRef, sel>>
  PROVE  OneLine'
BY DEF Recovered, OneLine, Opens, InFlight

LEMMA LineSelect == ASSUME IInv, OneLine, NEW c \in Convs \cup {None}, Select(c) PROVE OneLine'
<1>1. UNCHANGED <<conn, socket, wsRef>> /\ sel' = c
  BY DEF Select
<1>2. InFlight' = InFlight /\ Opens' = Opens
  BY <1>1 DEF InFlight, Opens
<1>3. CASE Opens
  <2>1. subRef' = c
    BY <1>3 DEF Select, Opens
  <2>2. wsRef # 0 /\ conn[wsRef] # "connecting"
    BY <1>3 DEF Opens
  <2> QED BY <1>1, <1>2, <1>3, <2>1, <2>2 DEF OneLine
<1>4. CASE ~Opens
  <2>1. UNCHANGED <<live, subRef>>
    BY <1>4 DEF Select, Opens
  <2> QED BY <1>1, <1>2, <1>4, <2>1 DEF OneLine
<1> QED BY <1>3, <1>4

LEMMA NoOverlapNext == IInv /\ NoOverlap /\ [Next]_vars => NoOverlap'
<1> SUFFICES ASSUME IInv, OneLine, [Next]_vars, "overlap" \notin lapses' PROVE OneLine'
  BY OverlapStays DEF NoOverlap
<1>1. CASE \/ UNCHANGED vars \/ Poll
           \/ \E c \in Convs : StoreMessage(c)
           \/ \E m \in unsent : Broadcast(m)
           \/ \E i \in Sockets : HandleFrame(i) \/ SendGap(i) \/ SocketBreaks(i) \/ Push(i)
           \/ \E l \in loads : InitialArrives(l) \/ QuietArrives(l) \/ InitialFails(l)
  <2>1. UNCHANGED <<conn, socket, wsRef, subRef, sel, live>>
    BY <1>1 DEF vars, Poll, StoreMessage, Broadcast, HandleFrame, SendGap, SocketBreaks, Push,
       InitialArrives, QuietArrives, InitialFails, screen, link
  <2> QED BY <2>1, LineSame
<1>2. CASE Reconnect \/ GoOnline \/ Visible
  BY <1>2, LineConnects, LineSame DEF Reconnect, GoOnline, Visible, screen
<1>3. ASSUME NEW i \in Sockets, ConnectFails(i) PROVE OneLine'
  <2>1. /\ conn[i] \in {"token", "ticket"} /\ conn' = [conn EXCEPT ![i] = "over"] /\ live' = FALSE
        /\ UNCHANGED <<socket, wsRef, subRef, sel>> /\ conn \in [Sockets -> Phases]
    BY <1>3 DEF ConnectFails, screen, IInv, Fields
  <2>2. wsRef = 0 /\ InFlight' \subseteq InFlight
    BY <2>1 DEF OneLine, InFlight
  <2>3. \A j \in Sockets : conn'[j] \notin Alive
    BY <2>1, <2>2, MessagesAssumption DEF OneLine, Alive, Sockets
  <2> QED BY <2>1, <2>2, <2>3 DEF OneLine, Opens
<1>4. ASSUME NEW i \in Sockets, Closed(i) \/ Refused(i) PROVE OneLine'
  <2>1. /\ conn[i] \in Alive /\ conn' = [conn EXCEPT ![i] = "over"]
        /\ wsRef' = 0 /\ subRef' = None /\ live' = FALSE
    BY <1>4 DEF Closed, Refused, IsOpen, Alive
  <2> QED BY <2>1, LineEnds
<1>5. ASSUME NEW l \in loads, RecoveryFails(l) PROVE OneLine'
  BY <1>5, LineCloses DEF RecoveryFails, screen
<1>6. ASSUME NEW i \in Sockets, Receive(i) PROVE OneLine'
  BY <1>6, LineCloses, LineSame DEF Receive
<1>7. ASSUME NEW i \in Sockets, ReceiveWithoutToken(i) PROVE OneLine'
  BY <1>7, LineRecovered DEF ReceiveWithoutToken, screen
<1>8. ASSUME NEW l \in loads, RecoveryArrives(l) PROVE OneLine'
  BY <1>8, LineRecovered, LineSame DEF RecoveryArrives
<1> QED BY <1>1, <1>2, <1>3, <1>4, <1>5, <1>6, <1>7, <1>8, LineToken, LineTicket, LineOpened,
           LineOffline, LineSelect DEF Next, Connection, Answer, Failure

\* The server counts the socket among the subscribers of the conversation, or
\* will when it has read what was sent to it.
Ask(type, c) == [type |-> type, conv |-> c]
Subscribes(s, c) ==
  \/ /\ c \in s.subs /\ \A n \in 1 .. Len(s.in) : s.in[n] # Ask("unsubscribe", c)
  \/ \E n \in 1 .. Len(s.in) : /\ s.in[n] = Ask("subscribe", c)
                               /\ \A k \in n .. Len(s.in) : s.in[k] # Ask("unsubscribe", c)

Subscribed == "overlap" \notin lapses /\ Opens /\ sel # None
              /\ server[wsRef].up /\ server[wsRef].gap = None => Subscribes(server[wsRef], sel)

LEMMA EndOf == ASSUME IInv, NEW i \in Sockets
               PROVE  server[i] \in Ends /\ server[i].in \in Seq(Request) /\ server[i].tx \in Seq(Stored)
                      /\ server[i].out \in Seq(Frame) /\ server \in [Sockets -> Ends]
BY DEF IInv, Visit, Queued, Ends

LEMMA SubscribesAnew ==
  ASSUME NEW s, NEW c \in Convs, s.in # <<>>, s.in \in Seq(Request),
         s.in[Len(s.in)] = Ask("subscribe", c)
  PROVE  Subscribes(s, c)
<1>1. Len(s.in) \in 1 .. Len(s.in) /\ Len(s.in) .. Len(s.in) = {Len(s.in)}
  OBVIOUS
<1>2. Ask("subscribe", c) # Ask("unsubscribe", c)
  BY DEF Ask
<1> QED BY <1>1, <1>2 DEF Subscribes

LEMMA TailIs ==
  ASSUME NEW R, NEW q \in Seq(R), q # <<>>
  PROVE  /\ Len(q) \in Nat \ {0} /\ Len(Tail(q)) = Len(q) - 1 /\ Tail(q) \in Seq(R)
         /\ \A n \in 1 .. Len(Tail(q)) : Tail(q)[n] = q[n + 1] /\ n + 1 \in 1 .. Len(q)
         /\ \A n \in 1 .. Len(q) : n # 1 => n - 1 \in 1 .. Len(Tail(q)) /\ Tail(q)[n - 1] = q[n]
OBVIOUS

LEMMA SubscribesHandled ==
  ASSUME IInv, NEW i \in Sockets, HandleFrame(i), NEW c \in Convs, Subscribes(server[i], c)
  PROVE  Subscribes(server'[i], c)
<1> DEFINE q == server[i].in
           r == q[1]
<1>1. q \in Seq(Request) /\ q # <<>>
  BY EndOf DEF HandleFrame
<1>2. /\ Len(q) \in Nat \ {0} /\ Len(Tail(q)) = Len(q) - 1
      /\ \A n \in 1 .. Len(Tail(q)) : Tail(q)[n] = q[n + 1] /\ n + 1 \in 1 .. Len(q)
      /\ \A n \in 1 .. Len(q) : n # 1 => n - 1 \in 1 .. Len(Tail(q)) /\ Tail(q)[n - 1] = q[n]
  BY <1>1, TailIs
<1>3. /\ server'[i].in = Tail(q) /\ r \in Request
      /\ r.type = "subscribe" => server'[i].subs = server[i].subs \cup {r.conv}
      /\ r.type = "unsubscribe" => server'[i].subs = server[i].subs \ {r.conv}
  BY FrameHandled DEF IInv
<1>4. /\ r.type \in {"subscribe", "unsubscribe"}
      /\ r = Ask(r.type, r.conv)
  BY <1>3 DEF Request, Ask
<1> HIDE DEF q, r
<1>5. CASE c \in server[i].subs /\ \A n \in 1 .. Len(q) : q[n] # Ask("unsubscribe", c)
  <2>1. r # Ask("unsubscribe", c)
    BY <1>2, <1>5 DEF r
  <2>2. c \in server'[i].subs
    BY <1>3, <1>4, <1>5, <2>1
  <2>3. \A n \in 1 .. Len(Tail(q)) : Tail(q)[n] # Ask("unsubscribe", c)
    BY <1>2, <1>5
  <2> QED BY <1>3, <2>2, <2>3 DEF Subscribes
<1>6. ASSUME NEW n \in 1 .. Len(q), q[n] = Ask("subscribe", c),
             \A k \in n .. Len(q) : q[k] # Ask("unsubscribe", c)
      PROVE  Subscribes(server'[i], c)
  <2>1. CASE n = 1
    <3>1. r.type = "subscribe" /\ r.conv = c
      BY <1>6, <2>1 DEF r, Ask
    <3>2. c \in server'[i].subs
      BY <1>3, <3>1
    <3>3. \A k \in 1 .. Len(Tail(q)) : Tail(q)[k] # Ask("unsubscribe", c)
      BY <1>2, <1>6, <2>1
    <3> QED BY <1>3, <3>2, <3>3 DEF Subscribes
  <2>2. CASE n # 1
    <3>1. n - 1 \in 1 .. Len(Tail(q)) /\ Tail(q)[n - 1] = Ask("subscribe", c)
      BY <1>2, <1>6, <2>2
    <3>2. ASSUME NEW k \in (n - 1) .. Len(Tail(q)) PROVE Tail(q)[k] # Ask("unsubscribe", c)
      <4>1. k \in 1 .. Len(Tail(q)) /\ k + 1 \in n .. Len(q)
        BY <1>2, <3>1
      <4> QED BY <1>2, <1>6, <4>1
    <3> QED BY <1>3, <3>1, <3>2 DEF Subscribes
  <2> QED BY <2>1, <2>2
<1> QED BY <1>5, <1>6 DEF Subscribes, q

\* Requests that end with the subscription are sent at once.
LEMMA AskedLast ==
  ASSUME NEW q \in Seq(Request), NEW p \in Seq(Request), NEW c \in Convs
  PROVE  LET z == q \o (p \o <<Ask("subscribe", c)>>)
         IN  /\ z # <<>> /\ z \in Seq(Request) /\ z[Len(z)] = Ask("subscribe", c)
             /\ \E n \in 1 .. Len(z) : z[n] = Ask("subscribe", c)
<1>1. Ask("subscribe", c) \in Request
  BY DEF Ask, Request
<1> QED BY <1>1

LEMMA SelectAsks ==
  ASSUME IInv, OneLine, NEW c \in Convs, Select(c), Opens
  PROVE  /\ server'[wsRef].up => /\ server'[wsRef].in # <<>> /\ server'[wsRef].in \in Seq(Request)
                                 /\ server'[wsRef].in[Len(server'[wsRef].in)] = Ask("subscribe", c)
         /\ sel' = c /\ UNCHANGED <<wsRef, conn>>
<1>1. wsRef \in Sockets /\ subRef = sel /\ c # sel /\ c # None
  BY MessagesAssumption DEF IInv, Visit, OneLine, Opens, Select
<1>2. server[wsRef] \in Ends /\ server[wsRef].in \in Seq(Request) /\ server \in [Sockets -> Ends]
  BY <1>1, EndOf
<1>3. server' = Asked(wsRef, Request1("unsubscribe", subRef) \o Request1("subscribe", c))
  BY <1>1 DEF Select, Opens
<1>4. Request1("subscribe", c) = <<Ask("subscribe", c)>>
  BY <1>1 DEF Request1, Ask
<1>5. Request1("unsubscribe", subRef) \in Seq(Request)
  BY Request1OK DEF IInv, Visit
<1>6. ASSUME server[wsRef].up
      PROVE server'[wsRef].in = server[wsRef].in \o (Request1("unsubscribe", subRef) \o <<Ask("subscribe", c)>>)
  BY <1>1, <1>2, <1>3, <1>4, <1>6 DEF Asked, Ends
<1>7. ~server[wsRef].up => ~server'[wsRef].up
  BY <1>3 DEF Asked
<1>8. server[wsRef].up => /\ server'[wsRef].in # <<>> /\ server'[wsRef].in \in Seq(Request)
                          /\ server'[wsRef].in[Len(server'[wsRef].in)] = Ask("subscribe", c)
  <2> DEFINE p == Request1("unsubscribe", subRef)
             z == server[wsRef].in \o (p \o <<Ask("subscribe", c)>>)
  <2>1. p \in Seq(Request) /\ server[wsRef].in \in Seq(Request)
    BY <1>2, <1>5
  <2>2. z # <<>> /\ z \in Seq(Request) /\ z[Len(z)] = Ask("subscribe", c)
    <3> HIDE DEF p
    <3> QED BY <2>1, AskedLast
  <2>3. server[wsRef].up => server'[wsRef].in = z
    BY <1>6
  <2> HIDE DEF z
  <2> QED BY <2>2, <2>3
<1> QED BY <1>7, <1>8 DEF Select

LEMMA OpenedAsks ==
  ASSUME IInv, OneLine, NEW i \in Sockets, Opened(i), sel # None
  PROVE  /\ server'[wsRef].in # <<>> /\ server'[wsRef].in \in Seq(Request)
         /\ server'[wsRef].in[Len(server'[wsRef].in)] = Ask("subscribe", sel)
         /\ UNCHANGED <<sel, wsRef>>
<1>1. i = wsRef /\ server' = [[server EXCEPT ![i].up = TRUE] EXCEPT ![i].in = @ \o Request1("subscribe", sel)]
  BY LineOpened
<1>2. server[i].in \in Seq(Request) /\ server \in [Sockets -> Ends] /\ sel \in Convs
  BY EndOf DEF IInv, Visit
<1>3. Request1("subscribe", sel) = <<Ask("subscribe", sel)>>
  BY DEF Request1, Ask
<1>4. server'[i].in = server[i].in \o <<Ask("subscribe", sel)>>
  BY <1>1, <1>2, <1>3 DEF Ends
<1>5. server[i].in \o <<Ask("subscribe", sel)>> = server[i].in \o (<<>> \o <<Ask("subscribe", sel)>>)
      /\ <<>> \in Seq(Request)
  OBVIOUS
<1>6. /\ server'[i].in # <<>> /\ server'[i].in \in Seq(Request)
      /\ server'[i].in[Len(server'[i].in)] = Ask("subscribe", sel)
  BY <1>2, <1>4, <1>5, AskedLast
<1> QED BY <1>1, <1>6 DEF Opened, screen

LEMMA SubscribedSame ==
  ASSUME Subscribed, UNCHANGED <<wsRef, sel>>, Opens' => Opens, "overlap" \in lapses => "overlap" \in lapses',
         server'[wsRef].up => server[wsRef].up, server'[wsRef].gap = None => server[wsRef].gap = None,
         server'[wsRef].gap = None => server'[wsRef].subs = server[wsRef].subs,
         server'[wsRef].in = server[wsRef].in
  PROVE  Subscribed'
<1>1. ASSUME NEW s, NEW t, NEW c, s.subs = t.subs, s.in = t.in, Subscribes(s, c) PROVE Subscribes(t, c)
  BY <1>1 DEF Subscribes
<1> QED BY <1>1 DEF Subscribed

\* Where the end of the page's socket changes, for what the proofs look at.
LEMMA SubscribedNext == IInv /\ NoOverlap /\ Subscribed /\ [Next]_vars => Subscribed'
<1> SUFFICES ASSUME IInv, OneLine, Subscribed, [Next]_vars, "overlap" \notin lapses, "overlap" \notin lapses'
             PROVE  Subscribed'
  BY OverlapStays DEF NoOverlap, Subscribed
<1>a. wsRef # 0 => wsRef \in Sockets
  BY DEF IInv, Visit
<1>b. wsRef \in Sockets => server[wsRef] \in Ends /\ server \in [Sockets -> Ends]
  BY EndOf
<1>c. conn \in [Sockets -> Phases]
  BY DEF IInv, Fields
<1>1. CASE ~Opens'
  BY <1>1 DEF Subscribed
<1>2. CASE UNCHANGED <<wsRef, sel, server>> /\ (Opens' => Opens)
  BY <1>2, SubscribedSame
<1>3. ASSUME NEW m \in unsent, Broadcast(m) PROVE Subscribed'
  <2>1. UNCHANGED <<wsRef, sel, conn>>
    BY <1>3 DEF Broadcast, screen, link
  <2>2. CASE Opens
    <3>1. wsRef \in Sockets
      BY <1>a, <2>2 DEF Opens
    <3>2. msgs[m] \in Convs
      BY DEF IInv, Visit, HubOK, Stored
    <3>3. server'[wsRef] = IF msgs[m] \notin server[wsRef].subs THEN server[wsRef]
                           ELSE IF HasRoom(server[wsRef])
                           THEN [server[wsRef] EXCEPT !.tx = Append(@, m)]
                           ELSE SlowConsumer(server[wsRef], msgs[m])
      BY <1>3, <3>1 DEF Broadcast
    <3>4. CASE server'[wsRef] = SlowConsumer(server[wsRef], msgs[m])
      <4>1. server'[wsRef].gap # None
        BY <1>b, <3>1, <3>2, <3>4, MessagesAssumption DEF SlowConsumer, Ends
      <4> QED BY <2>1, <4>1 DEF Subscribed
    <3>5. CASE server'[wsRef] = server[wsRef] \/ server'[wsRef] = [server[wsRef] EXCEPT !.tx = Append(@, m)]
      <4>1. /\ server'[wsRef].up = server[wsRef].up /\ server'[wsRef].gap = server[wsRef].gap
            /\ server'[wsRef].subs = server[wsRef].subs /\ server'[wsRef].in = server[wsRef].in
        BY <1>b, <3>1, <3>5 DEF Ends
      <4>2. Opens' => Opens
        BY <2>1 DEF Opens
      <4> QED BY <2>1, <4>1, <4>2, SubscribedSame
    <3> QED BY <3>3, <3>4, <3>5
  <2> QED BY <1>1, <2>1, <2>2 DEF Opens
<1>4. ASSUME NEW i \in Sockets, HandleFrame(i) PROVE Subscribed'
  <2>1. UNCHANGED <<wsRef, sel, conn>>
    BY <1>4 DEF HandleFrame, screen, link
  <2>2. \A j \in Sockets : j # i => server'[j] = server[j]
    BY <1>4, FrameHandled DEF IInv
  <2>3. CASE i # wsRef /\ Opens
    <3>1. server'[wsRef] = server[wsRef] /\ (Opens' => Opens)
      BY <1>a, <2>1, <2>2, <2>3 DEF Opens
    <3> QED BY <2>1, <3>1, SubscribedSame
  <2>4. CASE i = wsRef /\ Opens /\ sel # None /\ server'[wsRef].up /\ server'[wsRef].gap = None
    <3>1. server[wsRef].up /\ server[wsRef].gap = None
      BY <1>4, <2>4, FrameHandled DEF IInv
    <3>2. Subscribes(server[wsRef], sel) /\ sel \in Convs
      BY <2>4, <3>1 DEF Subscribed, IInv, Visit
    <3>3. Subscribes(server'[i], sel)
      BY <1>4, <2>4, <3>2, SubscribesHandled
    <3> QED BY <2>1, <2>4, <3>3 DEF Subscribed
  <2> QED BY <1>1, <2>1, <2>3, <2>4 DEF Opens, Subscribed
<1>5. ASSUME NEW i \in Sockets, SendGap(i) \/ SocketBreaks(i) PROVE Subscribed'
  <2>1. UNCHANGED <<wsRef, sel, conn>>
    BY <1>5 DEF SendGap, SocketBreaks, screen, link
  <2>2. server \in [Sockets -> Ends]
    BY EndOf
  <2>3. \A j \in Sockets : j # i => server'[j] = server[j]
    BY <1>5, <2>2 DEF SendGap, SocketBreaks, Sends
  <2>4. ~server'[i].up
    <3>1. DOMAIN Down(server[i]) = DOMAIN NoServer /\ Down(server[i]).up = FALSE
      BY DEF Down, NoServer
    <3>2. CASE SocketBreaks(i)
      <4>1. server'[i] = Down(server[i])
        BY <2>2, <3>2 DEF SocketBreaks
      <4> QED BY <3>1, <4>1
    <3>3. CASE SendGap(i)
      <4>1. server'[i].up = Down(server[i]).up
        BY <2>2, <3>1, <3>3 DEF SendGap, Sends, NoServer
      <4> QED BY <3>1, <4>1
    <3> QED BY <1>5, <3>2, <3>3
  <2>5. CASE i # wsRef /\ Opens
    <3>1. server'[wsRef] = server[wsRef] /\ (Opens' => Opens)
      BY <1>a, <2>1, <2>3, <2>5 DEF Opens
    <3> QED BY <2>1, <3>1, SubscribedSame
  <2> QED BY <1>1, <2>1, <2>4, <2>5 DEF Opens, Subscribed
<1>6. ASSUME NEW c \in Convs \cup {None}, Select(c) PROVE Subscribed'
  <2>1. UNCHANGED <<wsRef, conn>> /\ sel' = c
    BY <1>6 DEF Select
  <2>2. CASE Opens /\ c \in Convs
    <3>1. server'[wsRef].up => Subscribes(server'[wsRef], c)
      <4>1. server'[wsRef].up => /\ server'[wsRef].in # <<>> /\ server'[wsRef].in \in Seq(Request)
                                 /\ server'[wsRef].in[Len(server'[wsRef].in)] = Ask("subscribe", c)
        BY <1>6, <2>2, SelectAsks
      <4> QED BY <2>2, <4>1, SubscribesAnew
    <3> QED BY <2>1, <3>1 DEF Subscribed
  <2> QED BY <1>1, <2>1, <2>2 DEF Opens, Subscribed
<1>7. ASSUME NEW i \in Sockets, Opened(i) PROVE Subscribed'
  <2>1. CASE sel # None
    <3>1. /\ server'[wsRef].in # <<>> /\ server'[wsRef].in \in Seq(Request)
          /\ server'[wsRef].in[Len(server'[wsRef].in)] = Ask("subscribe", sel)
          /\ UNCHANGED <<sel, wsRef>>
      BY <1>7, <2>1, OpenedAsks
    <3>2. Subscribes(server'[wsRef], sel)
      BY <2>1, <3>1, SubscribesAnew DEF IInv, Visit
    <3> QED BY <3>1, <3>2 DEF Subscribed
  <2>2. CASE sel = None
    BY <1>7, <2>2 DEF Opened, screen, Subscribed
  <2> QED BY <2>1, <2>2
<1>8. ASSUME NEW i \in Sockets, Receive(i) \/ ReceiveWithoutToken(i) PROVE Subscribed'
  <2>1. UNCHANGED <<wsRef, sel>> /\ server' = [server EXCEPT ![i].out = Tail(@)]
    BY <1>8 DEF Receive, ReceiveWithoutToken, screen
  <2>2. conn' = conn \/ CloseSocket
    BY <1>8 DEF Receive, ReceiveWithoutToken
  <2>3. Opens' => Opens
    BY <1>a, <1>c, <2>1, <2>2 DEF Opens, CloseSocket
  <2>4. CASE Opens
    <3>1. /\ server'[wsRef].up = server[wsRef].up /\ server'[wsRef].gap = server[wsRef].gap
          /\ server'[wsRef].subs = server[wsRef].subs /\ server'[wsRef].in = server[wsRef].in
      BY <1>a, <1>b, <2>1, <2>4 DEF Opens, Ends
    <3> QED BY <2>1, <2>3, <3>1, SubscribedSame
  <2> QED BY <1>1, <2>3, <2>4
<1>9. ASSUME NEW i \in Sockets, Push(i) PROVE Subscribed'
  <2>1. UNCHANGED <<wsRef, sel, conn>> /\ server' = [server EXCEPT ![i].tx = Tail(@)]
    BY <1>9 DEF Push, link
  <2>2. CASE Opens
    <3>1. /\ server'[wsRef].up = server[wsRef].up /\ server'[wsRef].gap = server[wsRef].gap
          /\ server'[wsRef].subs = server[wsRef].subs /\ server'[wsRef].in = server[wsRef].in
      BY <1>a, <1>b, <2>1, <2>2 DEF Opens, Ends
    <3> QED BY <2>1, <2>2, <3>1, SubscribedSame
  <2> QED BY <1>1, <2>1, <2>2 DEF Opens
<1>10. ASSUME NEW i \in Sockets, TokenArrives(i) \/ Closed(i) \/ Refused(i) PROVE Subscribed'
  BY <1>1, <1>10 DEF TokenArrives, Closed, Refused, Opens
<1>11. CASE GoOffline
  BY <1>1, <1>11 DEF GoOffline, Opens
<1>12. ASSUME NEW i \in Sockets, TicketArrives(i) PROVE Subscribed'
  <2>1. wsRef' = i /\ conn'[i] = "connecting"
    BY <1>12, <1>c DEF TicketArrives
  <2> QED BY <1>1, <2>1 DEF Opens
<1>13. ASSUME NEW i \in Sockets, ConnectFails(i) PROVE Subscribed'
  <2>1. UNCHANGED <<wsRef, sel, server>> /\ (Opens' => Opens)
    BY <1>13, <1>a, <1>c DEF ConnectFails, screen, Opens
  <2> QED BY <1>2, <2>1
<1>14. ASSUME NEW l \in loads, RecoveryFails(l) PROVE Subscribed'
  <2>1. UNCHANGED <<wsRef, sel, server>> /\ (Opens' => Opens)
    BY <1>14, <1>a, <1>c DEF RecoveryFails, CloseSocket, screen, Opens
  <2> QED BY <1>2, <2>1
<1>15. CASE Reconnect \/ GoOnline \/ Visible
  <2>1. UNCHANGED <<wsRef, sel, server>> /\ (Opens' => Opens)
    <3>1. conn' = conn \/ \E i \in Sockets : conn' = [conn EXCEPT ![i] = "token"]
      BY <1>15 DEF Reconnect, GoOnline, Visible, Connects
    <3>2. Opens' => Opens
      BY <1>15, <1>a, <1>c, <3>1 DEF Opens, Reconnect, GoOnline, Visible
    <3> QED BY <1>15, <3>2 DEF Reconnect, GoOnline, Visible, screen
  <2> QED BY <1>2, <2>1
<1>16. CASE \/ UNCHANGED vars \/ Poll
            \/ \E c \in Convs : StoreMessage(c)
            \/ \E l \in loads : Answer(l) \/ InitialFails(l)
  <2>1. UNCHANGED <<wsRef, sel, server, conn>>
    BY <1>16 DEF vars, Poll, StoreMessage, Answer, InitialArrives, QuietArrives, RecoveryArrives,
       InitialFails, screen, link
  <2> QED BY <1>2, <2>1 DEF Opens
<1> QED BY <1>3, <1>4, <1>5, <1>6, <1>7, <1>8, <1>9, <1>10, <1>11, <1>12, <1>13, <1>14, <1>15,
           <1>16 DEF Next, Connection, Failure

----------------------------------------------------------------------------
(* Nothing is missed.  Up to a cursor only history is missing, and what lies *)
(* behind the cursors is covered: it is queued, or a recovery brings it.    *)

NoHole == \A b \in Cursors, m \in Of(sel) : m <= b => m \in shown \/ \A k \in shown : m < k

Pending == {l \in loads : l.kind = "initial"}

\* With an empty screen the cursors are not past the page that is to fill it.
FirstLook ==
  shown = {} => /\ \A l \in Pending, b \in Cursors : b <= l.to
                /\ Pending = {} => \A b \in Cursors : b = 0

\* The subscription is not there yet, or the end of the socket is near.
Unsettled(s, c) ==
  \/ ~s.up \/ s.gap # None
  \/ \E n \in 1 .. Len(s.in) : s.in[n] = Ask("subscribe", c)
  \/ \E n \in 1 .. Len(s.out) : s.out[n] = Ask("ack", c)

Recoveries == {l \in loads : l.kind \in {"first", "after"} /\ l.conv = sel}

Covered(m) ==
  \/ m \in unsent /\ sel \in server[wsRef].subs
  \/ \E n \in 1 .. Len(server[wsRef].tx) : server[wsRef].tx[n] = m
  \/ \E l \in Recoveries : m \in l.page \/ l.more \/ (l.kind = "first" /\ m <= l.to)
  \/ \E b \in Cursors : m <= b

AllCovered == Opens /\ ~Unsettled(server[wsRef], sel) => \A m \in Of(sel) \ shown : Covered(m)

Clean == lapses = {} /\ sel # None => NoHole /\ AllCovered /\ FirstLook

NothingMissed == NoOverlap /\ Subscribed /\ Clean

LEMMA CursorsAre ==
  ASSUME IInv, sel # None
  PROVE  /\ sel \in Convs /\ Of(sel) \in SUBSET (1 .. Len(msgs)) /\ Len(msgs) \in Nat
         /\ Cursors \subseteq Of(sel) \cup {0} /\ Cursors \subseteq Nat
<1>1. sel \in Convs /\ HubOK
  BY DEF IInv, Visit
<1>2. Of(sel) \in SUBSET (1 .. Len(msgs)) /\ Len(msgs) \in Nat
  BY <1>1, OfIsFinite
<1>3. Cursors \subseteq Of(sel) \cup {0}
  BY <1>1 DEF Cursors, IInv, Reads, PageFacts
<1> QED BY <1>1, <1>2, <1>3

\* What a page under way for the conversation on screen is.
LEMMA LoadIs ==
  ASSUME IInv, NEW l \in loads, l.conv = sel
  PROVE  /\ PageFacts(l) /\ l.to \in Nat /\ l.from \in Nat /\ l.page \subseteq Of(sel) /\ sel # None
         /\ l.kind \in Heads \cup {"after"} /\ l.more \in BOOLEAN
         /\ l.kind = "after" => l.from \in Cursors
<1>1. PageFacts(l) /\ l \in Load /\ sel \in Convs
  BY DEF IInv, Reads, PageFacts
<1>2. l.to \in Nat /\ l.from \in Nat /\ l.kind \in {"initial", "quiet", "first", "after"}
      /\ l.more \in BOOLEAN
  BY <1>1 DEF Load
<1>3. sel # None
  BY <1>1, MessagesAssumption
<1> QED BY <1>1, <1>2, <1>3 DEF Heads, Cursors, PageFacts

\* A page that ends a screen's only gap leaves none behind.
LEMMA MergedWithoutHole ==
  ASSUME IInv, NoHole, NEW l \in loads, l.conv = sel, UNCHANGED <<msgs, sel>>, Merge(l), lapses' = {},
         Cursors' \subseteq Cursors \cup {l.to}
  PROVE  NoHole'
<1>1. /\ PageFacts(l) /\ l.to \in Nat /\ l.from \in Nat /\ l.page \subseteq Of(sel) /\ sel # None
      /\ l.kind \in Heads \cup {"after"} /\ (l.kind = "after" => l.from \in Cursors)
  BY LoadIs
<1>2. Of(sel) \subseteq Nat /\ Cursors \subseteq Nat
  BY <1>1, CursorsAre
<1>3. shown' = shown \cup l.page /\ (l.kind # "after" => ~Skips(l.page)) /\ ~Late(l.page, l.to)
  BY DEF Merge
<1>4. shown \subseteq Nat
  BY DEF IInv, Visit, Shown, Of
<1>5. Of(sel)' = Of(sel)
  BY DEF Of
<1> SUFFICES ASSUME NEW b \in Cursors', NEW m \in Of(sel), m <= b, m \notin shown',
                    NEW k \in shown', ~(m < k)
             PROVE  FALSE
  BY <1>5 DEF NoHole
<1>6. m \notin shown /\ m \notin l.page /\ m \in Nat /\ k \in Nat /\ b \in Nat /\ k < m
  <2>1. m \notin shown /\ m \notin l.page /\ m \in Nat /\ k \in Nat /\ b \in Nat
    BY <1>1, <1>2, <1>3, <1>4
  <2>2. k # m
    OBVIOUS
  <2> QED BY <2>1, <2>2
\* Missing below the end of the page: it is below the stretch that the page covers.
<1>7. ASSUME m <= l.to, k \in l.page PROVE FALSE
  <2>1. CASE l.kind \in Heads
    BY <1>1, <1>6, <1>7, <2>1 DEF PageFacts
  <2>2. CASE l.kind = "after"
    <3>1. l.from < k /\ l.from < m
      BY <1>1, <1>6, <1>7, <2>2 DEF PageFacts
    <3> QED BY <1>1, <1>6, <1>7, <2>2, <3>1 DEF PageFacts
  <2> QED BY <1>1, <2>1, <2>2
<1>8. ASSUME m <= l.to, k \in shown PROVE FALSE
  <2>1. CASE l.kind = "after"
    <3>1. m <= l.from
      BY <1>1, <1>6, <1>8, <2>1 DEF PageFacts
    <3> QED BY <1>1, <1>6, <1>8, <2>1, <3>1 DEF NoHole
  <2>2. CASE l.kind \in Heads
    <3>1. l.page # {} /\ l.to \in l.page
      BY <1>1, <1>6, <1>8, <2>2 DEF PageFacts
    <3>2. m < l.to
      BY <1>1, <1>6, <1>8, <3>1
    <3>3. Skips(l.page)
      BY <1>6, <1>8, <3>1, <3>2 DEF Skips
    <3> QED BY <1>3, <2>2, <3>3 DEF Heads
  <2> QED BY <1>1, <2>1, <2>2
<1>9. CASE ~(m <= l.to)
  <2>1. l.to < m /\ b \in Cursors
    BY <1>1, <1>6, <1>9
  <2> QED BY <1>3, <1>6, <2>1 DEF Late
<1> QED BY <1>3, <1>7, <1>8, <1>9

LEMMA MergedFirstLook ==
  ASSUME IInv, FirstLook, NEW l \in loads, l.conv = sel, Merge(l),
         Cursors' \subseteq Cursors \cup {l.to}, Pending' = Pending \ {l}
  PROVE  FirstLook'
<1>1. /\ PageFacts(l) /\ l.to \in Nat /\ sel # None
      /\ l.kind \in Heads \cup {"after"} /\ (l.kind = "after" => l.from \in Cursors)
  BY LoadIs
<1>2. Cursors \subseteq Nat /\ \A p \in Pending : p.to \in Nat
  BY <1>1, CursorsAre DEF Pending, IInv, Reads, Load
<1> SUFFICES ASSUME shown' = {}
             PROVE  /\ \A p \in Pending', b \in Cursors' : b <= p.to
                    /\ Pending' = {} => \A b \in Cursors' : b = 0
  BY DEF FirstLook
<1>3. shown = {} /\ l.page = {}
  BY DEF Merge
<1>4. CASE l.kind \in Heads
  <2>1. l.to = 0
    BY <1>1, <1>3, <1>4 DEF PageFacts
  <2>2. ASSUME NEW p \in Pending', NEW b \in Cursors' PROVE b <= p.to
    <3>1. p \in Pending /\ p.to \in Nat
      BY <1>2
    <3>2. CASE b \in Cursors
      BY <1>3, <3>1, <3>2 DEF FirstLook
    <3>3. CASE b = 0
      BY <3>1, <3>3
    <3> QED BY <2>1, <3>2, <3>3
  <2>3. ASSUME Pending' = {}, NEW b \in Cursors' PROVE b = 0
    <3>1. CASE l \in Pending
      BY <1>2, <1>3, <2>1, <3>1 DEF FirstLook
    <3>2. CASE l \notin Pending
      BY <1>3, <2>1, <2>3, <3>2 DEF FirstLook
    <3> QED BY <3>1, <3>2
  <2> QED BY <2>2, <2>3
<1>5. CASE l.kind = "after"
  <2>1. l.to = l.from /\ Cursors' \subseteq Cursors
    BY <1>1, <1>3, <1>5 DEF PageFacts
  <2>2. Pending' = Pending
    BY <1>5 DEF Pending
  <2> QED BY <1>3, <2>1, <2>2 DEF FirstLook
<1> QED BY <1>1, <1>4, <1>5

LEMMA MergedCovered ==
  ASSUME IInv, AllCovered, NEW l \in loads, l.conv = sel, Merge(l), lapses' = {},
         UNCHANGED <<msgs, sel, server, conn, wsRef, unsent>>,
         \/ loads' = loads \ {l} /\ ~l.more
         \/ loads' = (loads \ {l}) \cup {Sync(sel, l.to)}
  PROVE  AllCovered'
<1>1. /\ PageFacts(l) /\ l.to \in Nat /\ l.from \in Nat /\ sel # None /\ l.page \subseteq Of(sel)
      /\ l.kind \in Heads \cup {"after"} /\ (l.kind = "after" => l.from \in Cursors)
  BY LoadIs
<1>2. Of(sel) \subseteq Nat /\ Cursors \subseteq Nat /\ sel \in Convs /\ HubOK /\ Len(msgs) <= MaxMessages
  BY <1>1, CursorsAre DEF IInv, Visit, Reads
<1>3. shown' = shown \cup l.page /\ ~Late(l.page, l.to) /\ cursor' = [cursor EXCEPT ![sel] = l.to]
  BY DEF Merge
<1>4. l.to \in Cursors'
  <2>1. cursor'[sel] = l.to
    BY <1>2, <1>3 DEF IInv, Reads
  <2>2. l.to # None
    BY <1>1, MessagesAssumption
  <2> QED BY <2>1, <2>2 DEF Cursors
<1>5. \A k \in loads : k # l => k \in loads'
  OBVIOUS
<1>6. \A b \in Cursors : b \in Cursors' \/ b <= l.to \/ b = cursor[sel]
  BY <1>1, <1>5 DEF Cursors, PageFacts
<1> SUFFICES ASSUME Opens, ~Unsettled(server[wsRef], sel), NEW m \in Of(sel), m \notin shown' PROVE Covered(m)'
  BY DEF AllCovered, Opens, Of
<1>7. m \notin shown /\ m \notin l.page /\ m \in Nat /\ Covered(m)
  BY <1>2, <1>3 DEF AllCovered
<1>8. CASE m <= l.to
  BY <1>4, <1>8 DEF Covered
<1>9. CASE ~(m <= l.to)
  <2>1. l.to < m
    BY <1>1, <1>7, <1>9
  <2>2. ~(\E b \in Cursors : m <= b)
    BY <1>3, <1>7, <2>1 DEF Late
  <2>3. CASE \/ m \in unsent /\ sel \in server[wsRef].subs
             \/ \E n \in 1 .. Len(server[wsRef].tx) : server[wsRef].tx[n] = m
    BY <2>3 DEF Covered
  <2>4. ASSUME NEW k \in Recoveries, m \in k.page \/ k.more \/ (k.kind = "first" /\ m <= k.to)
        PROVE  Covered(m)'
    <3>1. CASE k # l
      <4>1. k \in Recoveries'
        BY <1>5, <2>4, <3>1 DEF Recoveries
      <4> QED BY <2>4, <4>1 DEF Covered
    <3>2. CASE k = l
      <4>1. l.more /\ loads' = (loads \ {l}) \cup {Sync(sel, l.to)}
        BY <1>7, <1>9, <2>4, <3>2
      <4>2. l.to \in Of(sel) \cup {0}
        BY <1>1 DEF PageFacts
      <4>3. /\ Sync(sel, l.to).conv = sel /\ Sync(sel, l.to).kind = "after"
            /\ m \in Sync(sel, l.to).page \/ Sync(sel, l.to).more
        BY <1>2, <2>1, <4>2, SyncIs
      <4>4. Sync(sel, l.to) \in Recoveries'
        BY <4>1, <4>3 DEF Recoveries
      <4> QED BY <4>3, <4>4 DEF Covered
    <3> QED BY <3>1, <3>2
  <2> QED BY <1>7, <2>2, <2>3, <2>4 DEF Covered
<1> QED BY <1>8, <1>9

Clear == NoHole /\ AllCovered /\ FirstLook

\* The page's end of the line, as far as Covered looks at it.
Steady == UNCHANGED <<msgs, sel, wsRef>> /\ (Opens' => Opens)

LEMMA PagesKept ==
  ASSUME NoHole, FirstLook, UNCHANGED <<msgs, sel, shown>>, Cursors' \subseteq Cursors, Pending' = Pending
  PROVE  NoHole' /\ FirstLook'
<1>1. Of(sel)' = Of(sel)
  BY DEF Of
<1>2. NoHole'
  BY <1>1 DEF NoHole
<1>3. FirstLook'
  BY DEF FirstLook
<1> QED BY <1>2, <1>3

LEMMA CoverKept ==
  ASSUME AllCovered, Steady, UNCHANGED <<shown, unsent>>, server'[wsRef] = server[wsRef],
         Recoveries \subseteq Recoveries', Cursors \subseteq Cursors'
  PROVE  AllCovered'
<1>1. Of(sel)' = Of(sel)
  BY DEF Of, Steady
<1>2. \A m : Covered(m) => Covered(m)'
  BY DEF Covered, Steady
<1> QED BY <1>1, <1>2 DEF AllCovered, Steady

\* Nothing that the three look at.
LEMMA ClearKept ==
  ASSUME Clear, Steady, UNCHANGED <<shown, cursor, loads, unsent>>, Opens => server'[wsRef] = server[wsRef]
  PROVE  Clear'
<1>1. Cursors' = Cursors /\ Pending' = Pending /\ Recoveries' = Recoveries
  BY DEF Cursors, Pending, Recoveries, Steady
<1>2. CASE ~Opens
  BY <1>1, <1>2, PagesKept DEF Clear, AllCovered, Steady
<1>3. CASE Opens
  BY <1>1, <1>3, PagesKept, CoverKept DEF Clear, Steady
<1> QED BY <1>2, <1>3

\* The line is not open any more.
LEMMA ClearClosed ==
  ASSUME NoHole, FirstLook, UNCHANGED <<msgs, sel, shown>>, ~Opens', Cursors' \subseteq Cursors,
         Pending' = Pending
  PROVE  Clear'
BY PagesKept DEF Clear, AllCovered

\* A head page besides the one that fills the screen counts for nothing.
LEMMA QuietCounts ==
  ASSUME UNCHANGED <<sel, cursor>>, NEW P, \A l \in P : l.kind = "quiet",
         loads' = loads \cup P \/ loads' = loads \ P
  PROVE  Cursors' = Cursors /\ Pending' = Pending /\ Recoveries' = Recoveries
BY DEF Cursors, Pending, Recoveries

LEMMA ClearStore ==
  ASSUME IInv, OneLine, Subscribed, "overlap" \notin lapses, Clear, sel # None,
         NEW c \in Convs, StoreMessage(c)
  PROVE  Clear'
<1>1. /\ UNCHANGED <<server, sel, shown, cursor, loads, conn, wsRef>> /\ msgs' = Append(msgs, c)
      /\ unsent' = unsent \cup {Len(msgs')}
  BY DEF StoreMessage, screen, link
<1>2. msgs \in Seq(Convs) /\ Len(msgs) \in Nat /\ Len(msgs') = Len(msgs) + 1
      /\ \A m \in 1 .. Len(msgs) : msgs'[m] = msgs[m]
  BY <1>1 DEF IInv, Visit, HubOK
<1>3. /\ Of(sel) \subseteq Of(sel)' /\ Of(sel) \in SUBSET (1 .. Len(msgs))
      /\ \A m \in Of(sel)' : m \notin Of(sel) => m = Len(msgs) + 1
  BY <1>1, <1>2 DEF Of
<1>4. Cursors' = Cursors /\ Pending' = Pending /\ Recoveries' = Recoveries /\ Opens' = Opens
  BY <1>1 DEF Cursors, Pending, Recoveries, Opens
<1>5. \A b \in Cursors : b <= Len(msgs) /\ b \in Nat
  <2>1. Cursors \subseteq Of(sel) \cup {0}
    BY CursorsAre
  <2> QED BY <1>2, <1>3, <2>1
<1>6. NoHole'
  <2> SUFFICES ASSUME NEW b \in Cursors, NEW m \in Of(sel)', m <= b
               PROVE  m \in shown \/ \A k \in shown : m < k
    BY <1>1, <1>4 DEF NoHole
  <2>1. m \in Of(sel)
    BY <1>2, <1>3, <1>5
  <2> QED BY <2>1 DEF Clear, NoHole
<1>7. FirstLook'
  BY <1>1, <1>4 DEF Clear, FirstLook
<1>8. AllCovered'
  <2> SUFFICES ASSUME Opens, ~Unsettled(server[wsRef], sel), NEW m \in Of(sel)', m \notin shown
               PROVE  Covered(m)'
    BY <1>1, <1>4 DEF AllCovered
  <2>1. CASE m \in Of(sel)
    <3>1. Covered(m)
      BY <2>1 DEF Clear, AllCovered
    <3> QED BY <1>1, <1>4, <3>1 DEF Covered
  <2>2. CASE m \notin Of(sel)
    <3>1. m \in unsent'
      BY <1>1, <1>2, <1>3, <2>2
    <3>2. Subscribes(server[wsRef], sel)
      BY DEF Subscribed, Unsettled
    <3>3. sel \in server[wsRef].subs
      BY <3>2 DEF Subscribes, Unsettled
    <3> QED BY <1>1, <3>1, <3>3 DEF Covered
  <2> QED BY <2>1, <2>2
<1> QED BY <1>6, <1>7, <1>8 DEF Clear

LEMMA ClearBroadcast ==
  ASSUME IInv, Clear, sel # None, NEW m \in unsent, Broadcast(m)
  PROVE  Clear'
<1>1. UNCHANGED <<msgs, sel, shown, cursor, loads, conn, wsRef>> /\ unsent' = unsent \ {m}
  BY DEF Broadcast, screen, link
<1>2. Cursors' = Cursors /\ Pending' = Pending /\ Recoveries' = Recoveries /\ Opens' = Opens
      /\ Of(sel)' = Of(sel)
  BY <1>1 DEF Cursors, Pending, Recoveries, Opens, Of
<1>3. AllCovered'
  <2> SUFFICES ASSUME Opens, ~Unsettled(server'[wsRef], sel), NEW n \in Of(sel), n \notin shown
               PROVE  Covered(n)'
    BY <1>1, <1>2 DEF AllCovered
  <2> DEFINE s == server[wsRef]
             t == server'[wsRef]
  <2>1. wsRef \in Sockets /\ msgs[m] \in Convs /\ m \in Stored
    BY DEF Opens, IInv, Visit, HubOK, Stored
  <2>2. s \in Ends /\ s.tx \in Seq(Stored)
    BY <2>1, EndOf
  <2>3. t = IF msgs[m] \notin s.subs THEN s
            ELSE IF HasRoom(s) THEN [s EXCEPT !.tx = Append(@, m)] ELSE SlowConsumer(s, msgs[m])
    BY <2>1 DEF Broadcast
  <2>4. CASE t = SlowConsumer(s, msgs[m])
    <3>1. t.gap # None
      BY <2>1, <2>2, <2>4, MessagesAssumption DEF SlowConsumer, Ends
    <3> QED BY <3>1 DEF Unsettled
  <2>5. CASE t = [s EXCEPT !.tx = Append(@, m)] /\ msgs[m] \in s.subs
    <3>1. /\ t.up = s.up /\ t.gap = s.gap /\ t.in = s.in /\ t.out = s.out /\ t.subs = s.subs
          /\ t.tx = Append(s.tx, m)
      BY <2>2, <2>5 DEF Ends
    <3>2. Covered(n)
      BY <3>1 DEF Clear, AllCovered, Unsettled
    <3>3. /\ Len(t.tx) = Len(s.tx) + 1 /\ t.tx[Len(t.tx)] = m /\ Len(t.tx) \in 1 .. Len(t.tx)
          /\ \A k \in 1 .. Len(s.tx) : k \in 1 .. Len(t.tx) /\ t.tx[k] = s.tx[k]
      <4>1. s.tx \in Seq(Stored) /\ m \in Stored
        BY <2>1, <2>2
      <4> HIDE DEF s, t
      <4> QED BY <3>1, <4>1
    <3>4. CASE n = m
      BY <1>1, <3>3, <3>4 DEF Covered
    <3>5. CASE n # m
      BY <1>1, <1>2, <3>1, <3>2, <3>3, <3>5 DEF Covered
    <3> QED BY <3>4, <3>5
  <2>6. CASE t = s /\ msgs[m] \notin s.subs
    <3>1. Covered(n)
      BY <2>6 DEF Clear, AllCovered
    <3>2. n = m => sel \notin s.subs
      BY <2>6 DEF Of
    <3> QED BY <1>1, <1>2, <2>6, <3>1, <3>2 DEF Covered
  <2> QED BY <2>3, <2>4, <2>5, <2>6
<1> QED BY <1>1, <1>2, <1>3, PagesKept DEF Clear

LEMMA ClearHandled ==
  ASSUME IInv, OneLine, Subscribed, "overlap" \notin lapses, Clear, sel # None, NEW i \in Sockets,
         HandleFrame(i)
  PROVE  Clear'
<1>1. UNCHANGED <<msgs, unsent, sel, shown, cursor, loads, conn, wsRef>>
  BY DEF HandleFrame, hub, screen, link
<1>2. Cursors' = Cursors /\ Pending' = Pending /\ Recoveries' = Recoveries /\ Opens' = Opens
      /\ Of(sel)' = Of(sel)
  BY <1>1 DEF Cursors, Pending, Recoveries, Opens, Of
<1>3. CASE i # wsRef
  <2>1. Opens => server'[wsRef] = server[wsRef]
    BY <1>3, FrameHandled DEF IInv, Visit, Opens
  <2> QED BY <1>1, <1>2, <2>1, ClearKept DEF Steady
<1>4. CASE i = wsRef
  <2> DEFINE s == server[i]
             t == server'[i]
             q == server[i].in
             r == server[i].in[1]
  <2>1. q \in Seq(Request) /\ q # <<>> /\ s.out \in Seq(Frame)
    BY EndOf DEF HandleFrame
  <2>2. /\ Len(q) \in Nat \ {0} /\ Len(Tail(q)) = Len(q) - 1
        /\ \A n \in 1 .. Len(Tail(q)) : Tail(q)[n] = q[n + 1] /\ n + 1 \in 1 .. Len(q)
        /\ \A n \in 1 .. Len(q) : n # 1 => n - 1 \in 1 .. Len(Tail(q)) /\ Tail(q)[n - 1] = q[n]
    BY <2>1, TailIs
  <2>3. /\ t.up = s.up /\ t.tx = s.tx /\ t.gap = s.gap /\ t.in = Tail(q) /\ r \in Request
        /\ r.type = "subscribe" => /\ t.subs = s.subs \cup {r.conv}
                                   /\ t.out = Append(s.out, Ask("ack", r.conv))
        /\ r.type = "unsubscribe" => t.subs = s.subs \ {r.conv} /\ t.out = s.out
    BY FrameHandled DEF IInv, Ask
  <2>4. r.type \in {"subscribe", "unsubscribe"} /\ r = Ask(r.type, r.conv) /\ r.conv \in Convs
    BY <2>3 DEF Request, Ask
  <2> HIDE DEF s, t, q, r
  <2>5. \A n \in 1 .. Len(s.out) : /\ n \in 1 .. Len(t.out) /\ t.out[n] = s.out[n]
    <3>1. CASE r.type = "subscribe"
      <4>1. Ask("ack", r.conv) \in Frame
        BY <2>4 DEF Ask, Frame
      <4> QED BY <2>1, <2>3, <3>1, <4>1
    <3> QED BY <2>1, <2>3, <2>4, <3>1
  \* What was unsettled stays so: a subscription read is acknowledged.
  <2>6. Unsettled(s, sel) => Unsettled(t, sel)
    <3>1. ASSUME NEW n \in 1 .. Len(q), q[n] = Ask("subscribe", sel) PROVE Unsettled(t, sel)
      <4>1. CASE n = 1
        <5>1. r.type = "subscribe" /\ r.conv = sel
          BY <3>1, <4>1 DEF r, q, Ask
        <5>2. t.out = Append(s.out, Ask("ack", sel)) /\ Ask("ack", sel) \in Frame
          BY <2>3, <2>4, <5>1 DEF Ask, Frame
        <5>3. Len(t.out) \in 1 .. Len(t.out) /\ t.out[Len(t.out)] = Ask("ack", sel)
          BY <2>1, <5>2
        <5> QED BY <5>3 DEF Unsettled
      <4>2. CASE n # 1
        <5>1. n - 1 \in 1 .. Len(Tail(q)) /\ Tail(q)[n - 1] = Ask("subscribe", sel)
          BY <2>2, <3>1, <4>2
        <5> QED BY <2>3, <5>1 DEF Unsettled
      <4> QED BY <4>1, <4>2
    <3> QED BY <2>3, <2>5, <3>1 DEF Unsettled, s, q
  <2>7. ASSUME ~Unsettled(t, sel), Opens, sel \in s.subs PROVE sel \in t.subs
    <3>1. s.up /\ s.gap = None
      BY <2>3, <2>7 DEF Unsettled
    <3>2. Subscribes(s, sel)
      BY <1>4, <2>7, <3>1 DEF Subscribed, s
    <3>3. ~Unsettled(s, sel)
      BY <2>6, <2>7
    <3>4. \A n \in 1 .. Len(q) : q[n] # Ask("unsubscribe", sel)
      BY <3>2, <3>3 DEF Subscribes, Unsettled, s, q
    <3>5. r # Ask("unsubscribe", sel)
      <4>1. 1 \in 1 .. Len(q)
        BY <2>2
      <4> QED BY <3>4, <4>1 DEF r, q
    <3> QED BY <2>3, <2>4, <2>7, <3>5
  <2>8. AllCovered'
    <3> SUFFICES ASSUME Opens, ~Unsettled(t, sel), NEW n \in Of(sel), n \notin shown PROVE Covered(n)'
      BY <1>1, <1>2, <1>4 DEF AllCovered, t
    <3>1. Covered(n)
      BY <1>4, <2>6 DEF Clear, AllCovered, s
    <3>2. /\ sel \in server[wsRef].subs => sel \in server'[wsRef].subs
          /\ server'[wsRef].tx = server[wsRef].tx
      BY <1>4, <2>3, <2>7 DEF s, t
    <3> QED BY <1>1, <1>2, <3>1, <3>2 DEF Covered
  <2> QED BY <1>1, <1>2, <2>8, PagesKept DEF Clear
<1> QED BY <1>3, <1>4

LEMMA ClearDown ==
  ASSUME IInv, Clear, sel # None, NEW i \in Sockets, SendGap(i) \/ SocketBreaks(i)
  PROVE  Clear'
<1>1. UNCHANGED <<msgs, unsent, sel, shown, cursor, loads, conn, wsRef>>
  BY DEF SendGap, SocketBreaks, hub, screen, link
<1>2. server \in [Sockets -> Ends]
  BY EndOf
<1>3. CASE i # wsRef
  <2>1. Opens => server'[wsRef] = server[wsRef]
    BY <1>2, <1>3 DEF SendGap, SocketBreaks, Sends, IInv, Visit, Opens
  <2> QED BY <1>1, <2>1, ClearKept DEF Steady, Opens
<1>4. CASE i = wsRef
  <2>1. ~server'[wsRef].up
    <3>1. DOMAIN Down(server[i]) = DOMAIN NoServer /\ Down(server[i]).up = FALSE
      BY DEF Down, NoServer
    <3>2. CASE SocketBreaks(i)
      <4>1. server'[i] = Down(server[i])
        BY <1>2, <3>2 DEF SocketBreaks
      <4> QED BY <1>4, <3>1, <4>1
    <3>3. CASE SendGap(i)
      <4>1. server'[i].up = Down(server[i]).up
        BY <1>2, <3>1, <3>3 DEF SendGap, Sends, NoServer
      <4> QED BY <1>4, <3>1, <4>1
    <3> QED BY <3>2, <3>3
  <2>2. AllCovered'
    BY <1>1, <2>1 DEF AllCovered, Unsettled
  <2>3. Cursors' = Cursors /\ Pending' = Pending
    BY <1>1 DEF Cursors, Pending
  <2> QED BY <1>1, <2>2, <2>3, PagesKept DEF Clear
<1> QED BY <1>3, <1>4

\* A new screen: empty, its page on the way, the line about to be subscribed.
LEMMA ClearSelect ==
  ASSUME IInv, NoOverlap, NEW c \in Convs, Select(c), lapses' = {}
  PROVE  Clear'
<1>1. /\ UNCHANGED <<msgs, cursor>> /\ sel' = c /\ shown' = {} /\ "overlap" \notin lapses
      /\ loads' = {l \in loads : l.kind # "initial"} \cup HeadPages("initial", c)
  BY DEF Select, hub
<1>2. NoHole'
  BY <1>1 DEF NoHole
<1>3. c # None
  BY MessagesAssumption
<1>4. FirstLook'
  <2>1. PICK l : HeadPages("initial", c) = {l} /\ \A m \in Of(c) : m <= l.to
    BY <1>3, HeadPagesAre DEF IInv
  <2>2. l.kind = "initial" /\ l.to \in Nat
    <3>1. l.kind = "initial" /\ l \in Load
      BY <2>1, HeadPagesAre DEF IInv
    <3> QED BY <3>1 DEF Load
  <2>3. Pending' = {l}
    BY <1>1, <2>1, <2>2 DEF Pending
  <2>4. Cursors' \subseteq Of(c) \cup {0}
    <3>1. cursor'[c] \in Of(c) \cup {0, None}
      BY <1>1 DEF IInv, Reads
    <3>2. ASSUME NEW k \in loads', k.kind = "after", k.conv = c PROVE k.from \in Of(c) \cup {0}
      <4>1. k \in loads
        BY <1>1, <2>1, <2>2, <3>2
      <4> QED BY <3>2, <4>1 DEF IInv, Reads, PageFacts
    <3> QED BY <1>1, <3>1, <3>2 DEF Cursors
  <2>5. \A b \in Cursors' : b <= l.to
    BY <2>1, <2>2, <2>4
  <2> QED BY <2>3, <2>5 DEF FirstLook
<1>5. AllCovered'
  <2>1. CASE Opens
    <3>1. /\ server'[wsRef].up => /\ server'[wsRef].in # <<>> /\ server'[wsRef].in \in Seq(Request)
                                  /\ server'[wsRef].in[Len(server'[wsRef].in)] = Ask("subscribe", c)
          /\ UNCHANGED wsRef
      BY <1>1, <2>1, SelectAsks DEF NoOverlap
    <3>2. server'[wsRef].in # <<>> /\ server'[wsRef].in \in Seq(Request)
          => Len(server'[wsRef].in) \in 1 .. Len(server'[wsRef].in)
      OBVIOUS
    <3>3. Unsettled(server'[wsRef], c)
      BY <3>1, <3>2 DEF Unsettled
    <3> QED BY <1>1, <3>1, <3>3 DEF AllCovered
  <2>2. CASE ~Opens
    BY <2>2 DEF Select, Opens, AllCovered
  <2> QED BY <2>1, <2>2
<1> QED BY <1>2, <1>4, <1>5 DEF Clear

LEMMA ClearOpened ==
  ASSUME IInv, OneLine, Clear, sel # None, NEW i \in Sockets, Opened(i)
  PROVE  Clear'
<1>1. UNCHANGED <<msgs, sel, shown, cursor, loads>>
  BY DEF Opened, hub, screen
<1>2. /\ server'[wsRef].in # <<>> /\ server'[wsRef].in \in Seq(Request)
      /\ server'[wsRef].in[Len(server'[wsRef].in)] = Ask("subscribe", sel)
      /\ UNCHANGED wsRef
  BY OpenedAsks
<1>3. Unsettled(server'[wsRef], sel)
  <2>1. Len(server'[wsRef].in) \in 1 .. Len(server'[wsRef].in)
    BY <1>2
  <2> QED BY <1>2, <2>1 DEF Unsettled
<1>4. AllCovered'
  BY <1>1, <1>2, <1>3 DEF AllCovered
<1>5. Cursors' = Cursors /\ Pending' = Pending
  BY <1>1 DEF Cursors, Pending
<1> QED BY <1>1, <1>4, <1>5, PagesKept DEF Clear

LEMMA LineOf == ASSUME IInv, OneLine, NEW i \in Sockets, IsOpen(i) PROVE i = wsRef /\ Opens
BY DEF OneLine, Alive, IsOpen, Opens

\* An acknowledgement starts the recovery that covers all that is missing.
LEMMA ClearReceive ==
  ASSUME IInv, OneLine, Clear, sel # None, NEW i \in Sockets, Receive(i)
  PROVE  Clear'
<1>1. UNCHANGED <<msgs, unsent, sel, shown, cursor, wsRef>> /\ i = wsRef /\ Opens
  BY LineOf DEF Receive, hub
<1> DEFINE q == server[i].out
           f == server[i].out[1]
<1>2. server[i] \in Ends /\ server \in [Sockets -> Ends] /\ q \in Seq(Frame) /\ q # <<>>
  BY EndOf DEF Receive
<1>3. /\ Len(q) \in Nat \ {0}
      /\ \A n \in 1 .. Len(q) : n # 1 => n - 1 \in 1 .. Len(Tail(q)) /\ Tail(q)[n - 1] = q[n]
  BY <1>2, TailIs
<1>4. /\ server'[i].out = Tail(q) /\ server'[i].up = server[i].up /\ server'[i].gap = server[i].gap
      /\ server'[i].in = server[i].in /\ server'[i].tx = server[i].tx
      /\ server'[i].subs = server[i].subs
  BY <1>2 DEF Receive, Ends
<1>5. f \in Frame /\ Of(sel)' = Of(sel) /\ sel \in Convs
  BY <1>1, <1>2, CursorsAre DEF Of
<1> HIDE DEF q, f
<1>6. CASE f.type = "ack" /\ f.conv = sel
  <2> DEFINE l == Recovery(sel)
  <2>1. loads' = loads \cup {l} /\ UNCHANGED conn
    BY <1>6 DEF Receive, f
  <2>2. /\ l.conv = sel /\ l.kind \in {"first", "after"}
        /\ IF cursor[sel] = None
           THEN l.kind = "first" /\ \A m \in Of(sel) : m <= l.to
           ELSE /\ l.kind = "after" /\ l.from = cursor[sel]
                /\ cursor[sel] \in Of(sel) \cup {0}
                /\ \A m \in Of(sel) : cursor[sel] < m => m \in l.page \/ l.more
    BY <1>5, RecoveryIs DEF IInv
  <2> HIDE DEF l
  <2>3. Cursors' = Cursors /\ Pending' = Pending /\ l \in Recoveries'
    BY <1>1, <2>1, <2>2 DEF Cursors, Pending, Recoveries
  <2>4. ASSUME NEW m \in Of(sel) PROVE Covered(m)'
    <3>1. CASE cursor[sel] = None
      BY <2>2, <2>3, <3>1 DEF Covered
    <3>2. CASE cursor[sel] # None
      <4>1. cursor[sel] \in Cursors' /\ cursor[sel] \in Nat /\ m \in Nat
        <5>1. Of(sel) \in SUBSET (1 .. Len(msgs))
          BY CursorsAre
        <5> QED BY <2>2, <2>3, <3>2, <5>1 DEF Cursors
      <4>2. CASE m <= cursor[sel]
        BY <4>1, <4>2 DEF Covered
      <4>3. CASE cursor[sel] < m
        BY <2>2, <2>3, <3>2, <4>3 DEF Covered
      <4> QED BY <4>1, <4>2, <4>3
    <3> QED BY <3>1, <3>2
  <2>5. AllCovered'
    BY <1>1, <1>5, <2>4 DEF AllCovered
  <2> QED BY <1>1, <2>3, <2>5, PagesKept DEF Clear
<1>7. CASE f.type = "gap" /\ f.conv = sel
  <2>1. CloseSocket /\ live' = FALSE /\ UNCHANGED <<loads, socket, wsRef, subRef, sel>>
    BY <1>7 DEF Receive, f
  <2>2. ~Opens'
    BY <2>1, LineCloses
  <2>3. Cursors' = Cursors /\ Pending' = Pending
    BY <1>1, <2>1 DEF Cursors, Pending
  <2> QED BY <1>1, <2>2, <2>3, ClearClosed DEF Clear
<1>8. CASE f.conv # sel
  <2>1. UNCHANGED <<loads, conn>>
    BY <1>8 DEF Receive, f
  <2>2. Cursors' = Cursors /\ Pending' = Pending /\ Recoveries' = Recoveries
    BY <1>1, <2>1 DEF Cursors, Pending, Recoveries
  <2>3. ASSUME NEW n \in 1 .. Len(q), q[n] = Ask("ack", sel)
        PROVE  \E k \in 1 .. Len(Tail(q)) : Tail(q)[k] = Ask("ack", sel)
    <3>1. n # 1
      BY <1>8, <2>3 DEF q, f, Ask
    <3> QED BY <1>3, <2>3, <3>1
  <2>4. Unsettled(server[i], sel) => Unsettled(server'[i], sel)
    BY <1>4, <2>3 DEF Unsettled, q
  <2>5. \A m : Covered(m) => Covered(m)'
    BY <1>1, <1>4, <2>2 DEF Covered
  <2>6. AllCovered'
    BY <1>1, <1>5, <2>4, <2>5 DEF Clear, AllCovered
  <2> QED BY <1>1, <2>2, <2>6, PagesKept DEF Clear
<1>9. f.type \in {"ack", "gap"}
  BY <1>5 DEF Frame
<1> QED BY <1>6, <1>7, <1>8, <1>9

LEMMA ClearPush ==
  ASSUME IInv, OneLine, Clear, sel # None, NEW i \in Sockets, Push(i), lapses' = {}
  PROVE  Clear'
<1>1. UNCHANGED <<msgs, unsent, sel, cursor, loads, conn, wsRef>> /\ i = wsRef /\ Opens
  BY LineOf DEF Push, hub, link
<1> DEFINE q == server[i].tx
           p == server[i].tx[1]
<1>2. server[i] \in Ends /\ server \in [Sockets -> Ends] /\ q \in Seq(Stored) /\ q # <<>>
  BY EndOf DEF Push
<1>3. /\ Len(q) \in Nat \ {0}
      /\ \A n \in 1 .. Len(q) : n # 1 => n - 1 \in 1 .. Len(Tail(q)) /\ Tail(q)[n - 1] = q[n]
  BY <1>2, TailIs
<1>4. /\ server'[i].tx = Tail(q) /\ server'[i].up = server[i].up /\ server'[i].gap = server[i].gap
      /\ server'[i].in = server[i].in /\ server'[i].out = server[i].out
      /\ server'[i].subs = server[i].subs
  BY <1>2 DEF Push, Ends
<1>5. p \in Stored
  BY <1>2
<1>6. /\ msgs[p] # sel => shown' = shown
      /\ msgs[p] = sel => shown' = shown \cup {p} /\ ~Late({p}, p) /\ p \in Of(sel)
  BY <1>5 DEF Push, Current, Of, Stored
<1>7. /\ Cursors' = Cursors /\ Pending' = Pending /\ Recoveries' = Recoveries /\ Opens' = Opens
      /\ Of(sel)' = Of(sel)
  BY <1>1 DEF Cursors, Pending, Recoveries, Opens, Of
<1>8. AllCovered'
  <2> SUFFICES ASSUME ~Unsettled(server'[i], sel), NEW m \in Of(sel), m \notin shown' PROVE Covered(m)'
    BY <1>1, <1>7 DEF AllCovered
  <2>1. m \notin shown /\ m # p
    BY <1>6 DEF Of
  <2>2. Covered(m)
    BY <1>1, <1>4, <2>1 DEF Clear, AllCovered, Unsettled
  <2>3. ASSUME NEW n \in 1 .. Len(q), q[n] = m PROVE \E k \in 1 .. Len(Tail(q)) : Tail(q)[k] = m
    <3>1. n # 1
      BY <2>1, <2>3
    <3> QED BY <1>3, <2>3, <3>1
  <2> QED BY <1>1, <1>4, <1>7, <2>2, <2>3 DEF Covered
<1>9. CASE msgs[p] # sel
  BY <1>1, <1>6, <1>7, <1>8, <1>9, PagesKept DEF Clear
<1>10. CASE msgs[p] = sel
  <2> HIDE DEF p, q
  <2>1. FirstLook'
    BY <1>6, <1>10 DEF FirstLook
  <2>2. NoHole'
    <3> SUFFICES ASSUME NEW b \in Cursors, NEW m \in Of(sel), m <= b, m \notin shown',
                        NEW k \in shown', ~(m < k)
                 PROVE  FALSE
      BY <1>7 DEF NoHole
    <3>1. Of(sel) \subseteq Nat /\ m \notin shown /\ m # p
      BY <1>6, <1>10, CursorsAre
    <3>2. m \in Nat /\ p \in Nat
      BY <1>6, <1>10, <3>1
    <3>3. \A j \in shown : m < j
      BY <3>1 DEF Clear, NoHole
    <3>4. k = p /\ p < m
      BY <1>6, <1>10, <3>1, <3>2, <3>3
    <3> QED BY <1>6, <1>10, <3>1, <3>4 DEF Late
  <2> QED BY <1>8, <2>1, <2>2 DEF Clear
<1> QED BY <1>9, <1>10

\* Pages are merged, or dropped because another conversation is on screen.
LEMMA ClearMerged ==
  ASSUME IInv, Clear, NEW l \in loads, l.conv = sel, Merge(l), lapses' = {},
         UNCHANGED <<msgs, sel, server, conn, wsRef, unsent>>,
         \/ loads' = loads \ {l} /\ ~l.more
         \/ loads' = (loads \ {l}) \cup {Sync(sel, l.to)}
  PROVE  Clear'
<1>1. sel \in Convs /\ l.to \in Of(sel) \cup {0} /\ HubOK /\ Len(msgs) <= MaxMessages
  <2>1. PageFacts(l) /\ sel # None
    BY LoadIs
  <2> QED BY <2>1, CursorsAre DEF PageFacts, IInv, Visit, Reads
<1>2. Sync(sel, l.to).kind = "after" /\ Sync(sel, l.to).from = l.to
  BY <1>1, SyncIs
<1>3. Pending' = Pending \ {l}
  BY <1>2 DEF Pending
<1>4. Cursors' \subseteq Cursors \cup {l.to}
  <2>1. cursor'[sel] = l.to
    BY <1>1 DEF Merge, IInv, Reads
  <2>2. \A k \in loads' : k \in loads \/ k.from = l.to
    BY <1>2
  <2> QED BY <2>1, <2>2 DEF Cursors
<1>5. NoHole'
  BY <1>4, MergedWithoutHole DEF Clear
<1>6. FirstLook'
  BY <1>3, <1>4, MergedFirstLook DEF Clear
<1>7. AllCovered'
  BY MergedCovered DEF Clear
<1> QED BY <1>5, <1>6, <1>7 DEF Clear

LEMMA ClearAnswer ==
  ASSUME IInv, Clear, sel # None, NEW l \in loads, Answer(l), lapses' = {}
  PROVE  Clear'
<1>1. UNCHANGED <<msgs, sel, server, conn, wsRef, unsent>>
  BY DEF Answer, InitialArrives, QuietArrives, RecoveryArrives, hub, link
<1>2. l.kind \in Heads \cup {"after"} /\ PageFacts(l)
  BY DEF IInv, Reads, Load, Heads
<1>3. CASE InitialArrives(l)
  <2>1. l.conv = sel /\ ~l.more
    BY <1>2, <1>3 DEF InitialArrives, IInv, Reads, PageFacts, Heads
  <2> QED BY <1>1, <1>3, <2>1, ClearMerged DEF InitialArrives
<1>4. CASE QuietArrives(l)
  <2>1. ~l.more /\ l.kind = "quiet" /\ loads' = loads \ {l}
    BY <1>2, <1>4 DEF QuietArrives, PageFacts, Heads
  <2>2. CASE Current(l.conv) /\ Merge(l)
    BY <1>1, <2>1, <2>2, ClearMerged DEF Current
  <2>3. CASE UNCHANGED <<shown, cursor, lapses>>
    <3>1. Cursors' = Cursors /\ Pending' = Pending /\ Recoveries' = Recoveries
      BY <1>1, <2>1, <2>3 DEF Cursors, Pending, Recoveries
    <3> QED BY <1>1, <2>3, <3>1, PagesKept, CoverKept DEF Clear, Steady, Opens
  <2> QED BY <1>4, <2>2, <2>3 DEF QuietArrives
<1>5. CASE RecoveryArrives(l)
  <2>1. CASE ~Current(l.conv) /\ loads' = loads \ {l} /\ UNCHANGED <<shown, cursor, lapses, live>>
    <3>1. Cursors' = Cursors /\ Pending' = Pending /\ Recoveries' = Recoveries
      BY <1>1, <1>5, <2>1 DEF Cursors, Pending, Recoveries, Current, RecoveryArrives
    <3> QED BY <1>1, <2>1, <3>1, PagesKept, CoverKept DEF Clear, Steady, Opens
  <2>2. CASE Current(l.conv) /\ Merge(l)
    BY <1>1, <1>5, <2>2, ClearMerged DEF RecoveryArrives, Current, More
  <2> QED BY <1>5, <2>1, <2>2 DEF RecoveryArrives
<1> QED BY <1>3, <1>4, <1>5 DEF Answer

LEMMA ClearFails ==
  ASSUME IInv, OneLine, Clear, NEW l \in loads, RecoveryFails(l)
  PROVE  Clear'
<1>1. /\ UNCHANGED <<msgs, sel, shown, cursor, socket, wsRef, subRef>> /\ CloseSocket /\ live' = FALSE
      /\ loads' = loads \ {l} /\ l.kind # "initial"
  BY DEF RecoveryFails, hub, screen
<1>2. ~Opens'
  BY <1>1, LineCloses
<1>3. Cursors' \subseteq Cursors /\ Pending' = Pending
  BY <1>1 DEF Cursors, Pending
<1> QED BY <1>1, <1>2, <1>3, ClearClosed DEF Clear

LEMMA ClearConnection ==
  ASSUME IInv, OneLine, Clear,
         \/ \E i \in Sockets : \/ TokenArrives(i) \/ TicketArrives(i) \/ Closed(i) \/ Refused(i)
                               \/ ConnectFails(i)
         \/ GoOffline \/ Reconnect \/ GoOnline
  PROVE  Clear'
<1>1. UNCHANGED <<msgs, unsent, sel, shown, cursor, loads>>
  BY DEF TokenArrives, TicketArrives, Closed, Refused, ConnectFails, GoOffline, Reconnect, GoOnline,
     hub, screen
<1>2. conn \in [Sockets -> Phases] /\ (wsRef # 0 => wsRef \in Sockets)
  BY DEF IInv, Fields, Visit
<1>3. Cursors' = Cursors /\ Pending' = Pending
  BY <1>1 DEF Cursors, Pending
<1>4. CASE ~Opens'
  BY <1>1, <1>3, <1>4, ClearClosed DEF Clear
<1>5. ASSUME NEW i \in Sockets, TokenArrives(i) \/ Closed(i) \/ Refused(i) PROVE ~Opens'
  BY <1>5 DEF TokenArrives, Closed, Refused, Opens
<1>6. ASSUME NEW i \in Sockets, TicketArrives(i) PROVE ~Opens'
  BY <1>2, <1>6 DEF TicketArrives, Opens
<1>7. GoOffline => ~Opens'
  BY DEF GoOffline, Opens
<1>8. ASSUME UNCHANGED <<server, wsRef>>,
             conn' = conn \/ \E i \in Sockets, v \in {"token", "over"} : conn' = [conn EXCEPT ![i] = v]
      PROVE  Clear'
  BY <1>1, <1>2, <1>8, ClearKept DEF Steady, Opens
<1>9. ASSUME NEW i \in Sockets, ConnectFails(i) PROVE Clear'
  BY <1>8, <1>9 DEF ConnectFails
<1>10. CASE Reconnect \/ GoOnline
  BY <1>8, <1>10 DEF Reconnect, GoOnline, Connects
<1> QED BY <1>4, <1>5, <1>6, <1>7, <1>9, <1>10

LEMMA ClearAsks == ASSUME IInv, Clear, Poll \/ Visible PROVE Clear'
<1>1. UNCHANGED <<msgs, unsent, sel, shown, cursor, server, wsRef>>
  BY DEF Poll, Visible, hub, screen, link
<1>2. loads' = loads \cup HeadPages("quiet", sel) /\ \A l \in HeadPages("quiet", sel) : l.kind = "quiet"
  BY HeadPagesAre DEF Poll, Visible, IInv, Visit
<1>3. Cursors' = Cursors /\ Pending' = Pending /\ Recoveries' = Recoveries
  BY <1>1, <1>2, QuietCounts
<1>4. Opens' => Opens
  <2>1. conn' = conn \/ \E i \in Sockets : conn' = [conn EXCEPT ![i] = "token"]
    BY DEF Poll, Visible, Connects, link
  <2> QED BY <1>1, <2>1 DEF Opens, IInv, Fields, Visit
<1> QED BY <1>1, <1>3, <1>4, PagesKept, CoverKept DEF Clear, Steady

\* Only a new selection clears the history of what went wrong.
LEMMA LapsesStay ==
  ASSUME [Next]_vars, ~(\E c \in Convs \cup {None} : Select(c))
  PROVE  lapses \subseteq lapses' /\ UNCHANGED sel
<1>1. CASE \/ UNCHANGED vars \/ Poll
           \/ \E c \in Convs : StoreMessage(c)
           \/ \E m \in unsent : Broadcast(m)
           \/ Reconnect \/ GoOnline \/ GoOffline \/ Visible
  BY <1>1 DEF vars, Poll, StoreMessage, Broadcast, Reconnect, GoOnline, GoOffline, Visible,
     Connects, screen
<1>2. ASSUME NEW i \in Sockets, \/ Connection(i) \/ ConnectFails(i) \/ Refused(i) \/ SocketBreaks(i)
                                \/ ReceiveWithoutToken(i)
      PROVE  lapses \subseteq lapses' /\ UNCHANGED sel
  BY <1>2 DEF Connection, TokenArrives, TicketArrives, Opened, Receive, Closed, HandleFrame, Push,
     SendGap, ConnectFails, Refused, SocketBreaks, ReceiveWithoutToken, screen
<1>3. ASSUME NEW l \in loads, Answer(l) \/ InitialFails(l) \/ RecoveryFails(l)
      PROVE  lapses \subseteq lapses' /\ UNCHANGED sel
  BY <1>3 DEF Answer, InitialArrives, QuietArrives, RecoveryArrives, Merge, InitialFails,
     RecoveryFails, screen
<1> QED BY <1>1, <1>2, <1>3 DEF Next, Failure

LEMMA CleanNext == IInv /\ NothingMissed /\ [Next]_vars => Clean'
<1> SUFFICES ASSUME IInv, NothingMissed, [Next]_vars, lapses' = {}, sel' # None PROVE Clear'
  BY DEF Clean, Clear
<1>1. ASSUME NEW c \in Convs \cup {None}, Select(c) PROVE Clear'
  <2>1. sel' = c
    BY <1>1 DEF Select
  <2> QED BY <1>1, <2>1, ClearSelect DEF NothingMissed
<1>2. CASE ~(\E c \in Convs \cup {None} : Select(c))
  <2>1. lapses = {} /\ sel # None
    BY <1>2, LapsesStay
  <2>2. "overlap" \notin lapses /\ OneLine /\ Subscribed /\ Clear
    BY <2>1 DEF NothingMissed, NoOverlap, Clean, Clear
  <2>3. CASE UNCHANGED vars
    BY <2>2, <2>3, ClearKept DEF vars, hub, screen, link, Steady, Opens
  <2>4. ASSUME NEW i \in Sockets, ReceiveWithoutToken(i) PROVE FALSE
    BY <2>4 DEF ReceiveWithoutToken
  <2>5. ASSUME NEW l \in loads, InitialFails(l) PROVE FALSE
    BY <2>5 DEF InitialFails
  <2>6. ASSUME NEW i \in Sockets, Connection(i) PROVE Clear'
    BY <2>1, <2>2, <2>6, ClearConnection, ClearOpened, ClearReceive, ClearHandled, ClearPush,
       ClearDown DEF Connection
  <2>7. CASE Failure
    BY <2>1, <2>2, <2>4, <2>5, <2>7, ClearFails, ClearConnection, ClearDown, ClearAsks DEF Failure
  <2>8. ASSUME NEW c \in Convs, StoreMessage(c) PROVE Clear'
    BY <2>1, <2>2, <2>8, ClearStore
  <2>9. ASSUME NEW m \in unsent, Broadcast(m) PROVE Clear'
    BY <2>1, <2>2, <2>9, ClearBroadcast
  <2>10. ASSUME NEW l \in loads, Answer(l) PROVE Clear'
    BY <2>1, <2>2, <2>10, ClearAnswer
  <2>11. CASE Poll \/ Reconnect \/ GoOnline
    BY <2>1, <2>2, <2>11, ClearAsks, ClearConnection
  <2> QED BY <1>2, <2>3, <2>6, <2>7, <2>8, <2>9, <2>10, <2>11 DEF Next
<1> QED BY <1>1, <1>2

LEMMA NothingMissedInit == Init => NothingMissed
<1> SUFFICES ASSUME Init PROVE NothingMissed
  OBVIOUS
<1>1. /\ \A i \in Sockets : conn[i] = IF i = 1 THEN "token" ELSE "free"
      /\ wsRef = 0 /\ ~live /\ subRef = None /\ ~Opens
  BY DEF Init, Opens
<1>2. InFlight \subseteq {1}
  BY <1>1 DEF InFlight
<1>3. OneLine
  BY <1>1, <1>2 DEF OneLine, Alive
<1>4. ASSUME sel # None PROVE FirstLook /\ NoHole
  <2>1. Cursors = {}
    <3>1. sel \in Convs /\ cursor[sel] = None
      BY <1>4 DEF Init
    <3>2. \A l \in loads : l.kind = "initial"
      BY DEF Init, HeadPages, HeadOf
    <3> QED BY <3>1, <3>2 DEF Cursors
  <2> QED BY <2>1 DEF FirstLook, NoHole
<1> QED BY <1>1, <1>3, <1>4 DEF NothingMissed, NoOverlap, Subscribed, Clean, AllCovered

LEMMA NothingMissedNext == IInv /\ NothingMissed /\ [Next]_vars => NothingMissed'
BY NoOverlapNext, SubscribedNext, CleanNext DEF NothingMissed

\* What is covered comes, or is history.
LEMMA CoveredComes == ASSUME IInv, NothingMissed PROVE LiveIsCaughtUp
<1> SUFFICES ASSUME lapses = {}, live, sel # None, NEW m \in Of(sel), m \notin shown
             PROVE  Coming(m) \/ Older(m)
  BY DEF LiveIsCaughtUp, CaughtUp
<1>1. Opens /\ wsRef # 0 /\ NoHole /\ AllCovered /\ FirstLook
  BY DEF NothingMissed, NoOverlap, OneLine, Clean, Opens
<1>2. Of(sel) \subseteq Nat /\ Cursors \subseteq Nat /\ m \in Nat
  BY CursorsAre
\* Below the end of a head page that is under way.
<1>3. ASSUME NEW l \in loads, l.conv = sel, l.kind \in {"initial", "first"}, m <= l.to
      PROVE  Coming(m) \/ Older(m)
  <2>1. PageFacts(l) /\ l.kind \in Heads /\ l.to \in Nat /\ l.page \subseteq Of(sel)
    BY <1>3, LoadIs DEF Heads
  <2>2. l.page # {}
    <3>1. m # 0
      BY CursorsAre
    <3> QED BY <1>2, <1>3, <2>1, <3>1 DEF PageFacts
  <2>3. CASE m \in l.page
    BY <1>3, <2>3 DEF Coming
  <2>4. CASE m \notin l.page
    <3>1. ASSUME NEW k \in l.page PROVE m < k
      <4>1. ~(k <= m)
        BY <1>3, <2>1, <2>4 DEF PageFacts
      <4> QED BY <1>2, <2>1, <4>1
    <3> QED BY <1>3, <2>2, <3>1 DEF Older
  <2> QED BY <2>3, <2>4
<1>4. CASE Unsettled(server[wsRef], sel)
  BY <1>1, <1>4 DEF Unsettled, Ask, Coming
<1>5. CASE m \in unsent /\ sel \in server[wsRef].subs
  BY <1>1, <1>5 DEF Coming
<1>6. ASSUME NEW n \in 1 .. Len(server[wsRef].tx), server[wsRef].tx[n] = m PROVE Coming(m)
  BY <1>1, <1>6 DEF Coming
<1>7. ASSUME NEW l \in Recoveries, m \in l.page \/ l.more PROVE Coming(m)
  BY <1>7 DEF Recoveries, Coming
<1>8. ASSUME NEW l \in Recoveries, l.kind = "first", m <= l.to PROVE Coming(m) \/ Older(m)
  BY <1>3, <1>8 DEF Recoveries
<1>9. ASSUME NEW b \in Cursors, m <= b PROVE Coming(m) \/ Older(m)
  <2>1. CASE shown # {}
    BY <1>1, <1>9, <2>1 DEF NoHole, Older
  <2>2. CASE shown = {} /\ Pending = {}
    <3>1. b = 0 /\ m # 0
      BY <1>1, <2>2, CursorsAre DEF FirstLook
    <3> QED BY <1>2, <1>9, <3>1
  <2>3. ASSUME shown = {}, NEW l \in Pending PROVE Coming(m) \/ Older(m)
    <3>1. l \in loads /\ l.kind = "initial" /\ l.conv = sel /\ l.to \in Nat
      <4>1. l \in loads /\ l.kind = "initial" /\ l.conv = sel
        BY DEF Pending, IInv, Reads
      <4> QED BY <4>1, LoadIs
    <3>2. b <= l.to /\ b \in Nat
      BY <1>1, <1>2, <1>9, <2>3 DEF FirstLook
    <3>3. m <= l.to
      BY <1>2, <1>9, <3>1, <3>2
    <3> QED BY <1>3, <3>1, <3>3
  <2> QED BY <2>1, <2>2, <2>3
<1> QED BY <1>1, <1>4, <1>5, <1>6, <1>7, <1>8, <1>9 DEF AllCovered, Covered

\* While the page says Live, every message of the conversation is on screen, on
\* its way or history, unless one of the five lapses happened during the visit.
THEOREM LiveMissesNothing == Spec => []LiveIsCaughtUp
<1>1. Init => IInv /\ NothingMissed
  BY IInvInit, NothingMissedInit
<1>2. IInv /\ NothingMissed /\ [Next]_vars => (IInv /\ NothingMissed)'
  BY IInvNext, NothingMissedNext
<1>3. IInv /\ NothingMissed => LiveIsCaughtUp
  BY CoveredComes
<1> QED BY <1>1, <1>2, <1>3, PTL DEF Spec
=============================================================================
