------------------------ MODULE ProviderGateway_proofs ------------------------
(***************************************************************************)
(* Proofs about ProviderGateway, for every set of requests, calls,         *)
(* authorizations and costs, any bound of a request and any sequence of    *)
(* reports, early and wrong ones included.                                 *)
(***************************************************************************)
EXTENDS ProviderGateway, FiniteMath

----------------------------------------------------------------------------
(* The inductive invariant.                                                *)

Written == [status : Statuses \ {"none"}, auth : Auths, digest : Digests,
            reserved : Nat, observed : Amount]

\* What the books say of a request, and what of it is true if every report was.
RequestOK(k) ==
  /\ asked[k] <= 1 /\ (asked[k] = 0 => charged[k] = 0)
  /\ row[k].status = "none" => asked[k] = 0 /\ spend[k] = Null
  /\ row[k].status \in {"reserved", "unresolved", "released"} =>
       row[k].observed = Null /\ spend[k] = Null
  /\ row[k].status = "settled" => row[k].observed # Null /\ spend[k] = row[k].observed
  /\ k \notin misreported =>
       /\ row[k].status = "released" => charged[k] = 0
       /\ row[k].status = "settled" => row[k].observed = charged[k]
       /\ row[k].status = "mismatch" =>
            charged[k] = 0 \/ (row[k].observed = charged[k] /\ charged[k] > row[k].reserved)

\* The call that made the reservation, as long as it is at work.
First(c) == call[c].at # "idle" /\ MayAsk(call[c])

CallOK(c) ==
  /\ call[c].at # "idle" => row[call[c].key].status # "none"
  /\ call[c].at = "asking" => MayAsk(call[c])
  /\ First(c) => /\ call[c].at = "reserved" => asked[call[c].key] = 0
                 /\ call[c].key \notin misreported => row[call[c].key].status = "reserved"

OneFirst == \A c, e \in Calls : First(c) /\ First(e) /\ call[c].key = call[e].key => c = e

Inv == /\ TypeOK
       /\ \A k \in Requests : RequestOK(k)
       /\ \A c \in Calls : CallOK(c)
       /\ OneFirst

LEMMA InvInit == Init => Inv
BY DEF Init, Inv, TypeOK, RequestOK, CallOK, OneFirst, First, Null, Amount, Statuses,
       Reservation, NoReservation, Call, Idle

----------------------------------------------------------------------------
(* Rows and calls.                                                         *)

LEMMA RowType ==
  ASSUME TypeOK, NEW k \in Requests, row[k].status # "none"
  PROVE  row[k] \in Written
BY DEF TypeOK, Reservation, NoReservation, Written

LEMMA CallType ==
  ASSUME TypeOK, NEW c \in Calls, call[c].at # "idle"
  PROVE  /\ call[c].key \in Requests /\ call[c].status \in Statuses /\ call[c].replayed \in BOOLEAN
         /\ call[c].at \in {"reserved", "asking"}
         /\ call[c] = [at |-> call[c].at, key |-> call[c].key, status |-> call[c].status,
                       replayed |-> call[c].replayed]
BY DEF TypeOK, Call, Idle

\* One row moves to another status, with another observation or the same.
Moves(k, status, observed) ==
  /\ row' \in [Requests -> Reservation]
  /\ \A j \in Requests : j # k => row'[j] = row[j]
  /\ row'[k].status = status /\ row'[k].observed = observed
  /\ row'[k].reserved = row[k].reserved /\ row'[k].auth = row[k].auth

LEMMA MoveStatus ==
  ASSUME TypeOK, NEW k \in Requests, row[k].status # "none",
         NEW s \in Statuses \ {"none"}, row' = [row EXCEPT ![k].status = s]
  PROVE  Moves(k, s, row[k].observed)
<1>1. row[k] \in Written BY RowType
<1>2. row'[k] = [row[k] EXCEPT !.status = s] BY DEF TypeOK
<1>3. row'[k] \in Written BY <1>1, <1>2 DEF Written
<1> QED BY <1>1, <1>2, <1>3 DEF TypeOK, Moves, Written, Reservation

LEMMA Observe ==
  ASSUME NEW r \in Written, NEW n \in Nat, NEW q, q = [r EXCEPT !.observed = n]
  PROVE  q \in Written
BY DEF Written, Amount

LEMMA MoveBoth ==
  ASSUME TypeOK, NEW k \in Requests, row[k].status # "none", NEW n \in Nat,
         NEW s \in Statuses \ {"none"},
         row' = [row EXCEPT ![k].status = s, ![k].observed = n]
  PROVE  Moves(k, s, n)
<1>1. row[k] \in Written BY RowType
<1>2. row'[k] = [[row[k] EXCEPT !.status = s] EXCEPT !.observed = n] BY DEF TypeOK
<1>3. /\ [row[k] EXCEPT !.status = s] \in Written
      /\ [row[k] EXCEPT !.status = s].status = s
      /\ [row[k] EXCEPT !.status = s].reserved = row[k].reserved
      /\ [row[k] EXCEPT !.status = s].auth = row[k].auth
  BY <1>1 DEF Written
<1> DEFINE r == [row[k] EXCEPT !.status = s]
<1>4. /\ r \in Written /\ r.status = s /\ r.reserved = row[k].reserved /\ r.auth = row[k].auth
      /\ row'[k] = [r EXCEPT !.observed = n]
  BY <1>2, <1>3
<1> HIDE DEF r
<1>5. /\ row'[k] \in Written /\ row'[k].status = s /\ row'[k].observed = n
      /\ row'[k].reserved = row[k].reserved /\ row'[k].auth = row[k].auth
  <2>1. row'[k] \in Written BY <1>4, Observe
  <2>2. row'[k].status = s /\ row'[k].observed = n BY <1>4 DEF Written
  <2>3. row'[k].reserved = row[k].reserved /\ row'[k].auth = row[k].auth BY <1>4 DEF Written
  <2> QED BY <2>1, <2>2, <2>3
<1> QED BY <1>1, <1>5 DEF TypeOK, Moves, Written, Reservation

\* What settle_provider_request may do, with the row it found.
Settled(k, n) ==
  \/ /\ row[k].status = "settled" /\ row[k].observed = n
     /\ row' = row /\ spend' = spend
  \/ /\ row[k].status \in {"settled", "released"}
     /\ row[k].status = "settled" => row[k].observed # n
     /\ Moves(k, "mismatch", row[k].observed) /\ spend' = spend
  \/ /\ row[k].status \in {"reserved", "unresolved", "mismatch"} /\ n > row[k].reserved
     /\ Moves(k, "mismatch", n) /\ spend' = spend
  \/ /\ row[k].status \in {"reserved", "unresolved"} /\ n <= row[k].reserved
     /\ Moves(k, "settled", n) /\ spend' = [spend EXCEPT ![k] = IF @ = Null THEN n ELSE @]
  \/ /\ row[k].status = "mismatch" /\ n <= row[k].reserved
     /\ row' = row /\ spend' = [spend EXCEPT ![k] = IF @ = Null THEN n ELSE @]

LEMMA SettleCases ==
  ASSUME TypeOK, NEW k \in Requests, row[k].status # "none", NEW n \in Nat, Settle(k, n)
  PROVE  Settled(k, n)
<1>1. row[k] \in Written BY RowType
<1>2. CASE Replays(row[k], n) /\ UNCHANGED <<row, spend>>
  BY <1>2 DEF Settled, Replays
<1>3. CASE /\ Contradicts(row[k], n)
           /\ row' = [row EXCEPT ![k].status = "mismatch"] /\ UNCHANGED spend
  BY <1>3, MoveStatus DEF Settled, Contradicts, Replays, Statuses
<1>4. CASE /\ ~Replays(row[k], n) /\ ~Contradicts(row[k], n) /\ Exceeds(row[k], n)
           /\ row' = [row EXCEPT ![k].status = "mismatch", ![k].observed = n] /\ UNCHANGED spend
  <2>1. Moves(k, "mismatch", n) BY <1>4, MoveBoth DEF Statuses
  <2> QED BY <1>1, <1>4, <2>1 DEF Settled, Contradicts, Replays, Exceeds, Statuses, Written
<1>5. CASE /\ ~Replays(row[k], n) /\ ~Contradicts(row[k], n) /\ ~Exceeds(row[k], n)
           /\ row' = IF Open(row[k])
                     THEN [row EXCEPT ![k].status = "settled", ![k].observed = n] ELSE row
           /\ spend' = [spend EXCEPT ![k] = IF @ = Null THEN n ELSE @]
  <2>1. n <= row[k].reserved BY <1>1, <1>5 DEF Exceeds, Written
  <2>2. CASE Open(row[k])
    <3>1. Moves(k, "settled", n) BY <1>5, <2>2, MoveBoth DEF Statuses
    <3> QED BY <1>5, <2>1, <2>2, <3>1 DEF Settled, Open
  <2>3. CASE ~Open(row[k])
    BY <1>1, <1>5, <2>1, <2>3 DEF Settled, Open, Contradicts, Replays, Statuses, Written
  <2> QED BY <2>2, <2>3
<1> QED BY <1>2, <1>3, <1>4, <1>5 DEF Settle

\* What becomes of a reservation that is released or marked, with the row it had.
LEMMA ReleaseCases ==
  ASSUME TypeOK, NEW k \in Requests, row[k].status # "none", Release(k)
  PROVE  \/ /\ row[k].status \in {"reserved", "unresolved"}
            /\ Moves(k, "released", row[k].observed)
         \/ row[k].status \in {"settled", "released", "mismatch"} /\ row' = row
BY MoveStatus, RowType DEF Release, Open, Statuses, Written

LEMMA MarkCases ==
  ASSUME TypeOK, NEW k \in Requests, row[k].status # "none", MarkUnresolved(k)
  PROVE  \/ row[k].status = "reserved" /\ Moves(k, "unresolved", row[k].observed)
         \/ row[k].status # "reserved" /\ row' = row
BY MoveStatus DEF MarkUnresolved, Statuses

----------------------------------------------------------------------------
(* The actions that write no row.                                          *)

LEMMA StutterPreserves ==
  ASSUME Inv, UNCHANGED <<row, spend, call, supplier, misreported>>, TypeOK'
  PROVE  Inv'
<1>1. UNCHANGED <<row, spend, call, asked, charged, misreported>> BY DEF supplier
<1> QED BY <1>1 DEF Inv, RequestOK, CallOK, OneFirst, First

LEMMA OperatePreserves ==
  ASSUME Inv,
         \/ \E n \in Capacities : SetSupplierCapacity(n)
         \/ \E a \in Auths : CreateSpendAuthorization(a) \/ Expire(a)
  PROVE  Inv'
<1>1. UNCHANGED <<row, spend, call, supplier, misreported>>
  BY DEF SetSupplierCapacity, CreateSpendAuthorization, Expire, history
<1>2. TypeOK'
  BY GatewayAssumption DEF Inv, TypeOK, SetSupplierCapacity, CreateSpendAuthorization, Expire,
     supplier, history
<1> QED BY <1>1, <1>2, StutterPreserves

\* A call that is forgotten takes nothing with it.
LEMMA ReturnKeeps ==
  ASSUME Inv, NEW c \in Calls, Return(c)
  PROVE  /\ call' \in [Calls -> Call] /\ ~First(c)'
         /\ \A e \in Calls : e # c => call'[e] = call[e] /\ (First(e)' <=> First(e))
         /\ call'[c] = Idle /\ OneFirst'
<1>1. /\ call' \in [Calls -> Call] /\ call'[c] = Idle
      /\ \A e \in Calls : e # c => call'[e] = call[e]
  BY DEF Inv, TypeOK, Return, Call
<1>2. ~First(c)' BY <1>1 DEF First, Idle
<1> QED BY <1>1, <1>2 DEF Inv, OneFirst, First

LEMMA ReturnPreserves ==
  ASSUME Inv, NEW c \in Calls, ReturnKnown(c) \/ Abandon(c)
  PROVE  Inv'
<1>1. Return(c) /\ UNCHANGED <<funded, auth, row, spend, asked, charged, mostFunded, misreported>>
  BY DEF ReturnKnown, Abandon, books, supplier, history
<1>2. TypeOK' BY <1>1, ReturnKeeps DEF Inv, TypeOK
<1>3. \A e \in Calls : CallOK(e)'
  BY <1>1, ReturnKeeps DEF Inv, CallOK, First, Idle
<1>4. \A k \in Requests : RequestOK(k)' BY <1>1 DEF Inv, RequestOK
<1> QED BY <1>1, <1>2, <1>3, <1>4, ReturnKeeps DEF Inv

LEMMA ReserveAgainPreserves ==
  ASSUME Inv, NEW c \in Calls, NEW k \in Requests, NEW a \in Auths, NEW d \in Digests,
         ReserveAgain(c, k, a, d)
  PROVE  Inv'
<1>1. UNCHANGED <<funded, auth, row, spend, asked, charged, mostFunded, misreported>>
  BY DEF ReserveAgain, books, supplier, history
<1>2. row[k] \in Written BY RowType DEF ReserveAgain, Fresh, Inv
<1>3. /\ call' \in [Calls -> Call] /\ \A e \in Calls : e # c => call'[e] = call[e]
      /\ call'[c].at = "reserved" /\ call'[c].key = k /\ call'[c].replayed = TRUE
  BY <1>2 DEF ReserveAgain, Begin, Inv, TypeOK, Call, Written
<1>4. ~First(c)' BY <1>3 DEF First, MayAsk
<1>5. TypeOK' BY <1>1, <1>3 DEF Inv, TypeOK
<1>6. \A e \in Calls : CallOK(e)'
  BY <1>1, <1>3, <1>4 DEF Inv, CallOK, First, ReserveAgain, Fresh
<1>7. OneFirst' BY <1>3, <1>4 DEF Inv, OneFirst, First
<1>8. \A j \in Requests : RequestOK(j)' BY <1>1 DEF Inv, RequestOK
<1> QED BY <1>5, <1>6, <1>7, <1>8 DEF Inv

----------------------------------------------------------------------------
(* A reservation, and the supplier's answer.                               *)

LEMMA ReservePreserves ==
  ASSUME Inv, NEW c \in Calls, NEW k \in Requests, NEW a \in Auths, NEW d \in Digests,
         Reserve(c, k, a, d)
  PROVE  Inv'
<1>1. UNCHANGED <<funded, auth, spend, asked, charged, mostFunded, misreported>>
  BY DEF Reserve, supplier, history
<1>2. row[k].status = "none" /\ call[c].at = "idle" BY DEF Reserve, Fresh
<1>3. UpperBound[d] \in Nat BY GatewayAssumption
<1>4. /\ row' \in [Requests -> Reservation] /\ \A j \in Requests : j # k => row'[j] = row[j]
      /\ row'[k].status = "reserved" /\ row'[k].observed = Null
  BY <1>3 DEF Reserve, Inv, TypeOK, Reservation, Statuses, Amount
<1>5. /\ call' \in [Calls -> Call] /\ \A e \in Calls : e # c => call'[e] = call[e]
      /\ call'[c].at = "reserved" /\ call'[c].key = k
  BY DEF Reserve, Begin, Inv, TypeOK, Call, Statuses
<1>6. \A e \in Calls : call[e].at # "idle" => call[e].key # k
  BY <1>2 DEF Inv, CallOK
<1>7. \A e \in Calls : call[e].at # "idle" => call[e].key \in Requests BY CallType DEF Inv
<1>8. TypeOK' BY <1>1, <1>4, <1>5 DEF Inv, TypeOK
<1>9. \A j \in Requests : RequestOK(j)' BY <1>1, <1>2, <1>4 DEF Inv, RequestOK
<1>10. \A e \in Calls : CallOK(e)'
  <2> SUFFICES ASSUME NEW e \in Calls PROVE CallOK(e)' OBVIOUS
  <2>1. CASE e = c BY <1>1, <1>2, <1>4, <1>5, <2>1 DEF Inv, CallOK, RequestOK, First
  <2>2. CASE e # c BY <1>1, <1>4, <1>5, <1>6, <1>7, <2>2 DEF Inv, CallOK, First
  <2> QED BY <2>1, <2>2
<1>11. OneFirst' BY <1>2, <1>5, <1>6 DEF Inv, OneFirst, First
<1> QED BY <1>8, <1>9, <1>10, <1>11 DEF Inv

LEMMA AskPreserves ==
  ASSUME Inv, NEW c \in Calls, NEW cost \in Costs, Ask(c, cost)
  PROVE  Inv'
<1> DEFINE k == call[c].key
<1>1. UNCHANGED <<funded, auth, row, spend, mostFunded, misreported>>
  BY DEF Ask, books, history
<1>2. /\ call[c].at = "reserved" /\ First(c) /\ k \in Requests /\ cost \in Nat
  BY CallType, GatewayAssumption DEF Ask, First, Inv
<1>3. /\ call' \in [Calls -> Call] /\ \A e \in Calls : e # c => call'[e] = call[e]
      /\ call'[c].at = "asking" /\ call'[c].key = k /\ MayAsk(call'[c])
  BY <1>2, CallType DEF Ask, Inv, TypeOK, Call, MayAsk
<1>4. /\ asked' \in [Requests -> Nat] /\ charged' \in [Requests -> Nat]
      /\ \A j \in Requests : j # k => asked'[j] = asked[j] /\ charged'[j] = charged[j]
      /\ asked'[k] = asked[k] + 1
  BY <1>2 DEF Ask, Inv, TypeOK
<1>5. /\ asked[k] = 0 /\ row[k].status # "none"
      /\ k \notin misreported => row[k].status = "reserved"
  BY <1>2 DEF Inv, CallOK
<1>6. TypeOK' BY <1>1, <1>3, <1>4 DEF Inv, TypeOK
<1>7. \A j \in Requests : RequestOK(j)' BY <1>1, <1>4, <1>5 DEF Inv, RequestOK
<1>8. \A e \in Calls : First(e)' <=> First(e) BY <1>2, <1>3 DEF First
<1>9. \A e \in Calls : e # c /\ First(e) => call[e].key # k /\ call[e].key \in Requests
  BY <1>2, CallType DEF Inv, OneFirst, First
<1>10. \A e \in Calls : CallOK(e)'
  <2> SUFFICES ASSUME NEW e \in Calls PROVE CallOK(e)' OBVIOUS
  <2>1. CASE e = c BY <1>1, <1>3, <1>5, <2>1 DEF CallOK, First
  <2>2. CASE e # c BY <1>1, <1>3, <1>4, <1>8, <1>9, <2>2 DEF Inv, CallOK
  <2> QED BY <2>1, <2>2
<1>11. OneFirst' BY <1>3, <1>8 DEF Inv, OneFirst
<1> QED BY <1>6, <1>7, <1>10, <1>11 DEF Inv

----------------------------------------------------------------------------
(* What is written about one request: by its first call when it returns,   *)
(* or by a report.                                                         *)

\* Nothing else changes, and whoever is still at work on the request is either misreported
\* or finds its reservation.
WritesOnly(k) ==
  /\ \A j \in Requests : j # k => row'[j] = row[j] /\ spend'[j] = spend[j]
  /\ UNCHANGED <<asked, charged>>
  /\ misreported' \in {misreported, misreported \cup {k}}
  /\ row'[k].status # "none"
  /\ \A e \in Calls : call'[e] = call[e] \/ call'[e] = Idle
  /\ \A e \in Calls : First(e)' /\ call'[e].key = k => k \in misreported'

LEMMA WritePreserves ==
  ASSUME Inv, NEW k \in Requests, TypeOK', WritesOnly(k), RequestOK(k)'
  PROVE  Inv'
<1>1. \A j \in Requests : RequestOK(j)'
  <2> SUFFICES ASSUME NEW j \in Requests, j # k PROVE RequestOK(j)' OBVIOUS
  <2>1. RequestOK(j) /\ (j \in misreported' <=> j \in misreported) BY DEF Inv, WritesOnly
  <2> QED BY <2>1 DEF RequestOK, WritesOnly
<1>2. \A e \in Calls : CallOK(e)'
  <2> SUFFICES ASSUME NEW e \in Calls PROVE CallOK(e)' OBVIOUS
  <2>1. CASE call'[e] = Idle BY <2>1 DEF CallOK, First, Idle
  <2>2. CASE call'[e] = call[e] /\ call[e].at # "idle"
    <3>1. CallOK(e) /\ call[e].key \in Requests BY <2>2, CallType DEF Inv
    <3>2. First(e)' <=> First(e) BY <2>2 DEF First
    <3>3. CASE call[e].key = k
      BY <2>2, <3>1, <3>2, <3>3 DEF CallOK, WritesOnly
    <3>4. CASE call[e].key # k
      <4>1. call[e].key \in misreported' <=> call[e].key \in misreported
        BY <3>4 DEF WritesOnly
      <4>2. row'[call[e].key] = row[call[e].key] /\ asked' = asked BY <3>1, <3>4 DEF WritesOnly
      <4> QED BY <2>2, <3>1, <3>2, <4>1, <4>2 DEF CallOK
    <3> QED BY <3>3, <3>4
  <2>3. CASE call'[e] = call[e] /\ call[e].at = "idle" BY <2>3 DEF CallOK, First
  <2> QED BY <2>1, <2>2, <2>3 DEF WritesOnly
<1>3. OneFirst'
  <2>1. \A e \in Calls : First(e)' => First(e) /\ call'[e] = call[e]
    BY DEF WritesOnly, First, Idle
  <2> QED BY <2>1 DEF Inv, OneFirst
<1> QED BY <1>1, <1>2, <1>3 DEF Inv

\* The first call returns: nobody else is at work on its request.
LEMMA FirstReturns ==
  ASSUME Inv, NEW c \in Calls, First(c), Return(c)
  PROVE  /\ call' \in [Calls -> Call] /\ call[c].key \in Requests
         /\ row[call[c].key].status # "none"
         /\ call[c].key \notin misreported => row[call[c].key].status = "reserved"
         /\ \A e \in Calls : call'[e] = call[e] \/ call'[e] = Idle
         /\ \A e \in Calls : First(e)' => call'[e].key # call[c].key
<1>1. CallOK(c) /\ call[c].at # "idle" BY DEF Inv, First
<1>2. \A e \in Calls : First(e)' => e # c /\ First(e) /\ call'[e] = call[e] BY ReturnKeeps
<1> QED BY <1>1, <1>2, CallType, ReturnKeeps DEF Inv, OneFirst, CallOK, First

\* What a settlement leaves is true of a request if the amount was what it cost.
LEMMA SettleRequest ==
  ASSUME Inv, NEW k \in Requests, NEW n \in Nat, row[k].status # "none", Settle(k, n),
         UNCHANGED <<asked, charged>>, misreported' \in {misreported, misreported \cup {k}},
         k \notin misreported' => n = charged[k]
  PROVE  /\ RequestOK(k)' /\ row'[k].status # "none"
         /\ row' \in [Requests -> Reservation] /\ spend' \in [Requests -> Amount]
         /\ \A j \in Requests : row'[j].status = "settled" => row'[j].observed <= row'[j].reserved
         /\ \A j \in Requests : j # k => row'[j] = row[j] /\ spend'[j] = spend[j]
<1>1. Settled(k, n) /\ RequestOK(k) /\ TypeOK BY SettleCases DEF Inv
<1>2. /\ row[k].reserved \in Nat /\ row[k].observed \in Amount /\ spend[k] \in Amount
      /\ charged[k] \in Nat /\ n # Null /\ asked[k] \in Nat
  BY <1>1, RowType DEF TypeOK, Written, Null
<1>3. /\ row' \in [Requests -> Reservation] /\ spend' \in [Requests -> Amount]
      /\ \A j \in Requests : j # k => row'[j] = row[j] /\ spend'[j] = spend[j]
      /\ row'[k].status # "none"
  BY <1>1, <1>2 DEF Settled, Moves, TypeOK, Amount
<1>4. k \notin misreported' => k \notin misreported /\ n = charged[k] OBVIOUS
<1>5. RequestOK(k)' /\ (row'[k].status = "settled" => row'[k].observed <= row'[k].reserved)
  <2>1. CASE /\ row[k].status = "settled" /\ row[k].observed = n
             /\ row' = row /\ spend' = spend
    BY <1>1, <1>4, <2>1 DEF RequestOK, TypeOK
  <2>2. CASE /\ row[k].status \in {"settled", "released"}
             /\ row[k].status = "settled" => row[k].observed # n
             /\ Moves(k, "mismatch", row[k].observed) /\ spend' = spend
    BY <1>1, <1>4, <2>2 DEF RequestOK, Moves
  <2>3. CASE /\ row[k].status \in {"reserved", "unresolved", "mismatch"} /\ n > row[k].reserved
             /\ Moves(k, "mismatch", n) /\ spend' = spend
    BY <1>1, <1>2, <1>4, <2>3 DEF RequestOK, Moves
  <2>4. CASE /\ row[k].status \in {"reserved", "unresolved"} /\ n <= row[k].reserved
             /\ Moves(k, "settled", n) /\ spend' = [spend EXCEPT ![k] = IF @ = Null THEN n ELSE @]
    BY <1>1, <1>2, <1>4, <2>4 DEF RequestOK, Moves, TypeOK
  <2>5. CASE /\ row[k].status = "mismatch" /\ n <= row[k].reserved
             /\ row' = row /\ spend' = [spend EXCEPT ![k] = IF @ = Null THEN n ELSE @]
    BY <1>1, <1>2, <1>4, <2>5 DEF RequestOK, TypeOK
  <2> QED BY <1>1, <2>1, <2>2, <2>3, <2>4, <2>5 DEF Settled
<1> QED BY <1>1, <1>3, <1>5 DEF TypeOK

LEMMA AnswerSettlesPreserves ==
  ASSUME Inv, NEW c \in Calls, AnswerSettles(c)
  PROVE  Inv'
<1>1. First(c) /\ Return(c) BY DEF AnswerSettles, Inv, CallOK, First
<1>0. PICK k \in Requests : k = call[c].key BY <1>1, FirstReturns
<1>2. /\ Settle(k, charged[k])
      /\ UNCHANGED <<funded, auth, asked, charged, mostFunded, misreported>>
  BY <1>0 DEF AnswerSettles, supplier, history
<1>3. charged[k] \in Nat BY DEF Inv, TypeOK
<1>4. RequestOK(k)' BY <1>0, <1>1, <1>2, <1>3, FirstReturns, SettleRequest
<1>5. WritesOnly(k) BY <1>0, <1>1, <1>2, <1>3, FirstReturns, SettleRequest DEF WritesOnly
<1>6. TypeOK' BY <1>0, <1>1, <1>2, <1>3, FirstReturns, SettleRequest DEF Inv, TypeOK
<1> QED BY <1>3, <1>4, <1>5, <1>6, WritePreserves

LEMMA AnswerUnknownPreserves ==
  ASSUME Inv, NEW c \in Calls, AnswerUnknown(c) \/ NotSent(c)
  PROVE  Inv'
<1>1. First(c) /\ Return(c) BY DEF AnswerUnknown, NotSent, Inv, CallOK, First
<1>0. PICK k \in Requests : k = call[c].key BY <1>1, FirstReturns
<1>2. UNCHANGED <<funded, auth, spend, asked, charged, mostFunded, misreported>>
  BY DEF AnswerUnknown, NotSent, supplier, history
<1>3. /\ row[k].status # "none"
      /\ k \notin misreported => row[k].status = "reserved"
  BY <1>0, <1>1, FirstReturns
<1>4. \/ row[k].status = "reserved" /\ Moves(k, "unresolved", row[k].observed)
      \/ /\ row[k].status \in {"reserved", "unresolved"}
         /\ k \notin misreported => charged[k] = 0
         /\ Moves(k, "released", row[k].observed)
      \/ k \in misreported /\ row' = row
  <2>1. CASE AnswerUnknown(c)
    BY <1>0, <1>3, <2>1, MarkCases DEF AnswerUnknown, Inv
  <2>2. CASE NotSent(c)
    <3>1. charged[k] = 0 BY <1>0, <1>1, <1>3, <2>2 DEF NotSent, Inv, CallOK, RequestOK
    <3> QED BY <1>0, <1>3, <2>2, <3>1, ReleaseCases DEF NotSent, Inv
  <2> QED BY <2>1, <2>2
<1>5. /\ row' \in [Requests -> Reservation] /\ \A j \in Requests : j # k => row'[j] = row[j]
      /\ row'[k].status # "none"
      /\ row'[k].status = "settled" => row' = row
  BY <1>3, <1>4 DEF Moves, Inv, TypeOK
<1>6. RequestOK(k)' BY <1>2, <1>3, <1>4 DEF Inv, RequestOK, Moves
<1>7. WritesOnly(k) BY <1>0, <1>1, <1>2, <1>5, FirstReturns DEF WritesOnly
<1>8. TypeOK' BY <1>0, <1>1, <1>2, <1>5, FirstReturns DEF Inv, TypeOK
<1> QED BY <1>3, <1>6, <1>7, <1>8, WritePreserves

\* A report that leaves its request unsuspected was no earlier than its call's end, and true.
LEMMA ReportKeeps ==
  ASSUME Inv, NEW k \in Requests, NEW n \in Nat, Reported(k, n), UNCHANGED call
  PROVE  /\ misreported' \in {misreported, misreported \cup {k}}
         /\ k \notin misreported' => n = charged[k]
         /\ \A e \in Calls : First(e)' /\ call'[e].key = k => k \in misreported'
         /\ misreported' \subseteq Requests
BY DEF Reported, AtWork, First, Inv, TypeOK

LEMMA ReportCostPreserves ==
  ASSUME Inv, NEW k \in Requests, NEW n \in Costs, ReportCost(k, n)
  PROVE  Inv'
<1>1. /\ Settle(k, n) /\ Reported(k, n) /\ row[k].status # "none" /\ n \in Nat
      /\ UNCHANGED <<funded, auth, call, asked, charged, mostFunded>>
  BY GatewayAssumption DEF ReportCost, supplier
<1>2. RequestOK(k)' BY <1>1, ReportKeeps, SettleRequest
<1>3. WritesOnly(k) BY <1>1, ReportKeeps, SettleRequest DEF WritesOnly
<1>4. TypeOK' BY <1>1, ReportKeeps, SettleRequest DEF Inv, TypeOK
<1> QED BY <1>2, <1>3, <1>4, WritePreserves

LEMMA ReportNoChargePreserves ==
  ASSUME Inv, NEW k \in Requests, ReportNoCharge(k)
  PROVE  Inv'
<1>1. /\ Release(k) /\ Reported(k, 0) /\ row[k].status # "none"
      /\ UNCHANGED <<funded, auth, spend, call, asked, charged, mostFunded>>
  BY DEF ReportNoCharge, supplier
<1>2. \/ /\ row[k].status \in {"reserved", "unresolved"}
         /\ Moves(k, "released", row[k].observed)
      \/ row[k].status \in {"settled", "released", "mismatch"} /\ row' = row
  BY <1>1, ReleaseCases DEF Inv
<1>3. /\ row' \in [Requests -> Reservation] /\ \A j \in Requests : j # k => row'[j] = row[j]
      /\ row'[k].status # "none"
      /\ row'[k].status = "settled" => row' = row
  BY <1>1, <1>2 DEF Moves, Inv, TypeOK
<1>4. RequestOK(k)' BY <1>1, <1>2, ReportKeeps DEF Inv, RequestOK, Moves
<1>5. WritesOnly(k) BY <1>1, <1>3, ReportKeeps DEF WritesOnly
<1>6. TypeOK' BY <1>1, <1>3, ReportKeeps DEF Inv, TypeOK
<1> QED BY <1>4, <1>5, <1>6, WritePreserves

----------------------------------------------------------------------------
(* Exposure is a sum: it is the same in whatever order the rows are added. *)

ExposureOf(r, K) == MapThenSumSet(LAMBDA k : Counted(r[k]), K)

LEMMA ExposureIsSum ==
  ASSUME NEW r, NEW K, IsFiniteSet(K), \A k \in K : Counted(r[k]) \in Nat
  PROVE  ExposureOf(r, K) = Sum([k \in K |-> Counted(r[k])], K)
<1> DEFINE f == [k \in K |-> Counted(r[k])]
           G == CHOOSE g : Sums(g, f, K)
           Rec(h) == [s \in SUBSET K |->
                        IF s = {} THEN 0
                        ELSE Counted(r[CHOOSE x \in s : TRUE]) + h[s \ {CHOOSE x \in s : TRUE}]]
           H == CHOOSE h : h = Rec(h)
<1>1. Sums(G, f, K)
  <2>1. \A x \in K : f[x] \in Nat OBVIOUS
  <2> HIDE DEF f
  <2> QED BY <2>1, SumsExist
<1>2. G = Rec(G)
  <2>1. ASSUME NEW s \in SUBSET K PROVE G[s] = Rec(G)[s]
    <3>1. CASE s = {} BY <1>1, <3>1 DEF Sums
    <3>2. CASE s # {}
      <4>1. (CHOOSE x \in s : TRUE) \in s BY <3>2
      <4> QED BY <1>1, <3>2, <4>1 DEF Sums
    <3> QED BY <3>1, <3>2
  <2>2. G \in [SUBSET K -> Nat] BY <1>1 DEF Sums
  <2> HIDE DEF G
  <2> QED BY <2>1, <2>2
<1>3. H = Rec(H)
  <2>1. \E h : h = Rec(h)
    <3> HIDE DEF G, Rec
    <3> QED BY <1>2
  <2> HIDE DEF Rec
  <2> QED BY <2>1
<1>4. AddsUp(H, f, K)
  <2>1. DOMAIN H = SUBSET K
    <3> HIDE DEF H
    <3> QED BY <1>3
  <2>2. H[{}] = 0
    <3> HIDE DEF H
    <3> QED BY <1>3
  <2>3. ASSUME NEW s \in SUBSET K, s # {} PROVE \E x \in s : H[s] = f[x] + H[s \ {x}]
    <3>1. (CHOOSE x \in s : TRUE) \in s BY <2>3
    <3> HIDE DEF H
    <3> QED BY <1>3, <2>3, <3>1
  <2> HIDE DEF H, f
  <2> QED BY <2>1, <2>2, <2>3 DEF AddsUp
<1>5. H[K] = G[K]
  <2>1. \A s \in SUBSET K : H[s] = G[s]
    <3> HIDE DEF H, f, G
    <3> QED BY <1>1, <1>4, SumsUnique
  <2> QED BY <2>1
<1>6. ExposureOf(r, K) = H[K] BY DEF ExposureOf, MapThenSumSet, MapThenFoldSet
<1> QED BY <1>5, <1>6 DEF Sum
\* Fewer rows that count no more have no more exposure.
LEMMA ExposureShrinks ==
  ASSUME NEW r, NEW q, NEW K, NEW L \in SUBSET K, IsFiniteSet(K),
         \A k \in K : Counted(r[k]) \in Nat,
         \A k \in L : Counted(q[k]) \in Nat /\ Counted(q[k]) <= Counted(r[k])
  PROVE  /\ ExposureOf(q, L) \in Nat /\ ExposureOf(r, K) \in Nat
         /\ ExposureOf(q, L) <= ExposureOf(r, K)
<1> DEFINE f == [k \in L |-> Counted(q[k])]
           g == [k \in K |-> Counted(r[k])]
<1>1. IsFiniteSet(L) BY FS_Subset
<1>2. ExposureOf(q, L) = Sum(f, L) /\ ExposureOf(r, K) = Sum(g, K) BY <1>1, ExposureIsSum
<1>3. /\ \A k \in K : g[k] \in Nat
      /\ \A k \in L : f[k] \in Nat /\ f[k] <= g[k]
  OBVIOUS
<1> HIDE DEF f, g
<1> QED BY <1>1, <1>2, <1>3, SumMonotone, SumFacts

\* One more row adds what it counts.
LEMMA ExposureAdds ==
  ASSUME NEW q, NEW K, IsFiniteSet(K), NEW k \in K, \A j \in K : Counted(q[j]) \in Nat
  PROVE  ExposureOf(q, K) = Counted(q[k]) + ExposureOf(q, K \ {k})
<1> DEFINE f == [j \in K |-> Counted(q[j])]
           D == K \ {k}
           h == [j \in D |-> Counted(q[j])]
<1>1. IsFiniteSet(D) BY FS_Subset
<1>2. ExposureOf(q, K) = Sum(f, K) BY ExposureIsSum
<1>3. ExposureOf(q, D) = Sum(h, D)
  <2>1. \A j \in D : Counted(q[j]) \in Nat OBVIOUS
  <2> HIDE DEF D
  <2> QED BY <1>1, <2>1, ExposureIsSum
<1>4. Sum(f, D) = Sum(h, D)
  <2>1. \A j \in D : h[j] \in Nat /\ f[j] \in Nat /\ h[j] <= f[j] /\ f[j] <= h[j] OBVIOUS
  <2>2. D \in SUBSET D OBVIOUS
  <2>3. Sum(f, D) \in Nat /\ Sum(h, D) \in Nat
    <3> HIDE DEF D, f, h
    <3> QED BY <1>1, <2>1, SumFacts
  <2>4. Sum(f, D) <= Sum(h, D)
    <3> HIDE DEF D, f, h
    <3> QED BY <1>1, <2>1, <2>2, SumMonotone
  <2>5. Sum(h, D) <= Sum(f, D)
    <3> HIDE DEF D, f, h
    <3> QED BY <1>1, <2>1, <2>2, SumMonotone
  <2> HIDE DEF D, f, h
  <2> QED BY <2>3, <2>4, <2>5
<1>5. Sum(f, K) = f[k] + Sum(f, D)
  <2>1. \A j \in K : f[j] \in Nat OBVIOUS
  <2> HIDE DEF f
  <2> QED BY <2>1, SumFacts
<1> QED BY <1>2, <1>3, <1>4, <1>5

----------------------------------------------------------------------------
(* The cap: what is not a visible mismatch fits.                           *)

Sound == {k \in Booked : row[k].status # "mismatch"}

\* The rows are finitely many, which makes exposure a sum, and the capacity that a reservation
\* is measured against was funded.
Capped == /\ IsFiniteSet(Booked) /\ funded <= mostFunded
          /\ \A a \in Auths : ExposureOf(row, Under(a) \cap Sound) <= MaxSpend
          /\ ExposureOf(row, Sound) <= mostFunded

LEMMA CappedIsCapped == Capped => ExposureIsCapped
<1>1. Exposure(Sound) = ExposureOf(row, Sound)
  BY DEF Exposure, ExposureOf, MapThenSumSet, MapThenFoldSet
<1>2. ASSUME NEW a \in Auths PROVE Exposure(Under(a) \cap Sound) = ExposureOf(row, Under(a) \cap Sound)
  BY DEF Exposure, ExposureOf, MapThenSumSet, MapThenFoldSet
<1> QED BY <1>1, <1>2 DEF Capped, ExposureIsCapped, Sound

LEMMA CappedInit == Init => Capped
<1> SUFFICES ASSUME Init PROVE Capped OBVIOUS
<1>1. Booked = {} /\ Sound = {} /\ \A a \in Auths : Under(a) \cap Sound = {}
  BY DEF Init, Booked, Sound, NoReservation
<1>2. ExposureOf(row, {}) = 0
  <2>1. IsFiniteSet({}) BY FS_EmptySet
  <2> DEFINE f == [k \in {} |-> Counted(row[k])]
  <2>2. ExposureOf(row, {}) = Sum(f, {}) BY <2>1, ExposureIsSum
  <2> HIDE DEF f
  <2> QED BY <2>2, SumEmpty
<1> QED BY <1>1, <1>2, FS_EmptySet, GatewayAssumption DEF Init, Capped

LEMMA CountedType == Inv => \A k \in Booked : Counted(row[k]) \in Nat
<1> SUFFICES ASSUME Inv, NEW k \in Booked PROVE Counted(row[k]) \in Nat OBVIOUS
<1>1. row[k] \in Written /\ RequestOK(k) BY RowType DEF Inv, Booked
<1>2. /\ row[k].reserved \in Nat /\ row[k].observed \in Nat \cup {-1}
      /\ row[k].status = "settled" => row[k].observed # -1
  BY <1>1 DEF Written, Amount, Null, RequestOK
<1> QED BY <1>2 DEF Counted

\* No row is new, and what is sound counts no more than before.
Shrinks ==
  /\ Booked' = Booked
  /\ \A k \in Booked :
       /\ row'[k].auth = row[k].auth
       /\ row'[k].status # "mismatch" =>
            row[k].status # "mismatch" /\ Counted(row'[k]) <= Counted(row[k])

LEMMA ShrinkCaps ==
  ASSUME Inv, Inv', Capped, Shrinks, funded' <= mostFunded', mostFunded <= mostFunded'
  PROVE  Capped'
<1>1. /\ IsFiniteSet(Booked) /\ IsFiniteSet(Sound)
      /\ \A a \in Auths : IsFiniteSet(Under(a) \cap Sound)
  <2>1. Sound \subseteq Booked /\ \A a \in Auths : Under(a) \cap Sound \subseteq Booked
    BY DEF Sound
  <2> QED BY <2>1, FS_Subset DEF Capped
<1>2. /\ Sound' \subseteq Sound /\ Sound \subseteq Booked
      /\ \A a \in Auths : (Under(a) \cap Sound)' \subseteq Under(a) \cap Sound
  <2>1. \A k : k \in Sound' => k \in Booked' /\ row'[k].status # "mismatch" BY DEF Sound, Booked
  <2>2. \A a \in Auths : \A k : k \in Under(a)' => k \in Booked' /\ row'[k].auth = a
    BY DEF Under, Booked
  <2>3. \A k \in Sound' : k \in Booked /\ row[k].status # "mismatch" BY <2>1 DEF Shrinks
  <2>4. Sound' \subseteq Sound /\ Sound \subseteq Booked BY <2>3 DEF Sound
  <2>5. ASSUME NEW a \in Auths, NEW k \in (Under(a) \cap Sound)' PROVE k \in Under(a) \cap Sound
    <3>1. k \in Under(a)' /\ k \in Sound' OBVIOUS
    <3> QED BY <2>2, <2>4, <3>1 DEF Shrinks, Under
  <2> QED BY <2>4, <2>5
<1>3. \A k \in Booked : Counted(row[k]) \in Nat BY CountedType
<1>4. \A k \in Booked : Counted(row'[k]) \in Nat
  <2>1. (\A k \in Booked : Counted(row[k]) \in Nat)' BY CountedType, PTL
  <2> QED BY <2>1 DEF Shrinks, Counted
<1>5. \A k \in Sound' : Counted(row'[k]) <= Counted(row[k])
  <2>1. \A k : k \in Sound' => k \in Booked' /\ row'[k].status # "mismatch" BY DEF Sound, Booked
  <2> QED BY <2>1 DEF Shrinks
<1>6. ASSUME NEW K \in SUBSET Sound, NEW L \in SUBSET K, L \subseteq Sound', IsFiniteSet(K)
      PROVE  /\ ExposureOf(row', L) <= ExposureOf(row, K)
             /\ ExposureOf(row', L) \in Nat /\ ExposureOf(row, K) \in Nat
  <2>1. \A k \in K : Counted(row[k]) \in Nat BY <1>2, <1>3
  <2>2. \A k \in L : Counted(row'[k]) \in Nat /\ Counted(row'[k]) <= Counted(row[k])
    BY <1>2, <1>4, <1>5, <1>6
  <2> QED BY <1>6, <2>1, <2>2, ExposureShrinks
<1>7. ASSUME NEW a \in Auths PROVE ExposureOf(row, Under(a) \cap Sound)' <= MaxSpend
  <2>1. (Under(a) \cap Sound)' \in SUBSET (Under(a) \cap Sound) BY <1>2
  <2>2. (Under(a) \cap Sound)' \subseteq Sound' /\ Under(a) \cap Sound \in SUBSET Sound OBVIOUS
  <2>3. ExposureOf(row, Under(a) \cap Sound) <= MaxSpend BY DEF Capped
  <2>4. MaxSpend \in Nat BY GatewayAssumption
  <2> QED BY <1>1, <1>6, <2>1, <2>2, <2>3, <2>4
<1>8. ExposureOf(row, Sound)' <= mostFunded'
  <2>1. Sound' \in SUBSET Sound /\ Sound \in SUBSET Sound BY <1>2
  <2>2. ExposureOf(row, Sound) <= mostFunded BY DEF Capped
  <2>3. mostFunded \in Nat /\ mostFunded' \in Nat BY DEF Inv, TypeOK
  <2> QED BY <1>1, <1>6, <2>1, <2>2, <2>3
<1> QED BY <1>1, <1>7, <1>8 DEF Capped, Shrinks

\* One row that is written to, with no more counted if it is sound.
LEMMA WriteShrinks ==
  ASSUME Inv, NEW k \in Requests, row[k].status # "none",
         row' \in [Requests -> Reservation], \A j \in Requests : j # k => row'[j] = row[j],
         row'[k].status # "none", row'[k].auth = row[k].auth,
         row'[k].status # "mismatch" =>
           row[k].status # "mismatch" /\ Counted(row'[k]) <= Counted(row[k])
  PROVE  Shrinks
<1>1. Booked' = Booked BY DEF Booked
<1>2. \A j \in Booked : Counted(row[j]) \in Nat BY CountedType
<1>3. k \in Booked /\ Booked \subseteq Requests BY DEF Booked
<1> QED BY <1>1, <1>2, <1>3 DEF Shrinks

LEMMA SettleShrinks ==
  ASSUME Inv, NEW k \in Requests, row[k].status # "none", NEW n \in Nat, Settle(k, n)
  PROVE  Shrinks
<1>1. Settled(k, n) /\ RequestOK(k) BY SettleCases DEF Inv
<1>2. /\ row[k].reserved \in Nat /\ row[k].observed \in Nat \cup {-1}
      /\ row[k].status \in {"reserved", "settled", "unresolved", "released", "mismatch"}
  BY RowType DEF Written, Statuses, Amount, Null, Inv
<1>3. CASE row' = row
  <2>1. Booked' = Booked /\ \A j \in Booked : Counted(row[j]) \in Nat
    BY <1>3, CountedType DEF Booked
  <2> QED BY <1>3, <2>1 DEF Shrinks
<1>4. CASE Moves(k, "mismatch", row[k].observed) \/ Moves(k, "mismatch", n)
  BY <1>4, WriteShrinks DEF Moves
<1>5. CASE /\ row[k].status \in {"reserved", "unresolved"} /\ n <= row[k].reserved
           /\ Moves(k, "settled", n)
  <2>1. row[k].observed = -1 BY <1>1, <1>5 DEF RequestOK, Null
  <2>2. Counted(row[k]) = row[k].reserved BY <1>2, <1>5, <2>1 DEF Counted
  <2>3. Counted(row'[k]) = n BY <1>5 DEF Counted, Moves
  <2> QED BY <1>5, <2>2, <2>3, WriteShrinks DEF Moves
<1> QED BY <1>1, <1>3, <1>4, <1>5 DEF Settled

LEMMA OpenShrinks ==
  ASSUME Inv, NEW k \in Requests, row[k].status # "none", Release(k) \/ MarkUnresolved(k)
  PROVE  Shrinks
<1>1. RequestOK(k) /\ TypeOK BY DEF Inv
<1>2. row[k].reserved \in Nat BY RowType DEF Written, Inv
<1>3. CASE row' = row
  <2>1. Booked' = Booked /\ \A j \in Booked : Counted(row[j]) \in Nat
    BY <1>3, CountedType DEF Booked
  <2> QED BY <1>3, <2>1 DEF Shrinks
<1>4. CASE /\ row[k].status \in {"reserved", "unresolved"}
           /\ \E s \in {"released", "unresolved"} : Moves(k, s, row[k].observed)
  <2>1. row[k].observed = -1 BY <1>1, <1>4 DEF RequestOK, Null
  <2>2. Counted(row[k]) = row[k].reserved BY <1>2, <1>4, <2>1 DEF Counted
  <2>3. Counted(row'[k]) \in {0, row[k].reserved} BY <1>2, <1>4, <2>1 DEF Counted, Moves
  <2> QED BY <1>2, <1>4, <2>2, <2>3, WriteShrinks DEF Moves
<1> QED BY <1>1, <1>3, <1>4, ReleaseCases, MarkCases

\* A reservation fits, with the mismatches counted too.
LEMMA ReserveCaps ==
  ASSUME Inv, Inv', Capped, NEW c \in Calls, NEW k \in Requests, NEW a \in Auths, NEW d \in Digests,
         Reserve(c, k, a, d)
  PROVE  Capped'
<1> DEFINE n == UpperBound[d]
<1>1. /\ row[k].status = "none" /\ n \in Nat /\ funded' = funded /\ mostFunded' = mostFunded
      /\ funded \in Nat /\ mostFunded \in Nat /\ MaxSpend \in Nat
  BY GatewayAssumption DEF Reserve, Fresh, history, Inv, TypeOK
<1>2. /\ \A j \in Requests : j # k => row'[j] = row[j]
      /\ row'[k].status = "reserved" /\ row'[k].auth = a /\ Counted(row'[k]) = n
  BY <1>1 DEF Reserve, Inv, TypeOK, Counted, Null
<1>3. /\ k \notin Booked /\ Booked' = Booked \cup {k} /\ IsFiniteSet(Booked)
  BY <1>1, <1>2 DEF Booked, Capped
<1>4. \A j \in Booked : Counted(row[j]) \in Nat /\ row'[j] = row[j]
  BY <1>1, <1>2, CountedType DEF Booked
<1>5. /\ ExposureOf(row, Under(a)) + n <= MaxSpend
      /\ ExposureOf(row, Booked) + n <= funded
  BY DEF Reserve, Fits, Exposure, ExposureOf, MapThenSumSet, MapThenFoldSet
\* What a set of sound rows and the new one count.
<1>6. ASSUME NEW K \in SUBSET Booked, NEW L, L \subseteq K \cup {k}
      PROVE  /\ ExposureOf(row, K) \in Nat
             /\ ExposureOf(row', L) <= ExposureOf(row, K) + n
             /\ k \notin L => ExposureOf(row', L) <= ExposureOf(row, K)
             /\ ExposureOf(row', L) \in Nat
  <2> DEFINE D == L \ {k}
  <2>1. IsFiniteSet(K) /\ D \in SUBSET K /\ IsFiniteSet(L)
    <3>1. IsFiniteSet(K) BY <1>3, FS_Subset
    <3>2. IsFiniteSet(K \cup {k}) BY <3>1, FS_AddElement
    <3>3. IsFiniteSet(L) BY <3>2, <1>6, FS_Subset
    <3> QED BY <1>6, <3>1, <3>3
  <2>2. /\ ExposureOf(row', D) \in Nat /\ ExposureOf(row, K) \in Nat
        /\ ExposureOf(row', D) <= ExposureOf(row, K)
    <3>1. \A j \in K : Counted(row[j]) \in Nat BY <1>4
    <3>2. \A j \in D : Counted(row'[j]) \in Nat /\ Counted(row'[j]) <= Counted(row[j])
      BY <1>4, <2>1
    <3> HIDE DEF D
    <3> QED BY <2>1, <3>1, <3>2, ExposureShrinks
  <2>3. CASE k \notin L
    <3>1. D = L BY <2>3
    <3> HIDE DEF n
    <3> QED BY <1>1, <2>2, <3>1
  <2>4. CASE k \in L
    <3>1. \A j \in L : Counted(row'[j]) \in Nat BY <1>1, <1>2, <1>4, <1>6
    <3>2. ExposureOf(row', L) = n + ExposureOf(row', D) BY <1>2, <2>1, <2>4, <3>1, ExposureAdds
    <3> HIDE DEF n, D
    <3> QED BY <1>1, <2>2, <2>4, <3>2
  <2> QED BY <2>3, <2>4
<1>7. ASSUME NEW b \in Auths PROVE ExposureOf(row, Under(b) \cap Sound)' <= MaxSpend
  <2> DEFINE L == (Under(b) \cap Sound)'
  <2>1. \A j \in L : j \in Booked' /\ row'[j].auth = b /\ row'[j].status # "mismatch"
    BY DEF Under, Sound, Booked
  <2>2. CASE b = a
    <3>1. L \subseteq Under(a) \cup {k} /\ Under(a) \in SUBSET Booked
      BY <1>3, <1>4, <2>1, <2>2 DEF Under
    <3> HIDE DEF L, n
    <3>2. /\ ExposureOf(row', L) <= ExposureOf(row, Under(a)) + n
          /\ ExposureOf(row, Under(a)) \in Nat /\ ExposureOf(row', L) \in Nat
      BY <1>6, <3>1
    <3>3. ExposureOf(row', L) <= MaxSpend BY <1>1, <1>5, <3>2
    <3> QED BY <3>3 DEF L
  <2>3. CASE b # a
    <3>1. k \notin L BY <1>2, <2>1, <2>3
    <3>2. L \subseteq (Under(b) \cap Sound) \cup {k} /\ Under(b) \cap Sound \in SUBSET Booked
      BY <1>3, <1>4, <2>1 DEF Under, Sound
    <3>3. ExposureOf(row, Under(b) \cap Sound) <= MaxSpend BY DEF Capped
    <3> HIDE DEF L, n
    <3>4. /\ ExposureOf(row', L) <= ExposureOf(row, Under(b) \cap Sound)
          /\ ExposureOf(row, Under(b) \cap Sound) \in Nat /\ ExposureOf(row', L) \in Nat
      BY <1>6, <3>1, <3>2
    <3>5. ExposureOf(row', L) <= MaxSpend BY <1>1, <3>3, <3>4
    <3> QED BY <3>5 DEF L
  <2> QED BY <2>2, <2>3
<1>8. ExposureOf(row, Sound)' <= mostFunded'
  <2> DEFINE L == Sound'
  <2>1. L \subseteq Booked \cup {k} /\ Booked \in SUBSET Booked BY <1>3 DEF Sound, Booked
  <2> HIDE DEF L, n
  <2>2. /\ ExposureOf(row', L) <= ExposureOf(row, Booked) + n
        /\ ExposureOf(row, Booked) \in Nat /\ ExposureOf(row', L) \in Nat
    BY <1>6, <2>1
  <2>3. ExposureOf(row', L) <= mostFunded' BY <1>1, <1>5, <2>2 DEF Capped
  <2> QED BY <2>3 DEF L
<1>9. IsFiniteSet(Booked') /\ funded' <= mostFunded' BY <1>1, <1>3, FS_AddElement DEF Capped
<1> QED BY <1>7, <1>8, <1>9 DEF Capped

LEMMA NextCaps == Inv /\ Inv' /\ Capped /\ [Next]_vars => Capped'
<1> SUFFICES ASSUME Inv, Inv', Capped, [Next]_vars PROVE Capped' OBVIOUS
<1>1. mostFunded \in Nat /\ funded \in Nat /\ funded <= mostFunded BY DEF Inv, TypeOK, Capped
<1>2. CASE Shrinks /\ UNCHANGED <<funded, mostFunded>> BY <1>1, <1>2, ShrinkCaps
<1>3. ASSUME row' = row PROVE Shrinks
  <2>1. Booked' = Booked /\ \A j \in Booked : Counted(row[j]) \in Nat
    BY <1>3, CountedType DEF Booked
  <2> QED BY <1>3, <2>1 DEF Shrinks
<1>4. CASE UNCHANGED vars BY <1>2, <1>3, <1>4 DEF vars, books, history
<1>5. CASE Operate
  <2>1. ASSUME NEW n \in Capacities, SetSupplierCapacity(n) PROVE Capped'
    <3>1. Shrinks BY <1>3, <2>1 DEF SetSupplierCapacity
    <3>2. n \in Nat /\ funded' = n /\ mostFunded' = IF n > mostFunded THEN n ELSE mostFunded
      BY <2>1, GatewayAssumption DEF SetSupplierCapacity
    <3>3. funded' <= mostFunded' /\ mostFunded <= mostFunded' BY <1>1, <3>2
    <3> QED BY <3>1, <3>3, ShrinkCaps
  <2>2. ASSUME NEW a \in Auths, CreateSpendAuthorization(a) \/ Expire(a) PROVE Capped'
    BY <1>2, <1>3, <2>2 DEF CreateSpendAuthorization, Expire, history
  <2>3. ASSUME NEW k \in Requests, ReportNoCharge(k) PROVE Capped'
    BY <1>2, <2>3, OpenShrinks DEF ReportNoCharge
  <2>4. ASSUME NEW k \in Requests, NEW n \in Costs, ReportCost(k, n) PROVE Capped'
    BY <1>2, <2>4, SettleShrinks, GatewayAssumption DEF ReportCost
  <2> QED BY <1>5, <2>1, <2>2, <2>3, <2>4 DEF Operate
<1>6. CASE Forward
  <2>1. ASSUME NEW c \in Calls, NEW k \in Requests, NEW a \in Auths, NEW d \in Digests,
               Reserve(c, k, a, d)
        PROVE  Capped'
    BY <2>1, ReserveCaps
  <2>2. ASSUME NEW c \in Calls, AnswerSettles(c) PROVE Capped'
    <3>1. First(c) /\ Return(c) BY <2>2 DEF AnswerSettles, Inv, CallOK, First
    <3>2. charged[call[c].key] \in Nat BY <3>1, FirstReturns DEF Inv, TypeOK
    <3> QED BY <1>2, <2>2, <3>1, <3>2, FirstReturns, SettleShrinks DEF AnswerSettles, history
  <2>3. ASSUME NEW c \in Calls, AnswerUnknown(c) \/ NotSent(c) PROVE Capped'
    <3>1. First(c) /\ Return(c) BY <2>3 DEF AnswerUnknown, NotSent, Inv, CallOK, First
    <3> QED BY <1>2, <2>3, <3>1, FirstReturns, OpenShrinks DEF AnswerUnknown, NotSent, history
  <2>4. CASE UNCHANGED <<funded, row, mostFunded>> BY <1>2, <1>3, <2>4
  <2> QED BY <1>6, <2>1, <2>2, <2>3, <2>4
          DEF Forward, ReserveAgain, ReturnKnown, Abandon, Ask, books, history
<1> QED BY <1>4, <1>5, <1>6 DEF Next

----------------------------------------------------------------------------
(* Theorems.                                                               *)

LEMMA NextPreserves == Inv /\ [Next]_vars => Inv'
<1> SUFFICES ASSUME Inv, [Next]_vars PROVE Inv' OBVIOUS
<1>1. CASE UNCHANGED vars
  BY <1>1, StutterPreserves DEF vars, books, history, supplier, Inv, TypeOK
<1>2. CASE Operate
  BY <1>2, OperatePreserves, ReportCostPreserves, ReportNoChargePreserves DEF Operate
<1>3. CASE Forward
  BY <1>3, ReserveAgainPreserves, ReservePreserves, ReturnPreserves, AnswerSettlesPreserves,
     AnswerUnknownPreserves, AskPreserves DEF Forward
<1> QED BY <1>1, <1>2, <1>3 DEF Next

LEMMA InvHolds == Spec => []Inv
BY InvInit, NextPreserves, PTL DEF Spec

\* Every variable keeps its type; what is settled is within its reservation.
THEOREM TypeCorrect == Spec => []TypeOK
<1>1. Inv => TypeOK BY DEF Inv
<1> QED BY <1>1, InvHolds, PTL

\* No request reaches the supplier twice, however calls, replays and reports interleave.
THEOREM NeverPaidTwice == Spec => []SupplierIsAskedOnce
<1>1. Inv => SupplierIsAskedOnce BY DEF Inv, RequestOK, SupplierIsAskedOnce
<1> QED BY <1>1, InvHolds, PTL

\* The books hold or show every charge, as long as the reports about the request are true.
THEOREM ChargesAreNeverLost == Spec => []ChargesAreCovered
<1>1. ASSUME Inv, NEW k \in Requests \ misreported
      PROVE  \/ charged[k] <= Counted(row[k])
             \/ charged[k] > row[k].reserved /\ row[k].observed = Null
  <2>1. RequestOK(k) /\ charged[k] \in Nat /\ row[k] \in Reservation BY <1>1 DEF Inv, TypeOK
  <2>2. CASE row[k].status = "none" BY <2>1, <2>2 DEF RequestOK, Counted
  <2>3. CASE row[k].status # "none"
    <3>1. row[k] \in Written BY <1>1, <2>3, RowType DEF Inv
    <3>2. /\ row[k].reserved \in Nat /\ row[k].observed \in Nat \cup {-1}
          /\ row[k].status \in {"reserved", "settled", "unresolved", "released", "mismatch"}
      BY <3>1 DEF Written, Statuses, Amount, Null
    <3> QED BY <2>1, <3>2 DEF RequestOK, Counted, Null
  <2> QED BY <2>2, <2>3
<1>2. Inv => ChargesAreCovered BY <1>1 DEF ChargesAreCovered
<1> QED BY <1>2, InvHolds, PTL

\* Concurrent requests overdraw neither their authorization nor the funded capacity.
THEOREM ExposureNeverExceeds == Spec => []ExposureIsCapped
<1>1. Spec => []Capped BY CappedInit, NextCaps, InvHolds, PTL DEF Spec
<1> QED BY <1>1, CappedIsCapped, PTL

\* A settled reservation and its spend row say the same, whatever is reported again.
THEOREM BooksAlwaysAgree == Spec => []BooksAgree
<1>1. Inv => BooksAgree
  <2> SUFFICES ASSUME Inv, NEW k \in Requests
               PROVE  /\ row[k].status = "settled" => row[k].observed # Null /\ spend[k] = row[k].observed
                      /\ spend[k] # Null => row[k].status \in {"settled", "mismatch"}
    BY DEF BooksAgree
  <2>1. RequestOK(k) /\ row[k].status \in Statuses
    BY DEF Inv, TypeOK, Reservation, NoReservation, Statuses
  <2> QED BY <2>1 DEF RequestOK, Statuses
<1> QED BY <1>1, InvHolds, PTL

\* What a step may not do to what is written about a request.
Kept(k) == /\ row[k].status = "settled" => row'[k].observed = row[k].observed
           /\ row[k].status = "mismatch" => row'[k].status = "mismatch"
           /\ spend[k] # Null => spend'[k] = spend[k]

LEMMA SettleKeeps ==
  ASSUME Inv, NEW j \in Requests, row[j].status # "none", NEW n \in Nat, Settle(j, n),
         NEW k \in Requests
  PROVE  Kept(k)
<1>1. Settled(j, n) BY SettleCases DEF Inv
<1>2. CASE j = k BY <1>1, <1>2 DEF Settled, Moves, Kept, Inv, TypeOK
<1>3. CASE j # k BY <1>1, <1>3 DEF Settled, Moves, Kept, Inv, TypeOK
<1> QED BY <1>2, <1>3

LEMMA OpenKeeps ==
  ASSUME Inv, NEW j \in Requests, row[j].status # "none",
         Release(j) \/ MarkUnresolved(j), spend' = spend, NEW k \in Requests
  PROVE  Kept(k)
<1>1. \/ row' = row
      \/ /\ row[j].status \in {"reserved", "unresolved"}
         /\ \A i \in Requests : i # j => row'[i] = row[i]
  BY ReleaseCases, MarkCases DEF Inv, Moves
<1> QED BY <1>1 DEF Kept

LEMMA NextKeeps ==
  ASSUME Inv, Next, NEW k \in Requests
  PROVE  Kept(k)
<1>1. CASE Operate
  <2>1. CASE row' = row /\ spend' = spend BY <2>1 DEF Kept
  <2>2. ASSUME NEW j \in Requests, ReportNoCharge(j) PROVE Kept(k)
    BY <2>2, OpenKeeps DEF ReportNoCharge
  <2>3. ASSUME NEW j \in Requests, NEW n \in Costs, ReportCost(j, n) PROVE Kept(k)
    BY <2>3, SettleKeeps, GatewayAssumption DEF ReportCost
  <2> QED BY <1>1, <2>1, <2>2, <2>3
          DEF Operate, SetSupplierCapacity, CreateSpendAuthorization, Expire
<1>2. CASE Forward
  <2>1. CASE row' = row /\ spend' = spend BY <2>1 DEF Kept
  <2>2. ASSUME NEW c \in Calls, NEW j \in Requests, NEW a \in Auths, NEW d \in Digests,
               Reserve(c, j, a, d)
        PROVE  Kept(k)
    BY <2>2 DEF Reserve, Fresh, Kept, Inv, TypeOK
  <2>3. ASSUME NEW c \in Calls, AnswerSettles(c) PROVE Kept(k)
    <3>1. First(c) /\ Return(c) BY <2>3 DEF AnswerSettles, Inv, CallOK, First
    <3>2. charged[call[c].key] \in Nat BY <3>1, FirstReturns DEF Inv, TypeOK
    <3> QED BY <2>3, <3>1, <3>2, FirstReturns, SettleKeeps DEF AnswerSettles
  <2>4. ASSUME NEW c \in Calls, AnswerUnknown(c) \/ NotSent(c) PROVE Kept(k)
    <3>1. First(c) /\ Return(c) BY <2>4 DEF AnswerUnknown, NotSent, Inv, CallOK, First
    <3> QED BY <2>4, <3>1, FirstReturns, OpenKeeps DEF AnswerUnknown, NotSent
  <2> QED BY <1>2, <2>1, <2>2, <2>3, <2>4
          DEF Forward, ReserveAgain, ReturnKnown, Abandon, Ask, books
<1> QED BY <1>1, <1>2 DEF Next

\* A contradiction never overwrites what was settled or spent, and never disappears.
THEOREM HistoryNeverRewritten == Spec => HistoryIsKept
<1>1. Inv /\ [Next]_vars => [\A k \in Requests : Kept(k)]_vars BY NextKeeps
<1>2. Inv /\ [Next]_vars =>
        [\A k \in Requests :
           /\ row[k].status = "settled" => row'[k].observed = row[k].observed
           /\ row[k].status = "mismatch" => row'[k].status = "mismatch"
           /\ spend[k] # Null => spend'[k] = spend[k]]_vars
  BY <1>1 DEF Kept
<1> QED BY <1>2, InvHolds, PTL DEF Spec, HistoryIsKept
=============================================================================
