--------------------------- MODULE ProviderGateway ---------------------------
(***************************************************************************)
(* The private gateway to the model supplier.  A request takes a durable   *)
(* reservation out of the authorization of its attempt and of the funded   *)
(* capacity before the supplier is asked; what the supplier charged is     *)
(* settled afterwards, by the call itself or by a later report.            *)
(*                                                                         *)
(* The database operations are transactions on one connection and are one  *)
(* step each; forward awaits the transport between two of them, and may be *)
(* dropped there (the server dies, the worker hangs up).                   *)
(***************************************************************************)
EXTENDS Integers, FiniteSetsExt

CONSTANTS
  Requests,    \* request keys
  Auths,       \* spend authorizations, one for each attempt
  Digests,     \* digests of request forms
  Calls,       \* calls of forward that may be at work together
  UpperBound,  \* UpperBound[d]: upper_bound_cost of the request with digest d
  MaxSpend,    \* max_micro_usd of an authorization
  Capacities,  \* what an operator may set as funded capacity
  Costs        \* what the supplier may charge for a request

ASSUME GatewayAssumption ==
  /\ UpperBound \in [Digests -> Nat \ {0}]
  /\ MaxSpend \in Nat \ {0}
  /\ Capacities \subseteq Nat /\ Costs \subseteq Nat

VARIABLES
  funded,      \* supplier_capacities of the one supplier
  auth,        \* provider_spend_authorizations
  row,         \* provider_request_reservations, by request key
  spend,       \* provider_spend, by request key; Null where there is no row
  call,        \* what every call of forward knows and where it is
  asked,       \* how often the supplier received the request
  charged,     \* what the supplier charges for it
  mostFunded,  \* history: the greatest capacity so far
  misreported  \* history: requests with a report that came early or was wrong

books == <<funded, auth, row, spend>>
supplier == <<asked, charged>>
history == <<mostFunded, misreported>>
vars == <<books, call, supplier, history>>

Null == -1
Amount == Nat \cup {Null}
Statuses == {"none", "reserved", "settled", "unresolved", "released", "mismatch"}
NoReservation == [status |-> "none"]
Reservation == {NoReservation} \cup
  [status : Statuses \ {"none"}, auth : Auths, digest : Digests, reserved : Nat, observed : Amount]
Idle == [at |-> "idle"]
Call == {Idle} \cup
  [at : {"reserved", "asking"}, key : Requests, status : Statuses, replayed : BOOLEAN]

TypeOK ==
  /\ funded \in Nat /\ mostFunded \in Nat
  /\ auth \in [Auths -> {"none", "active", "expired"}]
  /\ row \in [Requests -> Reservation]
  /\ \A k \in Requests : row[k].status = "settled" => row[k].observed <= row[k].reserved
  /\ spend \in [Requests -> Amount]
  /\ call \in [Calls -> Call]
  /\ asked \in [Requests -> Nat] /\ charged \in [Requests -> Nat]
  /\ misreported \subseteq Requests

----------------------------------------------------------------------------
(* Exposure.                                                               *)

\* SQL compares NULL with nothing, so a row without an observation counts as reserved.
Counted(r) ==
  IF r.status \in {"none", "released"} THEN 0
  ELSE IF r.observed > r.reserved \/ r.status = "settled" THEN r.observed
  ELSE r.reserved

Booked == {k \in Requests : row[k].status # "none"}
Under(a) == {k \in Booked : row[k].auth = a}
Exposure(keys) == MapThenSumSet(LAMBDA k : Counted(row[k]), keys)

\* Mutant: The supplier's capacity is not looked at.
FitsItsAuthorization(a, amount) == Exposure(Under(a)) + amount <= MaxSpend

Fits(a, amount) ==
  /\ Exposure(Under(a)) + amount <= MaxSpend
  /\ Exposure(Booked) + amount <= funded

----------------------------------------------------------------------------
(* Capacity and authorizations.                                            *)

SetSupplierCapacity(n) ==
  /\ funded' = n
  /\ mostFunded' = IF n > mostFunded THEN n ELSE mostFunded
  /\ UNCHANGED <<auth, row, spend, call, supplier, misreported>>

CreateSpendAuthorization(a) ==
  /\ auth[a] = "none" /\ auth' = [auth EXCEPT ![a] = "active"]
  /\ UNCHANGED <<funded, row, spend, call, supplier, history>>

Expire(a) ==
  /\ auth[a] = "active" /\ auth' = [auth EXCEPT ![a] = "expired"]
  /\ UNCHANGED <<funded, row, spend, call, supplier, history>>

----------------------------------------------------------------------------
(* A call of forward: reserve, ask the supplier, write down what it said.  *)

Begin(c, k, status, replayed) ==
  call' = [call EXCEPT ![c] = [at |-> "reserved", key |-> k, status |-> status, replayed |-> replayed]]
Return(c) == call' = [call EXCEPT ![c] = Idle]

\* Mutant: A released request key may be used again.
FreshOrReleased(r) == r.status \in {"none", "released"}

Fresh(r) == r.status = "none"

\* The reservation of this key exists: the same form gets it back, another one an error.
ReserveAgain(c, k, a, d) ==
  /\ call[c].at = "idle" /\ auth[a] = "active"
  /\ ~Fresh(row[k]) /\ row[k].auth = a /\ row[k].digest = d
  /\ Begin(c, k, row[k].status, TRUE)
  /\ UNCHANGED <<books, supplier, history>>

Reserve(c, k, a, d) ==
  /\ call[c].at = "idle" /\ auth[a] = "active"
  /\ Fresh(row[k]) /\ Fits(a, UpperBound[d])
  /\ row' = [row EXCEPT ![k] = [status |-> "reserved", auth |-> a, digest |-> d,
                                reserved |-> UpperBound[d], observed |-> Null]]
  /\ Begin(c, k, "reserved", FALSE)
  /\ UNCHANGED <<funded, auth, spend, supplier, history>>

\* A replay is not permission to spend twice, whatever became of the first call.
MayAsk(reservation) == reservation.status = "reserved" /\ ~reservation.replayed

ReturnKnown(c) ==
  /\ call[c].at = "reserved" /\ ~MayAsk(call[c])
  /\ Return(c)
  /\ UNCHANGED <<books, supplier, history>>

\* The transport hands the request over; the supplier charges what it will.
Ask(c, cost) ==
  /\ call[c].at = "reserved" /\ MayAsk(call[c])
  /\ call' = [call EXCEPT ![c].at = "asking"]
  /\ asked' = [asked EXCEPT ![call[c].key] = @ + 1]
  /\ charged' = [charged EXCEPT ![call[c].key] = @ + cost]
  /\ UNCHANGED <<books, history>>

\* The future is dropped at the await: the reservation stays as it is.
Abandon(c) ==
  /\ call[c].at \in {"reserved", "asking"} /\ Return(c)
  /\ UNCHANGED <<books, supplier, history>>

\* Mutant: The update of the row does not look at its status.
AnyStatus(r) == TRUE

Open(r) == r.status \in {"reserved", "unresolved"}

Release(k) == row' = IF Open(row[k]) THEN [row EXCEPT ![k].status = "released"] ELSE row

\* Mutant: A request whose outcome is unknown is given up.
GiveUp(k) ==
  row' = IF row[k].status = "reserved" THEN [row EXCEPT ![k].status = "released"] ELSE row

MarkUnresolved(k) ==
  row' = IF row[k].status = "reserved" THEN [row EXCEPT ![k].status = "unresolved"] ELSE row

Replays(r, n) == r.status = "settled" /\ r.observed = n
\* Mutant: A settled row may be settled again.
OnlyReleasedContradicts(r, n) == r.status = "released" /\ ~Replays(r, n)

Contradicts(r, n) == r.status \in {"settled", "released"} /\ ~Replays(r, n)

\* Mutant: The reservation is no bound of what is settled.
NeverExceeds(r, n) == FALSE

Exceeds(r, n) == n > r.reserved

\* settle_provider_request: the first case that fits.
Settle(k, n) ==
  \/ /\ Replays(row[k], n)
     /\ UNCHANGED <<row, spend>>
  \/ /\ Contradicts(row[k], n)
     /\ row' = [row EXCEPT ![k].status = "mismatch"]
     /\ UNCHANGED spend
  \/ /\ ~Replays(row[k], n) /\ ~Contradicts(row[k], n) /\ Exceeds(row[k], n)
     /\ row' = [row EXCEPT ![k].status = "mismatch", ![k].observed = n]
     /\ UNCHANGED spend
  \/ /\ ~Replays(row[k], n) /\ ~Contradicts(row[k], n) /\ ~Exceeds(row[k], n)
     /\ row' = IF Open(row[k]) THEN [row EXCEPT ![k].status = "settled", ![k].observed = n] ELSE row
     /\ spend' = [spend EXCEPT ![k] = IF @ = Null THEN n ELSE @]

\* The supplier answered with its usage.
AnswerSettles(c) ==
  /\ call[c].at = "asking" /\ Return(c)
  /\ Settle(call[c].key, charged[call[c].key])
  /\ UNCHANGED <<funded, auth, supplier, history>>

\* It answered without usage, with impossible usage or with the credential in it; it timed
\* out or the connection broke.  The request may have reached it or not.
AnswerUnknown(c) ==
  /\ call[c].at = "asking" \/ (call[c].at = "reserved" /\ MayAsk(call[c]))
  /\ Return(c) /\ MarkUnresolved(call[c].key)
  /\ UNCHANGED <<funded, auth, spend, supplier, history>>

\* The transport knows that nothing was sent.
NotSent(c) ==
  /\ call[c].at = "reserved" /\ MayAsk(call[c])
  /\ Return(c) /\ Release(call[c].key)
  /\ UNCHANGED <<funded, auth, spend, supplier, history>>

----------------------------------------------------------------------------
(* A later report about a request.  It may be early or wrong.              *)

AtWork(k) == \E c \in Calls : call[c].at # "idle" /\ call[c].key = k /\ MayAsk(call[c])

Reported(k, n) ==
  misreported' = IF AtWork(k) \/ n # charged[k] THEN misreported \cup {k} ELSE misreported

ReportCost(k, n) ==
  /\ row[k].status # "none"
  /\ Settle(k, n) /\ Reported(k, n)
  /\ UNCHANGED <<funded, auth, call, supplier, mostFunded>>

ReportNoCharge(k) ==
  /\ row[k].status # "none"
  /\ Release(k) /\ Reported(k, 0)
  /\ UNCHANGED <<funded, auth, spend, call, supplier, mostFunded>>

----------------------------------------------------------------------------
Init ==
  /\ funded = 0 /\ mostFunded = 0
  /\ auth = [a \in Auths |-> "none"]
  /\ row = [k \in Requests |-> NoReservation]
  /\ spend = [k \in Requests |-> Null]
  /\ call = [c \in Calls |-> Idle]
  /\ asked = [k \in Requests |-> 0] /\ charged = asked
  /\ misreported = {}

Operate ==
  \/ \E n \in Capacities : SetSupplierCapacity(n)
  \/ \E a \in Auths : CreateSpendAuthorization(a) \/ Expire(a)
  \/ \E k \in Requests : ReportNoCharge(k) \/ \E n \in Costs : ReportCost(k, n)

Forward ==
  \/ \E c \in Calls, k \in Requests, a \in Auths, d \in Digests :
       ReserveAgain(c, k, a, d) \/ Reserve(c, k, a, d)
  \/ \E c \in Calls :
       \/ ReturnKnown(c) \/ Abandon(c) \/ AnswerSettles(c) \/ AnswerUnknown(c) \/ NotSent(c)
       \/ \E cost \in Costs : Ask(c, cost)

Next == Operate \/ Forward
Spec == Init /\ [][Next]_vars

----------------------------------------------------------------------------
(* Properties.                                                             *)

\* "Replays cannot invoke the supplier twice" (EXECUTION-STATE.md:2872): not a call that runs
\* beside the first one, not a retry after it was dropped, released or left unresolved.
SupplierIsAskedOnce == \A k \in Requests : asked[k] <= 1

\* What the supplier charges is held or observed in the books at every moment, through time-outs,
\* dropped calls and late reports; only a charge above its bound may be unknown, until it is
\* observed.  Reports that are early or wrong void this for their request.
ChargesAreCovered ==
  \A k \in Requests \ misreported :
    charged[k] <= Counted(row[k]) \/ (charged[k] > row[k].reserved /\ row[k].observed = Null)

\* "concurrent requests cannot overdraw the same finite capacity": whatever is not a visible
\* mismatch fits the authorization, and what was funded at some time.
ExposureIsCapped ==
  LET sound == {k \in Booked : row[k].status # "mismatch"} IN
  /\ \A a \in Auths : Exposure(Under(a) \cap sound) <= MaxSpend
  /\ Exposure(sound) <= mostFunded

\* A settled reservation and its spend row say the same, and there is no spend row for a request
\* that is open or released, whatever reports were repeated or contradicted each other.
BooksAgree ==
  \A k \in Requests :
    /\ row[k].status = "settled" => row[k].observed # Null /\ spend[k] = row[k].observed
    /\ spend[k] # Null => row[k].status \in {"settled", "mismatch"}

\* A contradiction is a visible mismatch that stays one, never an overwrite of what was settled
\* or written to provider_spend.
HistoryIsKept ==
  [][\A k \in Requests :
       /\ row[k].status = "settled" => row'[k].observed = row[k].observed
       /\ row[k].status = "mismatch" => row'[k].status = "mismatch"
       /\ spend[k] # Null => spend'[k] = spend[k]]_vars

=============================================================================
