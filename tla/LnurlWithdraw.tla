--------------------------- MODULE LnurlWithdraw ---------------------------
(***************************************************************************)
(* LNURL-withdraw of the API server: a session with a deadline lets whoever *)
(* holds its k1 have one invoice paid out of the operator's wallet.  The   *)
(* callback locks the session, pays through LNbits and records the outcome; *)
(* every endpoint that looks a session up past its deadline marks it        *)
(* EXPIRED, whatever it was.  Each await lets other requests in.            *)
(***************************************************************************)
EXTENDS Naturals, FiniteSets

CONSTANTS
  Sessions,  \* the k1 values handed out
  Invoices,  \* the invoices wallets present
  Payable,   \* those whose amount can be read and lies within the session's bounds
  Requests   \* slots for HTTP requests in flight

ASSUME WithdrawAssumption == Payable \subseteq Invoices

VARIABLES
  status,  \* LnurlWithdrawSession.status, or "none" before the session exists
  due,     \* sessions past expiresAt
  h,       \* the requests in flight, by slot
  paid,    \* the invoices paid out for each session (the wallet's own record)
  unsure,  \* invoices paid out although the callback that paid them went to its catch
  granted  \* sessions of which some callback was answered OK

vars == <<status, due, h, paid, unsure, granted>>

Idle == [kind |-> "none", pc |-> "idle", k1 |-> "none", pr |-> "none"]

Init ==
  /\ status = [k \in Sessions |-> "none"]
  /\ due = {}
  /\ h = [t \in Requests |-> Idle]
  /\ paid = [k \in Sessions |-> {}]
  /\ unsure = {}
  /\ granted = {}

Goto(t, pc) == h' = [h EXCEPT ![t].pc = pc]

End(t) == h' = [h EXCEPT ![t] = Idle]

\* createWithdrawSession, for POST /api/lnurl-withdraw/request.
CreateSession(k) ==
  /\ status[k] = "none"
  /\ status' = [status EXCEPT ![k] = "PENDING"]
  /\ UNCHANGED <<due, h, paid, unsure, granted>>

Deadline(k) ==
  /\ status[k] # "none"
  /\ k \notin due
  /\ due' = due \cup {k}
  /\ UNCHANGED <<status, h, paid, unsure, granted>>

-----------------------------------------------------------------------------
(* Looking a session up: getWithdrawSession reads the row and, past the      *)
(* deadline, updates it to EXPIRED by its k1.                                *)

\* GET /api/lnurl-withdraw/:k1 and /api/lnurl-withdraw/status/:k1 ("view") look
\* a session up and reply; so does the callback before all else.
StartView(t, k) ==
  /\ h[t] = Idle
  /\ status[k] # "none"
  /\ h' = [h EXCEPT ![t] = [kind |-> "view", pc |-> "look", k1 |-> k, pr |-> "none"]]
  /\ UNCHANGED <<status, due, paid, unsure, granted>>

StartCallback(t, k, i) ==
  /\ h[t] = Idle
  /\ status[k] # "none"
  /\ h' = [h EXCEPT ![t] = [kind |-> "callback", pc |-> "look", k1 |-> k, pr |-> i]]
  /\ UNCHANGED <<status, due, paid, unsure, granted>>

MustExpire(k) == k \in due /\ status[k] # "EXPIRED"

\* Seeded fault: an invoice out of bounds gets through.
FoundUnchecked(t, k) ==
  IF h[t].kind = "view" \/ status[k] = "EXPIRED" THEN End(t) /\ UNCHANGED granted
  ELSE IF status[k] = "PAID" THEN End(t) /\ granted' = granted \cup {k}
  ELSE IF h[t].pc = "look" THEN Goto(t, "lock") /\ UNCHANGED granted
  ELSE End(t) /\ UNCHANGED granted

\* What the callback does with the session it has just read, expiry aside: the
\* one that finds it paid is granted, the first look leads on to the lock.
Found(t, k) ==
  IF h[t].kind = "view" \/ status[k] = "EXPIRED" THEN End(t) /\ UNCHANGED granted
  ELSE IF status[k] = "PAID" THEN End(t) /\ granted' = granted \cup {k}
  ELSE IF h[t].pc = "look" /\ h[t].pr \in Payable THEN Goto(t, "lock") /\ UNCHANGED granted
  ELSE End(t) /\ UNCHANGED granted

Look(t) ==
  LET k == h[t].k1 IN
  /\ h[t].pc \in {"look", "lookAgain"}
  /\ IF MustExpire(k) THEN Goto(t, "expire") /\ UNCHANGED granted ELSE Found(t, k)
  /\ UNCHANGED <<status, due, paid, unsure>>

\* Every caller of getWithdrawSession replies once it is given an expired session.
Expire(t) ==
  /\ h[t].pc = "expire"
  /\ status' = [status EXCEPT ![h[t].k1] = "EXPIRED"]
  /\ End(t)
  /\ UNCHANGED <<due, paid, unsure, granted>>

-----------------------------------------------------------------------------
(* Paying out.                                                               *)

\* Seeded fault: the lock is an update by k1 alone.
LockAnyway(t) ==
  /\ h[t].pc = "lock"
  /\ status' = [status EXCEPT ![h[t].k1] = "PROCESSING"]
  /\ Goto(t, "pay")
  /\ UNCHANGED <<due, paid, unsure, granted>>

\* Seeded fault: the lock refuses sessions that are taken or paid, not expired ones.
LockUnlessPaid(t) ==
  LET k == h[t].k1 IN
  /\ h[t].pc = "lock"
  /\ IF status[k] \notin {"PROCESSING", "PAID"}
     THEN status' = [status EXCEPT ![k] = "PROCESSING"] /\ Goto(t, "pay")
     ELSE UNCHANGED status /\ Goto(t, "lookAgain")
  /\ UNCHANGED <<due, paid, unsure, granted>>

\* updateMany where the status is PENDING; the one that finds none looks again.
Lock(t) ==
  LET k == h[t].k1 IN
  /\ h[t].pc = "lock"
  /\ IF status[k] = "PENDING"
     THEN status' = [status EXCEPT ![k] = "PROCESSING"] /\ Goto(t, "pay")
     ELSE UNCHANGED status /\ Goto(t, "lookAgain")
  /\ UNCHANGED <<due, paid, unsure, granted>>

\* Seeded fault: a refused payment is recorded like one that was made.
PayRecordsRefusal(t) ==
  /\ h[t].pc = "pay"
  /\ Goto(t, "record")
  /\ UNCHANGED <<status, due, paid, unsure, granted>>

\* LNbits pays the invoice, which no wallet lets it do twice.
Pay(t) ==
  LET k == h[t].k1  i == h[t].pr IN
  /\ h[t].pc = "pay"
  /\ i \notin UNION {paid[s] : s \in Sessions}
  /\ paid' = [paid EXCEPT ![k] = @ \cup {i}]
  /\ Goto(t, "record")
  /\ UNCHANGED <<status, due, unsure, granted>>

\* The invoice is paid, but the answer is lost or is not a success.
PayUnanswered(t) ==
  LET k == h[t].k1  i == h[t].pr IN
  /\ h[t].pc = "pay"
  /\ i \notin UNION {paid[s] : s \in Sessions}
  /\ paid' = [paid EXCEPT ![k] = @ \cup {i}]
  /\ unsure' = unsure \cup {i}
  /\ Goto(t, "revert")
  /\ UNCHANGED <<status, due, granted>>

\* LNbits refuses, or is not configured or not the provider.
PayRefused(t) ==
  /\ h[t].pc = "pay"
  /\ Goto(t, "revert")
  /\ UNCHANGED <<status, due, paid, unsure, granted>>

\* The update to PAID, by k1 alone, and the reply.
Record(t) ==
  LET k == h[t].k1 IN
  /\ h[t].pc = "record"
  /\ status' = [status EXCEPT ![k] = "PAID"]
  /\ granted' = granted \cup {k}
  /\ End(t)
  /\ UNCHANGED <<due, paid, unsure>>

\* The update throws, before it took effect or after.
RecordFails(t) ==
  LET k == h[t].k1 IN
  /\ h[t].pc = "record"
  /\ status' \in {status, [status EXCEPT ![k] = "PAID"]}
  /\ unsure' = unsure \cup {h[t].pr}
  /\ Goto(t, "revert")
  /\ UNCHANGED <<due, paid, granted>>

\* Seeded fault: the session is unlocked and the request goes on to pay.
RevertAndRetry(t) ==
  /\ h[t].pc = "revert"
  /\ status' = [status EXCEPT ![h[t].k1] = "PENDING"]
  /\ Goto(t, "pay")
  /\ UNCHANGED <<due, paid, unsure, granted>>

\* The catch: back to PENDING, by k1 alone, whatever the status has become.
Revert(t) ==
  /\ h[t].pc = "revert"
  /\ status' = [status EXCEPT ![h[t].k1] = "PENDING"]
  /\ End(t)
  /\ UNCHANGED <<due, paid, unsure, granted>>

\* What the update a request is at may leave although its answer is an error.
Written(t, k) ==
  IF h[t].pc = "expire" THEN {"EXPIRED"}
  ELSE IF h[t].pc = "revert" THEN {"PENDING"}
  ELSE IF h[t].pc = "lock" /\ status[k] = "PENDING" THEN {"PROCESSING"}
  ELSE {}

\* A look, an expiry, a lock or the catch's own update throws: an error reply.
DatabaseFails(t) ==
  LET k == h[t].k1 IN
  /\ h[t].pc \in {"look", "lookAgain", "expire", "lock", "revert"}
  /\ \E s \in {status[k]} \cup Written(t, k) : status' = [status EXCEPT ![k] = s]
  /\ End(t)
  /\ UNCHANGED <<due, paid, unsure, granted>>

\* The process dies and comes back; sessions keep the status they have.
Crash ==
  /\ h' = [t \in Requests |-> Idle]
  /\ UNCHANGED <<status, due, paid, unsure, granted>>

Receiving(t) ==
  \E k \in Sessions : StartView(t, k) \/ \E i \in Invoices : StartCallback(t, k, i)

Working(t) ==
  \/ Look(t) \/ Expire(t) \/ Lock(t)
  \/ Pay(t) \/ PayUnanswered(t) \/ PayRefused(t)
  \/ Record(t) \/ RecordFails(t) \/ Revert(t)
  \/ DatabaseFails(t)

Next ==
  \/ \E k \in Sessions : CreateSession(k) \/ Deadline(k)
  \/ \E t \in Requests : Receiving(t) \/ Working(t)
  \/ Crash

Spec == Init /\ [][Next]_vars

-----------------------------------------------------------------------------
(* Properties *)

\* The requests that may pay for a session, or have paid and not yet said so.
Holds(t, k) == h[t].pc \in {"pay", "record", "revert"} /\ h[t].k1 = k

Request ==
  [kind : {"view", "callback"},
   pc : {"look", "lookAgain", "expire", "lock", "pay", "record", "revert"},
   k1 : Sessions,
   pr : Invoices \cup {"none"}]

\* Types, and that only callbacks with an invoice in bounds get to the lock.
TypeOK ==
  /\ status \in [Sessions -> {"none", "PENDING", "PROCESSING", "PAID", "EXPIRED"}]
  /\ due \subseteq Sessions
  /\ h \in [Requests -> Request \cup {Idle}]
  /\ \A t \in Requests : h[t].pc \in {"lock", "pay", "record", "revert"} => h[t].pr \in Payable
  /\ paid \in [Sessions -> SUBSET Payable]
  /\ unsure \subseteq Payable
  /\ granted \subseteq Sessions

\* The lock works: however callbacks, expiry and failures interleave, two requests
\* are never both between the lock and the end for one session.
OnePayerAtATime ==
  \A k \in Sessions, t, u \in Requests : Holds(t, k) /\ Holds(u, k) => t = u

\* A session is recorded as paid, and a callback answered OK, only if the wallet
\* has paid an invoice for it.
PaidMeansPaidOut == \A k \in Sessions : status[k] = "PAID" \/ k \in granted => paid[k] # {}

\* A second invoice is paid for one session only after the payment of the first
\* was reported as an error: of the payouts nobody was unsure of there is one.
OneSurePayout == \A k \in Sessions : Cardinality(paid[k] \ unsure) <= 1

\* Sessions a callback was answered OK for, no payment of which was called an error.
CleanlyGranted == {k \in granted : paid[k] \cap unsure = {}}

\* Once a callback was answered OK, no later callback moves money, not even past
\* the deadline, when the session no longer says PAID.
GrantedOnce == [][\A k \in CleanlyGranted : paid'[k] = paid[k]]_vars

\* The test 'treats duplicate callbacks as idempotent': after a callback was
\* answered OK, the session says PAID, so that the next callback is answered OK.
DuplicateIsGranted == \A k \in CleanlyGranted : status[k] = "PAID"

=============================================================================
