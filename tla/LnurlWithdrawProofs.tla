------------------------ MODULE LnurlWithdrawProofs ------------------------
(* Proofs about LnurlWithdraw, for any sessions, invoices and requests.      *)
EXTENDS LnurlWithdraw, FiniteSetTheorems, TLAPS

USE WithdrawAssumption

-----------------------------------------------------------------------------
(* Types. *)

\* At first nothing has the wrong type: there is no session and no request.
LEMMA InitTyped == Init => TypeOK
BY DEF Init, TypeOK, Idle

\* Facts every step needs of a request in flight.
LEMMA RequestFacts ==
  ASSUME TypeOK, NEW t \in Requests, h[t].pc # "idle"
  PROVE  /\ h[t] \in Request
         /\ h[t].k1 \in Sessions
BY DEF TypeOK, Request, Idle

\* Moving a request on to another await keeps the requests typed.
LEMMA GotoTyped ==
  ASSUME TypeOK, NEW t \in Requests, h[t].pc # "idle",
         NEW pc \in {"look", "lookAgain", "expire", "lock", "pay", "record", "revert"},
         pc \in {"lock", "pay", "record", "revert"} => h[t].pr \in Payable,
         Goto(t, pc)
  PROVE  /\ h' \in [Requests -> Request \cup {Idle}]
         /\ \A u \in Requests : h'[u].pc \in {"lock", "pay", "record", "revert"} => h'[u].pr \in Payable
<1>1. [h[t] EXCEPT !.pc = pc] \in Request
  BY RequestFacts DEF Request
<1>2. [h[t] EXCEPT !.pc = pc].pr = h[t].pr /\ [h[t] EXCEPT !.pc = pc].pc = pc
  BY RequestFacts DEF Request
<1>3. h' = [h EXCEPT ![t] = [h[t] EXCEPT !.pc = pc]]
  BY DEF Goto
<1> QED BY <1>1, <1>2, <1>3 DEF TypeOK

\* Ending a request keeps the requests typed.
LEMMA EndTyped ==
  ASSUME TypeOK, NEW t \in Requests, End(t)
  PROVE  /\ h' \in [Requests -> Request \cup {Idle}]
         /\ \A u \in Requests : h'[u].pc \in {"lock", "pay", "record", "revert"} => h'[u].pr \in Payable
BY DEF TypeOK, End, Idle

\* No step of a request, a deadline or a crash takes TypeOK away.
LEMMA StepTyped == TypeOK /\ [Next]_vars => TypeOK'
<1> SUFFICES ASSUME TypeOK, [Next]_vars PROVE TypeOK'
  OBVIOUS
<1>1. ASSUME NEW k \in Sessions, CreateSession(k) \/ Deadline(k) PROVE TypeOK'
  BY <1>1 DEF CreateSession, Deadline, TypeOK
<1>2. ASSUME NEW t \in Requests, Receiving(t) PROVE TypeOK'
  <2>1. ASSUME NEW k \in Sessions, StartView(t, k) PROVE TypeOK'
    BY <2>1 DEF StartView, TypeOK, Request
  <2>2. ASSUME NEW k \in Sessions, NEW i \in Invoices, StartCallback(t, k, i) PROVE TypeOK'
    BY <2>2 DEF StartCallback, TypeOK, Request
  <2> QED BY <1>2, <2>1, <2>2 DEF Receiving
<1>3. ASSUME NEW t \in Requests, Working(t) PROVE TypeOK'
  <2>0. h[t].pc # "idle"
    BY <1>3 DEF Working, Look, Expire, Lock, Pay, PayUnanswered, PayRefused, Record,
                RecordFails, Revert, DatabaseFails
  <2>a. h[t].k1 \in Sessions
    BY <2>0, RequestFacts
  <2> USE <2>0, <2>a, GotoTyped, EndTyped
  <2>1. CASE Look(t)
    BY <2>1 DEF Look, Found, TypeOK
  <2>2. CASE Expire(t)
    BY <2>2 DEF Expire, TypeOK
  <2>3. CASE Lock(t)
    BY <2>3 DEF Lock, TypeOK
  <2>4. CASE Pay(t)
    BY <2>4 DEF Pay, TypeOK
  <2>5. CASE PayUnanswered(t)
    BY <2>5 DEF PayUnanswered, TypeOK
  <2>6. CASE PayRefused(t)
    BY <2>6 DEF PayRefused, TypeOK
  <2>7. CASE Record(t)
    BY <2>7 DEF Record, TypeOK
  <2>8. CASE RecordFails(t)
    BY <2>8 DEF RecordFails, TypeOK
  <2>9. CASE Revert(t)
    BY <2>9 DEF Revert, TypeOK
  <2>10. CASE DatabaseFails(t)
    BY <2>10 DEF DatabaseFails, Written, TypeOK
  <2> QED BY <1>3, <2>1, <2>2, <2>3, <2>4, <2>5, <2>6, <2>7, <2>8, <2>9, <2>10 DEF Working
<1>4. CASE Crash
  BY <1>4 DEF Crash, TypeOK, Idle
<1>5. CASE UNCHANGED vars
  BY <1>5 DEF vars, TypeOK
<1> QED BY <1>1, <1>2, <1>3, <1>4, <1>5 DEF Next

\* Every variable keeps its type, and only callbacks with an invoice in bounds
\* get to the lock.
THEOREM WithdrawTypeCorrect == Spec => []TypeOK
BY InitTyped, StepTyped, PTL DEF Spec

-----------------------------------------------------------------------------
(* The lock.  While a request holds a session its status is not PENDING, the *)
(* only status the lock takes: of the steps that store PENDING one creates   *)
(* the session and the other ends the request that holds it.                 *)

Taken == \A t \in Requests, k \in Sessions : Holds(t, k) => status[k] \notin {"none", "PENDING"}

LockInv == Taken /\ OnePayerAtATime

\* How a step changes the requests that hold a session: one that was at the lock
\* of a pending session gets it, or nobody does.
LEMMA HoldStep ==
  ASSUME TypeOK, [Next]_vars, NEW u \in Requests, NEW k \in Sessions, Holds(u, k)'
  PROVE  \/ Holds(u, k)
         \/ Lock(u) /\ h[u].k1 = k /\ status[k] = "PENDING"
<1> DEFINE G == \/ Holds(u, k)
                \/ Lock(u) /\ h[u].k1 = k /\ status[k] = "PENDING"
<1> USE DEF TypeOK, Holds
<1>1. ASSUME NEW j \in Sessions, CreateSession(j) \/ Deadline(j) PROVE G
  BY <1>1 DEF CreateSession, Deadline
<1>2. ASSUME NEW t \in Requests, Receiving(t) PROVE G
  BY <1>2 DEF Receiving, StartView, StartCallback
<1>3. ASSUME NEW t \in Requests, Working(t) PROVE G
  <2>1. CASE t = u
    <3>1. CASE End(t)
      BY <2>1, <3>1 DEF End, Idle
    <3>2. ASSUME NEW pc, Goto(t, pc) PROVE h'[t].k1 = h[t].k1 /\ h'[t].pc = pc
      <4>1. h[t] \in Request \/ h[t] = Idle
        OBVIOUS
      <4>2. CASE h[t] \in Request
        BY <3>2, <4>2 DEF Goto, Request
      <4>3. CASE h[t] = Idle
        BY <3>2, <4>3 DEF Goto, Idle
      <4> QED BY <4>1, <4>2, <4>3
    <3>3. CASE Look(t) \/ Expire(t) \/ DatabaseFails(t) \/ Record(t) \/ Revert(t)
      BY <2>1, <3>1, <3>2, <3>3 DEF Look, Found, Expire, DatabaseFails, Record, Revert
    <3>4. CASE Lock(t)
      BY <2>1, <3>2, <3>4 DEF Lock
    <3>5. CASE Pay(t) \/ PayUnanswered(t) \/ PayRefused(t) \/ RecordFails(t)
      BY <2>1, <3>2, <3>5 DEF Pay, PayUnanswered, PayRefused, RecordFails
    <3> QED BY <1>3, <3>3, <3>4, <3>5 DEF Working
  <2>2. CASE t # u
    <3>1. h'[u] = h[u]
      BY <1>3, <2>2 DEF Working, Look, Found, Expire, Lock, Pay, PayUnanswered, PayRefused,
           Record, RecordFails, Revert, DatabaseFails, Goto, End
    <3> QED BY <3>1
  <2> QED BY <2>1, <2>2
<1>4. CASE Crash
  BY <1>4 DEF Crash, Idle
<1>5. CASE UNCHANGED vars
  BY <1>5 DEF vars
<1> QED BY <1>1, <1>2, <1>3, <1>4, <1>5 DEF Next

\* Only these steps change the status of a session to something else than EXPIRED.
StatusStep(k) ==
  \/ status'[k] \in {status[k], "EXPIRED"}
  \/ status[k] = "none" /\ status'[k] = "PENDING" /\ h' = h
  \/ status[k] = "PENDING" /\ status'[k] = "PROCESSING"
  \/ \E t \in Requests : Holds(t, k) /\ status'[k] = "PAID" /\ (Record(t) \/ RecordFails(t))
  \/ \E t \in Requests : Holds(t, k) /\ h[t].pc = "revert" /\ status'[k] = "PENDING" /\ End(t)

\* Every step changes a session's status in one of the ways StatusStep lists.
LEMMA StatusStepOf ==
  ASSUME TypeOK, [Next]_vars, NEW k \in Sessions
  PROVE  StatusStep(k)
<1> USE DEF TypeOK, StatusStep, Holds
<1>1. ASSUME NEW j \in Sessions, CreateSession(j) \/ Deadline(j) PROVE StatusStep(k)
  BY <1>1 DEF CreateSession, Deadline
<1>2. ASSUME NEW t \in Requests, Receiving(t) PROVE StatusStep(k)
  BY <1>2 DEF Receiving, StartView, StartCallback
<1>3. ASSUME NEW t \in Requests, Working(t) PROVE StatusStep(k)
  <2>1. CASE Expire(t) \/ Lock(t) \/ Revert(t)
    BY <2>1 DEF Expire, Lock, Revert
  <2>2. CASE Record(t)
    BY <2>2 DEF Record
  <2>3. CASE RecordFails(t)
    BY <2>3 DEF RecordFails
  <2>4. CASE DatabaseFails(t)
    BY <2>4 DEF DatabaseFails, Written
  <2>5. CASE Look(t) \/ Pay(t) \/ PayUnanswered(t) \/ PayRefused(t)
    BY <2>5 DEF Look, Found, Pay, PayUnanswered, PayRefused
  <2> QED BY <1>3, <2>1, <2>2, <2>3, <2>4, <2>5 DEF Working
<1>4. CASE Crash
  BY <1>4 DEF Crash
<1>5. CASE UNCHANGED vars
  BY <1>5 DEF vars
<1> QED BY <1>1, <1>2, <1>3, <1>4, <1>5 DEF Next

\* A request that ends holds no session.
LEMMA EndHolds ==
  ASSUME TypeOK, NEW t \in Requests, End(t), NEW k \in Sessions
  PROVE  ~Holds(t, k)'
BY DEF TypeOK, End, Holds, Idle

\* No step gives a session a second payer or a pending status while it has one.
LEMMA LockStep == TypeOK /\ LockInv /\ [Next]_vars => LockInv'
<1> SUFFICES ASSUME TypeOK, LockInv, [Next]_vars PROVE LockInv'
  OBVIOUS
<1>1. ASSUME NEW t \in Requests, NEW k \in Sessions, Holds(t, k)'
      PROVE  status'[k] \notin {"none", "PENDING"}
  <2>1. CASE Holds(t, k)
    <3>1. status[k] \notin {"none", "PENDING"}
      BY <2>1 DEF LockInv, Taken
    <3>2. ASSUME NEW u \in Requests, Holds(u, k), End(u) PROVE FALSE
      BY <1>1, <2>1, <3>2, EndHolds DEF LockInv, OnePayerAtATime
    <3> QED BY <3>1, <3>2, StatusStepOf DEF StatusStep
  <2>2. CASE Lock(t) /\ h[t].k1 = k /\ status[k] = "PENDING"
    BY <2>2 DEF Lock, TypeOK
  <2> QED BY <1>1, <2>1, <2>2, HoldStep
<1>2. ASSUME NEW k \in Sessions, NEW t \in Requests, NEW u \in Requests, Holds(t, k)', Holds(u, k)'
      PROVE  t = u
  <2>1. CASE Holds(t, k) \/ Holds(u, k)
    <3>1. status[k] # "PENDING"
      BY <2>1 DEF LockInv, Taken
    <3>2. Holds(t, k) /\ Holds(u, k)
      BY <1>2, <3>1, HoldStep
    <3> QED BY <3>2 DEF LockInv, OnePayerAtATime
  <2>2. CASE ~Holds(t, k) /\ ~Holds(u, k)
    <3>1. Lock(t) /\ Lock(u) /\ h[t].pc # h'[t].pc /\ h[u].pc # h'[u].pc
      BY <1>2, <2>2, HoldStep DEF Holds, Lock
    <3>2. ASSUME t # u PROVE h'[u] = h[u]
      BY <3>1, <3>2 DEF Lock, Goto, TypeOK
    <3> QED BY <3>1, <3>2
  <2> QED BY <2>1, <2>2
<1> QED BY <1>1, <1>2 DEF LockInv, Taken, OnePayerAtATime

\* At first there is no request that could hold a session.
LEMMA InitLock == Init => LockInv
BY DEF Init, LockInv, Taken, OnePayerAtATime, Holds, Idle

\* Two callbacks are never both between the lock and the end for one session,
\* whatever expires, fails or crashes around them.
THEOREM LockCorrect == Spec => []OnePayerAtATime
<1>1. TypeOK /\ LockInv => OnePayerAtATime
  BY DEF LockInv
<1> QED BY <1>1, InitTyped, StepTyped, InitLock, LockStep, PTL DEF Spec

-----------------------------------------------------------------------------
(* The money.  A payout nobody is unsure of closes its session: the status   *)
(* has left PENDING for good and the only request that may hold the session  *)
(* is the one about to record that payout (SureClosed).  So does a paid      *)
(* status or an OK, unless a payment was called an error (GrantClosed).      *)

Sure(k) == paid[k] \ unsure

Closed(k) == status[k] \notin {"none", "PENDING"}

SureClosed ==
  \A k \in Sessions : \A i \in Sure(k) :
    /\ Sure(k) = {i}
    /\ Closed(k)
    /\ \A t \in Requests : Holds(t, k) => h[t].pc = "record" /\ h[t].pr = i

Clean(k) == paid[k] \cap unsure = {}

GrantClosed ==
  \A k \in Sessions :
    (status[k] = "PAID" \/ k \in granted) /\ Clean(k) =>
      Closed(k) /\ \A t \in Requests : ~Holds(t, k)

RecordsPayout == \A t \in Requests : h[t].pc = "record" => h[t].pr \in paid[h[t].k1]

MoneyInv == SureClosed /\ GrantClosed /\ RecordsPayout /\ PaidMeansPaidOut

WithdrawInv == TypeOK /\ LockInv /\ MoneyInv

\* At first nothing is paid, so that the whole invariant holds.
LEMMA InitWithdraw == Init => WithdrawInv
<1> SUFFICES ASSUME Init PROVE WithdrawInv
  OBVIOUS
<1>1. MoneyInv
  BY DEF Init, MoneyInv, SureClosed, Sure, GrantClosed, RecordsPayout, PaidMeansPaidOut, Idle
<1> QED BY <1>1, InitTyped, InitLock DEF WithdrawInv

\* The wallet pays only for the request at "pay", which goes on to record the
\* payout or to call it an error; payouts and errors are never taken back.
LEMMA PayStep ==
  ASSUME TypeOK, [Next]_vars, NEW k \in Sessions
  PROVE  /\ paid[k] \subseteq paid'[k]
         /\ unsure \subseteq unsure'
         /\ paid'[k] # paid[k] =>
              \E t \in Requests :
                /\ Holds(t, k) /\ h[t].pc = "pay"
                /\ paid'[k] = paid[k] \cup {h[t].pr}
                /\ \/ /\ unsure' = unsure /\ h'[t].pc = "record" /\ h'[t].pr = h[t].pr
                      /\ h[t].pr \notin paid[k]
                   \/ h[t].pr \in unsure'
<1> DEFINE G == /\ paid[k] \subseteq paid'[k]
                /\ unsure \subseteq unsure'
                /\ paid'[k] # paid[k] =>
                     \E t \in Requests :
                       /\ Holds(t, k) /\ h[t].pc = "pay"
                       /\ paid'[k] = paid[k] \cup {h[t].pr}
                       /\ \/ /\ unsure' = unsure /\ h'[t].pc = "record" /\ h'[t].pr = h[t].pr
                             /\ h[t].pr \notin paid[k]
                          \/ h[t].pr \in unsure'
<1> USE DEF TypeOK
<1>1. ASSUME NEW t \in Requests, Pay(t) PROVE G
  <2>1. h[t] \in Request
    BY <1>1, RequestFacts DEF Pay
  <2>2. h'[t].pc = "record" /\ h'[t].pr = h[t].pr
    BY <1>1, <2>1 DEF Pay, Goto, Request
  <2> QED BY <1>1, <2>2 DEF Pay, Holds
<1>2. ASSUME NEW t \in Requests, PayUnanswered(t) PROVE G
  BY <1>2 DEF PayUnanswered, Holds
<1>3. ASSUME UNCHANGED paid, unsure \subseteq unsure' PROVE G
  BY <1>3
<1>4. ASSUME NEW t \in Requests, Working(t) PROVE G
  BY <1>1, <1>2, <1>3, <1>4 DEF Working, Look, Expire, Lock, PayRefused, Record, RecordFails,
     Revert, DatabaseFails
<1>5. CASE \/ \E j \in Sessions : CreateSession(j) \/ Deadline(j)
           \/ \E t \in Requests : Receiving(t)
           \/ Crash
           \/ UNCHANGED vars
  BY <1>3, <1>5 DEF CreateSession, Deadline, Receiving, StartView, StartCallback, Crash, vars
<1> QED BY <1>4, <1>5 DEF Next

\* A request gets to "record" by paying and leaves it by recording, by an error
\* that makes the payout one nobody is sure of, or by dying.
LEMMA RecordStep ==
  ASSUME TypeOK, [Next]_vars, NEW t \in Requests
  PROVE  /\ h'[t].pc = "record" => \/ h'[t] = h[t]
                                   \/ h[t].pc = "pay" /\ h'[t].pr \in paid'[h'[t].k1]
         /\ h[t].pc = "record" => \/ h'[t] = h[t] \/ h'[t] = Idle
                                  \/ h[t].pr \in unsure'
<1> DEFINE G == /\ h'[t].pc = "record" => \/ h'[t] = h[t]
                                          \/ h[t].pc = "pay" /\ h'[t].pr \in paid'[h'[t].k1]
                /\ h[t].pc = "record" => \/ h'[t] = h[t] \/ h'[t] = Idle
                                         \/ h[t].pr \in unsure'
<1> USE DEF TypeOK
<1>1. CASE h'[t] = h[t]
  BY <1>1
<1>2. ASSUME NEW u \in Requests, End(u) PROVE G
  BY <1>1, <1>2 DEF End, Idle
<1>3. ASSUME NEW u \in Requests, NEW pc, Goto(u, pc), pc # "record", h[u].pc # "record" PROVE G
  <2>1. CASE u = t
    <3>1. h'[t].pc = pc
      BY <1>3, <2>1 DEF Goto, Request, Idle
    <3> QED BY <1>3, <2>1, <3>1
  <2>2. CASE u # t
    BY <1>1, <1>3, <2>2 DEF Goto
  <2> QED BY <2>1, <2>2
<1>4. ASSUME NEW u \in Requests, Pay(u) PROVE G
  <2>1. CASE u = t
    <3>1. h[t] \in Request
      BY <1>4, <2>1, RequestFacts DEF Pay
    <3>2. h'[t].pr = h[t].pr /\ h'[t].k1 = h[t].k1
      BY <1>4, <2>1, <3>1 DEF Pay, Goto, Request
    <3>3. h[t].pr \in paid'[h[t].k1]
      BY <1>4, <2>1, <3>1 DEF Pay, Request
    <3> QED BY <1>4, <2>1, <3>2, <3>3 DEF Pay
  <2>2. CASE u # t
    BY <1>1, <1>4, <2>2 DEF Pay, Goto
  <2> QED BY <2>1, <2>2
<1>5. ASSUME NEW u \in Requests, RecordFails(u) PROVE G
  <2>1. CASE u = t
    <3>1. h'[t].pc = "revert"
      BY <1>5, <2>1 DEF RecordFails, Goto, Request, Idle
    <3> QED BY <1>5, <2>1, <3>1 DEF RecordFails
  <2>2. CASE u # t
    BY <1>1, <1>5, <2>2 DEF RecordFails, Goto
  <2> QED BY <2>1, <2>2
<1>6. ASSUME NEW u \in Requests, Working(u) PROVE G
  BY <1>2, <1>3, <1>4, <1>5, <1>6 DEF Working, Look, Found, Expire, Lock, PayUnanswered, PayRefused,
     Record, Revert, DatabaseFails
<1>7. ASSUME NEW u \in Requests, Receiving(u) PROVE G
  BY <1>1, <1>7 DEF Receiving, StartView, StartCallback, Idle
<1>8. CASE \/ \E j \in Sessions : CreateSession(j) \/ Deadline(j)
           \/ Crash
           \/ UNCHANGED vars
  BY <1>1, <1>8 DEF CreateSession, Deadline, Crash, vars, Idle
<1> QED BY <1>6, <1>7, <1>8 DEF Next

\* After a payout everyone is sure of, no step opens its session or pays again.
LEMMA SureStep == WithdrawInv /\ [Next]_vars => SureClosed'
<1> SUFFICES ASSUME WithdrawInv, [Next]_vars, NEW k \in Sessions, NEW i \in Sure(k)'
             PROVE  /\ Sure(k)' = {i}
                    /\ Closed(k)'
                    /\ \A t \in Requests : Holds(t, k)' => h'[t].pc = "record" /\ h'[t].pr = i
  BY DEF SureClosed
<1> USE DEF WithdrawInv, LockInv, MoneyInv
<1>0. LockInv' /\ TypeOK'
  BY LockStep, StepTyped
<1>1. CASE i \in Sure(k)
  <2>1. /\ Sure(k) = {i} /\ Closed(k)
        /\ \A t \in Requests : Holds(t, k) => h[t].pc = "record" /\ h[t].pr = i
    BY <1>1 DEF SureClosed
  <2>2. Sure(k)' = {i}
    BY <2>1, PayStep DEF Sure
  <2>3. Closed(k)'
    BY <2>1, StatusStepOf DEF StatusStep, Closed
  <2>4. ASSUME NEW t \in Requests, Holds(t, k)' PROVE h'[t].pc = "record" /\ h'[t].pr = i
    <3>1. Holds(t, k)
      BY <2>1, <2>4, HoldStep DEF Closed
    <3>2. h'[t] = h[t]
      BY <2>1, <2>4, <3>1, RecordStep DEF Sure, Holds, Idle
    <3> QED BY <2>1, <3>1, <3>2
  <2> QED BY <2>2, <2>3, <2>4
<1>2. CASE i \notin Sure(k)
  <2>1. paid'[k] # paid[k]
    BY <1>2, PayStep DEF Sure
  <2>2. PICK t \in Requests :
          /\ Holds(t, k) /\ h[t].pc = "pay"
          /\ paid'[k] = paid[k] \cup {h[t].pr}
          /\ \/ /\ unsure' = unsure /\ h'[t].pc = "record" /\ h'[t].pr = h[t].pr
                /\ h[t].pr \notin paid[k]
             \/ h[t].pr \in unsure'
    BY <2>1, PayStep
  <2>3. Sure(k) = {}
    BY <2>2 DEF SureClosed
  <2>4. h[t].pr \notin unsure' /\ i = h[t].pr
    BY <1>2, <2>2, <2>3, PayStep DEF Sure
  <2>5. Sure(k)' = {i}
    BY <2>2, <2>3, <2>4 DEF Sure
  <2>6. ASSUME NEW u \in Requests, Holds(u, k)' PROVE u = t
    <3>1. status[k] # "PENDING"
      BY <2>2 DEF Taken
    <3> QED BY <2>2, <2>6, <3>1, HoldStep DEF OnePayerAtATime
  <2>7. Closed(k)'
    <3>1. Closed(k)
      BY <2>2 DEF Taken, Closed
    <3>2. ASSUME NEW u \in Requests, Holds(u, k), h[u].pc = "revert" PROVE FALSE
      BY <2>2, <3>2 DEF OnePayerAtATime
    <3> QED BY <3>1, <3>2, StatusStepOf DEF StatusStep, Closed
  <2> QED BY <2>2, <2>4, <2>5, <2>6, <2>7
<1> QED BY <1>1, <1>2

\* A callback is answered OK by the request that records the payout, or because
\* it finds the session paid.
LEMMA GrantedStep ==
  ASSUME TypeOK, [Next]_vars, NEW k \in Sessions, k \in granted', k \notin granted
  PROVE  status[k] = "PAID" \/ \E t \in Requests : Record(t) /\ Holds(t, k)
<1> DEFINE G == status[k] = "PAID" \/ \E t \in Requests : Record(t) /\ Holds(t, k)
<1>1. ASSUME NEW t \in Requests, Working(t) PROVE G
  <2>1. CASE Look(t)
    BY <2>1 DEF Look, Found
  <2>2. CASE Record(t)
    BY <2>2 DEF Record, Holds
  <2>3. CASE ~Look(t) /\ ~Record(t)
    BY <1>1, <2>3 DEF Working, Expire, Lock, Pay, PayUnanswered, PayRefused, RecordFails,
       Revert, DatabaseFails
  <2> QED BY <2>1, <2>2, <2>3
<1>2. CASE \/ \E j \in Sessions : CreateSession(j) \/ Deadline(j)
           \/ \E t \in Requests : Receiving(t)
           \/ Crash
           \/ UNCHANGED vars
  BY <1>2 DEF CreateSession, Deadline, Receiving, StartView, StartCallback, Crash, vars
<1> QED BY <1>1, <1>2 DEF Next

\* After an answer OK without a failure, no step opens its session.
LEMMA GrantStep == WithdrawInv /\ [Next]_vars => GrantClosed'
<1> SUFFICES ASSUME WithdrawInv, [Next]_vars, NEW k \in Sessions,
                    status'[k] = "PAID" \/ k \in granted', Clean(k)'
             PROVE  Closed(k)' /\ \A t \in Requests : ~Holds(t, k)'
  BY DEF GrantClosed
<1> USE DEF WithdrawInv, LockInv, MoneyInv
<1>0. Clean(k)
  BY PayStep DEF Clean
<1>1. CASE status[k] = "PAID" \/ k \in granted
  <2>1. Closed(k) /\ \A t \in Requests : ~Holds(t, k)
    BY <1>0, <1>1 DEF GrantClosed
  <2>2. Closed(k)'
    BY <2>1, StatusStepOf DEF StatusStep, Closed
  <2> QED BY <2>1, <2>2, HoldStep DEF Closed
<1>2. ASSUME NEW t \in Requests, Record(t), Holds(t, k)
      PROVE  Closed(k)' /\ \A u \in Requests : ~Holds(u, k)'
  <2>1. Closed(k) /\ \A u \in Requests : Holds(u, k) => u = t
    BY <1>2 DEF Taken, OnePayerAtATime, Closed
  <2>2. ~Holds(t, k)'
    BY <1>2, EndHolds DEF Record
  <2>3. status'[k] = "PAID"
    BY <1>2 DEF Record, Holds, TypeOK
  <2> QED BY <2>1, <2>2, <2>3, HoldStep DEF Closed
<1>3. CASE status[k] # "PAID" /\ k \notin granted /\ ~\E t \in Requests : Record(t) /\ Holds(t, k)
  <2>1. status'[k] = "PAID"
    BY <1>3, GrantedStep
  <2>2. PICK t \in Requests : Holds(t, k) /\ RecordFails(t)
    BY <1>3, <2>1, StatusStepOf DEF StatusStep
  <2>3. h[t].pr \in unsure' /\ h[t].pr \in paid'[k]
    BY <2>2, PayStep DEF RecordFails, Holds, RecordsPayout
  <2> QED BY <2>3 DEF Clean
<1> QED BY <1>1, <1>2, <1>3

\* A request comes to the record with its payout made, and stays so.
LEMMA RecordsStep == WithdrawInv /\ [Next]_vars => RecordsPayout'
<1> SUFFICES ASSUME WithdrawInv, [Next]_vars, NEW t \in Requests, h'[t].pc = "record"
             PROVE  h'[t].pr \in paid'[h'[t].k1]
  BY DEF RecordsPayout
<1>1. CASE h'[t] = h[t]
  <2>1. h[t].k1 \in Sessions
    BY <1>1, RequestFacts DEF WithdrawInv
  <2> QED BY <1>1, <2>1, PayStep DEF WithdrawInv, MoneyInv, RecordsPayout
<1>2. CASE h'[t] # h[t]
  BY <1>2, RecordStep DEF WithdrawInv
<1> QED BY <1>1, <1>2

\* A session is called paid, or a callback granted, by a request whose payout was made.
LEMMA PaidOutStep == WithdrawInv /\ [Next]_vars => PaidMeansPaidOut'
<1> SUFFICES ASSUME WithdrawInv, [Next]_vars, NEW k \in Sessions,
                    status'[k] = "PAID" \/ k \in granted'
             PROVE  paid'[k] # {}
  BY DEF PaidMeansPaidOut
<1> USE DEF WithdrawInv, MoneyInv
<1>1. CASE status[k] = "PAID" \/ k \in granted
  BY <1>1, PayStep DEF PaidMeansPaidOut
<1>2. ASSUME NEW t \in Requests, Record(t) \/ RecordFails(t), Holds(t, k) PROVE paid'[k] # {}
  <2>1. h[t].pr \in paid[k]
    BY <1>2 DEF Record, RecordFails, Holds, RecordsPayout
  <2> QED BY <2>1, PayStep
<1> QED BY <1>1, <1>2, GrantedStep, StatusStepOf DEF StatusStep

\* No step takes the invariant away.
LEMMA StepWithdraw == WithdrawInv /\ [Next]_vars => WithdrawInv'
<1>1. WithdrawInv /\ [Next]_vars => TypeOK' /\ LockInv'
  BY StepTyped, LockStep DEF WithdrawInv
<1>2. WithdrawInv /\ [Next]_vars => MoneyInv'
  BY SureStep, GrantStep, RecordsStep, PaidOutStep DEF MoneyInv
<1> QED BY <1>1, <1>2 DEF WithdrawInv

\* The invariant holds in every reachable state.
LEMMA WithdrawAlways == Spec => []WithdrawInv
BY InitWithdraw, StepWithdraw, PTL DEF Spec

\* A session is recorded as paid, and a callback answered OK, only if the wallet
\* has paid an invoice for it.
THEOREM PaidOutCorrect == Spec => []PaidMeansPaidOut
<1>1. WithdrawInv => PaidMeansPaidOut
  BY DEF WithdrawInv, MoneyInv
<1> QED BY <1>1, WithdrawAlways, PTL

\* A second invoice is paid for a session only after the first one's payment was
\* reported as an error.
THEOREM SurePayoutCorrect == Spec => []OneSurePayout
<1>1. WithdrawInv => OneSurePayout
  <2> SUFFICES ASSUME WithdrawInv, NEW k \in Sessions
               PROVE  Cardinality(paid[k] \ unsure) <= 1
    BY DEF OneSurePayout
  <2>1. CASE Sure(k) = {}
    BY <2>1, FS_EmptySet DEF Sure
  <2>2. CASE Sure(k) # {}
    <3>1. PICK i : Sure(k) = {i}
      BY <2>2 DEF WithdrawInv, MoneyInv, SureClosed
    <3>2. Cardinality({i}) = 1
      BY FS_Singleton
    <3> QED BY <3>1, <3>2 DEF Sure
  <2> QED BY <2>1, <2>2
<1> QED BY <1>1, WithdrawAlways, PTL

\* Once a callback was answered OK for a session, no payment of which was called
\* an error, no later callback moves money, even after the session's status has
\* been overwritten by EXPIRED.
THEOREM GrantedPaysOnce == Spec => GrantedOnce
<1>1. WithdrawInv /\ [Next]_vars => [\A k \in CleanlyGranted : paid'[k] = paid[k]]_vars
  <2> SUFFICES ASSUME WithdrawInv, [Next]_vars, NEW k \in CleanlyGranted
               PROVE  paid'[k] = paid[k]
    OBVIOUS
  <2>1. k \in Sessions /\ k \in granted /\ Clean(k)
    BY DEF CleanlyGranted, Clean, WithdrawInv, TypeOK
  <2>2. \A t \in Requests : ~Holds(t, k)
    BY <2>1 DEF WithdrawInv, MoneyInv, GrantClosed
  <2> QED BY <2>1, <2>2, PayStep DEF WithdrawInv
<1> QED BY <1>1, WithdrawAlways, PTL DEF GrantedOnce, Spec

=============================================================================
