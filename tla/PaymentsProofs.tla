--------------------------- MODULE PaymentsProofs ---------------------------
(* Proofs about Payments, for any number of invoices, requests and sweeps.   *)
EXTENDS Payments, TLAPS

USE PaymentsAssumption

-----------------------------------------------------------------------------
(* Types.  A handler that reads the row of an invoice somebody holds, or of  *)
(* one in the reconciler's window, must find one (StoredFirst), and one that *)
(* asks the provider must ask about an invoice it made (ChargedFirst).       *)

\* An invoice in a payer's hands or in the reconciler's window has a row.
StoredFirst ==
  \A c \in Charges :
    age[c] # 0 \/ c \in known \/ issue[c] \in {"stored", "answered"} => Stored(c)

Busy == {"write", "zap", "announce"}

\* A row was stored and a row was read only of an invoice the provider made, and
\* a handler deals with one of the rows it read.
ChargedFirst ==
  /\ \A c \in Charges : Stored(c) => charge[c] # None
  /\ \A c \in Charges : charge[c] # None <=> issue[c] # "idle"
  /\ \A t \in Slots :
       /\ \A p \in h[t].todo : charge[p.c] # None
       /\ h[t].pc \in Busy => h[t].cur \in h[t].todo

Typed == TypeOK /\ StoredFirst

TypeInv == TypeOK /\ StoredFirst /\ ChargedFirst

Kinds == {"poll", "legacyPoll", "reconciler", "webhook", "legacyWebhook", "lnurl", "regtest"}

\* The part of TypeOK that speaks of the handlers.
HandlersOK ==
  /\ h \in [Slots -> Handler \cup {Idle}]
  /\ \A t \in Slots : h[t].pc \in Busy =>
        h[t].cur \in Snapshot /\ h[t].seen \in Status

\* Starting a handler on a typed row and status leaves the handlers typed.
LEMMA RunType ==
  ASSUME HandlersOK, NEW t \in Slots, NEW kind \in Kinds,
         NEW pc \in {"ask", "write", "zap", "announce"}, NEW todo \in SUBSET Snapshot,
         NEW cur, NEW seen,
         \/ pc = "ask" /\ cur = NoRow /\ seen = None
         \/ cur \in Snapshot /\ seen \in Status,
         Run(t, kind, pc, todo, cur, seen)
  PROVE  HandlersOK'
<1> DEFINE r == [kind |-> kind, pc |-> pc, todo |-> todo, cur |-> cur, seen |-> seen]
<1>1. r \in Handler
  BY DEF Handler, Kinds
<1>2. h' = [h EXCEPT ![t] = r]
  BY DEF Run
<1>3. h' \in [Slots -> Handler \cup {Idle}]
  BY <1>1, <1>2 DEF HandlersOK, Busy
<1>4. ASSUME NEW u \in Slots, h'[u].pc \in Busy
      PROVE  h'[u].cur \in Snapshot /\ h'[u].seen \in Status
  BY <1>2, <1>4 DEF HandlersOK, Busy
<1> QED BY <1>3, <1>4 DEF HandlersOK, Busy

\* Ending a handler leaves the handlers typed.
LEMMA IdleType ==
  ASSUME HandlersOK, NEW t \in Slots, h' = [h EXCEPT ![t] = Idle]
  PROVE  HandlersOK'
BY DEF HandlersOK, Busy, Idle

\* So does going on to the next row of a sweep.
LEMMA ProceedType ==
  ASSUME HandlersOK, NEW t \in Slots, h[t] # Idle, NEW p, Proceed(t, p)
  PROVE  HandlersOK'
<1>1. h[t] \in Handler
  BY DEF HandlersOK, Busy
<1>2. h[t].kind \in Kinds /\ h[t].todo \ {p} \in SUBSET Snapshot
  BY <1>1 DEF Handler, Kinds
<1>3. CASE h[t].todo \subseteq {p}
  BY <1>3, IdleType DEF Proceed
<1>4. CASE ~(h[t].todo \subseteq {p})
  <2>1. Run(t, h[t].kind, "ask", h[t].todo \ {p}, NoRow, None)
    BY <1>4 DEF Proceed
  <2> QED BY <2>1, <1>2, RunType
<1> QED BY <1>3, <1>4

\* Facts every step needs of a handler that is running.
LEMMA Running ==
  ASSUME HandlersOK, NEW t \in Slots, h[t] # Idle
  PROVE  /\ h[t] \in Handler
         /\ h[t].kind \in Kinds
         /\ h[t].todo \in SUBSET Snapshot
<1>1. h[t] \in Handler
  BY DEF HandlersOK, Busy
<1> QED BY <1>1 DEF Handler, Kinds

\* The flow of provider statuses stays within Status and never leaves the paid ones.
LEMMA FlowFacts ==
  ASSUME NEW s, NEW u, <<s, u>> \in ChargeFlow
  PROVE  /\ s \in Status /\ u \in Status
         /\ s \in PAID_STATES => u \in PAID_STATES
         /\ s # "EXPIRED" /\ s # "FAILED" /\ s # None
         /\ u \in PAID_STATES \cup {"PROCESSING"} =>
              u \in {"PAID", "PROCESSING"} \/ s = "PAID"
         /\ Provider = "lnbits" => s = "PENDING" /\ u \in {"PAID", "FAILED"}
BY DEF None, ChargeFlow, Status, PAID_STATES

\* The provider's webhook calls name an invoice and a status.
LEMMA HookType ==
  ASSUME NEW c \in Charges, NEW s \in Status
  PROVE  HookFor(c, s) \in SUBSET [c : Charges, status : Status]
BY DEF HookFor

\* What the webhook of OpenNode does after its update keeps the handlers typed.
LEMMA AfterLnurlType ==
  ASSUME HandlersOK, NEW t \in Slots, NEW p \in Snapshot, NEW s \in Status,
         AfterLnurlUpdate(t, p, s)
  PROVE  HandlersOK'
<1>1. CASE Run(t, "lnurl", "zap", {p}, p, s)
  BY <1>1, RunType DEF Kinds
<1>2. CASE Run(t, "lnurl", "announce", {p}, p, s)
  BY <1>2, RunType DEF Kinds
<1>3. CASE h' = [h EXCEPT ![t] = Idle]
  BY <1>3, IdleType
<1> QED BY <1>1, <1>2, <1>3 DEF AfterLnurlUpdate

\* A row that is stored, as a handler reads it, is a snapshot.
LEMMA RowType ==
  ASSUME TypeOK, NEW c \in Charges, Stored(c)
  PROVE  RowOf(c) \in Snapshot
BY DEF TypeOK, Stored, RowOf, Snapshot

\* An update keeps the rows' ages natural numbers.
LEMMA TouchedType ==
  ASSUME TypeOK, NEW c \in Charges
  PROVE  /\ Touched(c) \in [Charges -> Nat]
         /\ \A d \in Charges : Touched(c)[d] # 0 => d = c \/ age[d] # 0
BY DEF TypeOK, Touched

\* The rows in S were read by t before or are in the database now.
Origin(S, t) ==
  \A p \in S : p \in h[t].todo \/ \E c \in Charges : Stored(c) /\ p = RowOf(c)

\* A step gives a handler only rows it had or the database has.
TodoStep ==
  \A u \in Slots : /\ Origin(h'[u].todo, u)
                   /\ h'[u].pc \in Busy => h'[u].cur \in h'[u].todo

\* A handler started on stored rows holds rows that are stored.
LEMMA RunOrigin ==
  ASSUME TypeInv, NEW t \in Slots, NEW kind, NEW pc, NEW todo, NEW cur, NEW seen,
         Origin(todo, t), pc = "ask" \/ cur \in todo, Run(t, kind, pc, todo, cur, seen)
  PROVE  TodoStep
<1>1. h' = [h EXCEPT ![t] = [kind |-> kind, pc |-> pc, todo |-> todo, cur |-> cur, seen |-> seen]]
  BY DEF Run
<1>2. h \in [Slots -> Handler \cup {Idle}]
  BY DEF TypeInv, TypeOK
<1> QED BY <1>1, <1>2 DEF TypeInv, ChargedFirst, TodoStep, Origin, Busy

\* Ending a handler leaves the rows of the other handlers as they were.
LEMMA IdleOrigin ==
  ASSUME TypeInv, \A u \in Slots : h'[u] = h[u] \/ h'[u] = Idle
  PROVE  TodoStep
<1> SUFFICES ASSUME NEW u \in Slots
             PROVE  Origin(h'[u].todo, u) /\ (h'[u].pc \in Busy => h'[u].cur \in h'[u].todo)
  BY DEF TodoStep
<1>1. CASE h'[u] = h[u]
  BY <1>1 DEF Origin, TypeInv, ChargedFirst
<1>2. CASE h'[u] = Idle
  BY <1>2 DEF Origin, Idle, Busy
<1> QED BY <1>1, <1>2

\* So does a sweep that goes on to its next row.
LEMMA ProceedOrigin ==
  ASSUME TypeInv, NEW t \in Slots, NEW p, Proceed(t, p)
  PROVE  TodoStep
<1>0. h \in [Slots -> Handler \cup {Idle}]
  BY DEF TypeInv, TypeOK
<1>1. CASE h' = [h EXCEPT ![t] = Idle]
  BY <1>0, <1>1, IdleOrigin
<1>2. CASE Run(t, h[t].kind, "ask", h[t].todo \ {p}, NoRow, None)
  BY <1>2, RunOrigin DEF Origin
<1> QED BY <1>1, <1>2 DEF Proceed

\* So does the webhook of OpenNode once it is past its update.
LEMMA AfterLnurlOrigin ==
  ASSUME TypeInv, NEW t \in Slots, NEW p, NEW s, Origin({p}, t), AfterLnurlUpdate(t, p, s)
  PROVE  TodoStep
<1>0. h \in [Slots -> Handler \cup {Idle}]
  BY DEF TypeInv, TypeOK
<1>1. CASE h' = [h EXCEPT ![t] = Idle]
  BY <1>0, <1>1, IdleOrigin
<1>2. CASE Run(t, "lnurl", "zap", {p}, p, s) \/ Run(t, "lnurl", "announce", {p}, p, s)
  BY <1>2, RunOrigin
<1> QED BY <1>1, <1>2 DEF AfterLnurlUpdate

\* Where the rows a handler holds come from, for every step.
LEMMA TodoOrigin == TypeInv /\ [Next]_vars => TodoStep
<1> SUFFICES ASSUME TypeInv, [Next]_vars PROVE TodoStep
  OBVIOUS
<1>0. h \in [Slots -> Handler \cup {Idle}]
  BY DEF TypeInv, TypeOK
<1>1. ASSUME NEW c \in Charges, Issuing(c) PROVE TodoStep
  BY <1>1, IdleOrigin DEF Issuing, CreateCharge, StoreRow, Answer, IssueFails
<1>2. ASSUME NEW c \in Charges, NEW s \in Status, ProviderMoves(c, s) PROVE TodoStep
  BY <1>2, IdleOrigin DEF ProviderMoves
<1>3. ASSUME NEW c \in Charges, LeaveWindow(c) PROVE TodoStep
  BY <1>3, IdleOrigin DEF LeaveWindow
<1>4. ASSUME NEW t \in Requests, Receiving(t) PROVE TodoStep
  <2> t \in Slots
    BY DEF Slots
  <2>1. ASSUME NEW c \in Charges, NEW kind \in {"poll", "legacyPoll"}, StartPoll(t, kind, c)
        PROVE  TodoStep
    BY <2>1, RunOrigin DEF StartPoll, Origin
  <2>2. ASSUME NEW c \in Charges, PayOnRegtest(t, c) PROVE TodoStep
    <3>1. Stored(c)
      BY <2>2 DEF PayOnRegtest, TypeInv, StoredFirst
    <3> QED BY <2>2, <3>1, RunOrigin DEF PayOnRegtest, Origin
  <2>3. ASSUME NEW m \in hooks, LnbitsWebhook(t, m) \/ LegacyWebhook(t, m) \/ LnurlWebhook(t, m)
        PROVE  TodoStep
    <3>1. CASE ~Stored(m.c)
      BY <2>3, <3>1, IdleOrigin DEF LnbitsWebhook, LegacyWebhook, LnurlWebhook
    <3>2. CASE Stored(m.c)
      <4>1. Origin({RowOf(m.c)}, t)
        BY <3>2 DEF Origin, TypeInv, TypeOK
      <4>2. CASE LnbitsWebhook(t, m) \/ LegacyWebhook(t, m)
        BY <4>1, <4>2, <3>2, RunOrigin DEF LnbitsWebhook, LegacyWebhook
      <4>3. CASE LnurlWebhook(t, m) /\ m.c \in HostCharges
        BY <4>1, <4>3, <3>2, RunOrigin, AfterLnurlOrigin DEF LnurlWebhook
      <4>4. CASE LnurlWebhook(t, m) /\ m.c \notin HostCharges
        BY <4>4, IdleOrigin DEF LnurlWebhook
      <4> QED BY <2>3, <4>2, <4>3, <4>4
    <3> QED BY <3>1, <3>2
  <2> QED BY <1>4, <2>1, <2>2, <2>3 DEF Receiving
<1>5. ASSUME NEW t \in Sweepers, StartSweep(t) PROVE TodoStep
  <2>1. Origin({RowOf(c) : c \in Batch}, t)
    BY DEF Origin, Batch, OpenRows, TypeInv, StoredFirst
  <2> QED BY <1>5, <2>1, RunOrigin DEF StartSweep, Slots
<1>6. ASSUME NEW t \in Slots, Working(t) PROVE TodoStep
  <2>0. Origin(h[t].todo, t)
    BY DEF Origin
  <2>1. ASSUME NEW p \in h[t].todo, Ask(t, p) PROVE TodoStep
    BY <2>0, <2>1, RunOrigin, ProceedOrigin DEF Ask
  <2>2. ASSUME NEW p \in h[t].todo, AskFails(t, p) PROVE TodoStep
    BY <2>2, ProceedOrigin DEF AskFails
  <2>3. CASE Write(t)
    <3>1. h[t].cur \in h[t].todo
      BY <2>3 DEF Write, TypeInv, ChargedFirst, Busy
    <3>2. Origin({h[t].cur}, t)
      BY <3>1 DEF Origin
    <3> QED BY <2>0, <2>3, <3>1, <3>2, RunOrigin, ProceedOrigin, AfterLnurlOrigin DEF Write
  <2>4. CASE PublishReceipt(t)
    <3>1. h[t].cur \in h[t].todo
      BY <2>4 DEF PublishReceipt, TypeInv, ChargedFirst, Busy
    <3> QED BY <2>0, <2>4, <3>1, RunOrigin, ProceedOrigin DEF PublishReceipt
  <2>5. CASE Announce(t) \/ WriteFails(t)
    BY <2>5, ProceedOrigin DEF Announce, WriteFails
  <2> QED BY <1>6, <2>1, <2>2, <2>3, <2>4, <2>5 DEF Working
<1>7. CASE Crash
  BY <1>7, IdleOrigin DEF Crash
<1>8. CASE UNCHANGED vars
  BY <1>8, IdleOrigin DEF vars
<1> QED BY <1>1, <1>2, <1>3, <1>4, <1>5, <1>6, <1>7, <1>8 DEF Next


\* In the initial state, before the first invoice, types and TypeInv's other parts hold.
THEOREM InitType == Init => TypeInv
<1> SUFFICES ASSUME Init PROVE TypeInv
  OBVIOUS
<1>1. TypeOK
  BY DEF Init, TypeOK, Idle
<1>2. StoredFirst
  BY DEF Init, StoredFirst
<1>3. ChargedFirst
  BY DEF Init, ChargedFirst, Stored, Idle, Busy
<1> QED BY <1>1, <1>2, <1>3 DEF TypeInv

\* The steps that touch the provider's answer, the issuing request or the row.
LEMMA ChargeStep ==
  ASSUME TypeInv, [Next]_vars, NEW c \in Charges
  PROVE  /\ charge[c] # None => charge'[c] # None
         /\ charge'[c] # None <=> issue'[c] # "idle"
         /\ row'[c] # None => row[c] # None \/ charge[c] # None
<1> DEFINE G == /\ charge[c] # None => charge'[c] # None
                /\ charge'[c] # None <=> issue'[c] # "idle"
                /\ row'[c] # None => row[c] # None \/ charge[c] # None
<1> USE DEF TypeInv, TypeOK, ChargedFirst, Stored
<1>1. ASSUME NEW d \in Charges, Issuing(d) PROVE G
  BY <1>1 DEF Issuing, CreateCharge, StoreRow, Answer, IssueFails,
              OpeningStatus, None
<1>2. ASSUME NEW d \in Charges, NEW s \in Status, ProviderMoves(d, s) PROVE G
  BY <1>2, FlowFacts DEF ProviderMoves, Status, PAID_STATES, None
<1>3. ASSUME NEW d \in Charges, LeaveWindow(d) PROVE G
  BY <1>3 DEF LeaveWindow
<1>4. ASSUME NEW t \in Requests, Receiving(t) PROVE G
  <2>1. ASSUME NEW d \in Charges, PayOnRegtest(t, d) PROVE G
    BY <2>1, FlowFacts DEF PayOnRegtest, None
  <2>2. CASE ~\E d \in Charges : PayOnRegtest(t, d)
    BY <1>4, <2>2 DEF Receiving, StartPoll, LnbitsWebhook, LegacyWebhook, LnurlWebhook
  <2> QED BY <2>1, <2>2
<1>5. ASSUME NEW t \in Sweepers, StartSweep(t) PROVE G
  BY <1>5 DEF StartSweep
<1>6. ASSUME NEW t \in Slots, Working(t) PROVE G
  <2>1. CASE Write(t)
    <3>1. charge[h[t].cur.c] # None
      BY <2>1 DEF Write, ChargedFirst, Busy
    <3> QED BY <2>1, <3>1 DEF Write
  <2>2. CASE ~Write(t)
    BY <1>6, <2>2 DEF Working, Ask, AskFails, PublishReceipt, Announce, WriteFails
  <2> QED BY <2>1, <2>2
<1>7. CASE Crash
  BY <1>7 DEF Crash
<1>8. CASE UNCHANGED vars
  BY <1>8 DEF vars
<1> QED BY <1>1, <1>2, <1>3, <1>4, <1>5, <1>6, <1>7, <1>8 DEF Next

\* No step takes away the charge behind an invoice that is in use.
LEMMA ChargedStep == TypeInv /\ [Next]_vars => ChargedFirst'
<1> SUFFICES ASSUME TypeInv, [Next]_vars PROVE ChargedFirst'
  OBVIOUS
<1>1. ASSUME NEW c \in Charges
      PROVE  /\ row'[c] # None => charge'[c] # None
             /\ charge'[c] # None <=> issue'[c] # "idle"
  BY ChargeStep DEF TypeInv, ChargedFirst, Stored
<1>2. ASSUME NEW t \in Slots, NEW p \in h'[t].todo PROVE charge'[p.c] # None
  <2>1. CASE p \in h[t].todo
    <3>1. h[t] # Idle
      BY <2>1 DEF Idle
    <3>2. p.c \in Charges
      BY <2>1, <3>1, Running DEF TypeInv, TypeOK, HandlersOK, Snapshot, Busy
    <3> QED BY <2>1, <3>2, ChargeStep DEF TypeInv, ChargedFirst
  <2>2. ASSUME NEW c \in Charges, Stored(c), p = RowOf(c) PROVE charge'[p.c] # None
    BY <2>2, ChargeStep DEF TypeInv, ChargedFirst, RowOf
  <2> QED BY <2>1, <2>2, TodoOrigin DEF TodoStep, Origin
<1>3. ASSUME NEW t \in Slots, h'[t].pc \in Busy PROVE h'[t].cur \in h'[t].todo
  BY <1>3, TodoOrigin DEF TodoStep
<1> QED BY <1>1, <1>2, <1>3 DEF ChargedFirst, Stored

\* One step of any handler, of the issuing requests, the provider or a crash
\* keeps every variable in its type and a row behind every invoice in use.
LEMMA TypedStep == TypeInv /\ [Next]_vars => Typed'
<1> SUFFICES ASSUME TypeInv, [Next]_vars PROVE Typed'
  OBVIOUS
<1> USE DEF TypeInv, Typed, Busy
<1>0. HandlersOK /\ (HandlersOK' /\ UNCHANGED <<charge, issue, known, row, age, hooks, ignored,
        shown, announced, receipts>> => TypeOK')
  BY DEF TypeOK, HandlersOK
<1>1. ASSUME NEW c \in Charges, Issuing(c) PROVE Typed'
  <2>1. CASE CreateCharge(c)
    BY <2>1 DEF CreateCharge, TypeOK, StoredFirst, Stored, OpeningStatus, Status
  <2>2. CASE StoreRow(c)
    BY <2>2, TouchedType DEF StoreRow, TypeOK, StoredFirst, Stored, Status, None, PAID_STATES
  <2>3. CASE Answer(c)
    BY <2>3 DEF Answer, TypeOK, StoredFirst, Stored, Status
  <2>4. CASE IssueFails(c)
    BY <2>4 DEF IssueFails, TypeOK, StoredFirst, Stored
  <2> QED BY <1>1, <2>1, <2>2, <2>3, <2>4 DEF Issuing
<1>2. ASSUME NEW c \in Charges, NEW s \in Status, ProviderMoves(c, s) PROVE Typed'
  BY <1>2, HookType DEF ProviderMoves, TypeOK, StoredFirst, Stored
<1>3. ASSUME NEW c \in Charges, LeaveWindow(c) PROVE Typed'
  BY <1>3 DEF LeaveWindow, TypeOK, StoredFirst, Stored
<1>4. ASSUME NEW t \in Requests, Receiving(t) PROVE Typed'
  <2> t \in Slots
    BY DEF Slots
  <2>1. ASSUME NEW c \in Charges, NEW kind \in {"poll", "legacyPoll"}, StartPoll(t, kind, c)
        PROVE  Typed'
    <3>1. HandlersOK'
      BY <1>0, <2>1, RowType, RunType DEF StartPoll, Kinds
    <3> QED BY <1>0, <3>1, <2>1 DEF StartPoll, StoredFirst, Stored
  <2>2. ASSUME NEW c \in Charges, PayOnRegtest(t, c) PROVE Typed'
    <3>1. RowOf(c) \in Snapshot
      BY <2>2, RowType DEF PayOnRegtest, StoredFirst
    <3>2. HandlersOK'
      BY <1>0, <2>2, <3>1, RunType DEF PayOnRegtest, Kinds, Status, PAID_STATES
    <3> QED BY <3>2, <2>2, HookType
          DEF PayOnRegtest, TypeOK, HandlersOK, StoredFirst, Stored, Status, PAID_STATES
  <2>3. ASSUME NEW m \in hooks, LnbitsWebhook(t, m) \/ LegacyWebhook(t, m) \/ LnurlWebhook(t, m)
        PROVE  Typed'
    <3>1. m.c \in Charges /\ m.status \in Status
      BY DEF TypeOK
    <3>2. "PAID" \in Status
      BY DEF Status, PAID_STATES
    <3>3. HandlersOK'
      <4>1. CASE ~Stored(m.c)
        BY <1>0, <2>3, <4>1 DEF LnbitsWebhook, LegacyWebhook, LnurlWebhook, HandlersOK
      <4>2. CASE Stored(m.c)
        <5>1. RowOf(m.c) \in Snapshot
          BY <3>1, <4>2, RowType
        <5>2. CASE LnbitsWebhook(t, m) \/ LegacyWebhook(t, m)
          BY <1>0, <5>2, <4>2, <5>1, <3>2, RunType DEF LnbitsWebhook, LegacyWebhook, Kinds
        <5>3. CASE LnurlWebhook(t, m) /\ m.c \in HostCharges
          BY <1>0, <5>3, <4>2, <5>1, <3>1, RunType, AfterLnurlType DEF LnurlWebhook, Kinds
        <5>4. CASE LnurlWebhook(t, m) /\ m.c \notin HostCharges
          BY <1>0, <5>4 DEF LnurlWebhook, HandlersOK
        <5> QED BY <2>3, <5>2, <5>3, <5>4
      <4> QED BY <4>1, <4>2
    <3>4. ignored' \subseteq Charges
      BY <2>3, <3>1 DEF LnbitsWebhook, LegacyWebhook, LnurlWebhook, TypeOK
    <3>5. UNCHANGED <<charge, issue, known, row, age, hooks, shown, announced, receipts>>
      BY <2>3 DEF LnbitsWebhook, LegacyWebhook, LnurlWebhook
    <3> QED BY <3>3, <3>4, <3>5 DEF TypeOK, HandlersOK, StoredFirst, Stored
  <2> QED BY <1>4, <2>1, <2>2, <2>3 DEF Receiving
<1>5. ASSUME NEW t \in Sweepers, StartSweep(t) PROVE Typed'
  <2>1. {RowOf(c) : c \in Batch} \in SUBSET Snapshot
    BY RowType DEF Batch, OpenRows, StoredFirst
  <2>2. HandlersOK'
    BY <1>0, <1>5, <2>1, RunType DEF StartSweep, Kinds, Slots
  <2> QED BY <1>0, <2>2, <1>5 DEF StartSweep, StoredFirst, Stored
<1>6. ASSUME NEW t \in Slots, Working(t) PROVE Typed'
  <2>0. h[t] # Idle
    BY <1>6 DEF Working, Ask, AskFails, Write, PublishReceipt, Announce, WriteFails, Idle
  <2> USE <1>0, <2>0, Running
  <2>1. ASSUME NEW p \in h[t].todo, Ask(t, p) PROVE Typed'
    <3>1. p \in Snapshot
      OBVIOUS
    <3>2. HandlersOK'
      <4>1. CASE CallsForUpdate(h[t].kind, p)
        <5>1. charge[p.c] \in Status
          BY <3>1 DEF ChargedFirst, Snapshot, TypeOK
        <5> QED BY <4>1, <5>1, <3>1, <2>1, RunType DEF Ask
      <4>2. CASE ~CallsForUpdate(h[t].kind, p)
        BY <4>2, <2>1, ProceedType DEF Ask
      <4> QED BY <4>1, <4>2
    <3> QED BY <3>2, <2>1 DEF Ask, StoredFirst, Stored
  <2>2. ASSUME NEW p \in h[t].todo, AskFails(t, p) PROVE Typed'
    <3>1. HandlersOK'
      BY <2>2, ProceedType DEF AskFails
    <3> QED BY <3>1, <2>2 DEF AskFails, StoredFirst, Stored
  <2>3. CASE Write(t)
    <3>1. h[t].cur \in Snapshot /\ h[t].seen \in Status
      BY <2>3 DEF Write, HandlersOK
    <3>2. HandlersOK'
      <4>1. CASE Proceed(t, h[t].cur)
        BY <4>1, ProceedType
      <4>2. CASE AfterLnurlUpdate(t, h[t].cur, h[t].seen)
        BY <4>2, <3>1, AfterLnurlType
      <4>3. CASE Run(t, h[t].kind, "announce", h[t].todo, h[t].cur, h[t].seen)
        BY <4>3, <3>1, RunType
      <4> QED BY <2>3, <4>1, <4>2, <4>3 DEF Write
    <3>3. h[t].cur.c \in Charges /\ h[t].seen # None
      BY <3>1 DEF Snapshot, Status, None, PAID_STATES
    <3> QED BY <2>3, <3>1, <3>2, <3>3, TouchedType
          DEF Write, TypeOK, HandlersOK, StoredFirst, Stored
  <2>4. CASE PublishReceipt(t)
    <3>1. h[t].cur \in Snapshot /\ h[t].seen \in Status
      BY <2>4 DEF PublishReceipt, HandlersOK
    <3>2. HandlersOK'
      BY <2>4, <3>1, RunType, ProceedType DEF PublishReceipt
    <3>3. receipts' \subseteq Charges
      BY <2>4, <3>1 DEF PublishReceipt, Snapshot, TypeOK
    <3> QED BY <2>4, <3>2, <3>3 DEF PublishReceipt, TypeOK, HandlersOK, StoredFirst, Stored
  <2>5. CASE Announce(t)
    <3>1. h[t].cur \in Snapshot /\ h[t].seen \in Status
      BY <2>5 DEF Announce, HandlersOK
    <3>2. HandlersOK'
      BY <2>5, ProceedType DEF Announce
    <3> QED BY <2>5, <3>1, <3>2 DEF Announce, Snapshot, TypeOK, HandlersOK, StoredFirst, Stored
  <2>6. CASE WriteFails(t)
    <3>1. HandlersOK'
      BY <2>6, ProceedType DEF WriteFails
    <3> QED BY <3>1, <2>6 DEF WriteFails, StoredFirst, Stored
  <2> QED BY <1>6, <2>1, <2>2, <2>3, <2>4, <2>5, <2>6 DEF Working
<1>7. CASE Crash
  BY <1>7 DEF Crash, TypeOK, StoredFirst, Stored, Idle
<1>8. CASE UNCHANGED vars
  BY <1>8 DEF vars, TypeOK, StoredFirst, Stored
<1> QED BY <1>1, <1>2, <1>3, <1>4, <1>5, <1>6, <1>7, <1>8 DEF Next


\* No step of a handler, of the provider or of a crash takes TypeInv away.
THEOREM StepType == TypeInv /\ [Next]_vars => TypeInv'
BY TypedStep, ChargedStep DEF TypeInv, Typed

\* Every variable keeps its type, and every handler past its question holds one
\* of the rows it read and a status.
THEOREM TypeCorrect == Spec => []TypeOK
<1>1. Spec => []TypeInv
  BY InitType, StepType, PTL DEF Spec
<1>2. TypeInv => TypeOK
  BY DEF TypeInv
<1> QED BY <1>1, <1>2, PTL

-----------------------------------------------------------------------------
(* Money: what any provider may rely on.  The row, the events and the        *)
(* receipts follow from what handlers have seen (SeenSound), what they have  *)
(* seen from the provider and its webhooks (HooksSound), and an invoice is   *)
(* only paid by somebody who holds it (HeldFirst).                           *)

SeenSound ==
  \A t \in Slots : h[t].pc \in Busy /\ h[t].seen \in PAID_STATES => Settled(h[t].cur.c)

\* A receipt is only published by a handler that has seen a paid status.
ZapSound == \A t \in Slots : h[t].pc = "zap" => h[t].seen \in PAID_STATES

HooksSound ==
  \A m \in hooks : /\ m.status \in PAID_STATES => Settled(m.c)
                   /\ Provider = "lnbits" => m.status \in PAID_STATES
                   /\ m.c \in known \/ charge[m.c] = "EXPIRED"

HeldFirst == \A c \in Charges : charge[c] \in PAID_STATES \cup {"PROCESSING"} => c \in known

IgnoredExpired == \A c \in ignored \cap Findable : charge[c] = "EXPIRED"

MoneyInv ==
  /\ PaidMeansSettled /\ SeenSound /\ ZapSound
  /\ HooksSound /\ HeldFirst /\ IgnoredExpired

\* Only a new invoice, or the provider itself, changes what the provider says.
LEMMA ChargeChanges ==
  ASSUME TypeInv, [Next]_vars
  PROVE  \/ UNCHANGED charge
         \/ \E d \in Charges : CreateCharge(d)
         \/ \E d \in Charges, s \in Status :
              /\ <<charge[d], s>> \in ChargeFlow
              /\ s \in {"PAID", "PROCESSING"} => d \in known
              /\ charge' = [charge EXCEPT ![d] = s]
<1> DEFINE G == \/ UNCHANGED charge
                \/ \E d \in Charges : CreateCharge(d)
                \/ \E d \in Charges, s \in Status :
                     /\ <<charge[d], s>> \in ChargeFlow
                     /\ s \in {"PAID", "PROCESSING"} => d \in known
                     /\ charge' = [charge EXCEPT ![d] = s]
<1>1. ASSUME NEW d \in Charges, Issuing(d) PROVE G
  BY <1>1 DEF Issuing, StoreRow, Answer, IssueFails
<1>2. ASSUME NEW d \in Charges, NEW s \in Status, ProviderMoves(d, s) PROVE G
  BY <1>2 DEF ProviderMoves
<1>3. ASSUME NEW t \in Requests, Receiving(t) PROVE G
  <2>1. ASSUME NEW d \in Charges, PayOnRegtest(t, d) PROVE G
    BY <2>1, FlowFacts DEF PayOnRegtest
  <2>2. CASE ~\E d \in Charges : PayOnRegtest(t, d)
    BY <1>3, <2>2 DEF Receiving, StartPoll, LnbitsWebhook, LegacyWebhook, LnurlWebhook
  <2> QED BY <2>1, <2>2
<1>4. ASSUME NEW t \in Slots, Working(t) PROVE G
  BY <1>4 DEF Working, Ask, AskFails, Write, PublishReceipt, Announce, WriteFails
<1>5. CASE \/ \E d \in Charges : LeaveWindow(d)
           \/ \E t \in Sweepers : StartSweep(t)
           \/ Crash
           \/ UNCHANGED vars
  BY <1>5 DEF LeaveWindow, StartSweep, Crash, vars
<1> QED BY <1>1, <1>2, <1>3, <1>4, <1>5 DEF Next

\* The provider's answer: paid stays paid and expired stays expired.
LEMMA SettledStays ==
  ASSUME TypeInv, [Next]_vars, NEW c \in Charges
  PROVE  /\ Settled(c) => Settled(c)'
         /\ charge[c] = "EXPIRED" => charge'[c] = "EXPIRED"
<1> DEFINE G == /\ Settled(c) => Settled(c)'
                /\ charge[c] = "EXPIRED" => charge'[c] = "EXPIRED"
<1> USE DEF TypeInv, TypeOK
<1>1. ASSUME NEW d \in Charges, NEW s \in Status, <<charge[d], s>> \in ChargeFlow,
             charge' = [charge EXCEPT ![d] = s]
      PROVE  G
  BY <1>1, FlowFacts DEF Settled
<1>2. ASSUME NEW d \in Charges, CreateCharge(d) PROVE G
  <2>1. charge[d] = None
    BY <1>2 DEF CreateCharge, ChargedFirst
  <2> QED BY <1>2, <2>1 DEF CreateCharge, Settled, None, PAID_STATES
<1>3. CASE UNCHANGED charge
  BY <1>3 DEF Settled
<1> QED BY <1>1, <1>2, <1>3, ChargeChanges

\* Before the first invoice nobody has said anything.
LEMMA InitMoney == Init => MoneyInv
BY DEF Init, MoneyInv, PaidMeansSettled, PaidRow, Settled, SeenSound, ZapSound, HooksSound, HeldFirst,
       IgnoredExpired, Idle, Busy, None, PAID_STATES

\* A handler passes on what it has seen, and has seen the provider's answer or
\* a webhook's; "PAID" that a webhook handler assumes is what the webhook says.
LEMMA SeenStep == TypeInv /\ MoneyInv /\ [Next]_vars => SeenSound'
<1> SUFFICES ASSUME TypeInv, MoneyInv, [Next]_vars, NEW u \in Slots,
                    h'[u].pc \in Busy, h'[u].seen \in PAID_STATES
             PROVE  charge'[h'[u].cur.c] \in PAID_STATES
  BY DEF SeenSound, Settled
<1> DEFINE G == charge'[h'[u].cur.c] \in PAID_STATES
<1> USE DEF TypeInv, MoneyInv
<1>0. h \in [Slots -> Handler \cup {Idle}]
  BY DEF TypeOK
<1>1. CASE h'[u] = h[u]
  <2>1. h[u].cur.c \in Charges
    BY <1>1 DEF TypeOK, Snapshot, Busy
  <2> QED BY <1>1, <2>1, SettledStays DEF SeenSound, Settled
<1>2. CASE h'[u] = Idle
  BY <1>2 DEF Idle, Busy
<1>3. ASSUME NEW t \in Slots, NEW kind, NEW todo, NEW cur, NEW seen,
             Run(t, kind, "ask", todo, cur, seen)
      PROVE  G
  BY <1>0, <1>1, <1>3 DEF Run, Busy
<1>4. ASSUME NEW t \in Slots, NEW p, Proceed(t, p) PROVE G
  BY <1>0, <1>1, <1>2, <1>3, <1>4 DEF Proceed
<1>5. ASSUME NEW t \in Slots, NEW kind, NEW pc, NEW todo, NEW cur, NEW seen,
             Run(t, kind, pc, todo, cur, seen),
             cur.c \in Charges, seen \in PAID_STATES => Settled(cur.c) \/ charge'[cur.c] \in PAID_STATES
      PROVE  G
  <2>1. seen \in PAID_STATES => charge'[cur.c] \in PAID_STATES
    BY <1>5, SettledStays DEF Settled
  <2> QED BY <1>0, <1>1, <1>5, <2>1 DEF Run, Settled
<1>6. ASSUME NEW t \in Slots, NEW p, NEW s, AfterLnurlUpdate(t, p, s),
             p.c \in Charges, s \in PAID_STATES => Settled(p.c)
      PROVE  G
  BY <1>0, <1>1, <1>2, <1>5, <1>6 DEF AfterLnurlUpdate
<1>7. ASSUME NEW t \in Requests, Receiving(t) PROVE G
  <2> t \in Slots
    BY DEF Slots
  <2>1. ASSUME NEW c \in Charges, NEW kind \in {"poll", "legacyPoll"}, StartPoll(t, kind, c)
        PROVE  G
    BY <2>1, <1>3 DEF StartPoll
  <2>2. ASSUME NEW c \in Charges, PayOnRegtest(t, c) PROVE G
    <3>1. charge'[c] \in PAID_STATES
      BY <2>2 DEF PayOnRegtest, Settled, TypeOK, PAID_STATES
    <3> QED BY <2>2, <3>1, <1>5 DEF PayOnRegtest, RowOf
  <2>3. ASSUME NEW m \in hooks, LnbitsWebhook(t, m) \/ LegacyWebhook(t, m) PROVE G
    <3>1. m.c \in Charges /\ Settled(m.c)
      BY <2>3 DEF LnbitsWebhook, LegacyWebhook, HooksSound, TypeOK
    <3> QED BY <2>3, <3>1, <1>1, <1>5 DEF LnbitsWebhook, LegacyWebhook, RowOf
  <2>4. ASSUME NEW m \in hooks, LnurlWebhook(t, m) PROVE G
    <3>1. m.c \in Charges /\ (m.status \in PAID_STATES => Settled(m.c))
      BY DEF HooksSound, TypeOK
    <3> QED BY <2>4, <3>1, <1>1, <1>5, <1>6 DEF LnurlWebhook, RowOf
  <2> QED BY <1>7, <2>1, <2>2, <2>3, <2>4 DEF Receiving
<1>8. ASSUME NEW t \in Slots, Working(t) PROVE G
  <2>1. ASSUME NEW p \in h[t].todo, Ask(t, p) PROVE G
    <3>1. p.c \in Charges
      BY <2>1, Running DEF Ask, Idle, TypeOK, HandlersOK, Snapshot, Busy
    <3> QED BY <2>1, <3>1, <1>4, <1>5 DEF Ask, Settled
  <2>2. ASSUME NEW p \in h[t].todo, AskFails(t, p) PROVE G
    BY <2>2, <1>4 DEF AskFails
  <2>3. CASE Write(t) \/ PublishReceipt(t) \/ Announce(t) \/ WriteFails(t)
    <3>1. h[t].cur.c \in Charges /\ (h[t].seen \in PAID_STATES => Settled(h[t].cur.c))
      BY <2>3 DEF Write, PublishReceipt, Announce, WriteFails, TypeOK, Snapshot, SeenSound, Busy
    <3> QED BY <2>3, <3>1, <1>4, <1>5, <1>6 DEF Write, PublishReceipt, Announce, WriteFails
  <2> QED BY <1>8, <2>1, <2>2, <2>3 DEF Working
<1>9. CASE \/ \E c \in Charges : Issuing(c)
           \/ \E c \in Charges, s \in Status : ProviderMoves(c, s)
           \/ \E c \in Charges : LeaveWindow(c)
           \/ UNCHANGED vars
  BY <1>1, <1>9 DEF Issuing, CreateCharge, StoreRow, Answer, IssueFails, ProviderMoves,
                    LeaveWindow, vars
<1>10. ASSUME NEW t \in Sweepers, StartSweep(t) PROVE G
  BY <1>3, <1>10 DEF StartSweep, Slots
<1>11. CASE Crash
  BY <1>2, <1>11 DEF Crash
<1> QED BY <1>7, <1>8, <1>9, <1>10, <1>11 DEF Next, Settled

\* Only the webhook of OpenNode publishes receipts, after a paid status.
LEMMA ZapStep == TypeInv /\ ZapSound /\ [Next]_vars => ZapSound'
<1> SUFFICES ASSUME TypeInv, ZapSound, [Next]_vars, NEW u \in Slots, h'[u].pc = "zap"
             PROVE  h'[u].seen \in PAID_STATES
  BY DEF ZapSound
<1> DEFINE G == h'[u].seen \in PAID_STATES
<1> USE DEF TypeInv
<1>0. h \in [Slots -> Handler \cup {Idle}]
  BY DEF TypeOK
<1>1. CASE h'[u] = h[u]
  BY <1>1 DEF ZapSound
<1>2. CASE h'[u] = Idle
  BY <1>2 DEF Idle
<1>3. ASSUME NEW t \in Slots, NEW kind, NEW pc, NEW todo, NEW cur, NEW seen,
             Run(t, kind, pc, todo, cur, seen), pc = "zap" => seen \in PAID_STATES
      PROVE  G
  BY <1>0, <1>1, <1>3 DEF Run
<1>4. ASSUME NEW t \in Slots, NEW p, Proceed(t, p) PROVE G
  BY <1>0, <1>1, <1>2, <1>3, <1>4 DEF Proceed
<1>5. ASSUME NEW t \in Slots, NEW p, NEW s, AfterLnurlUpdate(t, p, s) PROVE G
  BY <1>0, <1>1, <1>2, <1>3, <1>5 DEF AfterLnurlUpdate
<1>6. ASSUME NEW t \in Requests, Receiving(t) PROVE G
  <2> t \in Slots
    BY DEF Slots
  <2>1. ASSUME NEW c \in Charges, NEW kind \in {"poll", "legacyPoll"}, StartPoll(t, kind, c)
        PROVE  G
    BY <2>1, <1>3 DEF StartPoll
  <2>2. ASSUME NEW c \in Charges, PayOnRegtest(t, c) PROVE G
    BY <2>2, <1>3 DEF PayOnRegtest
  <2>3. ASSUME NEW m \in hooks, LnbitsWebhook(t, m) \/ LegacyWebhook(t, m) PROVE G
    BY <2>3, <1>1, <1>3 DEF LnbitsWebhook, LegacyWebhook
  <2>4. ASSUME NEW m \in hooks, LnurlWebhook(t, m) PROVE G
    BY <2>4, <1>1, <1>3, <1>5 DEF LnurlWebhook
  <2> QED BY <1>6, <2>1, <2>2, <2>3, <2>4 DEF Receiving
<1>7. ASSUME NEW t \in Slots, Working(t) PROVE G
  BY <1>7, <1>3, <1>4, <1>5 DEF Working, Ask, AskFails, Write, PublishReceipt, Announce, WriteFails
<1>8. CASE \/ \E c \in Charges : Issuing(c)
           \/ \E c \in Charges, s \in Status : ProviderMoves(c, s)
           \/ \E c \in Charges : LeaveWindow(c)
           \/ UNCHANGED vars
  BY <1>1, <1>8 DEF Issuing, CreateCharge, StoreRow, Answer, IssueFails, ProviderMoves,
                    LeaveWindow, vars
<1>9. ASSUME NEW t \in Sweepers, StartSweep(t) PROVE G
  BY <1>3, <1>9 DEF StartSweep, Slots
<1>10. CASE Crash
  BY <1>2, <1>10 DEF Crash
<1> QED BY <1>6, <1>7, <1>8, <1>9, <1>10 DEF Next

\* What the system says of invoice c in the row, an event or a receipt.
SaysPaid(c) == PaidRow(c) \/ c \in announced \cup receipts \/ shown[c] \in PAID_STATES

\* Whoever says for the first time that an invoice is paid has seen that it is.
LEMMA SaidStep ==
  ASSUME TypeInv, ZapSound, [Next]_vars, NEW c \in Charges, SaysPaid(c)', ~SaysPaid(c)
  PROVE  \E t \in Slots : h[t].pc \in Busy /\ h[t].cur.c = c /\ h[t].seen \in PAID_STATES
<1> DEFINE G == \E t \in Slots : h[t].pc \in Busy /\ h[t].cur.c = c /\ h[t].seen \in PAID_STATES
<1> USE DEF TypeInv, TypeOK, SaysPaid, PaidRow, PAID_STATES
<1>1. ASSUME NEW d \in Charges, Issuing(d) PROVE G
  BY <1>1 DEF Issuing, CreateCharge, StoreRow, Answer, IssueFails
<1>2. ASSUME NEW t \in Slots, Working(t) PROVE G
  <2>1. CASE Write(t)
    BY <2>1 DEF Write, Busy
  <2>2. CASE PublishReceipt(t)
    BY <2>2 DEF PublishReceipt, Busy, ZapSound
  <2>3. CASE Announce(t)
    BY <2>3 DEF Announce, Busy
  <2>4. CASE WriteFails(t) \/ \E p \in h[t].todo : Ask(t, p) \/ AskFails(t, p)
    BY <2>4 DEF WriteFails, Ask, AskFails
  <2> QED BY <1>2, <2>1, <2>2, <2>3, <2>4 DEF Working
<1>3. ASSUME NEW t \in Requests, Receiving(t) PROVE FALSE
  BY <1>3 DEF Receiving, StartPoll, PayOnRegtest, LnbitsWebhook, LegacyWebhook, LnurlWebhook
<1>4. CASE \/ \E d \in Charges, s \in Status : ProviderMoves(d, s)
           \/ \E d \in Charges : LeaveWindow(d)
           \/ \E t \in Sweepers : StartSweep(t)
           \/ Crash
           \/ UNCHANGED vars
  BY <1>4 DEF ProviderMoves, LeaveWindow, StartSweep, Crash, vars
<1> QED BY <1>1, <1>2, <1>3, <1>4 DEF Next

\* Holding an invoice is for ever; webhooks come with the provider's own steps,
\* and only webhooks about invoices without a row, or with one of another tenant, are
\* ignored.
LEMMA HooksChange ==
  ASSUME TypeInv, [Next]_vars
  PROVE  /\ known \subseteq known'
         /\ \/ hooks' = hooks
            \/ \E d \in Charges, s \in Status :
                 /\ <<charge[d], s>> \in ChargeFlow
                 /\ s \in {"PAID", "PROCESSING"} => d \in known
                 /\ charge' = [charge EXCEPT ![d] = s]
                 /\ hooks' = hooks \cup HookFor(d, s)
         /\ \/ ignored' = ignored
            \/ \E m \in hooks : /\ ignored' = ignored \cup {m.c}
                                /\ Stored(m.c) => m.c \notin Findable
<1> DEFINE G == /\ known \subseteq known'
                /\ \/ hooks' = hooks
                   \/ \E d \in Charges, s \in Status :
                        /\ <<charge[d], s>> \in ChargeFlow
                        /\ s \in {"PAID", "PROCESSING"} => d \in known
                        /\ charge' = [charge EXCEPT ![d] = s]
                        /\ hooks' = hooks \cup HookFor(d, s)
                /\ \/ ignored' = ignored
                   \/ \E m \in hooks : /\ ignored' = ignored \cup {m.c}
                                       /\ Stored(m.c) => m.c \notin Findable
<1>1. ASSUME NEW d \in Charges, Issuing(d) PROVE G
  BY <1>1 DEF Issuing, CreateCharge, StoreRow, Answer, IssueFails
<1>2. ASSUME NEW d \in Charges, NEW s \in Status, ProviderMoves(d, s) PROVE G
  BY <1>2 DEF ProviderMoves
<1>3. ASSUME NEW t \in Requests, Receiving(t) PROVE G
  <2>1. ASSUME NEW d \in Charges, PayOnRegtest(t, d) PROVE G
    BY <2>1, FlowFacts DEF PayOnRegtest
  <2>2. ASSUME NEW m \in hooks, LnbitsWebhook(t, m) \/ LegacyWebhook(t, m) \/ LnurlWebhook(t, m)
        PROVE  G
    BY <2>2 DEF LnbitsWebhook, LegacyWebhook, LnurlWebhook, Findable
  <2>3. ASSUME NEW c \in Charges, NEW kind, StartPoll(t, kind, c) PROVE G
    BY <2>3 DEF StartPoll
  <2> QED BY <1>3, <2>1, <2>2, <2>3 DEF Receiving
<1>4. ASSUME NEW t \in Slots, Working(t) PROVE G
  BY <1>4 DEF Working, Ask, AskFails, Write, PublishReceipt, Announce, WriteFails
<1>5. CASE \/ \E d \in Charges : LeaveWindow(d)
           \/ \E t \in Sweepers : StartSweep(t)
           \/ Crash
           \/ UNCHANGED vars
  BY <1>5 DEF LeaveWindow, StartSweep, Crash, vars
<1> QED BY <1>1, <1>2, <1>3, <1>4, <1>5 DEF Next

\* Money arrives only at invoices somebody holds.
LEMMA HeldStep == TypeInv /\ HeldFirst /\ [Next]_vars => HeldFirst'
<1> SUFFICES ASSUME TypeInv, HeldFirst, [Next]_vars, NEW c \in Charges,
                    charge'[c] \in PAID_STATES \cup {"PROCESSING"}
             PROVE  c \in known
  BY HooksChange DEF HeldFirst
<1>1. CASE UNCHANGED charge
  BY <1>1 DEF HeldFirst
<1>2. ASSUME NEW d \in Charges, CreateCharge(d) PROVE c \in known
  BY <1>2 DEF CreateCharge, OpeningStatus, HeldFirst, TypeInv, TypeOK, PAID_STATES
<1>3. ASSUME NEW d \in Charges, NEW s \in Status, <<charge[d], s>> \in ChargeFlow,
             s \in {"PAID", "PROCESSING"} => d \in known, charge' = [charge EXCEPT ![d] = s]
      PROVE  c \in known
  <2>1. CASE c = d
    <3>1. s \in PAID_STATES \cup {"PROCESSING"}
      BY <1>3, <2>1 DEF TypeInv, TypeOK
    <3>2. s \in {"PAID", "PROCESSING"} \/ charge[d] = "PAID"
      BY <3>1, <1>3, FlowFacts
    <3> QED BY <1>3, <2>1, <3>2 DEF HeldFirst, PAID_STATES
  <2>2. CASE c # d
    BY <1>3, <2>2 DEF HeldFirst, TypeInv, TypeOK
  <2> QED BY <2>1, <2>2
<1> QED BY <1>1, <1>2, <1>3, ChargeChanges

\* A webhook is about an invoice somebody holds, or about one that has expired.
LEMMA HooksStep == TypeInv /\ HeldFirst /\ HooksSound /\ [Next]_vars => HooksSound'
<1> SUFFICES ASSUME TypeInv, HeldFirst, HooksSound, [Next]_vars, NEW m \in hooks'
             PROVE  /\ m.status \in PAID_STATES => charge'[m.c] \in PAID_STATES
                    /\ Provider = "lnbits" => m.status \in PAID_STATES
                    /\ m.c \in known' \/ charge'[m.c] = "EXPIRED"
  BY DEF HooksSound, Settled
<1>1. CASE m \in hooks
  <2>1. m.c \in Charges
    BY <1>1 DEF TypeInv, TypeOK
  <2> QED BY <1>1, <2>1, SettledStays, HooksChange DEF HooksSound, Settled
<1>2. CASE m \notin hooks
  <2>1. PICK d \in Charges, s \in Status :
          /\ <<charge[d], s>> \in ChargeFlow
          /\ s \in {"PAID", "PROCESSING"} => d \in known
          /\ charge' = [charge EXCEPT ![d] = s]
          /\ m \in HookFor(d, s)
    BY <1>2, HooksChange
  <2>2. /\ m.c = d /\ m.status = s /\ charge'[d] = s
        /\ Provider = "opennode" \/ s \in PAID_STATES
    BY <2>1 DEF HookFor, TypeInv, TypeOK
  <2>3. s \in PAID_STATES \cup {"PROCESSING"} => d \in known
    BY <2>1, FlowFacts DEF HeldFirst, PAID_STATES
  <2>4. s \in PAID_STATES \cup {"PROCESSING", "EXPIRED"}
    BY <2>1, <2>2, PaymentsAssumption DEF ChargeFlow, PAID_STATES
  <2> QED BY <2>2, <2>3, <2>4, HooksChange, PaymentsAssumption
<1> QED BY <1>1, <1>2

\* An ignored webhook was about an invoice nobody holds.
LEMMA IgnoredStep ==
  TypeInv /\ HooksSound /\ IgnoredExpired /\ [Next]_vars => IgnoredExpired'
<1> SUFFICES ASSUME TypeInv, HooksSound, IgnoredExpired, [Next]_vars, NEW c \in ignored' \cap Findable
             PROVE  charge'[c] = "EXPIRED"
  BY DEF IgnoredExpired, Findable
<1>1. CASE c \in ignored
  BY <1>1, SettledStays DEF IgnoredExpired, TypeInv, TypeOK
<1>2. CASE c \notin ignored
  <2>0. c \in ignored' /\ c \in Findable
    OBVIOUS
  <2>1. PICK m \in hooks : c = m.c /\ (Stored(m.c) => m.c \notin Findable)
    <3>1. PICK m \in hooks : /\ ignored' = ignored \cup {m.c}
                             /\ Stored(m.c) => m.c \notin Findable
      BY <1>2, <2>0, HooksChange
    <3> QED BY <1>2, <2>0, <3>1
  <2>2. c \in Charges /\ c \notin known
    BY <2>0, <2>1 DEF TypeInv, TypeOK, StoredFirst
  <2> QED BY <2>1, <2>2, SettledStays DEF HooksSound
<1> QED BY <1>1, <1>2

\* Every step keeps what is said of an invoice within what the provider says.
LEMMA StepMoney == TypeInv /\ MoneyInv /\ [Next]_vars => MoneyInv'
<1> SUFFICES ASSUME TypeInv, MoneyInv, [Next]_vars PROVE MoneyInv'
  OBVIOUS
<1>1. ASSUME NEW c \in Charges, SaysPaid(c)' PROVE Settled(c)'
  <2>1. CASE SaysPaid(c)
    BY <2>1, SettledStays DEF SaysPaid, MoneyInv, PaidMeansSettled
  <2>2. CASE ~SaysPaid(c)
    <3>1. \E t \in Slots : h[t].pc \in Busy /\ h[t].cur.c = c /\ h[t].seen \in PAID_STATES
      BY <1>1, <2>2, SaidStep DEF MoneyInv
    <3> QED BY <3>1, SettledStays DEF MoneyInv, SeenSound
  <2> QED BY <2>1, <2>2
<1>2. PaidMeansSettled'
  BY <1>1 DEF PaidMeansSettled, SaysPaid
<1>3. SeenSound' /\ ZapSound'
  BY SeenStep, ZapStep DEF MoneyInv
<1>4. HooksSound' /\ HeldFirst' /\ IgnoredExpired'
  BY HooksStep, HeldStep, IgnoredStep DEF MoneyInv
<1> QED BY <1>2, <1>3, <1>4 DEF MoneyInv

\* Every reachable state satisfies the invariant about money.
LEMMA MoneyHolds == Spec => [](TypeInv /\ MoneyInv)
<1>1. Init => TypeInv /\ MoneyInv
  BY InitType, InitMoney
<1>2. TypeInv /\ MoneyInv /\ [Next]_vars => TypeInv' /\ MoneyInv'
  BY StepType, StepMoney
<1> QED BY <1>1, <1>2, PTL DEF Spec

\* With any provider, however handlers interleave and webhooks are delivered, a row,
\* an event or a receipt says paid only of an invoice the provider was paid for.
THEOREM MoneyCorrect == Spec => []PaidMeansSettled
<1>1. TypeInv /\ MoneyInv => PaidMeansSettled
  BY DEF MoneyInv
<1> QED BY MoneyHolds, <1>1, PTL

\* No webhook about an invoice that was paid is answered "unknown payment": an invoice
\* is paid only by who holds it, and held only once its row is stored.  With OpenNode
\* this is so of the invoices whose row is of the tenant that the webhook's Host names;
\* with LNbits of all.
THEOREM WebhooksHeeded == Spec => []NoMoneyIgnored
<1>1. TypeInv /\ MoneyInv => NoMoneyIgnored
  BY DEF MoneyInv, IgnoredExpired, NoMoneyIgnored, Settled, PAID_STATES
<1> QED BY MoneyHolds, <1>1, PTL

-----------------------------------------------------------------------------
(* LNbits reports the fate of an invoice once: paid or failed, for ever.     *)
(* Then whatever stale row a handler holds, the status it stores is the one  *)
(* every other handler stores, so a row that has reached it stays (RowHonest *)
(* and Honest), and the issuing request, which alone stores and announces    *)
(* something else, has answered before the first of them (Unheld).           *)

OnLnbits == Provider = "lnbits"

\* The regtest demo announces an invoice before its row is paid.
NoRegtest == RegtestPay = FALSE

Final == {"PAID", "FAILED"}

\* A row says PENDING or what the provider says for ever.
RowHonest ==
  \A c \in Charges : /\ charge[c] \in {None, "PENDING"} \cup Final
                     /\ row[c] \in {None, "PENDING"} \/ (row[c] \in Final /\ row[c] = charge[c])

\* So does a row some handler has read, which is there for ever.
TodoHonest ==
  \A t \in Slots : \A p \in h[t].todo :
    /\ Stored(p.c)
    /\ p.prev = "PENDING" \/ (p.prev \in Final /\ p.prev = charge[p.c])

\* A handler stores and announces what the provider says for ever, in this order;
\* regtest pay only announces.
Honest ==
  \A t \in Slots :
    /\ h[t].kind # "lnurl"
    /\ h[t].pc # "zap"
    /\ h[t].pc \in Busy => h[t].seen \in Final /\ h[t].seen = charge[h[t].cur.c]
    /\ h[t].pc = "announce" /\ h[t].kind # "regtest" => row[h[t].cur.c] = h[t].seen
    /\ h[t].kind = "regtest" =>
         ~NoRegtest /\ h[t].pc = "announce" /\ h[t].todo \subseteq {h[t].cur}

\* Until the issuing request answers nobody holds the invoice, and until it has
\* stored the row there is none.
Unheld ==
  \A c \in Charges : /\ issue[c] \in {"idle", "charged", "stored"} => c \notin known
                     /\ issue[c] \in {"idle", "charged"} => ~Stored(c)

\* What a status event shows as paid is paid in the database.
ShownIsStored == \A c \in Charges : shown[c] \in PAID_STATES => PaidRow(c)

BaseInv == TypeInv /\ MoneyInv

LnbitsInv ==
  /\ OnLnbits
  /\ BaseInv
  /\ RowHonest /\ TodoHonest /\ Honest /\ Unheld
  /\ ShownIsStored
  /\ NoRegtest => AnnouncedIsStored

\* Before the first invoice the invariant of LNbits holds.
LEMMA InitLnbits == OnLnbits /\ Init => LnbitsInv
<1> SUFFICES ASSUME OnLnbits, Init PROVE LnbitsInv
  OBVIOUS
<1>1. BaseInv
  BY InitType, InitMoney DEF BaseInv
<1>2. RowHonest /\ TodoHonest /\ Honest /\ Unheld /\ ShownIsStored /\ AnnouncedIsStored
  BY DEF Init, RowHonest, TodoHonest, Honest, Unheld, ShownIsStored, AnnouncedIsStored, Idle, Busy, Stored,
         None, PAID_STATES
<1> QED BY <1>1, <1>2 DEF LnbitsInv

\* The fate of an invoice does not change.
LEMMA FateStays ==
  ASSUME LnbitsInv, [Next]_vars, NEW c \in Charges
  PROVE  /\ charge'[c] \in {None, "PENDING"} \cup Final
         /\ charge[c] \in Final => charge'[c] = charge[c]
<1> USE DEF LnbitsInv, BaseInv, TypeInv, TypeOK, OnLnbits, RowHonest, Final
<1>1. CASE UNCHANGED charge
  BY <1>1
<1>2. ASSUME NEW d \in Charges, CreateCharge(d)
      PROVE  /\ charge'[c] \in {None, "PENDING"} \cup Final
             /\ charge[c] \in Final => charge'[c] = charge[c]
  BY <1>2 DEF CreateCharge, OpeningStatus, ChargedFirst, None
<1>3. ASSUME NEW d \in Charges, NEW s \in Status, <<charge[d], s>> \in ChargeFlow,
             charge' = [charge EXCEPT ![d] = s]
      PROVE  /\ charge'[c] \in {None, "PENDING"} \cup Final
             /\ charge[c] \in Final => charge'[c] = charge[c]
  BY <1>3, FlowFacts
<1> QED BY <1>1, <1>2, <1>3, ChargeChanges

\* Only two steps change a row.
LEMMA RowChanges ==
  ASSUME [Next]_vars
  PROVE  UNCHANGED row \/ (\E c \in Charges : StoreRow(c)) \/ \E t \in Slots : Write(t)
<1> DEFINE G == UNCHANGED row \/ (\E c \in Charges : StoreRow(c)) \/ \E t \in Slots : Write(t)
<1>1. ASSUME NEW d \in Charges, Issuing(d) PROVE G
  BY <1>1 DEF Issuing, CreateCharge, Answer, IssueFails
<1>2. ASSUME NEW t \in Requests, Receiving(t) PROVE G
  BY <1>2 DEF Receiving, StartPoll, PayOnRegtest, LnbitsWebhook, LegacyWebhook, LnurlWebhook
<1>3. ASSUME NEW t \in Slots, Working(t) PROVE G
  BY <1>3 DEF Working, Ask, AskFails, PublishReceipt, Announce, WriteFails
<1>4. CASE \/ \E d \in Charges, s \in Status : ProviderMoves(d, s)
           \/ \E d \in Charges : LeaveWindow(d)
           \/ \E t \in Sweepers : StartSweep(t)
           \/ Crash
           \/ UNCHANGED vars
  BY <1>4 DEF ProviderMoves, LeaveWindow, StartSweep, Crash, vars
<1> QED BY <1>1, <1>2, <1>3, <1>4 DEF Next

\* A handler at work deals with an invoice, whose row is there.
LEMMA BusyFacts ==
  ASSUME LnbitsInv, NEW t \in Slots, h[t].pc \in Busy
  PROVE  /\ h[t].cur.c \in Charges /\ Stored(h[t].cur.c)
         /\ h[t].seen \in Final /\ h[t].seen = charge[h[t].cur.c]
BY DEF LnbitsInv, BaseInv, TypeInv, ChargedFirst, TypeOK, Busy, Snapshot, Honest, TodoHonest

\* A row that has reached the invoice's fate stays, any other moves towards it.
LEMMA RowStays ==
  ASSUME LnbitsInv, [Next]_vars, NEW c \in Charges
  PROVE  /\ row[c] \in Final => row'[c] = row[c]
         /\ Stored(c) => Stored(c)'
         /\ row'[c] # row[c] => \/ row[c] = None /\ row'[c] = "PENDING"
                                \/ row'[c] \in Final /\ row'[c] = charge[c]
         /\ row'[c] \in {None, "PENDING"} \/ (row'[c] \in Final /\ row'[c] = charge[c])
<1> USE DEF LnbitsInv, BaseInv, TypeInv, TypeOK, RowHonest, Final, Stored, None
<1> DEFINE G == /\ row[c] \in Final => row'[c] = row[c]
                /\ Stored(c) => Stored(c)'
                /\ row'[c] # row[c] => \/ row[c] = None /\ row'[c] = "PENDING"
                                       \/ row'[c] \in Final /\ row'[c] = charge[c]
                /\ row'[c] \in {None, "PENDING"} \/ (row'[c] \in Final /\ row'[c] = charge[c])
<1>1. CASE UNCHANGED row
  BY <1>1
<1>2. ASSUME NEW d \in Charges, StoreRow(d) PROVE G
  BY <1>2 DEF StoreRow, Unheld
<1>3. ASSUME NEW t \in Slots, Write(t) PROVE G
  <2>1. h[t].seen \in Final /\ h[t].seen = charge[h[t].cur.c]
    BY <1>3, BusyFacts DEF Write, Busy
  <2> QED BY <1>3, <2>1 DEF Write
<1> QED BY <1>1, <1>2, <1>3, RowChanges

\* A row a handler holds was pending or says what the provider says, after every step.
LEMMA TodoHonestStep == LnbitsInv /\ [Next]_vars => TodoHonest'
<1> SUFFICES ASSUME LnbitsInv, [Next]_vars, NEW u \in Slots, NEW p \in h'[u].todo
             PROVE  /\ row'[p.c] # None
                    /\ p.prev = "PENDING" \/ (p.prev \in Final /\ p.prev = charge'[p.c])
  BY DEF TodoHonest, Stored
<1> USE DEF LnbitsInv, BaseInv, TypeInv
<1>1. CASE p \in h[u].todo
  <2>1. p.c \in Charges
    BY <1>1, Running DEF Idle, TypeOK, HandlersOK, Snapshot, Busy
  <2> QED BY <1>1, <2>1, RowStays, FateStays DEF TodoHonest, Stored
<1>2. ASSUME NEW c \in Charges, Stored(c), p = RowOf(c)
      PROVE  /\ row'[p.c] # None
             /\ p.prev = "PENDING" \/ (p.prev \in Final /\ p.prev = charge'[p.c])
  <2>1. p.c = c /\ p.prev = row[c]
    BY <1>2 DEF RowOf
  <2> QED BY <1>2, <2>1, RowStays, FateStays DEF RowHonest, Stored
<1> QED BY <1>1, <1>2, TodoOrigin DEF TodoStep, Origin

\* Handlers started or moved on by a step are honest in the next state.
LEMMA HonestStep == LnbitsInv /\ [Next]_vars => Honest'
<1> DEFINE Fine(r) == /\ r.kind # "lnurl"
                      /\ r.pc # "zap"
                      /\ r.pc \in Busy => r.seen \in Final /\ r.seen = charge'[r.cur.c]
                      /\ r.pc = "announce" /\ r.kind # "regtest" => row'[r.cur.c] = r.seen
                      /\ r.kind = "regtest" =>
                           ~NoRegtest /\ r.pc = "announce" /\ r.todo \subseteq {r.cur}
<1> SUFFICES ASSUME LnbitsInv, [Next]_vars, NEW u \in Slots PROVE Fine(h'[u])
  BY DEF Honest, NoRegtest
<1> DEFINE G == Fine(h'[u])
<1> USE DEF LnbitsInv, BaseInv, TypeInv
<1>0. h \in [Slots -> Handler \cup {Idle}]
  BY DEF TypeOK
<1>1. CASE h'[u] = h[u]
  <2>1. CASE h[u].pc \in Busy
    BY <1>1, <2>1, BusyFacts, FateStays, RowStays DEF Honest
  <2>2. CASE h[u].pc \notin Busy
    BY <1>1, <2>2 DEF Honest, Busy
  <2> QED BY <2>1, <2>2
<1>2. CASE h'[u] = Idle
  BY <1>2 DEF Idle, Busy, None
<1>3. ASSUME NEW t \in Slots, NEW kind, NEW pc, NEW todo, NEW cur, NEW seen,
             Run(t, kind, pc, todo, cur, seen), kind \notin {"lnurl", "regtest"},
             \/ pc = "ask"
             \/ /\ cur.c \in Charges /\ seen \in Final /\ seen = charge[cur.c]
                /\ pc = "write" \/ (pc = "announce" /\ row'[cur.c] = seen)
      PROVE  G
  <2>1. \/ pc = "ask"
        \/ /\ seen \in Final /\ seen = charge'[cur.c]
           /\ pc = "write" \/ (pc = "announce" /\ row'[cur.c] = seen)
    BY <1>3, FateStays
  <2> QED BY <1>0, <1>1, <1>3, <2>1 DEF Run, Busy
<1>4. ASSUME NEW t \in Slots, NEW p, Proceed(t, p), h[t].kind = "regtest" => p = h[t].cur
      PROVE  G
  <2>1. CASE h' = [h EXCEPT ![t] = Idle]
    BY <1>0, <1>1, <1>2, <2>1
  <2>2. CASE h' # [h EXCEPT ![t] = Idle]
    <3>1. ~(h[t].todo \subseteq {p}) /\ Run(t, h[t].kind, "ask", h[t].todo \ {p}, NoRow, None)
      BY <1>4, <2>2 DEF Proceed
    <3>2. h[t].kind \notin {"lnurl", "regtest"}
      BY <1>4, <3>1 DEF Honest
    <3> QED BY <3>1, <3>2, <1>3
  <2> QED BY <2>1, <2>2
<1>5. ASSUME NEW t \in Requests, Receiving(t) PROVE G
  <2> t \in Slots
    BY DEF Slots
  <2>1. ASSUME NEW c \in Charges, NEW kind \in {"poll", "legacyPoll"}, StartPoll(t, kind, c)
        PROVE  G
    BY <2>1, <1>3 DEF StartPoll
  <2>2. ASSUME NEW m \in hooks, LnbitsWebhook(t, m) \/ LegacyWebhook(t, m) PROVE G
    <3>1. m.c \in Charges /\ charge[m.c] = "PAID"
      BY DEF TypeOK, MoneyInv, HooksSound, OnLnbits, Settled, RowHonest, Final, PAID_STATES, None
    <3> QED BY <2>2, <3>1, <1>1, <1>3 DEF LnbitsWebhook, LegacyWebhook, RowOf, Final
  <2>3. ASSUME NEW m \in hooks, LnurlWebhook(t, m) PROVE FALSE
    BY <2>3 DEF LnurlWebhook, OnLnbits
  <2>4. ASSUME NEW c \in Charges, PayOnRegtest(t, c) PROVE G
    <3>1. Run(t, "regtest", "announce", {RowOf(c)}, RowOf(c), "PAID")
      BY <2>4 DEF PayOnRegtest
    <3>2. ~NoRegtest /\ charge'[c] = "PAID"
      BY <2>4 DEF PayOnRegtest, NoRegtest, TypeOK
    <3>3. RowOf(c).c = c
      BY DEF RowOf
    <3>4. h' = [h EXCEPT ![t] = [kind |-> "regtest", pc |-> "announce", todo |-> {RowOf(c)},
                                 cur |-> RowOf(c), seen |-> "PAID"]]
      BY <3>1 DEF Run
    <3> QED BY <1>0, <1>1, <3>2, <3>3, <3>4 DEF Final
  <2> QED BY <1>5, <2>1, <2>2, <2>3, <2>4 DEF Receiving
<1>6. ASSUME NEW t \in Slots, Working(t) PROVE G
  <2>1. ASSUME NEW p \in h[t].todo, Ask(t, p) PROVE G
    <3>1. CASE Proceed(t, p)
      BY <2>1, <3>1, <1>4 DEF Ask, Honest
    <3>2. CASE /\ CallsForUpdate(h[t].kind, p)
               /\ Run(t, h[t].kind, "write", h[t].todo, p, charge[p.c])
      <4>1. p.c \in Charges
        BY <2>1, Running DEF Ask, Idle, TypeOK, HandlersOK, Snapshot, Busy
      <4>2. charge[p.c] \in Final
        <5>1. charge[p.c] # None
          BY <2>1 DEF ChargedFirst
        <5>2. charge[p.c] = "PENDING" => p.prev = "PENDING"
          BY <2>1, <4>1 DEF TodoHonest, Final
        <5> QED BY <3>2, <4>1, <5>1, <5>2 DEF CallsForUpdate, RowHonest, Final
      <4>3. h[t].kind \notin {"lnurl", "regtest"}
        BY <2>1 DEF Ask, Honest
      <4> QED BY <3>2, <4>1, <4>2, <4>3, <1>3
    <3> QED BY <2>1, <3>1, <3>2 DEF Ask
  <2>2. ASSUME NEW p \in h[t].todo, AskFails(t, p) PROVE G
    BY <2>2, <1>4 DEF AskFails, Honest
  <2>3. CASE Write(t)
    <3>1. /\ h[t].cur.c \in Charges
          /\ h[t].seen \in Final /\ h[t].seen = charge[h[t].cur.c]
          /\ row'[h[t].cur.c] = h[t].seen
      BY <2>3, BusyFacts DEF Write, Busy, TypeOK
    <3>2. h[t].kind \notin {"lnurl", "regtest"}
      BY <2>3 DEF Write, Honest
    <3> QED BY <2>3, <3>1, <3>2, <1>3, <1>4 DEF Write
  <2>4. CASE PublishReceipt(t)
    BY <2>4 DEF PublishReceipt, Honest
  <2>5. CASE Announce(t) \/ WriteFails(t)
    BY <2>5, <1>4 DEF Announce, WriteFails
  <2> QED BY <1>6, <2>1, <2>2, <2>3, <2>4, <2>5 DEF Working
<1>7. CASE \/ \E c \in Charges : Issuing(c)
           \/ \E c \in Charges, s \in Status : ProviderMoves(c, s)
           \/ \E c \in Charges : LeaveWindow(c)
           \/ UNCHANGED vars
  BY <1>1, <1>7 DEF Issuing, CreateCharge, StoreRow, Answer, IssueFails, ProviderMoves,
                    LeaveWindow, vars
<1>8. ASSUME NEW t \in Sweepers, StartSweep(t) PROVE G
  BY <1>3, <1>8 DEF StartSweep, Slots
<1>9. CASE Crash
  BY <1>2, <1>9 DEF Crash
<1> QED BY <1>5, <1>6, <1>7, <1>8, <1>9 DEF Next

\* No step hands out an invoice whose request has not stored the row and answered.
LEMMA UnheldStep == LnbitsInv /\ [Next]_vars => Unheld'
<1> SUFFICES ASSUME LnbitsInv, [Next]_vars PROVE Unheld'
  OBVIOUS
<1> USE DEF LnbitsInv, BaseInv, TypeInv, TypeOK, Unheld, Stored
<1>1. ASSUME NEW d \in Charges, Issuing(d) PROVE Unheld'
  BY <1>1 DEF Issuing, CreateCharge, StoreRow, Answer, IssueFails
<1>2. ASSUME NEW t \in Requests, Receiving(t) PROVE Unheld'
  BY <1>2 DEF Receiving, StartPoll, PayOnRegtest, LnbitsWebhook, LegacyWebhook, LnurlWebhook
<1>3. ASSUME NEW t \in Slots, Working(t) PROVE Unheld'
  <2>1. CASE Write(t)
    <3>1. Stored(h[t].cur.c)
      BY <2>1, BusyFacts DEF Write, Busy
    <3> QED BY <2>1, <3>1 DEF Write
  <2>2. CASE ~Write(t)
    BY <1>3, <2>2 DEF Working, Ask, AskFails, PublishReceipt, Announce, WriteFails
  <2> QED BY <2>1, <2>2
<1>4. CASE \/ \E d \in Charges, s \in Status : ProviderMoves(d, s)
           \/ \E d \in Charges : LeaveWindow(d)
           \/ \E t \in Sweepers : StartSweep(t)
           \/ Crash
           \/ UNCHANGED vars
  BY <1>4 DEF ProviderMoves, LeaveWindow, StartSweep, Crash, vars
<1> QED BY <1>1, <1>2, <1>3, <1>4 DEF Next

\* What a step may do to the events about invoice c: announce the fate its row
\* has reached, say that a new invoice, which nobody holds, is pending, or, on
\* regtest, announce the payment without a status.
LEMMA EventStep ==
  ASSUME LnbitsInv, [Next]_vars, NEW c \in Charges
  PROVE  \/ shown'[c] = shown[c] /\ (c \in announced' <=> c \in announced)
         \/ /\ row[c] \in Final /\ row[c] = charge[c] /\ shown'[c] = row[c]
            /\ c \in announced' <=> c \in announced \/ row[c] = "PAID"
         \/ shown'[c] = "PENDING" /\ c \notin known /\ (c \in announced' <=> c \in announced)
         \/ ~NoRegtest /\ shown'[c] = shown[c]
<1> DEFINE G == \/ shown'[c] = shown[c] /\ (c \in announced' <=> c \in announced)
                \/ /\ row[c] \in Final /\ row[c] = charge[c] /\ shown'[c] = row[c]
                   /\ c \in announced' <=> c \in announced \/ row[c] = "PAID"
                \/ shown'[c] = "PENDING" /\ c \notin known /\ (c \in announced' <=> c \in announced)
                \/ ~NoRegtest /\ shown'[c] = shown[c]
<1> USE DEF LnbitsInv, BaseInv, TypeInv, TypeOK
<1>1. ASSUME NEW d \in Charges, Issuing(d) PROVE G
  BY <1>1 DEF Issuing, CreateCharge, StoreRow, Answer, IssueFails, Unheld
<1>2. ASSUME NEW t \in Requests, Receiving(t) PROVE G
  BY <1>2 DEF Receiving, StartPoll, PayOnRegtest, LnbitsWebhook, LegacyWebhook, LnurlWebhook
<1>3. ASSUME NEW t \in Slots, Working(t) PROVE G
  <2>1. CASE Announce(t)
    <3>1. CASE h[t].kind = "regtest"
      BY <2>1, <3>1 DEF Announce, Honest
    <3>2. CASE h[t].kind # "regtest"
      <4>1. /\ h[t].kind # "lnurl"
            /\ h[t].seen \in Final /\ h[t].seen = charge[h[t].cur.c]
            /\ row[h[t].cur.c] = h[t].seen
        BY <2>1, <3>2, BusyFacts DEF Announce, Honest, Busy
      <4> QED BY <2>1, <3>2, <4>1 DEF Announce, Final, PAID_STATES
    <3> QED BY <3>1, <3>2
  <2>2. CASE ~Announce(t)
    BY <1>3, <2>2 DEF Working, Ask, AskFails, Write, PublishReceipt, WriteFails
  <2> QED BY <2>1, <2>2
<1>4. CASE \/ \E d \in Charges, s \in Status : ProviderMoves(d, s)
           \/ \E d \in Charges : LeaveWindow(d)
           \/ \E t \in Sweepers : StartSweep(t)
           \/ Crash
           \/ UNCHANGED vars
  BY <1>4 DEF ProviderMoves, LeaveWindow, StartSweep, Crash, vars
<1> QED BY <1>1, <1>2, <1>3, <1>4 DEF Next

\* A paid status of LNbits is "PAID".
LEMMA OnlyPaid ==
  ASSUME LnbitsInv, NEW c \in Charges
  PROVE  /\ PaidRow(c) <=> row[c] = "PAID"
         /\ Settled(c) <=> charge[c] = "PAID"
BY DEF LnbitsInv, RowHonest, PaidRow, Settled, Final, PAID_STATES, None

\* No step takes the invariant of LNbits away.
LEMMA StepLnbits == LnbitsInv /\ [Next]_vars => LnbitsInv'
<1> SUFFICES ASSUME LnbitsInv, [Next]_vars PROVE LnbitsInv'
  OBVIOUS
<1>1. OnLnbits' /\ BaseInv'
  BY StepType, StepMoney DEF LnbitsInv, OnLnbits, BaseInv
<1>2. RowHonest'
  <2> SUFFICES ASSUME NEW c \in Charges
               PROVE  /\ charge'[c] \in {None, "PENDING"} \cup Final
                      /\ \/ row'[c] \in {None, "PENDING"}
                         \/ row'[c] \in Final /\ row'[c] = charge'[c]
    BY DEF RowHonest
  <2> QED BY RowStays, FateStays
<1>3. TodoHonest' /\ Honest' /\ Unheld'
  BY TodoHonestStep, HonestStep, UnheldStep
<1>4. ShownIsStored'
  <2> SUFFICES ASSUME NEW c \in Charges, shown'[c] \in PAID_STATES PROVE row'[c] = "PAID"
    BY DEF ShownIsStored, PaidRow, PAID_STATES
  <2>1. CASE shown[c] \in PAID_STATES
    BY <2>1, OnlyPaid, RowStays DEF LnbitsInv, ShownIsStored, Final
  <2>2. CASE shown[c] \notin PAID_STATES
    BY <2>2, EventStep, RowStays DEF Final, PAID_STATES
  <2> QED BY <2>1, <2>2
<1>5. NoRegtest' => AnnouncedIsStored'
  <2> SUFFICES ASSUME NoRegtest, NEW c \in Charges, c \in announced'
               PROVE  row'[c] = "PAID"
    BY <1>4 DEF AnnouncedIsStored, ShownIsStored, PaidRow, PAID_STATES, NoRegtest
  <2>1. CASE c \in announced
    BY <2>1, OnlyPaid, RowStays DEF LnbitsInv, AnnouncedIsStored, Final
  <2>2. CASE c \notin announced
    BY <2>2, EventStep, RowStays DEF Final, PAID_STATES
  <2> QED BY <2>1, <2>2
<1> QED BY <1>1, <1>2, <1>3, <1>4, <1>5 DEF LnbitsInv

\* With LNbits the invariant holds in every reachable state.
LEMMA LnbitsAlways == OnLnbits /\ Spec => []LnbitsInv
BY InitLnbits, StepLnbits, PTL DEF Spec

\* With LNbits and without regtest pay, clients are told that an invoice is paid after
\* the database says so.
THEOREM AnnouncedCorrect == OnLnbits /\ NoRegtest /\ Spec => []AnnouncedIsStored
<1> SUFFICES ASSUME NoRegtest PROVE OnLnbits /\ Spec => []AnnouncedIsStored
  OBVIOUS
<1>1. LnbitsInv => AnnouncedIsStored
  BY DEF LnbitsInv
<1> QED BY <1>1, LnbitsAlways, PTL

\* With LNbits a row stored as paid stays paid, although handlers store what they
\* learnt before the row became paid.
THEOREM PaidRowFinal == OnLnbits /\ Spec => PaidRowIsFinal
<1>1. LnbitsInv /\ [Next]_vars => [\A c \in Charges : PaidRow(c) => PaidRow(c)']_vars
  BY RowStays, OnlyPaid DEF PaidRow, Final, PAID_STATES
<1> QED BY <1>1, LnbitsAlways, PTL DEF PaidRowIsFinal, Spec

\* With LNbits, on regtest too, no later event takes back that an invoice was shown
\* as paid.
THEOREM ShownPaidFinal == OnLnbits /\ Spec => ShownPaidIsFinal
<1>1. LnbitsInv /\ [Next]_vars
        => [\A c \in Charges : shown[c] \in PAID_STATES => shown'[c] \in PAID_STATES]_vars
  <2> SUFFICES ASSUME LnbitsInv, [Next]_vars, NEW c \in Charges, shown[c] \in PAID_STATES
               PROVE  shown'[c] \in PAID_STATES
    OBVIOUS
  <2>1. row[c] = "PAID" /\ charge[c] = "PAID"
    BY OnlyPaid DEF LnbitsInv, ShownIsStored, BaseInv, MoneyInv, PaidMeansSettled
  <2>2. c \in known
    BY <2>1 DEF LnbitsInv, BaseInv, MoneyInv, HeldFirst, PAID_STATES
  <2> QED BY <2>1, <2>2, EventStep DEF PAID_STATES
<1> QED BY <1>1, LnbitsAlways, PTL DEF ShownPaidIsFinal, ShownPaidStays, Spec

-----------------------------------------------------------------------------
(* The ledger.  Storing a row opens the invoice, the provider settles it, an *)
(* update to PAID books it, an event tells of it; every other step, a stale  *)
(* update or a repeated event among them, leaves the ledger alone.           *)

SettledSet == {c \in Charges : Settled(c)}

LedgerStep ==
  \/ SettledSet' = SettledSet /\ Books' = Books /\ Told' = Told
  \/ \E c \in Charges : \/ Ledger!Open(c) \/ Ledger!Settle(c)
                        \/ Ledger!Book(c) \/ Ledger!Tell(c)

\* At first no invoice is on the books.
LEMMA InitLedger == Init => Ledger!Init
<1> SUFFICES ASSUME Init PROVE Ledger!Init
  OBVIOUS
<1>1. SettledSet = {} /\ Told = {}
  BY DEF Init, SettledSet, Settled, Told, None, PAID_STATES
<1>2. Books = [c \in Charges |-> "absent"]
  BY DEF Init, Books, Stored
<1> QED BY <1>1, <1>2 DEF Ledger!Init, SettledSet

\* The provider is paid for an invoice that is open on the books.
LEMMA SettleStep ==
  ASSUME LnbitsInv, NEW d \in Charges, NEW s \in Status, ProviderMoves(d, s)
  PROVE  LedgerStep
<1> USE DEF LnbitsInv, BaseInv, TypeInv, TypeOK, OnLnbits
<1>1. Books' = Books /\ Told' = Told
  BY DEF ProviderMoves, Books, Told, Stored, PaidRow
<1>2. charge[d] = "PENDING" /\ s \in {"PAID", "FAILED"} /\ charge' = [charge EXCEPT ![d] = s]
  BY FlowFacts DEF ProviderMoves
<1>3. CASE s = "PAID"
  <2>1. SettledSet' = SettledSet \cup {d}
    BY <1>2, <1>3 DEF SettledSet, Settled, PAID_STATES
  <2>2. Stored(d) /\ ~PaidRow(d)
    BY <1>2, <1>3 DEF ProviderMoves, StoredFirst, RowHonest, PaidRow, Final, PAID_STATES, None
  <2>3. Books[d] = "open"
    BY <2>2 DEF Books
  <2>4. Ledger!Settle(d)
    BY <1>1, <2>1, <2>3 DEF Ledger!Settle, SettledSet
  <2> QED BY <2>4 DEF LedgerStep
<1>4. CASE s = "FAILED"
  <2>1. SettledSet' = SettledSet
    BY <1>2, <1>4 DEF SettledSet, Settled, PAID_STATES
  <2> QED BY <1>1, <2>1 DEF LedgerStep
<1> QED BY <1>2, <1>3, <1>4

\* A row that is stored opens the invoice.
LEMMA OpenStep ==
  ASSUME LnbitsInv, NEW d \in Charges, StoreRow(d)
  PROVE  LedgerStep
<1> USE DEF LnbitsInv, BaseInv, TypeInv, TypeOK, None
<1>1. SettledSet' = SettledSet /\ Told' = Told
  BY DEF StoreRow, SettledSet, Settled, Told
<1>2. row[d] = None /\ row' = [row EXCEPT ![d] = "PENDING"]
  BY DEF StoreRow, Unheld, Stored
<1>3. Books[d] = "absent" /\ Books' = [Books EXCEPT ![d] = "open"]
  BY <1>2 DEF Books, Stored, PaidRow, PAID_STATES
<1> QED BY <1>1, <1>3 DEF LedgerStep, Ledger!Open, SettledSet

\* An update to PAID books a settled invoice or repeats that it is booked.
LEMMA BookStep ==
  ASSUME LnbitsInv, NEW t \in Slots, Write(t)
  PROVE  LedgerStep
<1> USE DEF LnbitsInv, BaseInv, TypeInv, TypeOK, None
<1> DEFINE d == h[t].cur.c
<1>1. SettledSet' = SettledSet /\ Told' = Told
  BY DEF Write, SettledSet, Settled, Told
<1>2. /\ d \in Charges /\ Stored(d)
      /\ charge[d] \in Final
      /\ row' = [row EXCEPT ![d] = charge[d]]
  BY BusyFacts DEF Write, Busy
<1>3. CASE charge[d] = "PAID" /\ ~PaidRow(d)
  <2>1. Books[d] = "open" /\ d \in SettledSet
    BY <1>2, <1>3 DEF Books, SettledSet, Settled, PAID_STATES
  <2>2. Books' = [Books EXCEPT ![d] = "paid"]
    BY <1>2, <1>3 DEF Books, Stored, PaidRow, PAID_STATES
  <2> QED BY <1>1, <1>2, <2>1, <2>2 DEF LedgerStep, Ledger!Book, SettledSet
<1>4. CASE charge[d] = "FAILED" \/ PaidRow(d)
  <2>1. row'[d] \in PAID_STATES <=> PaidRow(d)
    BY <1>2, <1>4, OnlyPaid DEF MoneyInv, PaidMeansSettled, Final, PAID_STATES
  <2>2. row'[d] # None
    BY <1>2 DEF Final
  <2>3. Books' = Books
    BY <1>2, <2>1, <2>2 DEF Books, Stored, PaidRow
  <2> QED BY <1>1, <2>3 DEF LedgerStep
<1> QED BY <1>2, <1>3, <1>4 DEF Final

\* An event tells of a booked invoice, or says nothing of money.
LEMMA TellStep ==
  ASSUME LnbitsInv, NoRegtest, NEW t \in Slots, Announce(t)
  PROVE  LedgerStep
<1> USE DEF LnbitsInv, BaseInv, TypeInv, TypeOK
<1> DEFINE d == h[t].cur.c
<1>1. SettledSet' = SettledSet /\ Books' = Books
  BY DEF Announce, SettledSet, Settled, Books, Stored, PaidRow
<1>2. /\ d \in Charges
      /\ h[t].kind \notin {"lnurl", "regtest"}
      /\ h[t].seen \in Final /\ h[t].seen = charge[d] /\ row[d] = h[t].seen
  BY BusyFacts DEF Announce, Busy, Honest
<1>3. CASE h[t].seen = "PAID"
  <2>1. Books[d] = "paid"
    BY <1>2, <1>3 DEF Books, Stored, PaidRow, PAID_STATES, None
  <2>2. Told' = Told \cup {d}
    BY <1>2, <1>3 DEF Announce, Told, PAID_STATES
  <2> QED BY <1>1, <1>2, <2>1, <2>2 DEF LedgerStep, Ledger!Tell, SettledSet
<1>4. CASE h[t].seen = "FAILED"
  <2>1. d \notin Told
    BY <1>2, <1>4 DEF Told, AnnouncedIsStored, PaidRow, PAID_STATES
  <2>2. Told' = Told
    BY <1>2, <1>4, <2>1 DEF Announce, Told, PAID_STATES
  <2> QED BY <1>1, <2>2 DEF LedgerStep
<1> QED BY <1>2, <1>3, <1>4 DEF Final

\* The reply that hands out a new invoice says that it is pending.
LEMMA AnswerStep ==
  ASSUME LnbitsInv, NEW d \in Charges, Answer(d)
  PROVE  LedgerStep
<1> USE DEF LnbitsInv, BaseInv, TypeInv, TypeOK
<1>1. SettledSet' = SettledSet /\ Books' = Books
  BY DEF Answer, SettledSet, Settled, Books, Stored, PaidRow
<1>2. d \notin known /\ charge[d] \notin PAID_STATES
  BY DEF Answer, Unheld, MoneyInv, HeldFirst
<1>3. d \notin Told
  BY <1>2 DEF Told, MoneyInv, PaidMeansSettled, Settled
<1>4. Told' = Told
  BY <1>3 DEF Answer, Told, PAID_STATES
<1> QED BY <1>1, <1>4 DEF LedgerStep

\* A new invoice is not settled.
LEMMA CreateStep ==
  ASSUME LnbitsInv, NEW d \in Charges, CreateCharge(d)
  PROVE  LedgerStep
<1> USE DEF LnbitsInv, BaseInv, TypeInv, TypeOK
<1>1. charge[d] = None
  BY DEF CreateCharge, ChargedFirst
<1>2. SettledSet' = SettledSet
  BY <1>1 DEF CreateCharge, SettledSet, Settled, OpeningStatus, PAID_STATES, None
<1>3. Books' = Books /\ Told' = Told
  BY DEF CreateCharge, Books, Stored, PaidRow, Told
<1> QED BY <1>2, <1>3 DEF LedgerStep

\* Every step of the handlers is a step of the ledger or leaves it alone.
LEMMA EveryLedgerStep == LnbitsInv /\ NoRegtest /\ [Next]_vars => LedgerStep
<1> SUFFICES ASSUME LnbitsInv, NoRegtest, [Next]_vars PROVE LedgerStep
  OBVIOUS
<1>0. ASSUME UNCHANGED <<charge, row, shown, announced>> PROVE LedgerStep
  BY <1>0 DEF LedgerStep, SettledSet, Settled, Books, Stored, PaidRow, Told
<1>1. ASSUME NEW d \in Charges, Issuing(d) PROVE LedgerStep
  BY <1>0, <1>1, CreateStep, OpenStep, AnswerStep DEF Issuing, IssueFails
<1>2. ASSUME NEW d \in Charges, NEW s \in Status, ProviderMoves(d, s) PROVE LedgerStep
  BY <1>2, SettleStep
<1>3. ASSUME NEW t \in Requests, Receiving(t) PROVE LedgerStep
  BY <1>0, <1>3 DEF Receiving, StartPoll, PayOnRegtest, LnbitsWebhook, LegacyWebhook,
                    LnurlWebhook, LnbitsInv, OnLnbits, NoRegtest
<1>4. ASSUME NEW t \in Slots, Working(t) PROVE LedgerStep
  BY <1>0, <1>4, BookStep, TellStep
     DEF Working, Ask, AskFails, PublishReceipt, WriteFails
<1>5. CASE \/ \E d \in Charges : LeaveWindow(d)
           \/ \E t \in Sweepers : StartSweep(t)
           \/ Crash
           \/ UNCHANGED vars
  BY <1>0, <1>5 DEF LeaveWindow, StartSweep, Crash, vars
<1> QED BY <1>1, <1>2, <1>3, <1>4, <1>5 DEF Next

\* With LNbits and without regtest pay the handlers together implement the ledger:
\* every invoice is opened before it is settled, booked after that once and for all,
\* and told of last.
THEOREM LedgerImplemented == OnLnbits /\ NoRegtest /\ Spec => ImplementsLedger
<1> SUFFICES ASSUME NoRegtest PROVE OnLnbits /\ Spec => ImplementsLedger
  OBVIOUS
<1>1. LedgerStep => [Ledger!Next]_(Ledger!ledger)
  BY DEF LedgerStep, Ledger!Next, Ledger!ledger, SettledSet
<1>2. LnbitsInv /\ [Next]_vars => [Ledger!Next]_(Ledger!ledger)
  BY <1>1, EveryLedgerStep
<1> QED BY <1>2, InitLedger, LnbitsAlways, PTL DEF ImplementsLedger, Ledger!Spec, Spec

=============================================================================
