------------------------------ MODULE Payments ------------------------------
(***************************************************************************)
(* Incoming Lightning payments of the API server (apps/api): an invoice is *)
(* created at the Lightning provider, stored as a Payment row, and found   *)
(* paid by whichever comes first of two webhooks, two polling endpoints    *)
(* and the reconciler.  Node runs one handler at a time, but every await   *)
(* lets another one in, so a handler is a chain of atomic steps that acts  *)
(* on the row it read in its first step.                                   *)
(*                                                                         *)
(* A slot is one request in flight (or one reconciler sweep): kind says    *)
(* which handler runs there, pc the await it is at, todo the rows it read  *)
(* and has not dealt with, cur the one it deals with, seen the status it   *)
(* is about to store or announce.                                          *)
(***************************************************************************)
EXTENDS Naturals, FiniteSets

CONSTANTS
  Charges,        \* the invoices of the behaviour
  ActionCharges,  \* those asked for with POST /api/pay; the others are LNURL-pay
  ZapCharges,     \* those whose recipient has a pubkey to publish a receipt for
  HostCharges,    \* those whose row is of the tenant that the Host of a webhook call names;
                  \* POST /api/pay stores the row for the domain in its body
  Requests,       \* slots for HTTP requests in flight
  Sweepers,       \* slots for reconciler sweeps in flight (setInterval may overlap)
  Provider,       \* LIGHTNING_PROVIDER: "lnbits" or "opennode"
  RegtestPay,     \* REGTEST_PAY_ENABLED
  Take            \* rows one sweep reads at most

ASSUME PaymentsAssumption ==
  /\ ActionCharges \subseteq Charges
  /\ ZapCharges \subseteq Charges \ ActionCharges
  /\ HostCharges \subseteq Charges
  /\ Requests \cap Sweepers = {}
  /\ Provider \in {"lnbits", "opennode"}
  /\ RegtestPay \in BOOLEAN
  /\ Take \in Nat \ {0}

VARIABLES
  charge,    \* the provider's own status of each invoice, in capitals
  issue,     \* how far the request that creates the invoice has come
  known,     \* the invoices some payer holds
  row,       \* Payment.status in the database
  age,       \* 1 for the row updated last, 2 for the one before and so on, by
             \* updatedAt; 0 for rows not updated in the last 24 hours
  h,         \* the handlers in flight, by slot
  hooks,     \* the webhook calls the provider has ever made
  ignored,   \* invoices a webhook about which was answered "unknown payment"
  shown,     \* the status the last event on /ws/pay gave for each invoice
  announced, \* invoices an invoice-paid event was broadcast for
  receipts   \* invoices a zap receipt was published for

vars == <<charge, issue, known, row, age, h, hooks, ignored, shown, announced, receipts>>

Slots == Requests \cup Sweepers

PAID_STATES == {"PAID", "COMPLETED", "SETTLED", "CONFIRMED"}

Status == PAID_STATES \cup {"PENDING", "FAILED", "UNPAID", "PROCESSING", "EXPIRED"}

None == "none"

\* Seeded fault: the provider's status is kept as it is spelt, not in capitals.
OpeningAsSpelt == IF Provider = "lnbits" THEN "pending" ELSE "unpaid"

\* What the provider reports of a new invoice, and how that can change: LNbits
\* answers pending, paid or failed, OpenNode its own names.
OpeningStatus == IF Provider = "lnbits" THEN "PENDING" ELSE "UNPAID"

ChargeFlow ==
  IF Provider = "lnbits"
  THEN {<<"PENDING", "PAID">>, <<"PENDING", "FAILED">>}
  ELSE {<<"UNPAID", "PROCESSING">>, <<"UNPAID", "PAID">>, <<"UNPAID", "EXPIRED">>,
        <<"PROCESSING", "PAID">>, <<"PROCESSING", "EXPIRED">>, <<"PAID", "CONFIRMED">>}

\* OpenNode calls back on every change, LNbits when the invoice is paid.
HookFor(c, s) ==
  IF Provider = "opennode" \/ s \in PAID_STATES THEN {[c |-> c, status |-> s]} ELSE {}

Snapshot == [c : Charges, prev : Status]

NoRow == [c |-> None, prev |-> None]

Idle == [kind |-> None, pc |-> "idle", todo |-> {}, cur |-> NoRow, seen |-> None]

Stored(c) == row[c] # None

RowOf(c) == [c |-> c, prev |-> row[c]]

\* An update of row c makes it the newest.
Touched(c) ==
  [d \in Charges |->
     IF d = c THEN 1
     ELSE IF age[d] # 0 /\ (age[c] = 0 \/ age[d] < age[c]) THEN age[d] + 1
     ELSE age[d]]

Init ==
  /\ charge = [c \in Charges |-> None]
  /\ issue = [c \in Charges |-> "idle"]
  /\ known = {}
  /\ row = [c \in Charges |-> None]
  /\ age = [c \in Charges |-> 0]
  /\ h = [t \in Slots |-> Idle]
  /\ hooks = {}
  /\ ignored = {}
  /\ shown = [c \in Charges |-> None]
  /\ announced = {}
  /\ receipts = {}

-----------------------------------------------------------------------------
(* Creating an invoice: POST /api/pay and GET /api/lnurlp/:username/invoice. *)

\* Seeded fault: the invoice is handed out before its row is stored.
CreateAndReveal(c) ==
  /\ issue[c] = "idle"
  /\ issue' = [issue EXCEPT ![c] = "charged"]
  /\ charge' = [charge EXCEPT ![c] = OpeningStatus]
  /\ known' = known \cup {c}
  /\ UNCHANGED <<row, age, h, hooks, ignored, shown, announced, receipts>>

CreateCharge(c) ==
  /\ issue[c] = "idle"
  /\ issue' = [issue EXCEPT ![c] = "charged"]
  /\ charge' = [charge EXCEPT ![c] = OpeningStatus]
  /\ UNCHANGED <<known, row, age, h, hooks, ignored, shown, announced, receipts>>

\* Seeded fault: the invoice is handed out before invoice-created is sent.
StoreAndReveal(c) ==
  /\ issue[c] = "charged"
  /\ issue' = [issue EXCEPT ![c] = "stored"]
  /\ row' = [row EXCEPT ![c] = "PENDING"]
  /\ age' = Touched(c)
  /\ known' = known \cup {c}
  /\ UNCHANGED <<charge, h, hooks, ignored, shown, announced, receipts>>

StoreRow(c) ==
  /\ issue[c] = "charged"
  /\ issue' = [issue EXCEPT ![c] = "stored"]
  /\ row' = [row EXCEPT ![c] = "PENDING"]
  /\ age' = Touched(c)
  /\ UNCHANGED <<charge, known, h, hooks, ignored, shown, announced, receipts>>

\* The reply, and for an action invoice the invoice-created event before it in
\* the same turn, hand the invoice to payers.
Answer(c) ==
  /\ issue[c] = "stored"
  /\ issue' = [issue EXCEPT ![c] = "answered"]
  /\ known' = known \cup {c}
  /\ shown' = IF c \in ActionCharges THEN [shown EXCEPT ![c] = "PENDING"] ELSE shown
  /\ UNCHANGED <<charge, row, age, h, hooks, ignored, announced, receipts>>

IssueFails(c) ==
  /\ issue[c] \in {"charged", "stored"}
  /\ issue' = [issue EXCEPT ![c] = "failed"]
  /\ UNCHANGED <<charge, known, row, age, h, hooks, ignored, shown, announced, receipts>>

-----------------------------------------------------------------------------
(* The provider, outside the program: only a known invoice gets paid.       *)

ProviderMoves(c, s) ==
  /\ <<charge[c], s>> \in ChargeFlow
  /\ s \in {"PAID", "PROCESSING"} => c \in known
  /\ charge' = [charge EXCEPT ![c] = s]
  /\ hooks' = hooks \cup HookFor(c, s)
  /\ UNCHANGED <<issue, known, row, age, h, ignored, shown, announced, receipts>>

\* A day without an update takes the row out of the reconciler's window.
LeaveWindow(c) ==
  /\ age[c] # 0
  /\ \A d \in Charges : age[d] <= age[c]
  /\ age' = [age EXCEPT ![c] = 0]
  /\ UNCHANGED <<charge, issue, known, row, h, hooks, ignored, shown, announced, receipts>>

-----------------------------------------------------------------------------
(* Handlers that ask the provider.                                          *)

Run(t, kind, pc, todo, cur, seen) ==
  h' = [h EXCEPT ![t] = [kind |-> kind, pc |-> pc, todo |-> todo, cur |-> cur, seen |-> seen]]

\* GET /api/lnurlp/pay/status/:id ("poll") and /api/lnurlp/:username/status/:id
\* ("legacyPoll") return at once when the row they read is paid.
StartPoll(t, kind, c) ==
  /\ h[t] = Idle
  /\ Stored(c)
  /\ row[c] \notin PAID_STATES
  /\ Run(t, kind, "ask", {RowOf(c)}, NoRow, None)
  /\ UNCHANGED <<charge, issue, known, row, age, hooks, ignored, shown, announced, receipts>>

\* Seeded fault: the reconciler looks for the initial status only.
PendingRows == {c \in Charges : age[c] # 0 /\ row[c] = "PENDING"}

OpenRows == {c \in Charges : age[c] # 0 /\ row[c] \notin PAID_STATES}

NewerOpenRows(c) == {d \in OpenRows : age[d] < age[c]}

\* Seeded fault: the sweep takes the rows updated longest ago.
OldestBatch ==
  {c \in OpenRows : Cardinality({d \in OpenRows : age[d] > age[c]}) < Take}

\* The rows one sweep reads: of those updated within a day and not paid, the
\* Take updated last.  It deals with them one after the other, here in any order.
Batch == {c \in OpenRows : Cardinality(NewerOpenRows(c)) < Take}

\* setInterval fires whether or not the previous sweep has ended.
StartSweep(t) ==
  /\ h[t] = Idle
  /\ Batch # {}
  /\ Run(t, "reconciler", "ask", {RowOf(c) : c \in Batch}, NoRow, None)
  /\ UNCHANGED <<charge, issue, known, row, age, hooks, ignored, shown, announced, receipts>>

\* Row p is done with: a sweep goes on to its next row, a request ends.
Proceed(t, p) ==
  IF h[t].todo \subseteq {p}
  THEN h' = [h EXCEPT ![t] = Idle]
  ELSE Run(t, h[t].kind, "ask", h[t].todo \ {p}, NoRow, None)

\* Seeded fault: no early return when the status is the one that was read.
AlwaysUpdate(kind, p) == kind # "legacyPoll" \/ charge[p.c] = "PAID"

\* getCharge, sampled when the provider answers.  A status equal to the one
\* read from the database ends the check; the legacy poll acts on paid only.
CallsForUpdate(kind, p) ==
  IF kind = "legacyPoll" THEN charge[p.c] = "PAID" ELSE charge[p.c] # p.prev

\* Seeded fault: any change is taken for the payment.
AskForPaidOnly(t, p) ==
  /\ h[t].pc = "ask"
  /\ p \in h[t].todo
  /\ IF CallsForUpdate(h[t].kind, p)
     THEN Run(t, h[t].kind, "write", h[t].todo, p, "PAID")
     ELSE Proceed(t, p)
  /\ UNCHANGED <<charge, issue, known, row, age, hooks, ignored, shown, announced, receipts>>

Ask(t, p) ==
  /\ h[t].pc = "ask"
  /\ p \in h[t].todo
  /\ IF CallsForUpdate(h[t].kind, p)
     THEN Run(t, h[t].kind, "write", h[t].todo, p, charge[p.c])
     ELSE Proceed(t, p)
  /\ UNCHANGED <<charge, issue, known, row, age, hooks, ignored, shown, announced, receipts>>

\* getCharge throws: the row is left as it is.
AskFails(t, p) ==
  /\ h[t].pc = "ask"
  /\ p \in h[t].todo
  /\ Proceed(t, p)
  /\ UNCHANGED <<charge, issue, known, row, age, hooks, ignored, shown, announced, receipts>>

-----------------------------------------------------------------------------
(* Handlers a webhook call starts; the call may come late, twice or never.  *)

\* POST /api/pay/webhook/lnbits, the webhook LNbits is given with each invoice.
LnbitsWebhook(t, m) ==
  /\ Provider = "lnbits"
  /\ h[t] = Idle
  /\ IF ~Stored(m.c)
     THEN ignored' = ignored \cup {m.c} /\ UNCHANGED h
     ELSE /\ row[m.c] \notin PAID_STATES
          /\ Run(t, "webhook", "write", {RowOf(m.c)}, RowOf(m.c), "PAID")
          /\ UNCHANGED ignored
  /\ UNCHANGED <<charge, issue, known, row, age, hooks, shown, announced, receipts>>

\* POST /api/lnbits/webhook, the older endpoint: no check of the row it read.
LegacyWebhook(t, m) ==
  /\ Provider = "lnbits"
  /\ h[t] = Idle
  /\ IF ~Stored(m.c)
     THEN ignored' = ignored \cup {m.c} /\ UNCHANGED h
     ELSE /\ Run(t, "legacyWebhook", "write", {RowOf(m.c)}, RowOf(m.c), "PAID")
          /\ UNCHANGED ignored
  /\ UNCHANGED <<charge, issue, known, row, age, hooks, shown, announced, receipts>>

\* What POST /api/lnurlp/:username/webhook does next, after its update if any:
\* a receipt for every call that says paid, then the events if the row changed.
AfterLnurlUpdate(t, p, s) ==
  IF s \in PAID_STATES /\ p.c \in ZapCharges
  THEN Run(t, "lnurl", "zap", {p}, p, s)
  ELSE IF s # p.prev THEN Run(t, "lnurl", "announce", {p}, p, s)
  ELSE h' = [h EXCEPT ![t] = Idle]

\* POST /api/lnurlp/:username/webhook, which OpenNode calls, finds rows of one tenant.
LnurlWebhook(t, m) ==
  /\ Provider = "opennode"
  /\ h[t] = Idle
  /\ IF ~Stored(m.c) \/ m.c \notin HostCharges
     THEN ignored' = ignored \cup {m.c} /\ UNCHANGED h
     ELSE /\ IF m.status # row[m.c]
             THEN Run(t, "lnurl", "write", {RowOf(m.c)}, RowOf(m.c), m.status)
             ELSE AfterLnurlUpdate(t, RowOf(m.c), m.status)
          /\ UNCHANGED ignored
  /\ UNCHANGED <<charge, issue, known, row, age, hooks, shown, announced, receipts>>

\* nostrClient.publish; the handler goes on when it throws.
PublishReceipt(t) ==
  /\ h[t].pc = "zap"
  /\ receipts' \in {receipts, receipts \cup {h[t].cur.c}}
  /\ IF h[t].seen # h[t].cur.prev
     THEN Run(t, h[t].kind, "announce", h[t].todo, h[t].cur, h[t].seen)
     ELSE Proceed(t, h[t].cur)
  /\ UNCHANGED <<charge, issue, known, row, age, hooks, ignored, shown, announced>>

\* POST /api/regtest/pay has the demo node pay the invoice, reads the row only to
\* fill in the event, and leaves the row to the webhook and the polls.
PayOnRegtest(t, c) ==
  /\ RegtestPay
  /\ h[t] = Idle
  /\ c \in known
  /\ <<charge[c], "PAID">> \in ChargeFlow
  /\ charge' = [charge EXCEPT ![c] = "PAID"]
  /\ hooks' = hooks \cup HookFor(c, "PAID")
  /\ Run(t, "regtest", "announce", {RowOf(c)}, RowOf(c), "PAID")
  /\ UNCHANGED <<issue, known, row, age, ignored, shown, announced, receipts>>

-----------------------------------------------------------------------------
(* Storing and announcing what a handler has seen.                          *)

Silent == {"legacyPoll", "legacyWebhook"}

\* payment.update by id, whatever the row has become since it was read; the
\* update also makes the row the newest of the window.
Write(t) ==
  LET c == h[t].cur.c IN
  /\ h[t].pc = "write"
  /\ row' = [row EXCEPT ![c] = h[t].seen]
  /\ age' = Touched(c)
  /\ IF h[t].kind \in Silent THEN Proceed(t, h[t].cur)
     ELSE IF h[t].kind = "lnurl" THEN AfterLnurlUpdate(t, h[t].cur, h[t].seen)
     ELSE Run(t, h[t].kind, "announce", h[t].todo, h[t].cur, h[t].seen)
  /\ UNCHANGED <<charge, issue, known, hooks, ignored, shown, announced, receipts>>

\* invoice-status and invoice-paid go to /ws/pay in one turn.  The LNURL webhook
\* keeps invoice-paid back when the row it read was paid; regtest pay sends
\* nothing else.
Announce(t) ==
  LET c == h[t].cur.c IN
  /\ h[t].pc = "announce"
  /\ shown' = IF h[t].kind = "regtest" THEN shown ELSE [shown EXCEPT ![c] = h[t].seen]
  /\ announced' =
       IF h[t].seen \in PAID_STATES /\ (h[t].kind = "lnurl" => h[t].cur.prev \notin PAID_STATES)
       THEN announced \cup {c} ELSE announced
  /\ Proceed(t, h[t].cur)
  /\ UNCHANGED <<charge, issue, known, row, age, hooks, ignored, receipts>>

\* Seeded fault: a failed update is logged and announced all the same.
AnnounceDespiteFailure(t) ==
  /\ h[t].pc \in {"write", "zap", "announce"}
  /\ h[t].kind # "regtest"
  /\ Run(t, h[t].kind, "announce", h[t].todo, h[t].cur, h[t].seen)
  /\ UNCHANGED <<charge, issue, known, row, age, hooks, ignored, shown, announced, receipts>>

\* The update throws, before it took effect or after (its answer is lost).
WriteFails(t) ==
  /\ h[t].pc \in {"write", "zap", "announce"}
  /\ h[t].kind # "regtest"
  /\ Proceed(t, h[t].cur)
  /\ UNCHANGED <<charge, issue, known, row, age, hooks, ignored, shown, announced, receipts>>

-----------------------------------------------------------------------------
\* The process dies and comes back: every handler in flight is lost.
Crash ==
  /\ h' = [t \in Slots |-> Idle]
  /\ issue' = [c \in Charges |->
                 IF issue[c] \in {"charged", "stored"} THEN "failed" ELSE issue[c]]
  /\ UNCHANGED <<charge, known, row, age, hooks, ignored, shown, announced, receipts>>

Issuing(c) == CreateCharge(c) \/ StoreRow(c) \/ Answer(c) \/ IssueFails(c)

Receiving(t) ==
  \/ \E c \in Charges, kind \in {"poll", "legacyPoll"} : StartPoll(t, kind, c)
  \/ \E c \in Charges : PayOnRegtest(t, c)
  \/ \E m \in hooks : LnbitsWebhook(t, m) \/ LegacyWebhook(t, m) \/ LnurlWebhook(t, m)

Working(t) ==
  \/ \E p \in h[t].todo : Ask(t, p) \/ AskFails(t, p)
  \/ Write(t)
  \/ PublishReceipt(t)
  \/ Announce(t)
  \/ WriteFails(t)

Next ==
  \/ \E c \in Charges : Issuing(c)
  \/ \E c \in Charges, s \in Status : ProviderMoves(c, s)
  \/ \E c \in Charges : LeaveWindow(c)
  \/ \E t \in Requests : Receiving(t)
  \/ \E t \in Sweepers : StartSweep(t)
  \/ \E t \in Slots : Working(t)
  \/ Crash

Spec == Init /\ [][Next]_vars

-----------------------------------------------------------------------------
(* Properties *)

Handler ==
  [kind : {"poll", "legacyPoll", "reconciler", "webhook", "legacyWebhook", "lnurl", "regtest"},
   pc : {"ask", "write", "zap", "announce"},
   todo : SUBSET Snapshot,
   cur : Snapshot \cup {NoRow},
   seen : Status \cup {None}]

\* Types, and that a handler past its question holds a row and a status.
TypeOK ==
  /\ charge \in [Charges -> Status \cup {None}]
  /\ issue \in [Charges -> {"idle", "charged", "stored", "answered", "failed"}]
  /\ known \subseteq Charges
  /\ row \in [Charges -> Status \cup {None}]
  /\ age \in [Charges -> Nat]
  /\ h \in [Slots -> Handler \cup {Idle}]
  /\ \A t \in Slots : h[t].pc \in {"write", "zap", "announce"} =>
        h[t].cur \in Snapshot /\ h[t].seen \in Status
  /\ hooks \subseteq [c : Charges, status : Status]
  /\ ignored \subseteq Charges
  /\ shown \in [Charges -> Status \cup {None}]
  /\ announced \subseteq Charges
  /\ receipts \subseteq Charges

Settled(c) == charge[c] \in PAID_STATES

PaidRow(c) == row[c] \in PAID_STATES

\* No row, event or zap receipt says an invoice is paid unless the provider has
\* been paid, however handlers interleave and webhooks are repeated or late.
PaidMeansSettled ==
  \A c \in Charges :
    PaidRow(c) \/ c \in announced \cup receipts \/ shown[c] \in PAID_STATES => Settled(c)

\* Invoices that every webhook about them finds, once their row is stored: the
\* endpoints for LNbits look in the rows of all tenants.
Findable == IF Provider = "lnbits" THEN Charges ELSE HostCharges

\* No webhook about money is answered "unknown payment" and forgotten, unless the
\* row is of another tenant: an invoice gets into a payer's hands only after its
\* row is stored.
NoMoneyIgnored == \A c \in ignored \cap Findable : ~Settled(c)

\* What the short-circuits on a paid row rely on: a paid row stays paid.
PaidRowIsFinal == [][\A c \in Charges : PaidRow(c) => PaidRow(c)']_vars

\* Clients that have been told an invoice is paid find it paid in the database:
\* every event comes after the update it reports.
AnnouncedIsStored ==
  \A c \in Charges : c \in announced \/ shown[c] \in PAID_STATES => PaidRow(c)

\* A step never shows an unpaid status after a paid one.
ShownPaidStays ==
  \A c \in Charges : shown[c] \in PAID_STATES => shown'[c] \in PAID_STATES

\* A client that was shown a paid status is never shown an unpaid one later, not
\* even by the invoice-created event of the request that made the invoice.
ShownPaidIsFinal == [][ShownPaidStays]_vars

-----------------------------------------------------------------------------
(* The ledger this implements when the provider reports an invoice's fate    *)
(* once, as LNbits does.                                                     *)

Books ==
  [c \in Charges |-> IF ~Stored(c) THEN "absent" ELSE IF PaidRow(c) THEN "paid" ELSE "open"]

Told == {c \in Charges : c \in announced \/ shown[c] \in PAID_STATES}

Ledger == INSTANCE PaymentLedger WITH
  settled <- {c \in Charges : Settled(c)}, booked <- Books, told <- Told

\* Every step of the handlers is a step of the ledger or leaves it alone.
ImplementsLedger == Ledger!Spec

-----------------------------------------------------------------------------
(* Liveness *)

\* The event loop runs every started handler on, the reconciler's timer keeps
\* firing, and a provider and a database that are asked again and again about an
\* invoice answer in the end.  Nothing is assumed of webhooks and of clients that poll.
Fairness ==
  /\ \A t \in Slots : WF_vars(Working(t))
  /\ \A t \in Sweepers :
       /\ WF_vars(StartSweep(t))
       /\ \A c \in Charges :
            /\ SF_vars(\E p \in h[t].todo : p.c = c /\ Ask(t, p))
            /\ SF_vars(h[t].cur.c = c /\ Write(t))

FairSpec == Spec /\ Fairness

\* Do rows of invoices that nobody has paid fill the sweeps before c gets its turn?
KeptOut(c) == Cardinality({d \in NewerOpenRows(c) : ~Settled(d)}) >= Take

\* A settled invoice whose row stays in the reconciler's window is stored as paid in
\* the end, although webhooks get lost, the process crashes and other settled
\* invoices come first.  Only unpaid newer rows can keep it out of every sweep.
SettledGetsStored ==
  \A c \in Charges :
    (Settled(c) /\ Stored(c)) ~> (PaidRow(c) \/ age[c] = 0 \/ KeptOut(c))

=============================================================================
