-------------------------- MODULE ZapPaymentProofs ---------------------------
(* Proofs about the payment dialogs, for any number of attempts.             *)
EXTENDS ZapPayment, TLAPS

-----------------------------------------------------------------------------
(* The zap dialog is left where it is by every attempt but the current one,  *)
(* so it is enough to know where the current attempt and the dialog are when *)
(* they move together: what it awaits says what is shown.  Then a view never *)
(* follows another than the documented one, whatever earlier attempts still  *)
(* wait for.                                                                 *)

\* No invoice has number zero.
NumbersOK == MaxAttempts \in Nat

\* Without the demo's endpoint nobody asks it for anything.
NobodyAsks == ~regtest => regtestPays = {}

\* What the current attempt of the zap button awaits, the dialog shows.
ShownAsAwaited ==
  current # None =>
    /\ step[current] # "unused"
    /\ step[current] \in {"address", "metadata"} => view = "pending-lnurl"
    /\ step[current] = "invoice" => view = "pending-invoice"
    /\ step[current] \in {"nwc", "webln"} => view \in {"waiting-payment", "paid"}

\* The invoice and the status URL are the current attempt's, and while it waits for
\* the payment or says paid there is one.  A closed dialog has neither.
ShownOfCurrent ==
  /\ view = "idle" => current = None
  /\ invoice \in {None, current}
  /\ statusUrl \in {None, invoice}
  /\ view \in {"waiting-payment", "paid"} => current # None /\ invoice = current

ZapInv ==
  /\ TypeOK
  /\ NobodyAsks
  /\ kind = "zap" /\ ~regtest => ShownAsAwaited /\ ShownOfCurrent

\* The effect keeps polling exactly while an invoice with a status URL is shown.
Polling == poll # "off" <=> view = "waiting-payment" /\ statusUrl # None

Polls == {"off", "asking", "waiting", "ended"}

\* A render sets the poll so.
LEMMA RenderedPolls ==
  ASSUME TypeOK, Rendered
  PROVE  poll' \in Polls /\ Polling'
BY DEF TypeOK, Rendered, Polling, Polls

\* What an attempt awaits next has its type.
LEMMA GoTyped ==
  ASSUME TypeOK, NEW a \in Attempts,
         NEW s \in {"unused", "address", "metadata", "invoice", "nwc", "webln", "over"}, Go(a, s)
  PROVE  /\ step' \in [Attempts -> {"unused", "address", "metadata", "invoice", "nwc", "webln", "over"}]
         /\ step'[a] = s
         /\ \A b \in Attempts \ {a} : step'[b] = step[b]
BY DEF TypeOK, Go

\* The wallets are tried and then a timer is set.
LEMMA TryTyped ==
  ASSUME TypeOK, NEW a \in Attempts, NEW w \in SUBSET {"nwc", "webln"}, TryNext(a, w)
  PROVE  /\ step' \in [Attempts -> {"unused", "address", "metadata", "invoice", "nwc", "webln", "over"}]
         /\ step'[a] \in {"nwc", "webln", "over"}
         /\ \A b \in Attempts \ {a} : step'[b] = step[b]
         /\ timers' \subseteq Attempts /\ timerRef' \in Attempts \cup {None}
<1>1. CASE w # {}
  <2>1. Go(a, IF "nwc" \in w THEN "nwc" ELSE "webln") /\ UNCHANGED <<timers, timerRef>>
    BY <1>1 DEF TryNext
  <2>2. PICK s \in {"nwc", "webln"} : Go(a, s)
    BY <2>1
  <2>3. s \in {"unused", "address", "metadata", "invoice", "nwc", "webln", "over"}
    OBVIOUS
  <2> QED BY <2>1, <2>2, <2>3, GoTyped DEF TypeOK
<1>2. CASE w = {}
  <2>1. Go(a, "over") /\ StartTimer(a)
    BY <1>2 DEF TryNext
  <2> QED BY <2>1, GoTyped DEF StartTimer, TypeOK
<1> QED BY <1>1, <1>2

\* At first the dialog is closed.
LEMMA InitZap == Init => ZapInv
BY DEF Init, ZapInv, TypeOK, NobodyAsks, ShownAsAwaited, ShownOfCurrent

\* Every step keeps the types.
LEMMA NextTyped == ASSUME TypeOK, [Next]_vars PROVE TypeOK'
<1> USE DEF config, dialog
<1>1. ASSUME PollInVain \/ PollAgain \/ PollRefused PROVE TypeOK'
  BY <1>1 DEF PollInVain, PollAgain, PollRefused, TypeOK
<1>2. ASSUME PollSaysPaid \/ ClickLoggedOut \/ Close PROVE TypeOK'
  <2>1. Rendered
    BY <1>2 DEF PollSaysPaid, ClickLoggedOut, Close, Show
  <2> QED BY <1>2, <2>1, RenderedPolls
    DEF PollSaysPaid, ClickLoggedOut, Close, Show, TypeOK, Polling, Polls
<1>3. ASSUME RegtestClick PROVE TypeOK'
  BY <1>3 DEF RegtestClick, TypeOK
<1>4. ASSUME NEW a \in Attempts, Click(a) PROVE TypeOK'
  <2>1. Rendered /\ view' = "pending-lnurl"
    BY <1>4 DEF Click, Show
  <2>2. step' \in [Attempts -> {"unused", "address", "metadata", "invoice", "nwc", "webln", "over"}]
    BY <1>4 DEF Click, Go, TypeOK
  <2> QED BY <1>4, <2>1, <2>2, RenderedPolls DEF Click, TypeOK, Polling, Polls
<1>5. ASSUME NEW a \in Attempts, Superseded(a) \/ AddressFound(a) PROVE TypeOK'
  <2>1. Go(a, "over") \/ Go(a, "metadata")
    BY <1>5 DEF Superseded, Abandon, AddressFound
  <2>2. UNCHANGED <<config, dialog, poll, timers, timerRef, regtestPays, paid>>
    BY <1>5 DEF Superseded, Abandon, AddressFound
  <2>3. step' \in [Attempts -> {"unused", "address", "metadata", "invoice", "nwc", "webln", "over"}]
    BY <2>1, GoTyped
  <2> QED BY <2>2, <2>3 DEF TypeOK
<1>6. ASSUME NEW a \in Attempts, Fails(a) \/ RequestSigned(a) \/ NwcPaid(a) PROVE TypeOK'
  <2>1. Rendered /\ view' \in {"error", "pending-invoice", "paid"}
    BY <1>6 DEF Fails, RequestSigned, NwcPaid, Show
  <2>2. step' \in [Attempts -> {"unused", "address", "metadata", "invoice", "nwc", "webln", "over"}]
    BY <1>6 DEF Fails, RequestSigned, NwcPaid, Go, TypeOK
  <2>3. UNCHANGED <<config, current, invoice, statusUrl, authError, timedOut, timers, timerRef, regtestPays, paid>>
    BY <1>6 DEF Fails, RequestSigned, NwcPaid
  <2> QED BY <2>1, <2>2, <2>3, RenderedPolls DEF TypeOK, Polling, Polls
<1>7. ASSUME NEW a \in Attempts, InvoiceFetched(a) PROVE TypeOK'
  <2>1. Rendered /\ view' = "waiting-payment"
    BY <1>7 DEF InvoiceFetched, Show
  <2>2. TryNext(a, wallets) /\ wallets \in SUBSET {"nwc", "webln"}
    BY <1>7 DEF InvoiceFetched, TypeOK
  <2> QED BY <1>7, <2>1, <2>2, RenderedPolls, TryTyped DEF InvoiceFetched, TypeOK, Polling, Polls
<1>8. ASSUME NEW a \in Attempts, WeblnPaid(a) PROVE TypeOK'
  <2>1. Rendered /\ view' = "paid"
    BY <1>8 DEF WeblnPaid, Show
  <2>2. /\ step' \in [Attempts -> {"unused", "address", "metadata", "invoice", "nwc", "webln", "over"}]
        /\ timers' \subseteq Attempts /\ timerRef' \in Attempts \cup {None}
    BY <1>8, TryTyped DEF WeblnPaid
  <2> QED BY <1>8, <2>1, <2>2, RenderedPolls DEF WeblnPaid, TypeOK, Polling, Polls
<1>9. ASSUME NEW a \in Attempts, NwcFails(a) \/ WeblnFails(a) PROVE TypeOK'
  <2>1. PICK w \in SUBSET {"nwc", "webln"} : TryNext(a, w)
    <3>1. wallets \ {"nwc"} \in SUBSET {"nwc", "webln"} /\ {} \in SUBSET {"nwc", "webln"}
      BY DEF TypeOK
    <3> QED BY <1>9, <3>1 DEF NwcFails, WeblnFails
  <2>2. /\ step' \in [Attempts -> {"unused", "address", "metadata", "invoice", "nwc", "webln", "over"}]
        /\ timers' \subseteq Attempts /\ timerRef' \in Attempts \cup {None}
    BY <2>1, TryTyped
  <2>3. UNCHANGED <<config, dialog, poll, regtestPays, paid>>
    BY <1>9 DEF NwcFails, WeblnFails
  <2> QED BY <2>2, <2>3 DEF TypeOK
<1>10. ASSUME NEW a \in Attempts, TimerFires(a) PROVE TypeOK'
  <2>1. timedOut' \in BOOLEAN
    BY <1>10 DEF TimerFires, TypeOK
  <2>2. CASE kind = "zap"
    BY <1>10, <2>1, <2>2 DEF TimerFires, TypeOK
  <2>3. CASE kind # "zap"
    BY <1>10, <2>1, <2>3, RenderedPolls DEF TimerFires, Show, TypeOK, Polling, Polls
  <2> QED BY <2>2, <2>3
<1>11. ASSUME NEW a \in Attempts, RegtestPaid(a) PROVE TypeOK'
  <2>1. timedOut' \in BOOLEAN
    BY <1>11 DEF RegtestPaid, TypeOK
  <2> QED BY <1>11, <2>1, RenderedPolls DEF RegtestPaid, Show, TypeOK, Polling, Polls
<1>12. ASSUME NEW a \in Attempts, RegtestFails(a) PROVE TypeOK'
  BY <1>12 DEF RegtestFails, TypeOK
<1>13. ASSUME NEW a \in Attempts, NEW who \in {"nwc", "webln", "regtest", "somebody"}, Pay(a, who)
       PROVE TypeOK'
  BY <1>13 DEF Pay, TypeOK
<1>14. CASE UNCHANGED vars
  BY <1>14 DEF vars, TypeOK
<1> QED BY <1>1, <1>2, <1>3, <1>4, <1>5, <1>6, <1>7, <1>8, <1>9, <1>10, <1>11, <1>12, <1>13, <1>14
    DEF Next, AuthErrorDismissed

-----------------------------------------------------------------------------
(* The zap button's dialog, away from the demo.                              *)

ZapDialog == kind = "zap" /\ ~regtest

\* An attempt that is not stale is the current one.
LEMMA NotStale ==
  ASSUME ZapDialog, NEW a \in Attempts, ~Stale(a)
  PROVE  a = current
BY DEF ZapDialog, Stale

\* What the page is never changes, and only the demo's page has its endpoint asked.
LEMMA SamePage ==
  ASSUME [Next]_vars
  PROVE  kind' = kind /\ regtest' = regtest /\ (~regtest => regtestPays' \subseteq regtestPays)
BY DEF Next, PollInVain, PollAgain, PollRefused, PollSaysPaid, ClickLoggedOut, Close,
       AuthErrorDismissed, RegtestClick, Click, Superseded, Abandon, Fails, AddressFound,
       RequestSigned, InvoiceFetched, NwcPaid, NwcFails, WeblnPaid, WeblnFails, TimerFires,
       RegtestPaid, RegtestFails, Pay, vars, config

\* The wallets that an attempt goes on to try.
LEMMA TriesWallets ==
  ASSUME TypeOK, NEW a \in Attempts,
         InvoiceFetched(a) \/ NwcFails(a) \/ WeblnPaid(a) \/ WeblnFails(a)
  PROVE  \E w \in SUBSET {"nwc", "webln"} : TryNext(a, w)
<1>1. wallets \in SUBSET {"nwc", "webln"} /\ wallets \ {"nwc"} \in SUBSET {"nwc", "webln"}
      /\ {} \in SUBSET {"nwc", "webln"}
  BY DEF TypeOK
<1> QED BY <1>1 DEF InvoiceFetched, NwcFails, WeblnPaid, WeblnFails

\* An attempt that is stale, or whose wallet does not pay, moves on and shows nothing.
LEMMA QuietZap ==
  ASSUME ZapInv, ZapDialog, ShownAsAwaited, ShownOfCurrent, None \notin Attempts,
         NEW a \in Attempts, Abandon(a) \/ NwcFails(a) \/ WeblnFails(a)
  PROVE  ShownAsAwaited' /\ ShownOfCurrent'
<1>1. UNCHANGED <<current, invoice, statusUrl, view>>
  BY DEF Abandon, NwcFails, WeblnFails, dialog
<1>2. /\ TypeOK /\ current \in Attempts \cup {None}
      /\ step \in [Attempts -> {"unused", "address", "metadata", "invoice", "nwc", "webln", "over"}]
  BY DEF ZapInv, TypeOK
<1>3. CASE Abandon(a)
  <2>1. a # current
    BY <1>3 DEF Abandon, Stale
  <2> QED BY <1>1, <1>2, <1>3, <2>1 DEF Abandon, Go, ShownAsAwaited, ShownOfCurrent
<1>4. CASE NwcFails(a) \/ WeblnFails(a)
  <2>1. PICK w \in SUBSET {"nwc", "webln"} : TryNext(a, w)
    BY <1>2, <1>4, TriesWallets
  <2>2. /\ step'[a] \in {"nwc", "webln", "over"}
        /\ \A b \in Attempts \ {a} : step'[b] = step[b]
    BY <1>2, <2>1, TryTyped
  <2>3. step[a] \in {"nwc", "webln"}
    BY <1>4 DEF NwcFails, WeblnFails
  <2> QED BY <1>1, <1>2, <2>2, <2>3 DEF ShownAsAwaited, ShownOfCurrent
<1> QED BY <1>3, <1>4

\* Every step keeps the dialog with the current attempt.
LEMMA NextZap == ASSUME NumbersOK, ZapInv, [Next]_vars PROVE ZapInv'
<1> USE DEF config, dialog
<1>1. TypeOK' /\ NobodyAsks'
  BY NextTyped, SamePage DEF ZapInv, NobodyAsks
<1>2. SUFFICES ASSUME ZapDialog, ShownAsAwaited, ShownOfCurrent, regtestPays = {}
               PROVE  ShownAsAwaited' /\ ShownOfCurrent'
  BY <1>1, SamePage DEF ZapInv, NobodyAsks, ZapDialog
<1>3. /\ TypeOK /\ current \in Attempts \cup {None} /\ None \notin Attempts
      /\ step \in [Attempts -> {"unused", "address", "metadata", "invoice", "nwc", "webln", "over"}]
  BY DEF ZapInv, TypeOK, Attempts, None, NumbersOK
<1>4. ASSUME PollInVain \/ PollAgain \/ PollRefused PROVE ShownAsAwaited' /\ ShownOfCurrent'
  BY <1>2, <1>4 DEF PollInVain, PollAgain, PollRefused, ShownAsAwaited, ShownOfCurrent
<1>5. ASSUME PollSaysPaid PROVE ShownAsAwaited' /\ ShownOfCurrent'
  <2>1. view = "waiting-payment"
    BY <1>3, <1>5 DEF PollSaysPaid, TypeOK
  <2> QED BY <1>2, <1>5, <2>1 DEF PollSaysPaid, Show, ShownAsAwaited, ShownOfCurrent
<1>6. ASSUME ClickLoggedOut \/ Close PROVE ShownAsAwaited' /\ ShownOfCurrent'
  BY <1>2, <1>6 DEF ClickLoggedOut, Close, Show, ShownAsAwaited, ShownOfCurrent
<1>7. ASSUME RegtestClick PROVE ShownAsAwaited' /\ ShownOfCurrent'
  BY <1>2, <1>7 DEF RegtestClick, ZapDialog
<1>8. ASSUME NEW a \in Attempts, Click(a) PROVE ShownAsAwaited' /\ ShownOfCurrent'
  <2>1. step'[a] = "address"
    BY <1>2, <1>3, <1>8 DEF Click, Go, ZapDialog
  <2> QED BY <1>8, <2>1 DEF Click, Show, ShownAsAwaited, ShownOfCurrent
<1>9. ASSUME NEW a \in Attempts, Abandon(a) \/ NwcFails(a) \/ WeblnFails(a)
      PROVE  ShownAsAwaited' /\ ShownOfCurrent'
  BY <1>2, <1>3, <1>9, QuietZap
<1>10. ASSUME NEW a \in Attempts, Fails(a) \/ RequestSigned(a) \/ NwcPaid(a) \/ AddressFound(a)
       PROVE  ShownAsAwaited' /\ ShownOfCurrent'
  <2>1. a = current
    BY <1>2, <1>10, NotStale DEF Fails, RequestSigned, NwcPaid, AddressFound
  <2>2. UNCHANGED <<current, invoice, statusUrl>>
    BY <1>10 DEF Fails, RequestSigned, NwcPaid, AddressFound
  <2>3. CASE Fails(a)
    BY <1>2, <1>3, <2>1, <2>2, <2>3 DEF Fails, Go, Show, ShownAsAwaited, ShownOfCurrent
  <2>4. CASE RequestSigned(a)
    BY <1>2, <1>3, <2>1, <2>2, <2>4 DEF RequestSigned, Go, Show, ShownAsAwaited, ShownOfCurrent
  <2>5. CASE NwcPaid(a)
    BY <1>2, <1>3, <2>1, <2>2, <2>5 DEF NwcPaid, Go, Show, ShownAsAwaited, ShownOfCurrent
  <2>6. CASE AddressFound(a)
    BY <1>2, <1>3, <2>1, <2>2, <2>6 DEF AddressFound, Go, ShownAsAwaited, ShownOfCurrent
  <2> QED BY <1>10, <2>3, <2>4, <2>5, <2>6
<1>11. ASSUME NEW a \in Attempts, InvoiceFetched(a) \/ WeblnPaid(a)
       PROVE  ShownAsAwaited' /\ ShownOfCurrent'
  <2>1. a = current /\ current' = current
    BY <1>2, <1>11, NotStale DEF InvoiceFetched, WeblnPaid
  <2>2. PICK w \in SUBSET {"nwc", "webln"} : TryNext(a, w)
    BY <1>3, <1>11, TriesWallets
  <2>3. step'[a] \in {"nwc", "webln", "over"}
    BY <1>3, <2>2, TryTyped
  <2>4. view' \in {"waiting-payment", "paid"} /\ invoice' = a /\ statusUrl' \in {None, a}
    BY <1>2, <1>3, <1>11, <2>1 DEF InvoiceFetched, WeblnPaid, Show, ShownAsAwaited, ShownOfCurrent
  <2> QED BY <1>3, <2>1, <2>3, <2>4 DEF ShownAsAwaited, ShownOfCurrent
<1>12. ASSUME NEW a \in Attempts, TimerFires(a) PROVE ShownAsAwaited' /\ ShownOfCurrent'
  BY <1>2, <1>12 DEF TimerFires, ZapDialog, ShownAsAwaited, ShownOfCurrent
<1>13. ASSUME NEW a \in Attempts, RegtestPaid(a) \/ RegtestFails(a)
       PROVE  ShownAsAwaited' /\ ShownOfCurrent'
  BY <1>2, <1>13 DEF RegtestPaid, RegtestFails
<1>14. ASSUME NEW a \in Attempts, NEW who \in {"nwc", "webln", "regtest", "somebody"}, Pay(a, who)
       PROVE  ShownAsAwaited' /\ ShownOfCurrent'
  BY <1>2, <1>14 DEF Pay, ShownAsAwaited, ShownOfCurrent
<1>15. CASE UNCHANGED vars
  BY <1>2, <1>15 DEF vars, ShownAsAwaited, ShownOfCurrent
<1> QED BY <1>4, <1>5, <1>6, <1>7, <1>8, <1>9, <1>10, <1>11, <1>12, <1>13, <1>14, <1>15
    DEF Next, AuthErrorDismissed, Superseded

\* What a change of the zap dialog may be.
Documented ==
  /\ <<view, view'>> \in Flow
  /\ view' \in {"waiting-payment", "paid"} => invoice' = current'
  /\ view' = "paid" => paid[invoice'] # "nobody"

\* Every change of the zap dialog is one of the documented flow, shows the current
\* attempt's invoice and says paid of a paid one.
LEMMA StepFollowsFlow ==
  ASSUME NumbersOK, ZapInv, Next, ZapDialog, view' # view
  PROVE  Documented
<1> USE DEF config, dialog
<1>1. /\ ShownAsAwaited /\ ShownOfCurrent /\ regtestPays = {}
      /\ current \in Attempts \cup {None} /\ None \notin Attempts
      /\ view \in {"idle", "pending-lnurl", "pending-invoice", "waiting-payment", "paid", "error"}
  BY DEF ZapInv, TypeOK, ZapDialog, NobodyAsks, Attempts, None, NumbersOK
<1>2. ASSUME PollSaysPaid PROVE Documented
  <2>1. view = "waiting-payment" /\ statusUrl # None
    BY <1>2 DEF PollSaysPaid, ZapInv, TypeOK
  <2>2. statusUrl = invoice /\ invoice = current
    BY <1>1, <2>1 DEF ShownOfCurrent
  <2> QED BY <1>2, <2>1, <2>2 DEF PollSaysPaid, Show, Flow, Documented
<1>3. ASSUME ClickLoggedOut PROVE Documented
  BY <1>3 DEF ClickLoggedOut, Show, Flow, Documented
<1>4. ASSUME Close PROVE Documented
  BY <1>1, <1>4 DEF Close, Show, Flow, Documented
<1>5. ASSUME NEW a \in Attempts, Click(a) PROVE Documented
  BY <1>5 DEF Click, Show, Flow, Documented
<1>6. ASSUME NEW a \in Attempts, Fails(a) PROVE Documented
  <2>1. a = current
    BY <1>6, NotStale DEF Fails
  <2>2. view \in {"pending-lnurl", "pending-invoice"} /\ view' = "error"
    BY <1>1, <1>6, <2>1 DEF Fails, Show, ShownAsAwaited
  <2> QED BY <2>2 DEF Flow, Documented
<1>7. ASSUME NEW a \in Attempts, RequestSigned(a) PROVE Documented
  <2>1. a = current
    BY <1>7, NotStale DEF RequestSigned
  <2>2. view = "pending-lnurl" /\ view' = "pending-invoice"
    BY <1>1, <1>7, <2>1 DEF RequestSigned, Show, ShownAsAwaited
  <2> QED BY <2>2 DEF Flow, Documented
<1>8. ASSUME NEW a \in Attempts, InvoiceFetched(a) PROVE Documented
  <2>1. a = current /\ current' = current
    BY <1>8, NotStale DEF InvoiceFetched
  <2>2. view = "pending-invoice" /\ view' = "waiting-payment" /\ invoice' = a
    BY <1>1, <1>8, <2>1 DEF InvoiceFetched, Show, ShownAsAwaited
  <2> QED BY <2>1, <2>2 DEF Flow, Documented
<1>9. ASSUME NEW a \in Attempts, NwcPaid(a) \/ WeblnPaid(a) PROVE Documented
  <2>1. a = current /\ current' = current /\ invoice' = invoice
    BY <1>9, NotStale DEF NwcPaid, WeblnPaid
  <2>2. view = "waiting-payment" /\ view' = "paid" /\ invoice = a /\ paid[a] # "nobody"
    BY <1>1, <1>9, <2>1 DEF NwcPaid, WeblnPaid, Show, ShownAsAwaited, ShownOfCurrent
  <2> QED BY <2>1, <2>2 DEF Flow, Documented
<1>10. ASSUME NEW a \in Attempts, RegtestPaid(a) PROVE Documented
  BY <1>1, <1>10 DEF RegtestPaid
<1>11. ASSUME NEW a \in Attempts, TimerFires(a) PROVE Documented
  BY <1>11 DEF TimerFires, ZapDialog
<1> QED BY <1>2, <1>3, <1>4, <1>5, <1>6, <1>7, <1>8, <1>9, <1>10, <1>11
    DEF Next, AuthErrorDismissed, PollInVain, PollAgain, PollRefused, RegtestClick, Superseded,
        Abandon, AddressFound, NwcFails, WeblnFails, RegtestFails, Pay

\* In every reachable state the dialog, its attempts and their payments have their types,
\* and the invoice is polled exactly while it is shown with a status URL.
THEOREM TypesCorrect == Spec => []TypeOK
<1>1. TypeOK /\ [Next]_vars => TypeOK'
  BY NextTyped
<1>2. Init => TypeOK
  BY InitZap DEF ZapInv
<1> QED BY <1>1, <1>2, PTL DEF Spec

\* Whatever attempts still run, and however many of them, the zap dialog changes as its
\* flow is documented, shows the current attempt's invoice only, and says paid only of an
\* invoice that is paid.
THEOREM FlowFollowed ==
  ASSUME NumbersOK
  PROVE  Spec => ZapFollowsFlow
<1>1. ZapInv /\ [Next]_vars => ZapInv'
  BY NumbersOK, NextZap
<1>2. ZapInv /\ [Next]_vars => [kind = "zap" /\ ~regtest /\ view' # view => Documented]_vars
  BY NumbersOK, StepFollowsFlow DEF ZapDialog
<1> QED BY InitZap, <1>1, <1>2, PTL DEF Spec, ZapFollowsFlow, Documented

=============================================================================
