----------------------------- MODULE ZapPayment -----------------------------
(***************************************************************************)
(* The two payment dialogs of the React package: the zap button, and the   *)
(* form that sends sats to a profile.  An attempt resolves an address,     *)
(* fetches an invoice, lets the wallets of the page pay it, one after the  *)
(* other, and starts a timer of five minutes; meanwhile an effect polls    *)
(* the invoice's status.  The dialog can be closed and opened for another  *)
(* attempt at any moment, and earlier attempts run on.  The zap button     *)
(* numbers its attempts and lets only the current one touch the dialog;    *)
(* the form does not.  Left out: telemetry, the line that tells of the     *)
(* wallet request, and copying the invoice.                                *)
(***************************************************************************)
EXTENDS Naturals

CONSTANT MaxAttempts  \* bound: clicks that start an attempt

Attempts == 1..MaxAttempts
None == 0

VARIABLES
  kind,       \* "zap", the button, or "send", the form
  regtest,    \* regtestAvailable
  wallets,    \* those of the page: an NWC connection, WebLN
  view,       \* zapState, sendState
  current,    \* the attempt activeRequestIdRef stands for; the form has no such thing
  invoice,    \* the attempt whose invoice is shown
  statusUrl,  \* the attempt whose status URL is known
  authError,  \* shouldAutoDismissAuthError
  step,       \* what each attempt awaits
  poll,       \* the effect's polling
  timers,     \* attempts whose five minutes run
  timerRef,
  timedOut,
  regtestPays,  \* invoices that the regtest endpoint is asked to pay
  paid          \* who paid each invoice

config == <<kind, regtest, wallets>>
dialog == <<view, current, invoice, statusUrl, authError, timedOut>>
vars == <<config, dialog, step, poll, timers, timerRef, regtestPays, paid>>

Init ==
  /\ kind \in {"zap", "send"}
  /\ regtest \in BOOLEAN
  /\ wallets \in SUBSET {"nwc", "webln"}
  /\ view = "idle"
  /\ current = None /\ invoice = None /\ statusUrl = None
  /\ authError = FALSE
  /\ step = [a \in Attempts |-> "unused"]
  /\ poll = "off"
  /\ timers = {} /\ timerRef = None /\ timedOut = FALSE
  /\ regtestPays = {}
  /\ paid = [a \in Attempts |-> "nobody"]

-----------------------------------------------------------------------------
(* The dialog and its polling *)

\* The effect on [zapState, statusUrl]: a poll in flight for what was shown before is dropped.
Rendered ==
  poll' = IF <<view', statusUrl'>> = <<view, statusUrl>> THEN poll
          ELSE IF view' = "waiting-payment" /\ statusUrl' # None THEN "asking"
          ELSE "off"

Show(v) == view' = v /\ Rendered

\* The answer says unpaid, or none came: the next poll is four seconds later.
PollInVain ==
  /\ poll = "asking"
  /\ poll' = "waiting"
  /\ UNCHANGED <<config, dialog, step, timers, timerRef, regtestPays, paid>>

\* Seeded fault: only the first poll sets the timer for another.
PollOnceMore == FALSE

PollAgain ==
  /\ poll = "waiting"
  /\ poll' = "asking"
  /\ UNCHANGED <<config, dialog, step, timers, timerRef, regtestPays, paid>>

\* An answer that is not ok: no timer is set, and nothing polls this invoice any more.
PollRefused ==
  /\ poll = "asking"
  /\ poll' = "ended"
  /\ UNCHANGED <<config, dialog, step, timers, timerRef, regtestPays, paid>>

PollSaysPaid ==
  /\ poll = "asking"
  /\ paid[statusUrl] # "nobody"
  /\ UNCHANGED <<config, current, invoice, statusUrl, authError, timedOut>>
  /\ Show("paid")
  /\ UNCHANGED <<step, timers, timerRef, regtestPays, paid>>

-----------------------------------------------------------------------------
(* Opening and closing *)

Go(a, s) == step' = [step EXCEPT ![a] = s]

\* handleZap, handleSend: the button is disabled unless the dialog is idle.
Click(a) ==
  /\ view = "idle"
  /\ step[a] = "unused" /\ \A b \in Attempts : step[b] = "unused" => a <= b
  /\ current' = a
  /\ authError' = FALSE
  /\ invoice' = None /\ statusUrl' = None
  /\ Show("pending-lnurl")
  /\ Go(a, IF kind = "zap" THEN "address" ELSE "metadata")
  /\ UNCHANGED <<config, timedOut, timers, timerRef, regtestPays, paid>>

\* The zap button's dialog says so and goes away by itself; the form shows a line.
ClickLoggedOut ==
  /\ view = "idle" /\ kind = "zap"
  /\ current' = None
  /\ authError' = TRUE
  /\ UNCHANGED <<config, invoice, statusUrl, timedOut>>
  /\ Show("error")
  /\ UNCHANGED <<step, timers, timerRef, regtestPays, paid>>

\* handleCloseZap, handleClose: only the timer set last is cleared.
Close ==
  /\ view # "idle"
  /\ current' = None
  /\ invoice' = None /\ statusUrl' = None
  /\ authError' = FALSE /\ timedOut' = FALSE
  /\ Show("idle")
  /\ timers' = timers \ {timerRef}
  /\ timerRef' = None
  /\ UNCHANGED <<config, step, regtestPays, paid>>

AuthErrorDismissed == authError /\ view = "error" /\ Close

-----------------------------------------------------------------------------
(* An attempt *)

\* Seeded fault: an attempt never asks whether it is still the current one.
NeverStale(a) == FALSE

\* The test after each await.
Stale(a) == kind = "zap" /\ a # current

Abandon(a) ==
  /\ Stale(a)
  /\ Go(a, "over")
  /\ UNCHANGED <<config, dialog, poll, timers, timerRef, regtestPays, paid>>

\* No address, metadata that does not allow the amount, no signature, no invoice.
Fails(a) ==
  /\ step[a] \in {"address", "metadata", "invoice"}
  /\ ~Stale(a)
  /\ UNCHANGED <<config, current, invoice, statusUrl, authError, timedOut>>
  /\ Show("error")
  /\ Go(a, "over")
  /\ UNCHANGED <<timers, timerRef, regtestPays, paid>>

AddressFound(a) ==
  /\ step[a] = "address"
  /\ ~Stale(a)
  /\ Go(a, "metadata")
  /\ UNCHANGED <<config, dialog, poll, timers, timerRef, regtestPays, paid>>

\* The metadata is there and the zap request signed.
RequestSigned(a) ==
  /\ step[a] = "metadata"
  /\ ~Stale(a)
  /\ UNCHANGED <<config, current, invoice, statusUrl, authError, timedOut>>
  /\ Show("pending-invoice")
  /\ Go(a, "invoice")
  /\ UNCHANGED <<timers, timerRef, regtestPays, paid>>

StartTimer(a) == timers' = timers \cup {a} /\ timerRef' = a

\* The wallets w are left to be tried; after the last one the timer starts.
TryNext(a, w) ==
  IF w # {}
  THEN Go(a, IF "nwc" \in w THEN "nwc" ELSE "webln") /\ UNCHANGED <<timers, timerRef>>
  ELSE Go(a, "over") /\ StartTimer(a)

\* The status URL is unknown without a reference, or when it is on another origin.
InvoiceFetched(a) ==
  /\ step[a] = "invoice"
  /\ ~Stale(a)
  /\ invoice' = a
  /\ statusUrl' \in {None, a}
  /\ UNCHANGED <<config, current, authError, timedOut>>
  /\ Show("waiting-payment")
  /\ TryNext(a, wallets)
  /\ UNCHANGED <<regtestPays, paid>>

\* The wallet's answer is heard: no timer is set.
NwcPaid(a) ==
  /\ step[a] = "nwc" /\ paid[a] = "nwc"
  /\ ~Stale(a)
  /\ UNCHANGED <<config, current, invoice, statusUrl, authError, timedOut>>
  /\ Show("paid")
  /\ Go(a, "over")
  /\ UNCHANGED <<timers, timerRef, regtestPays, paid>>

\* Over the limit, not published, refused, or no answer in fifteen seconds: one that was
\* sent before the subscription opened is not heard, though the invoice is paid.
NwcFails(a) ==
  /\ step[a] = "nwc"
  /\ ~Stale(a)
  /\ TryNext(a, wallets \ {"nwc"})
  /\ UNCHANGED <<config, dialog, poll, regtestPays, paid>>

WeblnPaid(a) ==
  /\ step[a] = "webln" /\ paid[a] = "webln"
  /\ ~Stale(a)
  /\ UNCHANGED <<config, current, invoice, statusUrl, authError, timedOut>>
  /\ Show("paid")
  /\ TryNext(a, {})
  /\ UNCHANGED <<regtestPays, paid>>

\* Nobody asks here whether the attempt is still the current one.
WeblnFails(a) ==
  /\ step[a] = "webln"
  /\ TryNext(a, {})
  /\ UNCHANGED <<config, dialog, poll, regtestPays, paid>>

\* The awaits after which a stale attempt goes no further.
Superseded(a) ==
  /\ step[a] \notin {"unused", "over"}
  /\ step[a] = "webln" => paid[a] = "webln"
  /\ Abandon(a)

\* Five minutes: the zap dialog says so, the form closes whatever dialog is open.
TimerFires(a) ==
  /\ a \in timers
  /\ timers' = timers \ {a}
  /\ UNCHANGED <<config, current, statusUrl, authError>>
  /\ IF kind = "zap"
     THEN timedOut' = (timedOut \/ a = current) /\ UNCHANGED <<view, invoice, poll>>
     ELSE invoice' = None /\ Show("idle") /\ UNCHANGED timedOut
  /\ UNCHANGED <<step, timerRef, regtestPays, paid>>

-----------------------------------------------------------------------------
(* Payments *)

\* An invoice is paid once: by a wallet that was asked to, the demo's endpoint, or
\* whoever scanned it, an NWC wallet that was late included.  Left out: payments that
\* come when no dialog shows the invoice and no attempt waits for them.
Pay(a, who) ==
  /\ paid[a] = "nobody"
  /\ \/ who \in {"nwc", "webln"} /\ step[a] = who
     \/ who = "regtest" /\ a \in regtestPays
     \/ who = "somebody" /\ (step[a] \in {"nwc", "webln"} \/ invoice = a)
  /\ paid' = [paid EXCEPT ![a] = who]
  /\ UNCHANGED <<config, dialog, step, poll, timers, timerRef, regtestPays>>

\* handleRegtestPay, which the dialog offers beside the invoice.
RegtestClick ==
  /\ regtest /\ view = "waiting-payment" /\ invoice # None
  /\ regtestPays' = regtestPays \cup {invoice}
  /\ UNCHANGED <<config, dialog, step, poll, timers, timerRef, paid>>

\* The answer is taken whatever the dialog shows by then.
RegtestPaid(a) ==
  /\ a \in regtestPays /\ paid[a] = "regtest"
  /\ regtestPays' = regtestPays \ {a}
  /\ statusUrl' = None /\ timedOut' = (kind = "send" /\ timedOut)
  /\ UNCHANGED <<config, current, invoice, authError>>
  /\ Show("paid")
  /\ UNCHANGED <<step, timers, timerRef, paid>>

RegtestFails(a) ==
  /\ a \in regtestPays
  /\ regtestPays' = regtestPays \ {a}
  /\ UNCHANGED <<config, dialog, step, poll, timers, timerRef, paid>>

Next ==
  \/ PollInVain \/ PollAgain \/ PollRefused \/ PollSaysPaid
  \/ ClickLoggedOut \/ Close \/ AuthErrorDismissed \/ RegtestClick
  \/ \E a \in Attempts :
       \/ Click(a) \/ Superseded(a) \/ Fails(a)
       \/ AddressFound(a) \/ RequestSigned(a) \/ InvoiceFetched(a)
       \/ NwcPaid(a) \/ NwcFails(a) \/ WeblnPaid(a) \/ WeblnFails(a)
       \/ TimerFires(a) \/ RegtestPaid(a) \/ RegtestFails(a)
       \/ \E who \in {"nwc", "webln", "regtest", "somebody"} : Pay(a, who)

Spec == Init /\ [][Next]_vars

\* Timers fire, and polls that are repeated for ever are answered some time.
Fairness == WF_vars(PollAgain) /\ SF_vars(PollSaysPaid)

FairSpec == Spec /\ Fairness

-----------------------------------------------------------------------------
TypeOK ==
  /\ kind \in {"zap", "send"} /\ regtest \in BOOLEAN /\ wallets \subseteq {"nwc", "webln"}
  /\ view \in {"idle", "pending-lnurl", "pending-invoice", "waiting-payment", "paid", "error"}
  /\ {current, invoice, statusUrl, timerRef} \subseteq Attempts \cup {None}
  /\ authError \in BOOLEAN /\ timedOut \in BOOLEAN
  /\ step \in [Attempts -> {"unused", "address", "metadata", "invoice", "nwc", "webln", "over"}]
  /\ poll \in {"off", "asking", "waiting", "ended"}
  /\ poll # "off" <=> view = "waiting-payment" /\ statusUrl # None
  /\ timers \subseteq Attempts /\ regtestPays \subseteq Attempts
  /\ paid \in [Attempts -> {"nobody", "nwc", "webln", "regtest", "somebody"}]

\* docs/flows/send-sats-journey.md, "Zap flow states", with closing at any moment and the
\* message for who is not logged in.
Flow ==
  {<<"idle", "pending-lnurl">>, <<"pending-lnurl", "pending-invoice">>,
   <<"pending-invoice", "waiting-payment">>, <<"waiting-payment", "paid">>, <<"idle", "error">>}
  \cup {<<v, "error">> : v \in {"pending-lnurl", "pending-invoice"}}
  \cup {<<v, "idle">> : v \in {"pending-lnurl", "pending-invoice", "waiting-payment", "paid", "error"}}

\* The zap dialog follows the documented flow, shows the current attempt's invoice only,
\* and says paid of a paid one only, however many earlier attempts still run.
ZapFollowsFlow ==
  [][kind = "zap" /\ ~regtest /\ view' # view =>
       /\ <<view, view'>> \in Flow
       /\ view' \in {"waiting-payment", "paid"} => invoice' = current'
       /\ view' = "paid" => paid[invoice'] # "nobody"]_vars

\* "Transitions mirror zap flow": the form says paid only of the invoice it shows, and
\* only when that is paid.
SendSaysPaidOfPaid ==
  [][kind = "send" /\ ~regtest /\ view' = "paid" /\ view # "paid" =>
       invoice' # None /\ paid[invoice'] # "nobody"]_vars

Polled(a) == view = "waiting-payment" /\ statusUrl = a /\ poll # "ended"

\* While an invoice's status is polled, its payment is noticed, whoever made it and
\* whether or not the wallet's answer was heard.
PaymentIsSeen ==
  \A a \in Attempts : Polled(a) /\ paid[a] # "nobody" ~> ~Polled(a)

=============================================================================
