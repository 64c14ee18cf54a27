----------------------------- MODULE PayWidget ------------------------------
(***************************************************************************)
(* The two widgets that take a payment, the tip widget and the pay-to-     *)
(* unlock button, and the PaymentConnection by which each learns that its  *)
(* invoice was paid: a socket that hears every payment event and, where    *)
(* the invoice has a provider reference, a poll every 1.5 seconds.  The    *)
(* server is the PaymentLedger; what it tells is broadcast.                *)
(***************************************************************************)
EXTENDS Sequences, FiniteSets, Naturals

CONSTANTS
  Charges,  \* the server's invoices
  Own,      \* those this widget asks for; the others are of other visitors
  WithRef,  \* those that come with a provider reference
  None

ASSUME PayWidgetAssumption ==
  /\ Own \subseteq Charges
  /\ WithRef \subseteq Own
  /\ None \notin Charges

VARIABLES
  \* the server
  settled, booked, told,
  \* the connection
  cur,        \* currentInvoice, with its provider reference
  isPaid,
  socket,     \* ws: none (or closed), connecting, open
  news,       \* payment events on their way on that socket
  online,     \* isOnline
  listening,  \* are the online and offline listeners installed
  reconnect,  \* is the reconnect timer set
  polling,    \* is the poll interval set
  polls,      \* invoices that polls in flight ask about
  \* the widget
  kind,       \* a tip widget, or a pay-to-unlock one without or with verifyPayment
  pc,         \* how far the request for each invoice is
  shown,      \* the widget's currentInvoice
  done,       \* didPay or didUnlock
  enabled,    \* the button of the pay-to-unlock widget
  verifying,  \* invoices verifyPayment was asked about
  \* observations
  calls,      \* calls of onPaid or onUnlock: the invoice named, the one seen paid
  crossed     \* were two invoices ever in use at the same time

server == <<settled, booked, told>>
link == <<socket, news, online, listening, reconnect, polling>>
connection == <<cur, isPaid, link, polls>>
widget == <<kind, pc, shown, done, enabled, verifying>>
vars == <<server, connection, widget, calls, crossed>>

Ledger == INSTANCE PaymentLedger

Tip == kind = "tip"
Verifies == kind = "verified"

Init ==
  /\ Ledger!Init
  /\ cur = None
  /\ isPaid = FALSE
  /\ socket = "none"
  /\ news = {}
  /\ online \in BOOLEAN
  /\ listening = TRUE
  /\ reconnect = FALSE
  /\ polling = FALSE
  /\ polls = {}
  /\ kind \in {"tip", "unlock", "verified"}
  /\ pc = [c \in Own |-> "new"]
  /\ shown = None
  /\ done = FALSE
  /\ enabled = TRUE
  /\ verifying = {}
  /\ calls = <<>>
  /\ crossed = FALSE

-----------------------------------------------------------------------------
(* The server and the payers *)

\* Whoever holds an invoice may pay it: the widget's visitor once it was shown.
Held(c) == c \in Own => pc[c] \in {"handing", "watched", "unwatched"}
Wanted(c) == c \in Own => pc[c] = "asking"

\* An invoice is made when asked for, the provider is paid, the server books it.
ServerStep(c) ==
  /\ \/ Wanted(c) /\ Ledger!Open(c)
     \/ Held(c) /\ Ledger!Settle(c)
     \/ Ledger!Book(c)
  /\ UNCHANGED <<connection, widget, calls, crossed>>

\* The event is sent, for each handler that sees the payment, to the open sockets.
TellPaid(c) ==
  /\ Ledger!Tell(c)
  /\ news' = IF socket = "open" THEN news \cup {c} ELSE news
  /\ UNCHANGED <<cur, isPaid, socket, online, listening, reconnect, polling, polls>>
  /\ UNCHANGED <<widget, calls, crossed>>

-----------------------------------------------------------------------------
(* PaymentConnection *)

StopKeepsPolling ==  \* Seeded fault: the interval is not cleared.
  /\ listening' = FALSE
  /\ socket' = "none"
  /\ news' = {}
  /\ reconnect' = FALSE
  /\ UNCHANGED <<online, polling>>

\* stop() and destroy(): the listeners go for good, the invoice is kept.
Stop ==
  /\ listening' = FALSE
  /\ socket' = "none"
  /\ news' = {}
  /\ polling' = FALSE
  /\ reconnect' = FALSE
  /\ UNCHANGED online

\* startWebSocket: a socket that is open or opening is kept.
Dialled == IF online /\ socket = "none" THEN "connecting" ELSE socket

StartAlwaysPolls(c) ==  \* Seeded fault: polling without a provider reference.
  /\ socket' = Dialled
  /\ polling' = TRUE
  /\ polls' = IF ~isPaid' THEN polls \cup {c} ELSE polls
  /\ UNCHANGED <<news, online, listening, reconnect>>

\* start() for the invoice c: the socket, and polling when there is a reference.
Start(c) ==
  /\ socket' = Dialled
  /\ polling' = (c \in WithRef)
  /\ polls' = IF c \in WithRef /\ ~isPaid' THEN polls \cup {c} ELSE polls
  /\ UNCHANGED <<news, online, listening, reconnect>>

SocketOpens ==
  /\ socket = "connecting"
  /\ socket' = "open"
  /\ UNCHANGED <<server, cur, isPaid, news, online, listening, reconnect, polling>>
  /\ UNCHANGED <<polls, widget, calls, crossed>>

\* onclose, and onerror before it; what was on its way is lost.
SocketDrops ==
  /\ socket # "none"
  /\ socket' = "none"
  /\ news' = {}
  /\ reconnect' = (reconnect \/ ~isPaid)
  /\ UNCHANGED <<server, cur, isPaid, online, listening, polling>>
  /\ UNCHANGED <<polls, widget, calls, crossed>>

ReconnectFires ==
  /\ reconnect
  /\ reconnect' = FALSE
  /\ socket' = Dialled
  /\ UNCHANGED <<server, cur, isPaid, news, online, listening, polling>>
  /\ UNCHANGED <<polls, widget, calls, crossed>>

\* handleOffline and handleOnline.  The reconnect timer is left as it is.
GoOffline ==
  /\ listening /\ online
  /\ online' = FALSE
  /\ socket' = "none"
  /\ news' = {}
  /\ UNCHANGED <<server, cur, isPaid, listening, reconnect, polling>>
  /\ UNCHANGED <<polls, widget, calls, crossed>>

GoOnline ==
  /\ listening /\ ~isPaid
  /\ ~online
  /\ online' = TRUE
  /\ socket' = IF socket = "none" THEN "connecting" ELSE socket
  /\ UNCHANGED <<server, cur, isPaid, news, listening, reconnect, polling>>
  /\ UNCHANGED <<polls, widget, calls, crossed>>

PollTickWithoutSocket ==  \* Seeded fault: no polls while the socket is open.
  /\ polling
  /\ socket # "open"
  /\ cur \in WithRef
  /\ ~isPaid
  /\ polls' = polls \cup {cur}
  /\ UNCHANGED <<server, cur, isPaid, link, widget, calls, crossed>>

PollTick ==
  /\ polling
  /\ cur \in WithRef
  /\ ~isPaid
  /\ polls' = polls \cup {cur}
  /\ UNCHANGED <<server, cur, isPaid, link, widget, calls, crossed>>

\* A poll that fails, or that was answered before the invoice was booked.
PollInVain(c) ==
  /\ c \in polls
  /\ polls' = polls \ {c}
  /\ UNCHANGED <<server, cur, isPaid, link, widget, calls, crossed>>

-----------------------------------------------------------------------------
(* What a widget does when it learns that c was paid *)

\* The tip widget's markPaid and the other's unlock, the first time: stop, and tell
\* the page.  A tip widget names the invoice it shows, and says nothing without one.
Acknowledge(c) ==
  /\ done' = TRUE
  /\ enabled' = Tip
  /\ Stop
  /\ calls' = IF shown = None THEN calls ELSE Append(calls, [said |-> shown, paid |-> c])

\* Seeded fault: the widget's own early return is missing.
PaidEachTime(c, rest) ==
  /\ isPaid' = TRUE
  /\ IF isPaid
     THEN /\ news' = rest
          /\ UNCHANGED <<socket, online, listening, reconnect, polling>>
          /\ UNCHANGED <<done, enabled, calls>>
     ELSE Acknowledge(c)

\* The connection's markPaid: the first time for this invoice, polling ends and the
\* widget is called, which may have acknowledged a payment before.
MarkPaid(c, rest) ==
  /\ isPaid' = TRUE
  /\ IF isPaid \/ done
     THEN /\ polling' = (polling /\ isPaid)
          /\ news' = rest
          /\ UNCHANGED <<socket, online, listening, reconnect>>
          /\ UNCHANGED <<done, enabled, calls>>
     ELSE Acknowledge(c)

\* handleMessage: an event counts when it is about the current invoice.
Matches(c) == c = cur

EventArrives(c) ==
  /\ c \in news
  /\ IF Matches(c)
     THEN MarkPaid(c, news \ {c})
     ELSE /\ news' = news \ {c}
          /\ UNCHANGED <<isPaid, socket, online, listening, reconnect, polling>>
          /\ UNCHANGED <<done, enabled, calls>>
  /\ UNCHANGED <<server, cur, polls, kind, pc, shown, verifying, crossed>>

\* pollOnce after its awaits: "paid" marks whatever invoice is current by now.
\* More polls about c may be in flight.
PollSaysPaid(c) ==
  /\ c \in polls
  /\ booked[c] = "paid"
  /\ polls' \in {polls, polls \ {c}}
  /\ MarkPaid(c, news)
  /\ UNCHANGED <<server, cur, kind, pc, shown, verifying, crossed>>

-----------------------------------------------------------------------------
(* The widgets *)

Busy == \E c \in Own : pc[c] \in {"asking", "handing"}

\* startTip, from the button, a preset (never disabled) or the page: the request for
\* an invoice is sent.
StartTip(c) ==
  /\ Tip
  /\ pc[c] = "new"
  /\ pc' = [pc EXCEPT ![c] = "asking"]
  /\ done' = FALSE
  /\ shown' = None
  /\ Stop
  /\ crossed' = (crossed \/ Busy \/ polls # {})
  /\ UNCHANGED <<server, cur, isPaid, polls, kind, enabled, verifying, calls>>

\* getInvoice, whose handler is registered twice: a click asks for two invoices.
Click(c, d) ==
  /\ ~Tip
  /\ enabled
  /\ c # d
  /\ pc[c] = "new" /\ pc[d] = "new"
  /\ pc' = [pc EXCEPT ![c] = "asking", ![d] = "asking"]
  /\ enabled' = FALSE
  /\ Stop
  /\ crossed' = TRUE
  /\ UNCHANGED <<server, cur, isPaid, polls, kind, shown, done, verifying, calls>>

\* The answer: the invoice is shown and handed to the page or to the clipboard.
Show(c) ==
  /\ pc[c] = "asking"
  /\ booked[c] # "absent"
  /\ pc' = [pc EXCEPT ![c] = "handing"]
  /\ shown' = c
  /\ UNCHANGED <<server, connection, kind, done, enabled, verifying, calls, crossed>>

\* No invoice, or onInvoice throws: an error is shown, nothing watches the invoice.
AttemptFails(c) ==
  /\ pc[c] \in {"asking", "handing"}
  /\ pc' = [pc EXCEPT ![c] = IF pc[c] = "asking" THEN "failed" ELSE "unwatched"]
  /\ enabled' = TRUE
  /\ UNCHANGED <<server, connection, kind, shown, done, verifying, calls, crossed>>

\* setInvoice and start, for this invoice, whatever is shown by now.
Watch(c) ==
  /\ pc[c] = "handing"
  /\ pc' = [pc EXCEPT ![c] = "watched"]
  /\ cur' = c
  /\ isPaid' = FALSE
  /\ Start(c)
  /\ verifying' = IF Verifies THEN verifying \cup {c} ELSE verifying
  /\ enabled' = TRUE
  /\ UNCHANGED <<server, kind, shown, done, calls, crossed>>

\* The refresh button of the tip widget, and "I paid" without verifyPayment and with
\* the connection idle: start() for the connection's current invoice.
Restart ==
  /\ shown # None
  /\ ~done
  /\ Tip \/ (kind = "unlock" /\ socket = "none")
  /\ isPaid' = isPaid
  /\ Start(cur)
  /\ crossed' = (crossed \/ cur \notin {shown, None})
  /\ UNCHANGED <<server, cur, widget, calls>>

\* "I paid" with verifyPayment.
AskVerifier ==
  /\ Verifies
  /\ shown # None
  /\ ~done
  /\ verifying' = verifying \cup {shown}
  /\ UNCHANGED <<server, connection, kind, pc, shown, done, enabled, calls, crossed>>

\* verifyPayment is the page's own; it says yes to an invoice that was paid.
Verified(c) ==
  /\ c \in verifying
  /\ verifying' = verifying \ {c}
  /\ IF c \in settled /\ ~done
     THEN Acknowledge(c)
     ELSE UNCHANGED <<link, done, enabled, calls>>
  /\ UNCHANGED <<server, cur, isPaid, polls, kind, pc, shown, crossed>>

\* destroy, when the page takes the widget away: requests in flight run on.
Destroy ==
  /\ Stop
  /\ UNCHANGED <<server, cur, isPaid, polls, widget, calls, crossed>>

Next ==
  \/ \E c \in Charges : ServerStep(c) \/ TellPaid(c) \/ EventArrives(c)
  \/ SocketOpens \/ SocketDrops \/ ReconnectFires \/ GoOffline \/ GoOnline
  \/ PollTick
  \/ \E c \in Own : PollInVain(c) \/ PollSaysPaid(c) \/ Verified(c)
  \/ \E c \in Own : StartTip(c) \/ Show(c) \/ AttemptFails(c) \/ Watch(c)
  \/ \E c, d \in Own : Click(c, d)
  \/ Restart \/ AskVerifier \/ Destroy

Spec == Init /\ [][Next]_vars

-----------------------------------------------------------------------------
(* Properties *)

TypeOK ==
  /\ settled \subseteq Charges /\ told \subseteq Charges
  /\ booked \in [Charges -> {"absent", "open", "paid"}]
  /\ cur \in Own \cup {None}
  /\ socket \in {"none", "connecting", "open"}
  /\ news \subseteq told
  /\ socket # "open" => news = {}
  /\ {isPaid, online, listening, reconnect, polling, done, enabled, crossed} \subseteq BOOLEAN
  /\ polling => cur \in WithRef
  /\ polls \subseteq WithRef
  /\ kind \in {"tip", "unlock", "verified"}
  /\ pc \in [Own -> {"new", "asking", "handing", "watched", "failed", "unwatched"}]
  /\ shown \in Own \cup {None}
  /\ verifying \subseteq Own
  /\ calls \in Seq([said : Own, paid : Charges])

\* The page hears of a payment only when an invoice this widget asked for was paid, by
\* whichever of the three ways and however late the widget learned of it; and a tip
\* widget names no invoice twice, though the same payment may be seen by an event and
\* by several polls, while the other unlocks once.
ToldOncePaid ==
  /\ \A i \in DOMAIN calls : calls[i].paid \in settled \cap Own
  /\ \A i, j \in DOMAIN calls : calls[i].said = calls[j].said => i = j
  /\ ~Tip => Len(calls) <= 1

\* The invoice named is the one that was paid, and a widget that thanks its visitor
\* has told the page, unless two invoices were in use at once: a request made while
\* another runs or a poll is unanswered, or the connection restarted for an invoice
\* that is no longer the one shown.
RightInvoiceNamed ==
  ~crossed =>
    /\ \A i \in DOMAIN calls : calls[i].said = calls[i].paid
    /\ done => calls # <<>> /\ calls[Len(calls)].said = shown

\* Timers fire, the server books what was settled, and a status endpoint asked again
\* and again answers.
Fairness ==
  /\ WF_vars(PollTick)
  /\ \A c \in Own : WF_vars(ServerStep(c)) /\ SF_vars(PollSaysPaid(c))

FairSpec == Spec /\ Fairness

\* A payment for the invoice being polled about is noticed by the connection, unless
\* the polling is stopped or turned to another invoice.
PaidIsNoticed ==
  \A c \in WithRef :
    (polling /\ cur = c /\ c \in settled) ~> (isPaid \/ ~polling \/ cur # c)

=============================================================================
