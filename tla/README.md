# A TLA+ model of nostrstack

nostrstack is a TypeScript monorepo: an API server (`apps/api`, Fastify and
Prisma) that takes and makes Lightning payments and serves Nostr data, a web
application (`apps/web`), embeddable widgets (`packages/widgets`), React
components, an SDK and a fork of nostr-tools. Paths below are relative to
`src/`. This directory models the parts whose correctness depends on the order
of events: handlers that wait for a database, a Lightning provider or a client
between two steps, while other handlers run.

Node runs one piece of JavaScript at a time, so everything between two awaits is
one atomic step; every await lets any other handler run. That is the grain of
all the modules here: an action is what one handler does from one await to the
next, with every state change on the way.

## 1. The system

| Component | State | Operations | Interacts with | Hard parts | Correct when |
|---|---|---|---|---|---|
| Incoming payments (`routes/pay.ts`, `pay-webhook.ts`, `lnurlp-callback.ts`, `regtest-pay.ts`, `services/payment-status.ts`, `payment-reconciler.ts`, `pay-events.ts`, `providers/*`) | `Payment` rows; the set of sockets on `/ws/pay` | create an invoice (2 endpoints), 3 webhooks, 2 polls, the reconciler's sweep, regtest pay, broadcast | provider, database, widgets, relays (zap receipt) | stale rows, lost, late and repeated webhooks, overlapping sweeps, crashes between update and event | nothing says paid before the provider has the money; paid is final; a settled invoice is stored as paid in the end |
| LNURL-withdraw (`routes/lnurl-withdraw.ts`, `services/lnurl-withdraw.ts`) | `LnurlWithdrawSession` | create, look up, callback: lock, pay, record, revert | LNbits, the user's wallet | two callbacks at once, deadline during a payment, a payment whose outcome is unknown, crashes | one payout per session, none unrecorded |
| LNURL-auth and the login dialog (`routes/lnurl-auth.ts`, `services/lnurl-auth.ts`, `LoginScreen.tsx`, `auth.tsx`) | `LnurlAuthSession`; the dialog's status and request, the logged-in key | create, callback, status; open, poll, close, log in and out | the user's wallet | two wallets at once, deadline, polls answered late or out of order | who is logged in has signed; a verified session logs in |
| Payment connection and pay widgets (`packages/widgets/src/core/paymentConnection.ts`, `tipWidget.ts`, `payToAction.ts`) | socket, timers, current invoice, paid flag | set invoice, start, stop, reconnect, poll, mark paid | `/ws/pay`, the status endpoint | answers about the previous invoice, reconnect timers, offline and online events | paid is reported for the invoice that was paid, once |
| Tips feed (`routes/tips-ws.ts`, `tips.ts`, `tipsFeedConnection.ts`) | clients by tenant, client's socket and seen tips | connect with a cap, tip events, polling fallback | payments | events during the connection's awaits, sockets left open, lists trimmed | no tip is given twice, and the list and its number agree |
| Wallet push (`routes/wallet-ws.ts`) | clients, shared fetch, backoff, last snapshot | connect, tick, broadcast | LNbits | shared fetch, snapshot moved by one client | every client learns the last balance |
| Telemetry (`telemetry/*`, `routes/telemetry-ws.ts`) | last block and error sent, failures; the cached summary | poll, push, back off, give up | bitcoind, esplora | failures between the height and the block, a reorganisation, giving up | the newest block reaches every viewer while the poller runs |
| Nostr event cache and resolver (`nostr/*`, `services/cache-prune.ts`) | cached events and replies with expiry | get, fill, prune, resolve, page through replies | relays | pages over relays that differ, replies in circles, two expiries at once | pages fit together; a cached answer is never past its expiry |
| Identity resolution (`services/nip05-cache.ts`, `routes/nostr-identity.ts`) | cached identities | get, fill, prune | DNS, HTTP | as above | as above |
| LNURL-pay metadata, users, tenants | none beyond single rows | parse, look up | | first request creates the default tenant | |
| BOLT12 offers | none | run a command | core-lightning | | |
| Administration, configuration, logs | single rows, a ring of log lines | | | | |
| Relay pool (`packages/nostr-tools/src/pool.ts`) | connections, subscriptions | ensure, subscribe, close | relays | close before open, waiters of a shared connection | a closed subscription stays closed |
| Zap batcher (`apps/web/src/hooks/zapBatcher.ts`) | queue, bounded cache, seen zaps | batch, count, evict | relay pool | a batch closes the one before | a zap counts once |
| Payment dialogs and wallet connect (`zap-button.tsx`, `send-sats.tsx`, `nwc.ts` of `packages/react`) | the dialog's state, the attempt it shows, attempts that still run, the timer | start, close, pay by NWC, WebLN or regtest, poll, time out | the API, wallets, relays | attempts that were closed and run on, a wallet's answer nobody hears | paid is said of the invoice that is shown and paid |
| Event page (`EventDetailScreen.tsx`) | the note and its replies, the load that is not cancelled | load from cache, API or relays; load more replies | the API, relays | a cancelled load that goes on, more replies that come after a reload | replies do not load for ever, none is missing in between |
| Rest of the web application, other widgets, SDK | rendering state | | | | |

`PROJECT.json` lists the same components with their files and status, and under
"hazards" each place where something can go wrong that a test would hardly
reach, at its line, with the properties that watch it.

## 2. Modules

| Module | Models | Composes |
|---|---|---|
| `Payments` | the server's handlers of incoming payments | `PaymentLedger` (refinement) |
| `PaymentLedger` | what the payment service promises of an invoice | |
| `LnurlWithdraw` | withdraw sessions and the callback that pays | |
| `LnurlAuth` | the API server's side of LNURL-auth: an open system of variables and actions | |
| `LnurlLogin` | the login dialog, against those sessions | `LnurlAuth` |
| `PayWidget` | the connection that watches an invoice, with the tip widget and the pay-to-unlock button | `PaymentLedger` (the server) |
| `ZapPayment` | the zap button and the send-sats form | |
| `TipsFeed` | the tips socket of the server, and the feed widget | |
| `EventReplies` | the API's pages of replies, and the event page | |
| `WalletPush` | the wallet's balance on `/ws/wallet` | |
| `TelemetryPush` | the newest block on `/ws/telemetry` | |
| `PoolSubscriptions` | subscriptions of the relay pool: an open system | |
| `ZapBatcher` | the batches of zap requests, and their cache | `PoolSubscriptions` |
| `MCPayments`, `MCLnurlWithdraw`, `MCPayWidget`, `MCEventReplies` | names for the instances, and the initial states that are explored | the module named |
| `MCDialogs` | the login or the payment dialogs | `LnurlLogin`, `ZapPayment` |
| `MCFeeds` | the tips of an item or the replies to a note | `TipsFeed`, `MCEventReplies` |
| `MCLiveData` | the zaps of notes, the balance or the newest block | `ZapBatcher`, `WalletPush`, `TelemetryPush` |
| `PaymentsProofs`, `LnurlWithdrawProofs`, `PayWidgetProofs` | theorems | the component named |
| `ZapPaymentProofs`, `EventRepliesProofs` | theorems that `DialogsProofs` and `FeedsProofs` use | the component named |
| `DialogsProofs` | theorems about the logins and the payment dialogs | `MCDialogs`, `ZapPaymentProofs` |
| `FeedsProofs` | theorems about the tips and the replies | `MCFeeds`, `EventRepliesProofs` |
| `LiveDataProofs` | theorems about the balance, the blocks and the zaps | `MCLiveData` |

`MCDialogs`, `MCFeeds` and `MCLiveData` extend one of their parts (`LnurlLogin`,
`TipsFeed`, `ZapBatcher`) and have the others as instances. They choose in their initial
state, with the variable `part`, which of their parts a behaviour explores, and leave the others
where they start. The parts share no state and none waits for another, so nothing
is lost by not interleaving them; each run checks what it would check of each part
alone.

A definition whose comment starts with "Seeded fault" stands before the
definition it is a plausible mistake in. No behaviour uses it; "mutants" in
`PROJECT.json` says which property fails when it replaces its original.

### Payments

`row` and `age` are the `Payment` table: the status of each row and its place by
`updatedAt`, which is all the reconciler's query looks at (status not paid,
updated within 24 hours, newest twenty; `age` 0 is older than a day). `charge` is
the provider's own record. `h` holds the handlers in flight by slot: which one,
the await it is at, the rows it read, the one it works on and the status it is
about to store. A handler that read its row keeps that copy (`prev`) to the end,
as the code does with `payment.status`.

* Creating: `CreateCharge`, `StoreRow`, `Answer`; `IssueFails` when any of it
  throws. Only `Answer` (the reply, and `invoice-created`, sent in the same turn)
  puts the invoice into a payer's hands, `known`.
* Asking: `StartPoll` for the two status endpoints and `StartSweep` for the
  reconciler, then `Ask` (the provider answers with its state at that moment)
  and `Write` and `Announce`. The early returns are guards: a row read as paid,
  a status that has not changed, anything but paid for the legacy poll.
* Webhooks: `LnbitsWebhook`, `LegacyWebhook`, `LnurlWebhook`. `hooks` only grows,
  and a call in it may be delivered at any time, again, or never.
* `LnurlWebhook` looks the row up in the tenant that the call's Host names
  (`lnurlp-callback.ts:373`), while `POST /api/pay` stores its rows for the domain in
  its body: `HostCharges` are the invoices whose row it finds. The endpoints for LNbits
  look in the rows of all tenants. It also publishes the zap receipt
  (`PublishReceipt`) before it announces. `PayOnRegtest` announces without storing.
* `Crash` drops all handlers in flight; rows, provider and payers stay.

### LnurlWithdraw

`status` and `due` are the session rows and whether their deadline has passed.
`Look` is `getWithdrawSession`: past the deadline it goes on to `Expire`, which
overwrites any status. The callback then takes the lock (`Lock`, an `updateMany`
that names `PENDING`), asks LNbits (`Pay`, `PayUnanswered`, `PayRefused`),
records (`Record`) or, in the catch, puts the session back to pending (`Revert`).
`paid` is what left the server's wallet, `unsure` the payments whose request was
told of a failure all the same, `granted` the sessions answered OK. LNbits does
not pay an invoice twice; that is a fact about Lightning and is assumed.

### LnurlAuth and LnurlLogin

`LnurlAuth` has the server's session rows and the requests in flight. A callback
looks at the session (`Look`), and if it is pending and the signature is right
goes on to `Bind`, an update that names k1 only. `LnurlLogin` is the only one
that creates sessions and asks for their status: the dialog polls every two
seconds and on the answer logs in, shows that the session has expired, or an
error. A poll's answer is kept in its slot (`says`) until it arrives. `heard`
are the polls of the dialog that is mounted: after a login the old dialog is gone
and its late answers change nothing on screen, but a late "VERIFIED" still
calls `loginWithLnurl`, as in the code, whose `active` flag is looked at only
before the request is sent.

### PayWidget

The server is `PaymentLedger`, which `Payments` implements, so the widget is checked
against what the server promises and not against its handlers. `socket`, `news`,
`reconnect`, `polling` and `polls` are the connection's socket, the events on their
way, its timer, its interval and the polls in flight; `cur` and `isPaid` its invoice
and flag. `Stop` and `Start` are what the widgets call; `Stop` also removes the
browser's online and offline listeners for good, as `paymentConnection.ts:104` does.
`MarkPaid` is the connection's `markPaid` with the callback of the widget, which may
have thanked its visitor before. `kind` chooses the widget. `StartTip` is never
disabled: a second tip may be asked for while the first is. `Click` of the
pay-to-unlock button asks for two invoices, because its handler is registered twice
(`payToAction.ts:258`); so it takes both of the widget's two invoices. `calls` are
the calls of the page's `onPaid` and `onUnlock`, and `crossed` says that two invoices
were ever in use at once: then the widget names the one it shows, which need not be
the one that was paid, and `RightInvoiceNamed` says nothing.

### ZapPayment

One dialog, the zap button or the form, and attempts that run beside it: each awaits
an address, a signature, an invoice or a wallet (`step`). `current` is the number that
the zap button looks at after each await (`Stale`); the form has none. `poll` is the
effect that polls the status, dropped whenever its dependencies change (`Rendered`).
The request to a connected wallet is one step: it is answered, fails, or is paid with
an answer nobody hears (`nwc.ts:271` publishes before it subscribes).

### TipsFeed

The server's half has the sockets as it sees them (`sock`: dialled, its tenant being
looked up, listed, closing), with the cap on all of them and other visitors who come
and go. The widget's half has `wired`, the sockets whose handlers are installed: more
than one when it dials while another is open, because `connectWebSocket` replaces `ws`
without closing it. `seenIds` are the tips the connection passed on; `rows`, `seen`
and `count` belong to the list. Tips are numbers in the order of their `createdAt`, so
that `rows` can be what the page shows: `ShowTips` puts the new ones on top and cuts the
list to `MaxItems`, while `seen` and `count` go on growing; `Replaced` tips, of a refresh,
start both over. `loads` keep the answer of the moment a request is served, so it may
be old when it arrives. The two ways to tips need not agree on the tenant: the widget
names its domain to the socket (`OfDomain`) and none in its requests, which are therefore
about the tenant of the API's host (`OfHost`).

`matching` says whether the API answers where the widget asks. The one of this repository
does not: the widget asks at `/api/tips/<item>` and reads `amount`
(`tipsFeedConnection.ts:124`, `152` and `305`), the server has `/api/tips?itemId=` and
`amountSats` (`routes/tips.ts:17` and `86`), so that every list and every poll is read as
no tips and only the socket brings any. The widget's tests have an API that matches, and
both are among the initial states.

### EventReplies

A thread is fixed at the start: when each reply is dated, which one it answers, which
relays hold it; `Publish` brings the next. `Page(R, cursor)` is `fetchReplies` when the
relays in `R` answer in time (healthy ones, the note's own or all: the code's choice
only makes `R` smaller, and no answer at all is answered with an empty page). It is
built from `Newest`, what a relay returns of a query with a limit; `FindReplyCycles`,
which is recursive functions as the code is loops (`WalkFrom` counts the hops of one
walk, `Visit` adds a walk to what earlier ones found) and is compared with `InLoops`, the
definition of a circle; and `Latest`, the last `Limit` in order. The page's half has one `step` for each load: the
effect's cleanup only sets `cancelled`, so a load goes on behind the next one, and the
places where the code asks for `cancelled` are the guards `~Cancelled(l)`. Targets that
are profiles or addresses have no replies and are left out, and so is refreshing a
cached note, whose id names its content.

### WalletPush and TelemetryPush

`WalletPush`: `flights` is the promise shared by all who ask while it is pending, with
the handlers that wait for it; `lastSnapshot` is moved by the interval and by every
connection handler. `failures` counts to three, where the code's backoff begins to
matter, and `backingOff` is the time until it ends. `TelemetryPush`: the first read
(`Prime`) decides for the node or the mock; afterwards a poll reads the height and,
when that is new, the block (`TipRead`, `BlockRead`, `BlockFails`), and `Exhausted` is
the fifth failure in a row, after which nothing polls. The chain may lose its newest
block again (`ChainMoves`).

### PoolSubscriptions and ZapBatcher

A subscription that is closed while its relays are being connected to has no id yet, so
nothing is unsubscribed and it opens all the same (`pool.ts:364`): `AfterClose` leaves
it "starting". `ZapBatcher` closes the subscription before with each batch, so this
happens in earnest: events come by subscriptions that were replaced. `Tags` are the notes
a zap names, by which relays find it, and `NoteOf` the first of them, which it counts for;
one that cannot be parsed, or whose first note is not of the batch, has been marked as
seen when it is dropped. `seenZapOrder` are the zaps seen, of which the oldest are
forgotten beyond `MaxSeen`; one that was forgotten and comes again is counted again.
`since` and `twice` observe that: how many zaps were seen since each was, and which were
counted twice although fewer than `MaxSeen` came in between. `cache` is a
sequence in order of use, `Among` and `Finished` are its entries for some notes and what
the end of a batch makes of them, `Evict` drops the oldest entries nobody watches, and
`TimeoutFires` is the timer of five seconds, which looks at the notes that are being
fetched when it fires, a later batch's too.

## 3. Runs

| Run | Instance | Shows |
|---|---|---|
| `payments_lnbits` | LNbits; an action invoice and a zap; one request and one sweep in flight; one row a sweep | `PaidMeansSettled`, `NoMoneyIgnored`, `AnnouncedIsStored`, `PaidRowIsFinal`, `ShownPaidIsFinal`, `ImplementsLedger`, `SettledGetsStored` |
| `payments_opennode` | OpenNode; one zap invoice; regtest pay on | `PaidMeansSettled`, `NoMoneyIgnored`, `SettledGetsStored` |
| `payments_opennode_final` | OpenNode; one invoice | violates `PaidRowIsFinal` (finding 1) |
| `lnurl_withdraw` | two sessions, two invoices in bounds and one out of them, three requests | `OnePayerAtATime`, `PaidMeansPaidOut`, `OneSurePayout`, `GrantedOnce` |
| `lnurl_withdraw_duplicate` | the same, two requests | violates `DuplicateIsGranted` (finding 2) |
| `dialogs` | the login: one session, two wallets, two requests, or two sessions and one request, with the dialog closed, reopened and retried; or a payment dialog with two attempts | `GrantedKeyStays`, `LoginIsSigned`, `VerifiedLogsIn`; `ZapFollowsFlow`, `PaymentIsSeen` |
| `pay_widget` | two invoices of the widget, one with a provider reference, and a stranger's | `ToldOncePaid`, `RightInvoiceNamed`, `PaidIsNoticed` |
| `feeds` | two sockets, two clients at most, two tips of the widget and another tenant's, a list of one row; or three replies on two relays, pages of one reply, two loads | `CapHolds`, `GivenOnce`, `ListIsRight`, `KeepsDialling`; `LoopsAreFound`, `NoGap`, `RepliesSettle` |
| `live_data` | two visitors and three balances; or a viewer and a chain of three heights that moves three times; or two notes, three zaps, of which one names both notes and one cannot be parsed, two subscriptions, a cache and a batch of one, a memory of two zaps | `OneBalance`, `BalanceReaches`; `BlockReaches`; `TotalOnlyGrows`, `WaitingEnds` |
| `wallet_retry` | two visitors | violates `EveryClientHears` (finding 3) |
| `send_sats` | two attempts | violates `SendSaysPaidOfPaid` (finding 4) |
| `reply_pages` | the thread of `feeds` | violates `LastPageIsLast` (finding 5) |

The run of each component also checks its type invariant.

Bounds. The only bounds are the sets in the configurations: no counter grows
without limit, because `age` is a rank among the rows and the history variables
are subsets of finite sets. Two slots are what a race takes: one handler that
holds a stale row or status and one that changes it (in the payments runs the
request and the sweep, which share `Ask`, `Write` and `Announce`). `Take` is 20 in
the code and only its comparison with the number of open rows matters: two invoices
with `Take` 1 make rows compete for a sweep. With OpenNode there is one invoice, so
nothing competes, and it is one of the Host's tenant. Three withdraw
requests let two race for the lock while a third looks the session up and expires
it. Symmetry is used only in runs without liveness and only on sets whose
members the specification treats alike. What the two-slot instances cannot
show, overlapping sweeps and more than two handlers, the proofs cover: they
hold for every number of slots.

The widgets and pages. Two invoices of a widget are what an answer about the previous
one takes, and what one click of the pay-to-unlock button asks for; a widget of the
second kind therefore has one click. Two sockets show one left open behind the other;
a third would only be left open behind both. Two tips of the feed and a list of one row
make the list be trimmed, and one tip is enough to be given twice, by two sockets, a poll
and a list. The tip of another tenant is the first, as it must reach nobody whenever it
comes, and the others come one after the other, while there is at most one other
visitor, who leaves before them (`InTurn` of `MCFeeds`). A feed on the socket is explored
with an API that matches, whose answers may all fail: what it can do with one that does
not is among that. Two
attempts, two loads and two batches are one that is over for its user and still runs,
and the next. Three replies with pages of one make a first, a middle and a last page,
and hold every shape of circle up to three with its tails; the bound on hops is four,
so that one circle is as long as the search goes. `feeds` explores threads in order of
time that are spread over two relays in every way, and threads in circles that both
relays hold: a mixture shows nothing new, because circles are dropped from what came
before a page is cut. `MaxFailures` is the code's five. `MaxBalance`, `MaxTip`,
`MaxMoves`, `MaxAttempts`, `MaxLoads` and `MaxQueue` bound counters and queues; after
the last change the world stands still, which is when a liveness property has to show
itself. Of the two notes of the batcher the second stays on the screen once it is there
(`Staying` of `MCLiveData`), as it is only the first that loses its place in the cache to
it and back; two zaps remembered and three sent is one forgotten. In `dialogs` the login with two sessions has one request at a time and is
checked for safety only (`OneRequest`); in the other one the first wallet to sign is `x1`
and wrong signatures are `x2`'s (`FirstIsX1`), as the wallets are alike and a wrong
signature's key decides nothing; and the pages explored have both wallets, none,
or the demo's endpoint (`Pages`).

Deadlock is not checked where the system may come to rest: all invoices
created, answered and out of the window, no webhook left; or all sessions used
up. `LnurlWithdraw` always has a request to start, and deadlock is checked.

### Findings

1. **A paid row can become unpaid again with OpenNode.** `payment.update` in
   `services/payment-status.ts:51` writes by id what the provider said of a row
   read earlier. A sweep is told "processing"; the payment settles and the webhook
   stores `PAID`; the sweep then stores `PROCESSING`. The comment at line 32,
   "Already paid - no need to check provider", takes a paid row for final. LNbits
   reports pending, paid or failed and the code never writes pending back, so
   that with LNbits the property holds (proved).
2. **A duplicate withdraw callback is refused past the deadline.**
   `services/lnurl-withdraw.ts:93` turns every session past its deadline into
   `EXPIRED`, paid ones too. `routes/lnurl-withdraw.test.ts:83` expects "duplicate
   callbacks as idempotent". No money moves twice (`GrantedOnce`), but the record
   that the session was paid is lost.
3. **A wallet client whose first fetch failed may be sent nothing.** The log line at
   `routes/wallet-ws.ts:312` says that it "will retry via interval". When a second
   client connects before the interval's next fetch, its handler moves `lastSnapshot`
   (line 309); the interval then sees no change and broadcasts nothing. The first
   client waits until the balance itself changes.
4. **The send-sats form says paid of an attempt it no longer shows.**
   `send-sats.tsx:283` sets the form to paid after its awaits, whatever the form shows
   by then. `docs/flows/send-sats-journey.md:88` says "Transitions mirror zap flow",
   which comes to paid only from waiting for payment (line 75); the zap button keeps
   to it with its request numbers, which is `ZapFollowsFlow`.
5. **The second page of replies is always the last one.** `nostr/event-resolver.ts:278`
   asks for one reply more than the page holds, to know whether there is another page,
   and for the next page up to the second of the cursor's reply (line 281), which so
   takes that place and is dropped again. Line 318 then finds no more than a page and
   says `hasMore: false`, with one relay or with relays that hold the same. "When
   `hasMore` is true, call again with `replyCursor=nextCursor` to fetch the next page"
   (`docs/nostr-replies.md:72`) ends there, however long the thread is. The pages that
   are shown do fit together (`NoGap`).

Smaller things that the models show and that are no disagreement with a text: the path
of the tips list (see TipsFeed), for which the "HTTP polling fallback" of
`tipsFeedConnection.ts:7` finds nothing, so that a tip paid while the socket is down or its
tenant is being looked up is not shown at all; a webhook of OpenNode about an invoice of
another tenant than its Host's is answered "unknown payment" and leaves the row to
the reconciler; `stop()` of the tips feed leaves a socket open that was left behind; a pay widget without provider reference whose connection was
stopped before its first start never learns that it was paid; a cancelled load of the
event page that finds its note in storage late sets the replies back to loading
(`EventDetailScreen.tsx:573`), where they stay.

### Fairness

`Payments!Fairness`: the event loop runs every started handler on (weak fairness
of `Working`), the reconciler's timer keeps firing (`setInterval`, weak fairness
of `StartSweep`), and a provider and a database asked again and again about one
invoice answer in the end (strong fairness of `Ask` and `Write`: both are
disabled and enabled again as sweeps come and go, and may each time fail).
Nothing is assumed of webhooks, of clients that poll, or of crashes, which may
go on for ever. `SettledGetsStored` is stated up to the row leaving the
reconciler's window, or being kept out of the sweeps by as many newer rows of invoices
that nobody has paid as a sweep reads (`KeptOut`): twenty of them can do so until it is a
day old, and then nothing finds the payment but a webhook or a poll. Newer rows of settled
invoices are no such excuse: each is stored in its turn and leaves its place. That a client is
*told* is not claimed: a crash between update and event loses the event.

`LnurlLogin!Fairness`: requests in flight are answered, the interval timer of a
polling dialog fires (strong fairness of `Poll`, because both slots may be taken
by wallets for a while), and a database asked again and again answers. The user
need not do anything. `VerifiedLogsIn` is up to the dialog being closed, its
own ninety seconds, a failed poll (each of these ends polling) or the deadline.

The other modules assume what their timers and a server that is asked again and again
justify, and nothing of users, payers, relays, webhooks or sockets:

| Module | Weak fairness | Strong fairness |
|---|---|---|
| `PayWidget` | the poll interval (`PollTick`), the server (`ServerStep`) | a poll about a booked invoice is answered with paid (`PollSaysPaid`): each one may fail, but they go on |
| `ZapPayment` | `PollAgain`, a timer | `PollSaysPaid` |
| `EventReplies` | every load goes on (`Answers`): each request has a timeout | |
| `WalletPush` | the interval, the end of the backoff | a fetch is read, and its answer arrives, some time |
| `TelemetryPush` | `PollStarts`, `BecomesDue` | the height, and a block, are read some time |
| `ZapBatcher` | the batch timer and the timeouts; relays may never answer | |

The liveness properties stop where the code stops: `PaidIsNoticed` at the end of polling, `PaymentIsSeen` at an answer that is not ok,
`BlockReaches` at the fifth failure, `WaitingEnds` while the bounded subscriptions last,
`RepliesSettle` at a reload that crosses a request. Finding 3 is a violation under
`WalletPush!FairSpec`.

## 4. Proofs

Eight modules prove, for all values of the constants, every invariant and every action
property that the passing runs check, and that `Payments` implements `PaymentLedger`. The
assumptions on the constants are those that the modules name and TLC evaluates:
`PaymentsAssumption`, `WithdrawAssumption` and `PayWidgetAssumption` (the sets of invoices
lie in each other, `None` is no invoice), `LnurlAuthAssumption` (`None` is no session and
no key), `TipsFeedAssumption` (finitely many tips and sockets), `PartsAssumption` (the
bounds of the balance, the chain, the cache and the zaps remembered), `AttemptsAssumption` and
`RepliesAssumption`: replies are numbers, as their ids are compared, finitely many, and
pages hold one at least. `NumbersOK` and `EventConstants` are the last two as hypotheses,
in the modules that the instances are made of.

| Module | Theorem | States |
|---|---|---|
| `PaymentsProofs` | `TypeCorrect` | `Spec => []TypeOK` |
| | `MoneyCorrect`, `WebhooksHeeded` | `Spec => []PaidMeansSettled`, `[]NoMoneyIgnored` (of the invoices a webhook can find: `Findable`) |
| | `AnnouncedCorrect` | `OnLnbits /\ NoRegtest /\ Spec => []AnnouncedIsStored` |
| | `PaidRowFinal`, `ShownPaidFinal` | `OnLnbits /\ Spec => PaidRowIsFinal`, `ShownPaidIsFinal` |
| | `LedgerImplemented` | `OnLnbits /\ NoRegtest /\ Spec => ImplementsLedger` |
| `LnurlWithdrawProofs` | `WithdrawTypeCorrect` | `Spec => []TypeOK` |
| | `LockCorrect`, `PaidOutCorrect` | `Spec => []OnePayerAtATime`, `[]PaidMeansPaidOut` |
| | `SurePayoutCorrect`, `GrantedPaysOnce` | `Spec => []OneSurePayout`, `GrantedOnce` |
| `DialogsProofs` | `TypesCorrect`, `LoginSigned`, `GrantsStay` | `Spec => []TypeOK`, `[]LoginIsSigned`, `[]GrantedKeyStays` (`Spec` of `LnurlLogin`) |
| | `DialogsTyped`, `DialogsFollowFlow` | `PartsSpec => []TypesOK`, `ZapFollowsFlow` |
| `ZapPaymentProofs` | `TypesCorrect`, `FlowFollowed` | `Spec => []TypeOK`, `ZapFollowsFlow` |
| `PayWidgetProofs` | `TypesCorrect` | `Spec => []TypeOK` |
| | `PageToldOnce`, `RightInvoice` | `Spec => []ToldOncePaid`, `[]RightInvoiceNamed` |
| `FeedsProofs` | `TypesCorrect`, `NeverDeaf`, `CapKept` | `Spec => []TypeOK`, `[]KeepsDialling`, `[]CapHolds` (`Spec` of `TipsFeed`) |
| | `EachGivenOnce`, `ListRight` | `Spec => []GivenOnce`, `[]ListIsRight` |
| | `FeedsTyped`, `LoopsFound`, `GapFree` | `PartsSpec => []TypesOK`, `[]LoopsAreFound`, `[]NoGap` |
| `EventRepliesProofs` | `TypesCorrect`, `CirclesFound`, `PagesFit` | `Spec => []TypeOK`, `[]LoopsAreFound`, `[]NoGap` |
| `LiveDataProofs` | `TypesCorrect`, `SnapshotTold` | `Wallet!Spec => []Wallet!TypeOK`, `[]Wallet!OneBalance` |
| | `LiveDataTyped`, `BalanceIsOne`, `TotalsGrow` | `PartsSpec => []TypesOK`, `[]OneBalance`, `TotalOnlyGrows` |

`OnLnbits` is `Provider = "lnbits"`, and `NoRegtest` is `RegtestPay = FALSE`.

**Payments.** `TypeInv` adds to the types that a handler past its question works
on one of the rows it read, that rows it read are stored (`StoredFirst`), and that
an invoice in use exists at the provider (`ChargedFirst`). `PaidMeansSettled` is
not inductive: a handler may be about to write "PAID". `MoneyInv` says that what a
handler has seen is true by now (`SeenSound`: a paid status it holds means the
provider was paid, which stays so, since `ChargeFlow` never leaves the paid
states), the same of receipts about to be sent (`ZapSound`) and webhook calls
(`HooksSound`), that money comes only to invoices somebody holds (`HeldFirst`) and
that an ignored call was about an invoice that expired (`IgnoredExpired`).
`LnbitsInv` is for the properties that fail with OpenNode: a row is absent,
pending or says what the provider says for good (`RowHonest`); so does every copy
a handler holds (`TodoHonest`) and every status it is about to store (`Honest`,
the point where LNbits helps: a changed status is final); and until the request
that creates an invoice answers nobody holds it (`Unheld`). Regtest pay is an exception
to the order of `Honest`, as it announces before the row is paid; the status events it does
not send still follow the row (`ShownIsStored`). From the invariant a stale write
writes what is there already, which is why unconditional updates do no harm. The
refinement follows: storing a row opens the invoice, the provider settles it, an
update to PAID books it, an event tells of it, all else stutters.

**LnurlWithdraw.** `LockInv` joins mutual exclusion to `Taken`: a session that a
request holds is neither new nor pending, so that `Lock` cannot succeed a second
time. It survives `Expire`, which leaves it EXPIRED, and `Revert`, which ends the
request that holds it. `MoneyInv` says that after a payout everyone is sure of
the session is closed and its only holder is about to record it (`SureClosed`),
that a paid or granted session without a failed payment has no holder and is
closed (`GrantClosed`), and that a request at the record has its payout
(`RecordsPayout`). The three last theorems follow.

**LnurlLogin.** `RequestsOK` says what a request holds at each of its awaits: one that is
about to bind has a key whose signature was checked. `SignInv` follows that key along its
way: whatever is bound to a session, on its way in an answer, or logged in, has signed.
Nothing in it is about which session the dialog shows, which is why late answers do no
harm. `OwnInv` is for `GrantedKeyStays`: a new or pending session has no key
(`FreeUntilBound`), two callbacks about to bind one session to different keys make it one
with rivals (`RivalsNoted`), and so does one about to bind it to another key than it has
(`LateRivalNoted`). A callback looks at a pending session only, so that a rival has to
have been there before the wallet was told OK.

**PayWidget.** `PaidInv`: what is booked or sent was settled. `OnceInv` joins to
`ToldOncePaid` that a widget which is not done has told nobody of what it shows; each step
either tells once (`Tells`) or is quiet about it (`Quiets`), and the steps are sorted
into the two before anything else is proved. `RightInvoiceNamed` needs the whole history
of the connection: unless two invoices were in use at once (`crossed`), at most one is
being asked for, and the connection is either on the invoice that is shown, its polls too
(`Follows`), or has stopped and hears nothing (`Still`). This is `AloneInv`.

**ZapPayment.** That an attempt is not stale is not yet that the dialog shows it.
`ShownAsAwaited` ties what the dialog shows to what the current attempt awaits, and
`ShownOfCurrent` says that an invoice, a status URL and "paid" are the current attempt's.
Each step either leaves the dialog or is the current attempt's, and `FlowFollowed` goes
through the documented moves.

**TipsFeed.** `SocketInv`: every socket whose handlers are installed will be heard of when
it closes, so the feed is on the socket, or has a timer. `CapInv` counts the clients that
were admitted, with those whose tenant is still being looked up: the code counts before it
awaits, which the theorem shows to be enough. `ListInv`: what is on any wire, in any answer
on its way and on the list was paid, is of the item and of one of the two tenants (`Due`),
what was given to the page is among what the connection remembers, and the list is right
(`RightList`): no tip has two rows, and there are as many as were counted or as fit.
Putting new tips on top and cutting the list keeps that (`TopsList`), for lists of any length,
because the new ones are not among those counted.

**EventReplies.** `CirclesFound` is about the code's two loops. The inner one walks along
parents until it leaves the replies, meets what it has seen, or has hopped `MaxHops`
times: `Walks` describes every walk there is, `LoopSets` what may have been found, and
that a walk closes on a circle and takes all of it is a matter of injectivity and
finiteness: on a circle each reply is the parent of exactly one other in it. With more hops
than replies every circle is found (`Founds`). `PagesFit` is about threads without circles and
with one reply a second (`Plain`), and counts: a page of the newest
`Limit` of each relay's newest leaves out nothing that is newer than its last, and the next
page starts at the cursor; `PagingInv` carries that through the page's loads: replies are ready
when the current load is over (`ReadyIsOver`), and a request for more is for the cursor
that is shown (`MoreOfShown`), unless a reload crossed one.

**WalletPush, TelemetryPush.** `PushInv`: there is one shared fetch at most (`OneFlight`),
those who wait for it are connected or gone (`WaitersWait`), and a fetch that a client
began is a first one (`FirstFetch`); so that every client that was told anything was told
the last snapshot (`ToldSnapshot`). `PollsNode`: only the node is polled, and the count of
failures stays below its limit while it is.

**ZapBatcher.** `ZapInv` joins `OrderOK` to the types: of a memory of `n` zaps the one at place
`i` was seen no fewer than `n - i` zaps ago, and one that is not in it `MaxSeen` ago at
least, or never. So a zap that comes again before `MaxSeen` others is remembered and
dropped, by whatever subscription it comes (`MarkKeepsOrder`, `DeliverSteps`). That watched notes lose
nothing is a lemma about each operation on the cache (`EvictSpares`, `PutZaps`,
`DoneKeeps`, `TouchKeeps`), over caches of any length.

**Composition.** A behaviour of `PartsSpec` that explores a part is one of that part's
`Spec`, and one that does not leaves it where it starts. The instance in a run's module and
the one that carries the theorems are two copies of one module; the proofs show that
they define the same (`SameDialog`, for example) and pass the theorem on.

Lemmas about recursive functions are proved from a least counterexample, which the
library's facts about well-founded relations give without an operator as parameter; so the
models use recursive functions where they are to be proved about, rather than folds, whose
properties the library states of operators.

Only model-checked: the liveness properties and the fairness they need, which are out of
TLAPS's reach (`SettledGetsStored`, `VerifiedLogsIn`, `PaymentIsSeen`, `PaidIsNoticed`, `RepliesSettle`, `BalanceReaches`, `BlockReaches`, `WaitingEnds`), and
the violations, which are runs by nature. `ShownPaidIsFinal` with regtest pay, which no run
explores, is covered by the theorem.

## 5. Assumed and left out

The provider, the user's wallet, the database's atomic row updates and the relays
are modelled from how the code uses them: LNbits reports pending, then paid or
failed, for good; OpenNode its own states; only an invoice somebody holds gets
paid; a wallet does not pay an invoice twice. Left out: amounts and metadata, the
lookups of tenants and users (but for which tenant a webhook and a list of tips are
about), the shape of messages, the webhook's signature check, the
mock provider, whose invoices are paid from the start, and who receives a
broadcast: `shown` and `announced` are what is sent to every socket.
In LNURL-auth a signature is valid or not. An HTTP client that goes away changes
nothing, as the handlers run on.

Of the widgets and pages: how things look, copy buttons and amounts; `clear()` of the
connection and of the batcher, which nothing calls; the batcher's catch for a pool that
throws; the mock wallet, which
asks nobody; the status line of the wallet request; the browser's response cache in
front of the API (`nostr/api.ts`). Relays return the newest events of a query, and of
one second those with the lowest ids, as NIP-01 says.

Not modelled. The caches of events and of identities with their expiry and pruning, and
the summary endpoint of telemetry, are candidates (see the plan). The relay pool's
connections, which several pools share, are left for their size. The other screens,
the SDK, the UI packages and `packages/tokens` render, generate or format; LNURL-pay
metadata, users, tenants and BOLT12 parse requests, look up single rows or run a
command; administration, configuration and logs are single-row operations and wiring.
Together these are most of the repository's lines, and have no order of events of
their own to get wrong.

## 6. Plan

1. `Payments`, `PaymentLedger`, `LnurlWithdraw`, with proofs: done.
2. `LnurlAuth`, `LnurlLogin`, `PayWidget`, `ZapPayment`, `TipsFeed`, `EventReplies`,
   `WalletPush`, `TelemetryPush`, `PoolSubscriptions`, `ZapBatcher`: done, with proofs.
3. The event and the NIP-05 caches: get, fill and prune under concurrency
   (`nostr/event-cache.ts:54`: two requests find the same expired row and the second
   delete fails). The telemetry summary, whose failures are cached as the provider's own
   answer (`telemetry/providers.ts:177`).
4. Personal lists (`useContactList.ts:49`: a follow before the list is loaded publishes a
   list without everybody else) and the pages of `useNostrQuery.ts:145`, which start at
   the oldest event of all relays together and can skip what a fuller relay has in between.
5. `TelemetryBar`, `useWallet` and direct messages: the clients of the pushes.

The theorems cover every invariant and every action property of the runs. Next are
theorems for 3 to 5 once these are modelled, and for the halves of `PaymentLedger` that
still hold with OpenNode or with regtest pay.
