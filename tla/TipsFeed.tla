------------------------------ MODULE TipsFeed ------------------------------
(***************************************************************************)
(* The feed of tips for one item: the API server's socket for tips, with   *)
(* its cap on clients and its tenant lookups, and the widget that loads    *)
(* the tips once, then listens on a socket, polls while that is down, and  *)
(* dials again.  Several sockets of one widget can be open at a time,      *)
(* because dialling does not close the socket before.                      *)
(***************************************************************************)
EXTENDS Sequences, FiniteSets, Naturals

CONSTANTS
  Tips,        \* tips that may be paid, numbered in the order of their createdAt
  SameItem,    \* those for the widget's item
  OfDomain,    \* those of the tenant of the domain that the widget names to the socket
  OfHost,      \* those of the tenant of the API's host: requests name no domain
  MaxItems,    \* maxItems, at most the API's own limit
  Sockets,     \* sockets of the widget; a closed one is used again
  MaxClients,  \* MAX_CLIENTS
  None

ASSUME TipsFeedAssumption ==
  /\ IsFiniteSet(Tips) /\ Tips \subseteq Nat /\ IsFiniteSet(Sockets)
  /\ SameItem \subseteq Tips
  /\ OfDomain \subseteq Tips /\ OfHost \subseteq Tips
  /\ MaxItems \in Nat \ {0}
  /\ MaxClients \in Nat
  /\ None \notin Sockets

VARIABLES
  \* the server
  paid,      \* tips whose payment is stored as paid
  handling,  \* payment events whose handler looks up the tenant
  sock,      \* the widget's sockets as the server has them
  wire,      \* tips sent on each socket and not yet received
  others,    \* the number of other visitors' sockets
  \* TipsFeedConnection
  realtime,  \* is there a wsUrl
  matching,  \* does the API answer at the path, and with the field, the widget uses: the
             \* one of this repository does not, the one of the widget's tests does
  ws,
  wired,     \* sockets whose handlers are installed
  up,        \* sockets whose onopen has run
  connected, \* wsConnected
  online,
  timer,     \* reconnectTimeout
  polling,   \* pollId
  destroyed,
  seenIds,
  loads,     \* answers to hydrate and pollOnce on their way
  \* the tip feed widget
  started,   \* was the connection started, after the first hydrate
  rows,      \* the list, the row on top first
  seen,
  count,
  \* observations
  given,     \* tips the page was given, by hydrate or by onTip
  again      \* tips onTip was called for that the page had been given

server == <<paid, handling, sock, wire, others>>
setup == <<realtime, matching>>
net == <<sock, wire>>
link == <<ws, wired, up, connected, online, timer, polling, destroyed>>
list == <<rows, seen, count>>
told == <<given, again>>
vars == <<server, setup, link, seenIds, loads, started, list, told>>

Init ==
  /\ paid = {} /\ handling = {}
  /\ sock = [s \in Sockets |-> "closed"]
  /\ wire = [s \in Sockets |-> {}]
  /\ others = 0
  /\ realtime \in BOOLEAN /\ matching \in BOOLEAN
  /\ ws = None /\ wired = {} /\ up = {}
  /\ connected = FALSE
  /\ online \in BOOLEAN
  /\ timer = FALSE /\ polling = FALSE /\ destroyed = FALSE
  /\ seenIds = {} /\ loads = {}
  /\ started = FALSE
  /\ rows = <<>> /\ seen = {} /\ count = 0
  /\ given = {} /\ again = {}

-----------------------------------------------------------------------------
(* The server *)

\* A tip is stored as paid and its event goes to the listener, which may have to
\* look up the tenant first.
PayTip(t) ==
  /\ t \notin paid
  /\ paid' = paid \cup {t}
  /\ handling' = handling \cup {t}
  /\ UNCHANGED <<net, others, setup, link, seenIds, loads, started, list, told>>

\* Is a client of the widget's tenant and item sent this tip?
IsFor(t) == t \in SameItem /\ t \in OfDomain

\* The tip goes to the clients that are listed by now; the lookup may also fail.
SendTip(t) ==
  /\ t \in handling
  /\ handling' = handling \ {t}
  /\ \/ wire' = [s \in Sockets |->
                   IF sock[s] = "listed" /\ IsFor(t) THEN wire[s] \cup {t} ELSE wire[s]]
     \/ wire' = wire
  /\ UNCHANGED <<paid, sock, others, setup, link, seenIds, loads, started, list, told>>

\* Seeded fault: only the clients whose tenant is known are counted.
ListedClients == others + Cardinality({s \in Sockets : sock[s] = "listed"})

\* wss.clients.size: also the sockets that are being refused or closed.
Clients == others + Cardinality({s \in Sockets : sock[s] \notin {"closed", "dialled"}})

\* The connection handler: over the cap the socket is closed, else the tenant is
\* looked up and only then is the client listed.
Accept(s) ==
  /\ sock[s] = "dialled"
  /\ sock' = [sock EXCEPT ![s] = IF Clients + 1 > MaxClients THEN "closing" ELSE "looking"]
  /\ UNCHANGED <<paid, handling, wire, others, setup, link, seenIds, loads, started>>
  /\ UNCHANGED <<list, told>>

ListClient(s) ==
  /\ sock[s] = "looking"
  /\ sock' = [sock EXCEPT ![s] = "listed"]
  /\ UNCHANGED <<paid, handling, wire, others, setup, link, seenIds, loads, started>>
  /\ UNCHANGED <<list, told>>

\* Other visitors come, unless the server is at its cap, and go.
OthersChange ==
  /\ \/ Clients + 1 <= MaxClients /\ others' = others + 1
     \/ others > 0 /\ others' = others - 1
  /\ UNCHANGED <<paid, handling, net, setup, link, seenIds, loads, started, list, told>>

-----------------------------------------------------------------------------
(* TipsFeedConnection *)

\* connectWebSocket: a new socket in the place of the present one, which stays open;
\* offline it polls instead.  Bound: one of Sockets is closed.
Dial ==
  IF destroyed \/ ~realtime
  THEN UNCHANGED <<net, ws, wired, up, polling>>
  ELSE IF ~online'
  THEN polling' = TRUE /\ UNCHANGED <<net, ws, wired, up>>
  ELSE \E s \in Sockets :
         /\ sock[s] = "closed"
         /\ sock' = [sock EXCEPT ![s] = "dialled"]
         /\ ws' = s
         /\ wired' = wired \cup {s}
         /\ UNCHANGED <<wire, up, polling>>

\* Seeded fault: the socket is closed with its handlers installed.
CloseKeepsHandlers ==
  /\ UNCHANGED <<wired, up>>
  /\ wire' = [s \in Sockets |-> IF s = ws THEN {} ELSE wire[s]]
  /\ sock' = [s \in Sockets |-> IF s # ws THEN sock[s]
                                ELSE IF sock[s] = "dialled" THEN "closed" ELSE "closing"]
  /\ ws' = None
  /\ connected' = FALSE

\* closeWebSocket: the present socket loses its handlers; the server hears later.
CloseCurrent ==
  /\ wired' = wired \ {ws}
  /\ up' = up \ {ws}
  /\ wire' = [s \in Sockets |-> IF s = ws THEN {} ELSE wire[s]]
  /\ sock' = [s \in Sockets |-> IF s # ws THEN sock[s]
                                ELSE IF sock[s] = "dialled" THEN "closed" ELSE "closing"]
  /\ ws' = None
  /\ connected' = FALSE

Opens(s) ==
  /\ s \in wired \ up
  /\ sock[s] \in {"looking", "listed", "closing"}
  /\ up' = up \cup {s}
  /\ connected' = TRUE
  /\ polling' = FALSE
  /\ UNCHANGED <<server, setup, ws, wired, online, timer, destroyed, seenIds, loads>>
  /\ UNCHANGED <<started, list, told>>

\* Seeded fault: only a socket that had been open is dialled again.
HangupOfOpen(s) ==
  /\ sock[s] # "closed"
  /\ sock' = [sock EXCEPT ![s] = "closed"]
  /\ wire' = [wire EXCEPT ![s] = {}]
  /\ wired' = wired \ {s}
  /\ up' = up \ {s}
  /\ ws' = IF ws = s THEN None ELSE ws
  /\ IF s \in wired
     THEN /\ connected' = FALSE
          /\ polling' = ~destroyed
          /\ timer' = (timer \/ (connected /\ ~destroyed))
     ELSE UNCHANGED <<connected, polling, timer>>

\* A socket is closed by the server, by the network, or as it was asked to: what was
\* on its way is lost.  One with handlers runs handleWsClosed, whichever it is.
Hangup(s) ==
  /\ sock[s] # "closed"
  /\ sock' = [sock EXCEPT ![s] = "closed"]
  /\ wire' = [wire EXCEPT ![s] = {}]
  /\ wired' = wired \ {s}
  /\ up' = up \ {s}
  /\ ws' = IF ws = s THEN None ELSE ws
  /\ IF s \in wired
     THEN /\ connected' = FALSE
          /\ polling' = ~destroyed
          /\ timer' = ~destroyed
     ELSE UNCHANGED <<connected, polling, timer>>

HungUp(s) ==
  /\ Hangup(s)
  /\ UNCHANGED <<paid, handling, others, setup, online, destroyed, seenIds, loads>>
  /\ UNCHANGED <<started, list, told>>

ReconnectFires ==
  /\ timer
  /\ timer' = FALSE
  /\ UNCHANGED online
  /\ Dial
  /\ UNCHANGED <<paid, handling, others, setup, connected, destroyed, seenIds, loads>>
  /\ UNCHANGED <<started, list, told>>

\* handleOffline and handleOnline: neither touches the timer or the polling.
GoOffline ==
  /\ online /\ ~destroyed
  /\ online' = FALSE
  /\ CloseCurrent
  /\ UNCHANGED <<paid, handling, others, setup, timer, polling, destroyed>>
  /\ UNCHANGED <<seenIds, loads, started, list, told>>

GoOnline ==
  /\ ~online /\ ~destroyed
  /\ online' = TRUE
  /\ IF connected THEN UNCHANGED <<net, ws, wired, up, polling>> ELSE Dial
  /\ UNCHANGED <<paid, handling, others, setup, connected, timer, destroyed>>
  /\ UNCHANGED <<seenIds, loads, started, list, told>>

\* stop: only the present socket is closed.
Destroy ==
  /\ ~destroyed
  /\ destroyed' = TRUE
  /\ CloseCurrent
  /\ timer' = FALSE
  /\ polling' = FALSE
  /\ UNCHANGED <<paid, handling, others, setup, online, seenIds, loads, started>>
  /\ UNCHANGED <<list, told>>

-----------------------------------------------------------------------------
(* The list of the widget *)

Smaller(m, n) == IF m < n THEN m ELSE n

\* The tips of S in the order of their createdAt, and in that of the API's answer.
Ascending(S) ==
  {s \in [1..Cardinality(S) -> S] : \A i, j \in DOMAIN s : i < j => s[i] < s[j]}
Descending(S) ==
  {s \in [1..Cardinality(S) -> S] : \A i, j \in DOMAIN s : i < j => s[i] > s[j]}

\* The list after the trim: the rows at the end go.
Trimmed(list_) == SubSeq(list_, 1, Smaller(Len(list_), MaxItems))

\* onTip with insertTip, for each of the new tips as the API lists them, the newest
\* first: each is counted and put on top, and the list is trimmed.
ShowTips(new) ==
  /\ again' = again \cup (new \cap given)
  /\ given' = given \cup new
  /\ seen' = seen \cup new
  /\ count' = count + Cardinality(new \ seen)
  /\ \E top \in Ascending(new \ seen) : rows' = Trimmed(top \o rows)

-----------------------------------------------------------------------------
(* What the connection receives *)

\* handleMessage: a tip for another item, or one seen before, is dropped.
Receive(s, t) ==
  /\ s \in up
  /\ t \in wire[s]
  /\ wire' = [wire EXCEPT ![s] = @ \ {t}]
  /\ LET new == ({t} \cap SameItem) \ seenIds IN
       /\ ShowTips(new)
       /\ seenIds' = seenIds \cup new
  /\ UNCHANGED <<paid, handling, sock, others, setup, link, loads, started>>

\* The tips GET /api/tips finds: by item, in the tenant of the API's host.
Found == paid \cap SameItem \cap OfHost

\* What a request comes back with: the newest of them, as many as the widget asks for.
\* An answer from elsewhere than the widget's path, or without its amount field, is
\* read as no tips.
Listings ==
  IF matching
  THEN {tips \in SUBSET Found : /\ Cardinality(tips) = Smaller(Cardinality(Found), MaxItems)
                                /\ \A t \in tips, u \in Found \ tips : t > u}
  ELSE {{}}

Requested(what) == \E l \in loads : l.what = what

\* A request is served.  Bound: one hydrate and one poll at a time.
Request(what) ==
  /\ ~Requested(what)
  /\ \E tips \in Listings : loads' = loads \cup {[what |-> what, tips |-> tips]}
  /\ UNCHANGED <<server, setup, link, seenIds, started, list, told>>

\* The first one as the widget is rendered, later ones by refresh.
Hydrate == Request("hydrate")

PollTick == polling /\ Request("poll")

\* pollOnce after its awaits, destroyed or not; a poll that fails shows nothing.
PollAnswered(l) ==
  /\ l \in loads
  /\ l.what = "poll"
  /\ loads' = loads \ {l}
  /\ ShowTips(l.tips \ seenIds)
  /\ seenIds' = seenIds \cup l.tips
  /\ UNCHANGED <<server, setup, link, started>>

PollFails(l) ==
  /\ l \in loads
  /\ l.what = "poll"
  /\ loads' = loads \ {l}
  /\ UNCHANGED <<server, setup, link, seenIds, started, list, told>>

\* Seeded fault: what hydrate found is not remembered.
Unremembered(tips) == seenIds

Remembered(tips) == seenIds \cup tips

\* Seeded fault: the widget keeps the tips it had seen before.
Kept(tips) == seen \cup tips

Replaced(tips) == tips

\* The widget's hydrate: the list becomes what came, nothing when it failed.  After
\* the first one the connection is started.
HydrateAnswered(l) ==
  /\ l \in loads
  /\ l.what = "hydrate"
  /\ loads' = loads \ {l}
  /\ \E tips \in {l.tips, {}} :
       /\ seenIds' = Remembered(tips)
       /\ rows' \in Descending(tips)
       /\ seen' = Replaced(tips)
       /\ count' = Cardinality(tips)
       /\ given' = given \cup tips
  /\ started' = TRUE
  /\ UNCHANGED online
  /\ IF started \/ destroyed THEN UNCHANGED <<net, ws, wired, up, polling>>
     ELSE IF realtime THEN Dial
     ELSE polling' = TRUE /\ UNCHANGED <<net, ws, wired, up>>
  /\ UNCHANGED <<paid, handling, others, setup, connected, timer, destroyed, again>>

Next ==
  \/ \E t \in Tips : PayTip(t) \/ SendTip(t)
  \/ \E s \in Sockets : Accept(s) \/ ListClient(s) \/ Opens(s) \/ HungUp(s)
  \/ \E s \in Sockets, t \in Tips : Receive(s, t)
  \/ \E l \in loads : PollAnswered(l) \/ PollFails(l) \/ HydrateAnswered(l)
  \/ OthersChange
  \/ ReconnectFires \/ GoOffline \/ GoOnline \/ Destroy
  \/ Hydrate \/ PollTick

Spec == Init /\ [][Next]_vars

-----------------------------------------------------------------------------
(* Properties *)

TypeOK ==
  /\ paid \subseteq Tips
  /\ handling \subseteq paid
  /\ sock \in [Sockets -> {"closed", "dialled", "looking", "listed", "closing"}]
  /\ wire \in [Sockets -> SUBSET Tips]
  /\ others \in 0..MaxClients
  /\ ws \in wired \cup {None}
  /\ up \subseteq wired
  /\ \A s \in wired : sock[s] # "closed"
  /\ {realtime, matching, connected, online, timer, polling, destroyed, started} \subseteq BOOLEAN
  /\ seenIds \subseteq Tips
  /\ loads \subseteq [what : {"hydrate", "poll"}, tips : SUBSET Tips]
  /\ rows \in Seq(Tips) /\ seen \subseteq Tips
  /\ count \in 0..Cardinality(Tips)
  /\ again \subseteq given /\ given \subseteq Tips

\* However many sockets are let in while tenants are looked up, no more than the cap
\* are listed or about to be.
CapHolds ==
  others + Cardinality({s \in Sockets : sock[s] \in {"looking", "listed"}}) <= MaxClients

\* The page is given a tip as new at most once, whichever of several sockets and polls
\* bring it, and not at all when it was in a list loaded before.
GivenOnce == again = {}

\* The list and the number above it agree, whatever came between a refresh and its
\* answer: each tip has at most one row, the list is full when more tips are counted
\* than it holds, and each is a paid tip of this item and of one of the two tenants.
ListIsRight ==
  /\ \A i, j \in DOMAIN rows : rows[i] = rows[j] => i = j
  /\ \A i \in DOMAIN rows : rows[i] \in seen
  /\ count = Cardinality(seen)
  /\ Len(rows) = Smaller(count, MaxItems)
  /\ seen \subseteq paid \cap SameItem \cap (OfDomain \cup OfHost)

\* A feed on the socket never goes deaf: while it is online and not destroyed it has
\* a socket whose end it will hear of, or a timer to dial the next.
KeepsDialling ==
  (started /\ realtime /\ online /\ ~destroyed) => (timer \/ wired # {})

=============================================================================
