--------------------------- MODULE LiveDataProofs ----------------------------
(* Proofs about what a page shows and nobody asks for twice: the pushed      *)
(* balance, the pushed block and the zaps of notes, for any visitors,        *)
(* balances, heights, notes and zaps, and about MCLiveData, which checks     *)
(* them.                                                                     *)
EXTENDS MCLiveData, Sequences, WellFoundedInduction, TLAPS

\* What is assumed of the wallet's constants.
LEMMA WalletAssumed == Wallet!WalletConstants
BY PartsAssumption

USE WalletAssumed DEF Wallet!WalletConstants

-----------------------------------------------------------------------------
(* A client is told a balance by its own handler, when that is what the      *)
(* shared fetch brought, or by the tick, when it sees a change.  Two clients *)
(* are never told two balances because a handler fetches only while there is *)
(* no snapshot, joins the fetch under way, and until that ends nobody has    *)
(* been told anything.                                                       *)

\* Fetches are shared: there is one at most.
OneFlight == \A f, g \in flights : f = g

\* Who waits for a fetch has not been served yet.
WaitersWait == \A f \in flights : \A c \in f.waiting : at[c] \in {"waiting", "left"}

\* A client's own fetch is under way only before the first snapshot.
FirstFetch == \A f \in flights : f.by # Wallet!Tick => lastSnapshot = Unknown

\* Only those who are there have been told, and what they were told is the snapshot.
ToldSnapshot == \A c \in Visitors : heard[c] # Unknown => c \in Wallet!Open /\ heard[c] = lastSnapshot

PushInv == Wallet!TypeOK /\ OneFlight /\ WaitersWait /\ FirstFetch /\ ToldSnapshot

Flight == [by : Visitors \cup {Wallet!Tick}, waiting : SUBSET Visitors, got : Wallet!Balances \cup {Unknown}]

\* Joining a fetch or beginning one: there is still one, and it is of those kinds.
LEMMA FetchShared ==
  ASSUME PushInv, NEW who \in Visitors \cup {Wallet!Tick}, NEW W \in SUBSET Visitors, Wallet!Fetch(who, W)
  PROVE  /\ flights' \subseteq Flight
         /\ \A f, g \in flights' : f = g
         /\ \A f \in flights' :
              \/ f = Wallet!NewFlight(who, W)
              \/ \E g \in flights : f.by = g.by /\ f.waiting = g.waiting \cup W
<1>1. CASE flights = {}
  <2>1. Wallet!NewFlight(who, W) \in Flight
    BY DEF Wallet!NewFlight, Flight
  <2> QED BY <1>1, <2>1 DEF Wallet!Fetch
<1>2. CASE flights # {}
  <2>1. PICK g \in flights : \A f \in flights : f = g
    BY <1>2 DEF PushInv, OneFlight
  <2>2. g \in Flight
    BY DEF PushInv, Wallet!TypeOK, Flight
  <2>3. PICK f : f = [g EXCEPT !.waiting = @ \cup W]
    OBVIOUS
  <2>4. f \in Flight /\ f.by = g.by /\ f.waiting = g.waiting \cup W
    BY <2>2, <2>3 DEF Flight
  <2>5. flights' = {f}
    BY <1>2, <2>1, <2>3 DEF Wallet!Fetch
  <2> QED BY <2>4, <2>5
<1> QED BY <1>1, <1>2

\* At first nobody is there.
LEMMA InitPush == Wallet!Init => PushInv
<1> SUFFICES ASSUME Wallet!Init PROVE PushInv
  OBVIOUS
<1>1. Wallet!TypeOK
  <2>1. 0 \in Wallet!Balances
    BY DEF Wallet!Balances
  <2>2. /\ at \in [Visitors -> {"away", "waiting", "left", "open"}]
        /\ heard \in [Visitors -> Wallet!Balances \cup {Unknown}]
    BY DEF Wallet!Init
  <2>3. failures \in 0..3
    BY DEF Wallet!Init
  <2> QED BY <2>1, <2>2, <2>3 DEF Wallet!Init, Wallet!TypeOK
<1>2. ToldSnapshot
  BY DEF Wallet!Init, ToldSnapshot
<1> QED BY <1>1, <1>2 DEF Wallet!Init, PushInv, OneFlight, WaitersWait, FirstFetch

\* A client that connects is told the snapshot, or waits for the fetch that brings it.
LEMMA ConnectPush ==
  ASSUME PushInv, NEW c \in Visitors, Wallet!Connect(c)
  PROVE  PushInv'
<1>0. /\ at[c] = "away" /\ heard[c] = Unknown /\ at \in [Visitors -> {"away", "waiting", "left", "open"}]
      /\ heard \in [Visitors -> Wallet!Balances \cup {Unknown}]
      /\ \A f \in flights : c \notin f.waiting
      /\ flights \subseteq Flight
      /\ UNCHANGED <<balance, lastSnapshot, failures, backingOff, withId>>
  BY DEF Wallet!Connect, PushInv, ToldSnapshot, WaitersWait, Wallet!Open, Wallet!TypeOK, Flight
<1>1. CASE /\ lastSnapshot # Unknown
           /\ at' = [at EXCEPT ![c] = "open"]
           /\ heard' = [heard EXCEPT ![c] = lastSnapshot]
           /\ UNCHANGED flights
  BY <1>0, <1>1 DEF PushInv, Wallet!TypeOK, OneFlight, WaitersWait, FirstFetch, ToldSnapshot, Wallet!Open, Flight
<1>2. CASE /\ lastSnapshot = Unknown
           /\ at' = [at EXCEPT ![c] = "waiting"]
           /\ Wallet!Fetch(c, {c})
           /\ UNCHANGED heard
  <2>1. /\ flights' \subseteq Flight
        /\ \A f, g \in flights' : f = g
        /\ \A f \in flights' :
             \/ f = Wallet!NewFlight(c, {c})
             \/ \E g \in flights : f.by = g.by /\ f.waiting = g.waiting \cup {c}
    BY <1>2, FetchShared
  <2>2. WaitersWait'
    BY <1>0, <1>2, <2>1 DEF PushInv, WaitersWait, Wallet!NewFlight, Flight
  <2>3. FirstFetch' /\ OneFlight'
    BY <1>0, <1>2, <2>1 DEF FirstFetch, OneFlight
  <2>4. ToldSnapshot'
    BY <1>0, <1>2 DEF PushInv, ToldSnapshot, Wallet!Open
  <2>5. Wallet!TypeOK'
    BY <1>0, <1>2, <2>1 DEF PushInv, Wallet!TypeOK, Flight, Wallet!Balances
  <2> QED BY <2>2, <2>3, <2>4, <2>5 DEF PushInv
<1>3. CASE /\ at' = [at EXCEPT ![c] = "open"]
           /\ UNCHANGED <<heard, flights>>
  BY <1>0, <1>3 DEF PushInv, Wallet!TypeOK, OneFlight, WaitersWait, FirstFetch, ToldSnapshot, Wallet!Open, Flight
<1> QED BY <1>1, <1>2, <1>3 DEF Wallet!Connect

\* When a fetch ends there is none, and those who waited for it and are there stay there.
LEMMA EndPush ==
  ASSUME PushInv, NEW f \in flights, flights' = flights \ {f}, at' = Wallet!Resumed(f.waiting)
  PROVE  /\ flights' = {}
         /\ f \in Flight
         /\ at' \in [Visitors -> {"away", "waiting", "left", "open"}]
         /\ Wallet!Open' = Wallet!Open
<1>1. flights' = {}
  BY DEF PushInv, OneFlight
<1>2. f \in Flight
  BY DEF PushInv, Wallet!TypeOK, Flight
<1>3. at' \in [Visitors -> {"away", "waiting", "left", "open"}]
  BY DEF Wallet!Resumed, PushInv, Wallet!TypeOK
<1>4. Wallet!Open' = Wallet!Open
  BY <1>2, <1>3 DEF Wallet!Resumed, PushInv, WaitersWait, Wallet!Open, Wallet!TypeOK, Flight
<1> QED BY <1>1, <1>2, <1>3, <1>4

\* An answer is told to all who have been told of another, or to those who waited first.
LEMMA ArrivalPush ==
  ASSUME PushInv, NEW f \in flights, Wallet!Arrives(f)
  PROVE  PushInv'
<1>1. /\ flights' = {} /\ f \in Flight /\ Wallet!Open' = Wallet!Open
      /\ at' \in [Visitors -> {"away", "waiting", "left", "open"}]
  BY EndPush DEF Wallet!Arrives
<1>2. f.got \in Wallet!Balances /\ f.got # Unknown
  BY <1>1 DEF Wallet!Arrives, Flight
<1> DEFINE told == (f.waiting \cap Wallet!Open)
                     \cup (IF f.by = Wallet!Tick /\ Wallet!Changed(f) THEN Wallet!Open ELSE {})
<1>3. heard' = [c \in Visitors |-> IF c \in told THEN f.got ELSE heard[c]] /\ lastSnapshot' = f.got
  BY DEF Wallet!Arrives
<1>4. told \subseteq Wallet!Open /\ Wallet!Open \subseteq Visitors
  BY DEF Wallet!Open
<1>5. \A c \in Visitors : heard[c] # Unknown => c \in told \/ heard[c] = f.got
  <2>1. CASE f.by = Wallet!Tick
    BY <2>1 DEF Wallet!Changed, PushInv, ToldSnapshot
  <2>2. CASE f.by # Wallet!Tick
    BY <2>2 DEF PushInv, FirstFetch, ToldSnapshot
  <2> QED BY <2>1, <2>2
<1> HIDE DEF told
<1>6. ToldSnapshot'
  BY <1>1, <1>3, <1>4, <1>5 DEF PushInv, ToldSnapshot
<1>7. Wallet!TypeOK'
  BY <1>1, <1>2, <1>3 DEF Wallet!Arrives, PushInv, Wallet!TypeOK, Wallet!Balances
<1>8. OneFlight' /\ WaitersWait' /\ FirstFetch'
  BY <1>1 DEF OneFlight, WaitersWait, FirstFetch
<1> QED BY <1>6, <1>7, <1>8 DEF PushInv

\* Every step keeps what was told the snapshot.
LEMMA NextPush == PushInv /\ [Wallet!Next]_Wallet!vars => PushInv'
<1> SUFFICES ASSUME PushInv, [Wallet!Next]_Wallet!vars PROVE PushInv'
  OBVIOUS
<1>1. ASSUME Wallet!BalanceChanges PROVE PushInv'
  BY <1>1 DEF Wallet!BalanceChanges, PushInv, Wallet!TypeOK, OneFlight, WaitersWait, FirstFetch, ToldSnapshot,
              Wallet!Open, Wallet!Balances, Wallet!fetcher
<1>2. ASSUME NEW f \in flights, Wallet!LnbitsReads(f) PROVE PushInv'
  <2>1. f \in Flight /\ balance \in Wallet!Balances
    BY DEF PushInv, Wallet!TypeOK, Flight
  <2>2. PICK g : g = [f EXCEPT !.got = balance]
    OBVIOUS
  <2>3. g \in Flight /\ g.by = f.by /\ g.waiting = f.waiting
    BY <2>1, <2>2 DEF Flight
  <2>4. flights' = {g}
    BY <1>2, <2>2 DEF Wallet!LnbitsReads, PushInv, OneFlight
  <2> QED BY <1>2, <2>3, <2>4 DEF Wallet!LnbitsReads, PushInv, Wallet!TypeOK, OneFlight, WaitersWait, FirstFetch,
                 ToldSnapshot, Wallet!Open, Flight
<1>3. ASSUME Wallet!WalletIdFails \/ Wallet!BackoffEnds PROVE PushInv'
  BY <1>3 DEF Wallet!WalletIdFails, Wallet!BackoffEnds, PushInv, Wallet!TypeOK, OneFlight, WaitersWait, FirstFetch,
              ToldSnapshot, Wallet!Open
<1>4. ASSUME NEW f \in flights, Wallet!Arrives(f) PROVE PushInv'
  BY <1>4, ArrivalPush
<1>5. ASSUME NEW f \in flights, Wallet!FetchFails(f) PROVE PushInv'
  <2>1. /\ flights' = {} /\ Wallet!Open' = Wallet!Open
        /\ at' \in [Visitors -> {"away", "waiting", "left", "open"}]
    BY <1>5, EndPush DEF Wallet!FetchFails
  <2>2. failures' \in 0..3 /\ backingOff' \in BOOLEAN
    BY <1>5 DEF Wallet!FetchFails, PushInv, Wallet!TypeOK
  <2> QED BY <1>5, <2>1, <2>2 DEF Wallet!FetchFails, PushInv, Wallet!TypeOK, OneFlight, WaitersWait, FirstFetch,
                 ToldSnapshot
<1>6. ASSUME Wallet!IntervalTick PROVE PushInv'
  <2>1. /\ flights' \subseteq Flight
        /\ \A f, g \in flights' : f = g
        /\ \A f \in flights' :
             \/ f = Wallet!NewFlight(Wallet!Tick, {})
             \/ \E g \in flights : f.by = g.by /\ f.waiting = g.waiting
    <3>1. PICK W \in SUBSET Visitors : W = {}
      OBVIOUS
    <3>2. Wallet!Fetch(Wallet!Tick, W)
      BY <1>6, <3>1 DEF Wallet!IntervalTick
    <3>3. \A g \in flights : g.waiting \cup W = g.waiting
      BY <3>1 DEF PushInv, Wallet!TypeOK
    <3>4. /\ flights' \subseteq Flight
          /\ \A f, g \in flights' : f = g
          /\ \A f \in flights' :
               \/ f = Wallet!NewFlight(Wallet!Tick, W)
               \/ \E g \in flights : f.by = g.by /\ f.waiting = g.waiting \cup W
      <4>1. Wallet!Tick \in Visitors \cup {Wallet!Tick}
        OBVIOUS
      <4> QED BY <3>2, <4>1, FetchShared
    <3>5. Wallet!NewFlight(Wallet!Tick, W) = Wallet!NewFlight(Wallet!Tick, {})
      BY <3>1
    <3>6. ASSUME NEW f \in flights', NEW g \in flights, f.by = g.by,
                 f.waiting = g.waiting \cup W
          PROVE  f.by = g.by /\ f.waiting = g.waiting
      BY <3>3, <3>6
    <3> QED BY <3>4, <3>5, <3>6
  <2>2. UNCHANGED <<balance, at, heard, lastSnapshot, failures, backingOff, withId>>
    BY <1>6 DEF Wallet!IntervalTick
  <2>3. WaitersWait' /\ FirstFetch' /\ OneFlight'
    <3>1. WaitersWait'
      BY <2>1, <2>2 DEF PushInv, WaitersWait, Wallet!NewFlight
    <3>2. FirstFetch'
      BY <2>1, <2>2 DEF PushInv, FirstFetch, Wallet!NewFlight
    <3>3. OneFlight'
      BY <2>1 DEF OneFlight
    <3> QED BY <3>1, <3>2, <3>3
  <2>4. Wallet!TypeOK' /\ ToldSnapshot'
    BY <2>1, <2>2 DEF PushInv, Wallet!TypeOK, ToldSnapshot, Wallet!Open, Flight
  <2> QED BY <2>3, <2>4 DEF PushInv
<1>7. ASSUME NEW c \in Visitors, Wallet!Connect(c) PROVE PushInv'
  BY <1>7, ConnectPush
<1>8. ASSUME NEW c \in Visitors, Wallet!Disconnect(c) PROVE PushInv'
  BY <1>8 DEF Wallet!Disconnect, PushInv, Wallet!TypeOK, OneFlight, WaitersWait, FirstFetch, ToldSnapshot,
              Wallet!Open, Wallet!fetcher
<1>9. CASE UNCHANGED Wallet!vars
  BY <1>9 DEF Wallet!vars, Wallet!fetcher, PushInv, Wallet!TypeOK, OneFlight, WaitersWait, FirstFetch, ToldSnapshot, Wallet!Open
<1> QED BY <1>1, <1>2, <1>3, <1>4, <1>5, <1>6, <1>7, <1>8, <1>9
    DEF Wallet!Next, Wallet!AnyRead, Wallet!AnyArrival, Wallet!AnyFailure

\* In every reachable state the wallet, its fetches and its clients have their types.
THEOREM TypesCorrect == Wallet!Spec => []Wallet!TypeOK
<1>1. PushInv => Wallet!TypeOK
  BY DEF PushInv
<1> QED BY InitPush, NextPush, <1>1, PTL DEF Wallet!Spec

\* What any client was told last is the server's last snapshot: no two visitors see two
\* balances, however their handlers and the interval share, join and await fetches.
THEOREM SnapshotTold == Wallet!Spec => []Wallet!OneBalance
<1>1. PushInv => Wallet!OneBalance
  BY DEF PushInv, ToldSnapshot, Wallet!OneBalance, Wallet!Open
<1> QED BY InitPush, NextPush, <1>1, PTL DEF Wallet!Spec

-----------------------------------------------------------------------------
(* The newest block.  That the poller's failures stay below the limit rests  *)
(* on when it polls: only while the blocks come from the node, which they    *)
(* stop to do with the failure that reaches the limit.                       *)

\* Who polls polls the node, which has not failed too often; a poll for a block knows
\* its height; a mock has made up a block.
PollsNode ==
  /\ poll # "none" => source = "node"
  /\ source = "node" => consecutiveFailures < MaxFailures
  /\ source = "starting" => poll = "none" /\ consecutiveFailures = 0
  /\ poll = "block" => height \in Telemetry!Heights
  /\ source = "mock" => lastEvent \in Telemetry!Heights

TelemetryInv == Telemetry!TypeOK /\ PollsNode

\* The bounds of the chain, and the limit of failures.
LEMMA TelemetryBounds ==
  MaxTip \in Nat /\ MaxMoves \in Nat /\ MaxFailures \in Nat /\ MaxFailures > 0 /\ NoBlock \notin Nat
BY PartsAssumption DEF Telemetry!TelemetryConstants

\* Before the server listens nobody polls.
LEMMA InitTelemetry == Telemetry!Init => TelemetryInv
<1> SUFFICES ASSUME Telemetry!Init PROVE TelemetryInv
  OBVIOUS
<1> USE DEF Telemetry!Init
<1>1. /\ shows \in [Viewers -> {"away", "error", "block"}]
      /\ block \in [Viewers -> Telemetry!Heights \cup {NoBlock}]
  OBVIOUS
<1>2. tip \in Telemetry!Heights /\ moves \in 0..MaxMoves /\ consecutiveFailures \in 0..MaxFailures
  BY TelemetryBounds DEF Telemetry!Heights
<1>3. Telemetry!TypeOK
  BY <1>1, <1>2 DEF Telemetry!TypeOK
<1>4. PollsNode
  BY TelemetryBounds DEF PollsNode
<1> QED BY <1>3, <1>4 DEF TelemetryInv

\* A block, or an error, sent to everybody leaves the pages in order.
LEMMA Broadcasts ==
  ASSUME TelemetryInv
  PROVE  /\ \A b \in Telemetry!Heights : Telemetry!BroadcastBlock(b) =>
              /\ lastEvent' = b
              /\ shows' \in [Viewers -> {"away", "error", "block"}]
              /\ block' \in [Viewers -> Telemetry!Heights \cup {NoBlock}]
         /\ Telemetry!BroadcastError =>
              /\ lastErrorEvent' = TRUE /\ lastEvent' = lastEvent
              /\ shows' \in [Viewers -> {"away", "error", "block"}]
              /\ block' \in [Viewers -> Telemetry!Heights \cup {NoBlock}]
BY DEF Telemetry!BroadcastBlock, Telemetry!BroadcastError, TelemetryInv, Telemetry!TypeOK

\* Every step keeps the poller to the node.
LEMMA NextTelemetry == TelemetryInv /\ [Telemetry!Next]_telemetryVars => TelemetryInv'
<1> SUFFICES ASSUME TelemetryInv, [Telemetry!Next]_telemetryVars PROVE TelemetryInv'
  OBVIOUS
<1> USE TelemetryBounds
    DEF TelemetryInv, Telemetry!TypeOK, PollsNode, Telemetry!chain, Telemetry!poller,
        Telemetry!screens
<1>0. ASSUME Telemetry!PollSucceeds
      PROVE  /\ consecutiveFailures' = 0 /\ consecutiveFailures' \in 0..MaxFailures
             /\ poll' = "none" /\ height' = NoBlock /\ due' = FALSE
  BY <1>0 DEF Telemetry!PollSucceeds
<1>1. ASSUME Telemetry!ChainMoves PROVE TelemetryInv'
  BY <1>1 DEF Telemetry!ChainMoves
<1>2. ASSUME Telemetry!Prime PROVE TelemetryInv'
  <2>1. 0 \in Telemetry!Heights
    BY DEF Telemetry!Heights
  <2>2. Telemetry!TypeOK'
    BY <1>2, <2>1 DEF Telemetry!Prime
  <2>3. PollsNode'
    BY <1>2, <2>1 DEF Telemetry!Prime
  <2> QED BY <2>2, <2>3
<1>3. ASSUME Telemetry!MockBlock PROVE TelemetryInv'
  <2>1. lastEvent + 1 \in Telemetry!Heights
    BY <1>3 DEF Telemetry!MockBlock, Telemetry!Heights
  <2> QED BY <1>3, <2>1, Broadcasts DEF Telemetry!MockBlock
<1>4. ASSUME Telemetry!PollStarts \/ Telemetry!BecomesDue PROVE TelemetryInv'
  BY <1>4 DEF Telemetry!PollStarts, Telemetry!BecomesDue
<1>5. ASSUME Telemetry!TipRead PROVE TelemetryInv'
  <2>1. CASE tip = lastHeight
    <3>1. Telemetry!TypeOK'
      BY <1>0, <1>5, <2>1 DEF Telemetry!TipRead
    <3>2. PollsNode'
      BY <1>0, <1>5, <2>1 DEF Telemetry!TipRead
    <3> QED BY <3>1, <3>2
  <2>2. CASE tip # lastHeight
    BY <1>5, <2>2 DEF Telemetry!TipRead
  <2> QED BY <2>1, <2>2
<1>6. ASSUME Telemetry!TipNotANumber \/ Telemetry!BlockFails PROVE TelemetryInv'
  <2>1. /\ lastEvent' = lastEvent /\ lastErrorEvent' = TRUE
        /\ shows' \in [Viewers -> {"away", "error", "block"}]
        /\ block' \in [Viewers -> Telemetry!Heights \cup {NoBlock}]
        /\ Telemetry!PollSucceeds
        /\ UNCHANGED <<tip, moves, source, lastHeight>>
    BY <1>6, Broadcasts DEF Telemetry!TipNotANumber, Telemetry!BlockFails
  <2>2. Telemetry!TypeOK'
    BY <1>0, <2>1
  <2>3. PollsNode'
    BY <1>0, <2>1
  <2> QED BY <2>2, <2>3
<1>7. ASSUME Telemetry!BlockRead PROVE TelemetryInv'
  <2>1. height \in Telemetry!Heights /\ source = "node"
    BY <1>7 DEF Telemetry!BlockRead
  <2>2. /\ lastEvent' = height /\ lastErrorEvent' = FALSE
        /\ shows' \in [Viewers -> {"away", "error", "block"}]
        /\ block' \in [Viewers -> Telemetry!Heights \cup {NoBlock}]
    BY <1>7, <2>1, Broadcasts DEF Telemetry!BlockRead
  <2>3. Telemetry!TypeOK'
    BY <1>0, <1>7, <2>1, <2>2 DEF Telemetry!BlockRead
  <2>4. PollsNode'
    BY <1>0, <1>7, <2>1, <2>2 DEF Telemetry!BlockRead
  <2> QED BY <2>3, <2>4
<1>8. ASSUME Telemetry!TipFails PROVE TelemetryInv'
  <2>1. \/ Telemetry!BroadcastError
        \/ UNCHANGED <<lastEvent, lastErrorEvent, shows, block>>
    BY <1>8 DEF Telemetry!TipFails
  <2>2. /\ lastEvent' = lastEvent /\ lastErrorEvent' \in BOOLEAN
        /\ shows' \in [Viewers -> {"away", "error", "block"}]
        /\ block' \in [Viewers -> Telemetry!Heights \cup {NoBlock}]
    BY <2>1, Broadcasts
  <2>3. source = "node" /\ consecutiveFailures \in Nat /\ consecutiveFailures < MaxFailures
    BY <1>8 DEF Telemetry!TipFails
  <2>4. /\ consecutiveFailures' = consecutiveFailures + 1
        /\ poll' = "none" /\ height' = NoBlock /\ due' = FALSE
        /\ UNCHANGED <<tip, moves, lastHeight>>
        /\ \/ source' = "stopped"
           \/ ~(consecutiveFailures' >= MaxFailures) /\ source' = "node"
    BY <1>8, <2>3 DEF Telemetry!TipFails, Telemetry!Exhausted
  <2>5. consecutiveFailures' \in 0..MaxFailures
    BY <2>3, <2>4
  <2>6. source' = "node" => consecutiveFailures' < MaxFailures
    BY <2>4, <2>5
  <2>7. Telemetry!TypeOK'
    BY <2>2, <2>4, <2>5
  <2>8. PollsNode'
    BY <2>2, <2>4, <2>6
  <2> QED BY <2>7, <2>8
<1>9. ASSUME NEW v \in Viewers, Telemetry!Connect(v) \/ Telemetry!Disconnect(v)
      PROVE  TelemetryInv'
  BY <1>9 DEF Telemetry!Connect, Telemetry!Disconnect
<1>10. CASE UNCHANGED telemetryVars
  BY <1>10 DEF telemetryVars
<1> QED BY <1>1, <1>2, <1>3, <1>4, <1>5, <1>6, <1>7, <1>8, <1>9, <1>10 DEF Telemetry!Next

-----------------------------------------------------------------------------
(* Steps along a sequence.  An induction is made over the least              *)
(* counterexample, which the library's theorems give.                        *)

\* A set of numbers has a least one.
LEMMA Least ==
  ASSUME NEW B \in SUBSET Nat, B # {}
  PROVE  \E m \in B : \A k \in B : m <= k
<1> DEFINE R == OpToRel(<, Nat)
<1>1. IsWellFoundedOn(R, Nat)
  BY NatLessThanWellFounded
<1>2. \A k, m \in Nat : <<k, m>> \notin R => m <= k
  BY DEF OpToRel
<1> HIDE DEF R
<1>3. \E m \in B : \A k \in B : <<k, m>> \notin R
  BY <1>1, WFMin
<1> QED BY <1>2, <1>3

\* What n steps make of base, one after the other.
Steps(g, n, V, base, G) ==
  g \in [0..n -> V] /\ g[0] = base /\ \A i \in 1..n : g[i] = G[i][g[i - 1]]

\* Steps define a function.
LEMMA Stepped ==
  ASSUME NEW n \in Nat, NEW V, NEW base \in V, NEW G \in [1..n -> [V -> V]]
  PROVE  \E g : Steps(g, n, V, base, G)
<1> USE DEF Steps
<1> DEFINE Good(k) == \E g : Steps(g, k, V, base, G)
           B == {k \in 0..n : ~Good(k)}
<1>1. SUFFICES ASSUME B # {} PROVE FALSE
  <2>1. n \in 0..n
    OBVIOUS
  <2>2. ASSUME B = {} PROVE Good(n)
    <3> HIDE DEF Good
    <3> QED BY <2>1, <2>2
  <2> QED BY <2>2
<1>2. PICK m \in B : \A k \in B : m <= k
  <2>1. B \in SUBSET Nat
    OBVIOUS
  <2> HIDE DEF B
  <2> QED BY <1>1, <2>1, Least
<1>3. Good(0)
  <2>1. PICK g : g = [i \in 0..0 |-> base]
    OBVIOUS
  <2>2. g \in [0..0 -> V] /\ g[0] = base
    BY <2>1
  <2>3. \A i \in 1..0 : FALSE
    OBVIOUS
  <2> QED BY <2>2, <2>3
<1>4. m \in 0..n /\ m \in Nat /\ m # 0
  <2>1. m \in 0..n /\ ~Good(m)
    OBVIOUS
  <2> HIDE DEF Good
  <2> QED BY <1>3, <2>1
<1>5. m - 1 \in 0..n /\ m - 1 \notin B
  <2>1. m - 1 \in 0..n /\ ~(m <= m - 1)
    BY <1>4
  <2> HIDE DEF B
  <2> QED BY <1>2, <2>1
<1>6. PICK g \in [0..(m - 1) -> V] : g[0] = base /\ \A i \in 1..(m - 1) : g[i] = G[i][g[i - 1]]
  BY <1>5
<1>7. PICK h : h = [i \in 0..m |-> IF i = m THEN G[m][g[m - 1]] ELSE g[i]]
  OBVIOUS
<1>8. m - 1 \in 0..(m - 1) /\ G[m][g[m - 1]] \in V
  <2>1. m - 1 \in 0..(m - 1) /\ m \in 1..n
    BY <1>4
  <2>2. g[m - 1] \in V /\ G[m] \in [V -> V]
    BY <1>6, <2>1
  <2> QED BY <2>1, <2>2
<1>9. h \in [0..m -> V] /\ h[0] = base
  <2>1. ASSUME NEW i \in 0..m PROVE h[i] \in V
    <3>1. i # m => i \in 0..(m - 1)
      BY <1>4
    <3> QED BY <1>6, <1>7, <1>8, <3>1
  <2>2. 0 \in 0..(m - 1) /\ 0 \in 0..m /\ 0 # m
    BY <1>4
  <2> QED BY <1>6, <1>7, <2>1, <2>2
<1>10. ASSUME NEW i \in 1..m PROVE h[i] = G[i][h[i - 1]]
  <2>1. CASE i = m
    BY <1>4, <1>7, <2>1
  <2>2. CASE i # m
    <3>1. i \in 1..(m - 1) /\ i - 1 \in 0..(m - 1) /\ i \in 0..m /\ i - 1 \in 0..m /\ i - 1 # m
      BY <1>4, <2>2
    <3> QED BY <1>6, <1>7, <2>2, <3>1
  <2> QED BY <2>1, <2>2
<1>11. Good(m)
  BY <1>9, <1>10
<1> QED BY <1>2, <1>11

-----------------------------------------------------------------------------
(* The zaps of notes.  What a cache says of a note depends on its entries    *)
(* only, so that each operation on caches is described by its entries.       *)

Entry == [id : Notes, zaps : SUBSET Zaps, loading : BOOLEAN]
Cache == Seq(Entry)
Entries(c) == {c[i] : i \in DOMAIN c}

\* Entries are such.
LEMMA EntriesTyped == ASSUME NEW c \in Cache PROVE Entries(c) \subseteq Entry
<1>1. DOMAIN c = 1..Len(c) /\ \A i \in 1..Len(c) : c[i] \in Entry
  BY DEF Cache
<1> QED BY <1>1 DEF Entries

\* The zaps of a note are those of its entries.
LEMMA ZapsOfEntries ==
  ASSUME NEW c \in Cache, NEW e
  PROVE  ZapsOf(c, e) = UNION {r.zaps : r \in {q \in Entries(c) : q.id = e}}
<1>1. {c[i].zaps : i \in {j \in DOMAIN c : c[j].id = e}}
        = {r.zaps : r \in {q \in Entries(c) : q.id = e}}
  BY DEF Entries
<1> QED BY <1>1 DEF ZapsOf

\* One more entry at the end.
LEMMA AppendEntries ==
  ASSUME NEW c \in Cache, NEW r \in Entry
  PROVE  Append(c, r) \in Cache /\ Entries(Append(c, r)) = Entries(c) \cup {r}
<1>1. Append(c, r) \in Cache
  BY DEF Cache
<1>2. /\ Len(c) \in Nat /\ DOMAIN c = 1..Len(c)
      /\ DOMAIN Append(c, r) = 1..(Len(c) + 1)
      /\ \A i \in 1..Len(c) : Append(c, r)[i] = c[i]
      /\ Append(c, r)[Len(c) + 1] = r
  BY DEF Cache
<1>3. \A i \in 1..(Len(c) + 1) : i \in 1..Len(c) \/ i = Len(c) + 1
  BY <1>2
<1>4. \A i \in 1..Len(c) : i \in 1..(Len(c) + 1)
  BY <1>2
<1>5. Len(c) + 1 \in 1..(Len(c) + 1)
  BY <1>2
<1>6. Entries(Append(c, r)) \subseteq Entries(c) \cup {r}
  BY <1>2, <1>3 DEF Entries
<1>7. Entries(c) \cup {r} \subseteq Entries(Append(c, r))
  BY <1>2, <1>4, <1>5 DEF Entries
<1> QED BY <1>1, <1>6, <1>7

\* One cache after the other.
LEMMA ConcatEntries ==
  ASSUME NEW c \in Cache, NEW d \in Cache
  PROVE  c \o d \in Cache /\ Entries(c \o d) = Entries(c) \cup Entries(d)
<1>1. c \o d \in Cache
  BY DEF Cache
<1>2. /\ Len(c) \in Nat /\ Len(d) \in Nat /\ DOMAIN c = 1..Len(c) /\ DOMAIN d = 1..Len(d)
      /\ DOMAIN (c \o d) = 1..(Len(c) + Len(d))
      /\ \A i \in 1..(Len(c) + Len(d)) : (c \o d)[i] = IF i <= Len(c) THEN c[i] ELSE d[i - Len(c)]
  BY DEF Cache
<1>3. ASSUME NEW i \in 1..(Len(c) + Len(d))
      PROVE  (c \o d)[i] \in Entries(c) \cup Entries(d)
  <2>1. CASE i <= Len(c)
    BY <1>2, <2>1 DEF Entries
  <2>2. CASE ~(i <= Len(c))
    <3>1. i - Len(c) \in 1..Len(d)
      BY <1>2, <2>2
    <3> QED BY <1>2, <2>2, <3>1 DEF Entries
  <2> QED BY <2>1, <2>2
<1>4. ASSUME NEW i \in 1..Len(c) PROVE c[i] \in Entries(c \o d)
  <2>1. i \in 1..(Len(c) + Len(d)) /\ i <= Len(c)
    BY <1>2
  <2> QED BY <1>2, <2>1 DEF Entries
<1>5. ASSUME NEW i \in 1..Len(d) PROVE d[i] \in Entries(c \o d)
  <2>1. /\ i + Len(c) \in 1..(Len(c) + Len(d)) /\ ~(i + Len(c) <= Len(c))
        /\ (i + Len(c)) - Len(c) = i
    BY <1>2
  <2>2. (c \o d)[i + Len(c)] = d[i]
    BY <1>2, <2>1
  <2> QED BY <1>2, <2>1, <2>2 DEF Entries
<1>6. Entries(c \o d) \subseteq Entries(c) \cup Entries(d)
  BY <1>2, <1>3 DEF Entries
<1>7. Entries(c) \cup Entries(d) \subseteq Entries(c \o d)
  BY <1>2, <1>4, <1>5 DEF Entries
<1> QED BY <1>1, <1>6, <1>7

\* The entries of some notes.
LEMMA AmongEntries ==
  ASSUME NEW c \in Cache, NEW E
  PROVE  /\ Among(c, E) \in Cache
         /\ Entries(Among(c, E)) = {r \in Entries(c) : r.id \in E}
<1> DEFINE chosen[i \in 0..Len(c)] ==
             IF i = 0 THEN <<>>
             ELSE IF c[i].id \in E THEN Append(chosen[i - 1], c[i]) ELSE chosen[i - 1]
<1>1. Len(c) \in Nat /\ DOMAIN c = 1..Len(c) /\ \A i \in 1..Len(c) : c[i] \in Entry
  BY DEF Cache
<1>2. Among(c, E) = chosen[Len(c)]
  BY DEF Among
<1>3. \E f : f = [i \in 0..Len(c) |->
                    IF i = 0 THEN <<>>
                    ELSE IF c[i].id \in E THEN Append(f[i - 1], c[i]) ELSE f[i - 1]]
  <2>1. PICK G : G = [i \in 1..Len(c) |->
                        [d \in Cache |-> IF c[i].id \in E THEN Append(d, c[i]) ELSE d]]
    OBVIOUS
  <2>2. G \in [1..Len(c) -> [Cache -> Cache]]
    BY <1>1, <2>1, AppendEntries
  <2>3. <<>> \in Cache
    BY DEF Cache
  <2>4. PICK g : Steps(g, Len(c), Cache, <<>>, G)
    BY <1>1, <2>2, <2>3, Stepped
  <2>5. ASSUME NEW i \in 0..Len(c), i # 0
        PROVE  g[i] = IF c[i].id \in E THEN Append(g[i - 1], c[i]) ELSE g[i - 1]
    <3>1. i \in 1..Len(c) /\ i - 1 \in 0..Len(c)
      BY <1>1, <2>5
    <3>2. g[i] = G[i][g[i - 1]] /\ g[i - 1] \in Cache
      BY <2>4, <3>1 DEF Steps
    <3> QED BY <2>1, <3>1, <3>2
  <2>6. g = [i \in 0..Len(c) |->
               IF i = 0 THEN <<>>
               ELSE IF c[i].id \in E THEN Append(g[i - 1], c[i]) ELSE g[i - 1]]
    BY <2>4, <2>5 DEF Steps
  <2> QED BY <2>6
<1>4. chosen = [i \in 0..Len(c) |->
                  IF i = 0 THEN <<>>
                  ELSE IF c[i].id \in E THEN Append(chosen[i - 1], c[i]) ELSE chosen[i - 1]]
  BY <1>3
<1> HIDE DEF chosen
<1> DEFINE Good(i) == /\ chosen[i] \in Cache
                      /\ Entries(chosen[i]) = {c[k] : k \in {j \in 1..i : c[j].id \in E}}
           B == {i \in 0..Len(c) : ~Good(i)}
<1>5. ASSUME NEW i \in 1..Len(c), Good(i - 1) PROVE Good(i)
  <2>1. i \in 0..Len(c) /\ i # 0 /\ i - 1 \in Nat /\ 1..i = 1..(i - 1) \cup {i} /\ c[i] \in Entry
    BY <1>1
  <2>2. CASE c[i].id \in E
    <3>1. chosen[i] = Append(chosen[i - 1], c[i])
      BY <1>4, <2>1, <2>2
    <3>2. {c[k] : k \in {j \in 1..i : c[j].id \in E}}
            = {c[k] : k \in {j \in 1..(i - 1) : c[j].id \in E}} \cup {c[i]}
      BY <2>1, <2>2
    <3>3. chosen[i] \in Cache /\ Entries(chosen[i]) = Entries(chosen[i - 1]) \cup {c[i]}
      BY <1>5, <2>1, <3>1, AppendEntries
    <3> QED BY <1>5, <3>2, <3>3
  <2>3. CASE c[i].id \notin E
    <3>1. chosen[i] = chosen[i - 1]
      BY <1>4, <2>1, <2>3
    <3>2. {j \in 1..i : c[j].id \in E} = {j \in 1..(i - 1) : c[j].id \in E}
      BY <2>1, <2>3
    <3> QED BY <1>5, <3>1, <3>2
  <2> QED BY <2>2, <2>3
<1>6. Good(0)
  <2>1. chosen[0] = <<>>
    BY <1>1, <1>4
  <2>2. <<>> \in Cache /\ Entries(<<>>) = {} /\ 1..0 = {}
    BY DEF Cache, Entries
  <2> QED BY <2>1, <2>2
<1>7. B = {}
  <2>1. SUFFICES ASSUME B # {} PROVE FALSE
    OBVIOUS
  <2>2. B \in SUBSET Nat
    BY <1>1
  <2>3. PICK m \in B : \A k \in B : m <= k
    <3> HIDE DEF B
    <3> QED BY <2>1, <2>2, Least
  <2>4. m \in 0..Len(c) /\ ~Good(m)
    OBVIOUS
  <2> HIDE DEF Good
  <2>5. m \in 1..Len(c) /\ m - 1 \in 0..Len(c) /\ ~(m <= m - 1)
    <3>1. m # 0
      BY <1>6, <2>4
    <3> QED BY <1>1, <2>4, <3>1
  <2>6. Good(m - 1)
    BY <2>3, <2>5
  <2> QED BY <1>5, <2>4, <2>5, <2>6
<1>8. Good(Len(c))
  <2>1. Len(c) \in 0..Len(c)
    BY <1>1
  <2> HIDE DEF Good
  <2> QED BY <1>7, <2>1
<1>9. {c[k] : k \in {j \in 1..Len(c) : c[j].id \in E}} = {r \in Entries(c) : r.id \in E}
  BY <1>1 DEF Entries
<1> QED BY <1>2, <1>8, <1>9

\* The zaps of a note among some, and without some.
LEMMA WithoutZaps ==
  ASSUME NEW c \in Cache, NEW E
  PROVE  /\ Without(c, E) \in Cache
         /\ Entries(Without(c, E)) = {r \in Entries(c) : r.id \notin E}
<1>1. \A r \in Entries(c) : r.id \in Notes
  BY EntriesTyped DEF Entry
<1> QED BY <1>1, AmongEntries DEF Without

\* Eviction spares who is watched.
LEMMA EvictSpares ==
  ASSUME NEW c \in Cache
  PROVE  /\ Evict(c) \in Cache
         /\ Entries(Evict(c)) \subseteq Entries(c)
         /\ \A r \in Entries(c) : r.id \in watching => r \in Entries(Evict(c))
<1>1. PICK E : /\ Evict(c) = Without(c, E)
               /\ \A e \in E : e \notin watching
  <2> DEFINE loose(i) == {j \in 1..i : c[j].id \notin watching}
             J == {j \in DOMAIN c : j \in loose(j) /\ Cardinality(loose(j)) <= Len(c) - MaxCache}
             F == {c[i].id : i \in J}
  <2>1. Evict(c) = Without(c, F)
    BY DEF Evict
  <2>2. \A e \in F : e \notin watching
    OBVIOUS
  <2> QED BY <2>1, <2>2
<1> QED BY <1>1, WithoutZaps

\* What an operation on the cache keeps: it takes no zap from a note that is watched,
\* and gives none to any.
Keeps(c, d) ==
  /\ d \in Cache
  /\ \A e \in Notes :
       /\ ZapsOf(d, e) \subseteq ZapsOf(c, e)
       /\ e \in watching => ZapsOf(d, e) = ZapsOf(c, e)

\* In p the note e has the zaps zs, and the other notes have theirs, unless evicted.
Replaced(c, e, zs, p) ==
  /\ p \in Cache
  /\ ZapsOf(p, e) \subseteq zs
  /\ e \in watching => ZapsOf(p, e) = zs
  /\ \A n \in Notes \ {e} :
       /\ ZapsOf(p, n) \subseteq ZapsOf(c, n)
       /\ n \in watching => ZapsOf(p, n) = ZapsOf(c, n)

\* That is what setting an entry does.
LEMMA PutZaps ==
  ASSUME NEW c \in Cache, NEW e \in Notes, NEW zs \in SUBSET Zaps, NEW l \in BOOLEAN
  PROVE  Replaced(c, e, zs, Put(c, e, zs, l))
<1>1. PICK r : r = [id |-> e, zaps |-> zs, loading |-> l]
  OBVIOUS
<1>2. r \in Entry /\ r.id = e /\ r.zaps = zs
  BY <1>1 DEF Entry
<1>3. PICK w : w = Without(c, {e})
  OBVIOUS
<1>4. w \in Cache /\ Entries(w) = {q \in Entries(c) : q.id # e}
  BY <1>3, WithoutZaps
<1>5. PICK a : a = Append(w, r)
  OBVIOUS
<1>6. a \in Cache /\ Entries(a) = Entries(w) \cup {r}
  BY <1>2, <1>4, <1>5, AppendEntries
<1>7. PICK p : p = Put(c, e, zs, l)
  OBVIOUS
<1>8. p = Evict(a)
  BY <1>1, <1>3, <1>5, <1>7 DEF Put
<1>9. /\ p \in Cache /\ Entries(p) \subseteq Entries(a)
      /\ \A q \in Entries(a) : q.id \in watching => q \in Entries(p)
  BY <1>6, <1>8, EvictSpares
<1>10. ZapsOf(p, e) \subseteq zs /\ (e \in watching => ZapsOf(p, e) = zs)
  <2>1. ZapsOf(p, e) = UNION {q.zaps : q \in {x \in Entries(p) : x.id = e}}
    BY <1>9, ZapsOfEntries
  <2>2. {x \in Entries(p) : x.id = e} \subseteq {r}
    BY <1>4, <1>6, <1>9
  <2>3. e \in watching => {x \in Entries(p) : x.id = e} = {r}
    BY <1>2, <1>6, <1>9, <2>2
  <2> QED BY <1>2, <2>1, <2>2, <2>3
<1>11. ASSUME NEW n \in Notes \ {e}
       PROVE  /\ ZapsOf(p, n) \subseteq ZapsOf(c, n)
              /\ n \in watching => ZapsOf(p, n) = ZapsOf(c, n)
  <2>1. /\ ZapsOf(p, n) = UNION {q.zaps : q \in {x \in Entries(p) : x.id = n}}
        /\ ZapsOf(c, n) = UNION {q.zaps : q \in {x \in Entries(c) : x.id = n}}
    BY <1>9, ZapsOfEntries
  <2>2. {x \in Entries(p) : x.id = n} \subseteq {x \in Entries(c) : x.id = n}
    BY <1>2, <1>4, <1>6, <1>9
  <2>3. n \in watching => {x \in Entries(p) : x.id = n} = {x \in Entries(c) : x.id = n}
    BY <1>4, <1>6, <1>9, <2>2
  <2> QED BY <2>1, <2>2, <2>3
<1> QED BY <1>7, <1>9, <1>10, <1>11 DEF Replaced

\* A note's zaps are zaps.
LEMMA ZapsAreZaps ==
  ASSUME NEW c \in Cache, NEW e
  PROVE  ZapsOf(c, e) \in SUBSET Zaps
<1>1. \A r \in Entries(c) : r.zaps \in SUBSET Zaps
  BY EntriesTyped DEF Entry
<1> QED BY <1>1, ZapsOfEntries

\* That a note is not loading any more keeps its zaps.
LEMMA DoneKeeps ==
  ASSUME NEW c \in Cache, NEW d, Keeps(c, d), NEW e \in Notes
  PROVE  Keeps(c, Put(d, e, ZapsOf(d, e), FALSE))
<1>1. PICK p : p = Put(d, e, ZapsOf(d, e), FALSE)
  OBVIOUS
<1>2. d \in Cache /\ ZapsOf(d, e) \in SUBSET Zaps
  BY ZapsAreZaps DEF Keeps
<1>3. PICK zs \in SUBSET Zaps : zs = ZapsOf(d, e)
  BY <1>2
<1>4. PICK l \in BOOLEAN : p = Put(d, e, zs, l)
  BY <1>1, <1>3
<1>5. Replaced(d, e, zs, p)
  BY <1>2, <1>4, PutZaps
<1> QED BY <1>1, <1>3, <1>5 DEF Keeps, Replaced

\* The end of a batch keeps the zaps, however many of its notes it says are loaded.
LEMMA FinishedKeeps ==
  ASSUME NEW c \in Cache, NEW ids \in Seq(Notes), NEW E
  PROVE  Keeps(c, Finished(c, ids, E))
<1> DEFINE Loaded(d, e) == IF e \in E THEN Put(d, e, ZapsOf(d, e), FALSE) ELSE d
<1> DEFINE done[i \in 0..Len(ids)] == IF i = 0 THEN c ELSE Loaded(done[i - 1], ids[i])
<1>1. Len(ids) \in Nat /\ \A i \in 1..Len(ids) : ids[i] \in Notes
  OBVIOUS
<1>2. Finished(c, ids, E) = done[Len(ids)]
  BY DEF Finished
<1>3. ASSUME NEW d, Keeps(c, d), NEW e \in Notes PROVE Keeps(c, Loaded(d, e))
  BY <1>3, DoneKeeps
<1>4. ASSUME NEW d \in Cache, NEW e \in Notes PROVE Loaded(d, e) \in Cache
  <2>1. Keeps(d, d)
    BY DEF Keeps
  <2> QED BY <2>1, DoneKeeps DEF Keeps
<1> HIDE DEF Loaded
<1>5. \E f : f = [i \in 0..Len(ids) |-> IF i = 0 THEN c ELSE Loaded(f[i - 1], ids[i])]
  <2>1. PICK G : G = [i \in 1..Len(ids) |-> [d \in Cache |-> Loaded(d, ids[i])]]
    OBVIOUS
  <2>2. G \in [1..Len(ids) -> [Cache -> Cache]]
    BY <1>1, <1>4, <2>1
  <2>3. PICK g : Steps(g, Len(ids), Cache, c, G)
    BY <1>1, <2>2, Stepped
  <2>4. ASSUME NEW i \in 0..Len(ids), i # 0 PROVE g[i] = Loaded(g[i - 1], ids[i])
    <3>1. i \in 1..Len(ids) /\ i - 1 \in 0..Len(ids)
      BY <1>1, <2>4
    <3>2. g[i] = G[i][g[i - 1]] /\ g[i - 1] \in Cache
      BY <2>3, <3>1 DEF Steps
    <3> QED BY <2>1, <3>1, <3>2
  <2>5. g = [i \in 0..Len(ids) |-> IF i = 0 THEN c ELSE Loaded(g[i - 1], ids[i])]
    BY <2>3, <2>4 DEF Steps
  <2> QED BY <2>5
<1>6. done = [i \in 0..Len(ids) |-> IF i = 0 THEN c ELSE Loaded(done[i - 1], ids[i])]
  BY <1>5
<1> HIDE DEF done
<1> DEFINE B == {i \in 0..Len(ids) : ~Keeps(c, done[i])}
<1>7. B = {}
  <2>1. SUFFICES ASSUME B # {} PROVE FALSE
    OBVIOUS
  <2>2. B \in SUBSET Nat
    BY <1>1
  <2>3. PICK m \in B : \A k \in B : m <= k
    <3> HIDE DEF B
    <3> QED BY <2>1, <2>2, Least
  <2>4. m \in 0..Len(ids) /\ ~Keeps(c, done[m])
    OBVIOUS
  <2>5. Keeps(c, done[0])
    BY <1>1, <1>6 DEF Keeps
  <2>6. m # 0 /\ m \in 1..Len(ids) /\ m - 1 \in 0..Len(ids) /\ ~(m <= m - 1)
    BY <1>1, <2>4, <2>5
  <2>7. Keeps(c, done[m - 1])
    BY <2>3, <2>6
  <2>8. done[m] = Loaded(done[m - 1], ids[m])
    BY <1>6, <2>4, <2>6
  <2> QED BY <1>1, <1>3, <2>4, <2>6, <2>7, <2>8
<1>8. Keeps(c, done[Len(ids)])
  <2>1. Len(ids) \in 0..Len(ids)
    BY <1>1
  <2> QED BY <1>7, <2>1
<1> QED BY <1>2, <1>8

\* The zaps seen are remembered in order, and one that is not remembered was seen so long
\* ago that MaxSeen others followed, or never.
OrderOK ==
  /\ seenZapOrder \in Seq(Zaps) /\ Len(seenZapOrder) <= MaxSeen
  /\ since \in [Zaps -> 0..MaxSeen]
  /\ \A i \in 1..Len(seenZapOrder) : since[seenZapOrder[i]] >= Len(seenZapOrder) - i
  /\ \A z \in Zaps \ seenZapIds : since[z] = MaxSeen

ZapInv == TypeOK /\ OrderOK /\ twice = {}

\* What a step does to the zaps: notes that are watched before and after lose none.
WatchedKeep == \A e \in watching \cap watching' : ZapsOf(cache, e) \subseteq ZapsOf(cache', e)

\* At first nothing is cached.
LEMMA InitZaps == Init => ZapInv
<1> SUFFICES ASSUME Init PROVE ZapInv
  OBVIOUS
<1>1. OrderOK
  <2>1. MaxSeen \in Nat /\ seenZapOrder = <<>> /\ since = [z \in Zaps |-> MaxSeen]
    BY PartsAssumption DEF Init, ZapConstants
  <2>2. seenZapOrder \in Seq(Zaps) /\ Len(seenZapOrder) = 0
    BY <2>1
  <2> QED BY <2>1, <2>2 DEF OrderOK
<1>2. cache \in Cache
  BY DEF Init, Cache
<1>3. TypeOK
  <2>1. pending \in Seq(Notes) /\ batch \in [Subs -> Seq(Notes)]
    BY DEF Init
  <2>2. PoolTypeOK
    BY DEF Init, PoolInit, PoolTypeOK
  <2> QED BY <1>1, <1>2, <2>1, <2>2 DEF Init, TypeOK, Cache, Entry, OrderOK
<1> QED BY <1>1, <1>3 DEF ZapInv, Init

\* A step that only keeps zaps leaves all in order.
LEMMA KeepsZaps ==
  ASSUME ZapInv, Keeps(cache, cache'), UNCHANGED <<seenZapOrder, since, twice>>
  PROVE  cache' \in Cache /\ OrderOK' /\ twice' = {} /\ WatchedKeep
<1>1. watching \subseteq Notes
  BY DEF ZapInv, TypeOK
<1>2. OrderOK'
  BY DEF ZapInv, OrderOK, seenZapIds
<1> QED BY <1>1, <1>2 DEF ZapInv, Keeps, WatchedKeep

\* A card that appears moves its note's entry to the end.
LEMMA TouchKeeps ==
  ASSUME NEW c \in Cache, NEW e
  PROVE  Keeps(c, Without(c, {e}) \o Among(c, {e}))
<1>1. PICK d : d = Without(c, {e}) \o Among(c, {e})
  OBVIOUS
<1>2. /\ Without(c, {e}) \in Cache /\ Among(c, {e}) \in Cache
      /\ Entries(Without(c, {e})) = {r \in Entries(c) : r.id \notin {e}}
      /\ Entries(Among(c, {e})) = {r \in Entries(c) : r.id \in {e}}
  BY WithoutZaps, AmongEntries
<1>3. d \in Cache /\ Entries(d) = Entries(c)
  BY <1>1, <1>2, ConcatEntries
<1>4. \A n \in Notes : ZapsOf(d, n) = ZapsOf(c, n)
  BY <1>3, ZapsOfEntries
<1> QED BY <1>1, <1>3, <1>4 DEF Keeps

\* A card that comes or goes.
LEMMA CardSteps ==
  ASSUME ZapInv, NEW e \in Notes, Subscribe(e) \/ Unsubscribe(e)
  PROVE  /\ TypeOK'
         /\ OrderOK' /\ twice' = {} /\ WatchedKeep
<1>1. TypeOK /\ cache \in Cache /\ twice = {} /\ OrderOK
  BY DEF ZapInv, TypeOK, Cache, Entry
<1>2. UNCHANGED <<configured, active, batch, timeouts, seenZapOrder, since, twice, stage>>
  BY DEF Subscribe, Unsubscribe, requests, counted
<1>3. Keeps(cache, cache')
  <2>1. Keeps(cache, cache)
    BY <1>1 DEF Keeps
  <2>2. \/ cache' = cache
        \/ cache' = Without(cache, {e}) \o Among(cache, {e})
    BY DEF Subscribe, Unsubscribe
  <2> QED BY <1>1, <2>1, <2>2, TouchKeeps
<1>4. cache' \in Cache /\ OrderOK' /\ twice' = {} /\ WatchedKeep
  BY <1>2, <1>3, KeepsZaps
<1>5. /\ pending' \in Seq(Notes) /\ fetching' \subseteq Notes /\ timer' \in BOOLEAN
      /\ watching' \subseteq Notes
  <2>1. /\ pending \in Seq(Notes) /\ fetching \subseteq Notes /\ timer \in BOOLEAN
        /\ watching \subseteq Notes
    BY <1>1 DEF TypeOK
  <2>2. /\ pending' = pending \/ pending' = Append(pending, e)
        /\ fetching' = fetching \/ fetching' = fetching \cup {e}
        /\ UNCHANGED timer \/ timer' = TRUE
        /\ watching' \subseteq watching \cup {e}
    BY DEF Subscribe, Unsubscribe, requests
  <2>3. /\ Append(pending, e) \in Seq(Notes)
        /\ fetching \cup {e} \subseteq Notes /\ watching \cup {e} \subseteq Notes
    BY <2>1
  <2>4. timer' \in BOOLEAN
    BY <2>1, <2>2
  <2>5. pending' \in Seq(Notes) /\ fetching' \subseteq Notes
    BY <2>1, <2>2, <2>3
  <2> QED BY <2>2, <2>3, <2>4, <2>5
<1>6. PoolTypeOK'
  BY <1>1, <1>2 DEF TypeOK, PoolTypeOK
<1>7. TypeOK'
  BY <1>1, <1>2, <1>4, <1>5, <1>6 DEF TypeOK, Cache, Entry
<1> QED BY <1>4, <1>7

\* What the pool does leaves the cache and the requests alone.
LEMMA PoolSteps ==
  ASSUME ZapInv,
         Configure \/ \E s \in Subs : SubOpened(s) \/ SubRefused(s)
  PROVE  /\ TypeOK'
         /\ OrderOK' /\ twice' = {} /\ WatchedKeep
<1>1. TypeOK /\ twice = {} /\ OrderOK
  BY DEF ZapInv
<1>2. UNCHANGED <<watching, cache, pending, fetching, timer, active, batch, timeouts, seenZapOrder, since, twice>>
  BY DEF Configure, SubOpened, SubRefused, requests,
         counted
<1>3. UNCHANGED configured \/ configured' = TRUE
  BY DEF Configure, SubOpened, SubRefused
<1>4. PoolTypeOK'
  BY <1>1 DEF TypeOK, PoolTypeOK, Configure, SubOpened,
              SubRefused, Opened, Refused
<1>5. configured' \in BOOLEAN
  BY <1>1, <1>3 DEF TypeOK
<1>6. TypeOK'
  BY <1>1, <1>2, <1>4, <1>5 DEF TypeOK
<1>7. OrderOK' /\ twice' = {} /\ WatchedKeep
  BY <1>1, <1>2 DEF WatchedKeep, OrderOK, seenZapIds
<1> QED BY <1>6, <1>7

\* A batch takes its notes from those that wait.
LEMMA BatchSteps ==
  ASSUME ZapInv, NEW s \in Subs, ProcessBatch(s)
  PROVE  /\ TypeOK'
         /\ OrderOK' /\ twice' = {} /\ WatchedKeep
<1>1. TypeOK /\ cache \in Cache /\ twice = {} /\ OrderOK
  BY DEF ZapInv, TypeOK, Cache, Entry
<1>2. UNCHANGED <<configured, watching, cache, fetching, seenZapOrder, since, twice>>
  BY DEF ProcessBatch, counted
<1>3. OrderOK' /\ twice' = {} /\ WatchedKeep
  BY <1>1, <1>2 DEF WatchedKeep, OrderOK, seenZapIds
<1>4. PICK n : /\ n = (IF Len(pending) < MaxBatch THEN Len(pending) ELSE MaxBatch)
               /\ batch' = [batch EXCEPT ![s] = SubSeq(pending, 1, n)]
               /\ pending' = SubSeq(pending, n + 1, Len(pending))
               /\ timer' = (Len(pending) - n > 0)
  BY DEF ProcessBatch, SetAgain
<1>5. pending \in Seq(Notes) /\ batch \in [Subs -> Seq(Notes)]
  BY <1>1 DEF TypeOK
<1>6. n \in Nat /\ n <= Len(pending)
  <2>1. MaxBatch \in Nat /\ Len(pending) \in Nat
    BY <1>5, PartsAssumption DEF ZapConstants
  <2> QED BY <1>4, <2>1
<1>7. SubSeq(pending, 1, n) \in Seq(Notes) /\ SubSeq(pending, n + 1, Len(pending)) \in Seq(Notes)
  BY <1>5, <1>6
<1>8. timer' \in BOOLEAN
  BY <1>4
<1>9. active' \in Subs \cup {NoSub} /\ timeouts' \subseteq Subs
  BY <1>1 DEF TypeOK, ProcessBatch
<1>10. PoolTypeOK'
  BY <1>1 DEF TypeOK, PoolTypeOK, ProcessBatch, Replace,
              AfterClose
<1>11. batch' \in [Subs -> Seq(Notes)] /\ pending' \in Seq(Notes)
  BY <1>4, <1>5, <1>7
<1>12. TypeOK'
  BY <1>1, <1>2, <1>8, <1>9, <1>10, <1>11 DEF TypeOK
<1> QED BY <1>3, <1>12

\* One more zap is seen, and the oldest forgotten when there are too many.
LEMMA MarkKeepsOrder ==
  ASSUME OrderOK, NEW z \in Zaps, MarkSeen(z),
         since' = [y \in Zaps |-> IF y = z THEN 0
                                  ELSE IF since[y] < MaxSeen THEN since[y] + 1 ELSE MaxSeen]
  PROVE  OrderOK'
<1> DEFINE n == Len(seenZapOrder)
<1>1. PICK longer : longer = Append(seenZapOrder, z)
  OBVIOUS
<1>2. MaxSeen \in Nat
  BY PartsAssumption DEF ZapConstants
<1>3. /\ n \in Nat /\ n <= MaxSeen
      /\ seenZapOrder \in Seq(Zaps)
      /\ \A i \in 1..n : seenZapOrder[i] \in Zaps
      /\ since \in [Zaps -> 0..MaxSeen]
  BY DEF OrderOK
<1>4. /\ longer \in Seq(Zaps) /\ Len(longer) = n + 1
      /\ \A i \in 1..n : longer[i] = seenZapOrder[i]
      /\ longer[n + 1] = z
  BY <1>1, <1>3
<1>5. since' \in [Zaps -> 0..MaxSeen]
  <2> SUFFICES ASSUME NEW y \in Zaps
               PROVE  (IF y = z THEN 0 ELSE IF since[y] < MaxSeen THEN since[y] + 1 ELSE MaxSeen)
                        \in 0..MaxSeen
    OBVIOUS
  <2>1. since[y] \in 0..MaxSeen
    BY <1>3
  <2> QED BY <1>2, <2>1
<1>6. seenZapIds = {seenZapOrder[i] : i \in 1..n}
  BY <1>3 DEF seenZapIds, Range
<1>7. ASSUME NEW i \in 1..(n + 1)
      PROVE  longer[i] \in Zaps /\ since'[longer[i]] >= n + 1 - i
  <2>1. CASE i = n + 1
    BY <1>2, <1>3, <1>4, <2>1
  <2>2. CASE i \in 1..n
    <3>1. PICK y \in Zaps : y = longer[i] /\ y = seenZapOrder[i]
      BY <1>3, <1>4, <2>2
    <3>2. y # z
      BY <1>6, <2>2, <3>1 DEF MarkSeen
    <3>3. since[y] >= n - i /\ since[y] \in 0..MaxSeen
      BY <1>3, <2>2, <3>1 DEF OrderOK
    <3>4. since'[y] = IF since[y] < MaxSeen THEN since[y] + 1 ELSE MaxSeen
      BY <3>2
    <3> QED BY <1>2, <1>3, <2>2, <3>1, <3>3, <3>4
  <2> QED BY <1>3, <2>1, <2>2
<1>8. ASSUME NEW y \in Zaps, \A i \in 1..(n + 1) : y # longer[i]
      PROVE  since'[y] = MaxSeen
  <2>1. y # z /\ y \notin seenZapIds
    BY <1>3, <1>4, <1>6, <1>8
  <2>2. since[y] = MaxSeen
    BY <2>1 DEF OrderOK
  <2> QED BY <1>2, <2>1, <2>2
<1>9. seenZapOrder' = Kept(longer)
  BY <1>1 DEF MarkSeen
<1> HIDE DEF n
<1>10. CASE n + 1 <= MaxSeen
  <2>1. seenZapOrder' = longer
    BY <1>2, <1>3, <1>4, <1>9, <1>10 DEF Kept
  <2>2. seenZapIds' = {longer[i] : i \in 1..(n + 1)}
    <3>1. DOMAIN longer = 1..(n + 1)
      BY <1>3, <1>4
    <3> QED BY <2>1, <3>1 DEF seenZapIds, Range
  <2>3. \A y \in Zaps \ seenZapIds' : since'[y] = MaxSeen
    BY <1>8, <2>2
  <2>4. PICK m \in Nat : m = n + 1 /\ Len(seenZapOrder') = m
    BY <1>3, <1>4, <2>1
  <2>5. ASSUME NEW i \in 1..m PROVE since'[seenZapOrder'[i]] >= m - i
    <3>1. since'[longer[i]] >= n + 1 - i
      BY <1>7, <2>4
    <3> QED BY <1>3, <2>1, <2>4, <3>1
  <2>6. seenZapOrder' \in Seq(Zaps) /\ Len(seenZapOrder') <= MaxSeen
    BY <1>4, <1>10, <2>1, <2>4
  <2> QED BY <1>5, <2>3, <2>4, <2>5, <2>6 DEF OrderOK
<1>11. CASE ~(n + 1 <= MaxSeen)
  <2>1. n = MaxSeen /\ seenZapOrder' = SubSeq(longer, 2, n + 1)
    <3>1. n = MaxSeen
      BY <1>2, <1>3, <1>11
    <3>2. Len(longer) = n + 1 /\ Len(longer) > MaxSeen
      BY <1>3, <1>4, <3>1
    <3>3. Len(longer) - MaxSeen + 1 = 2
      BY <1>3, <3>1, <3>2
    <3>4. Kept(longer) = SubSeq(longer, 2, n + 1)
      BY <3>2, <3>3 DEF Kept
    <3> QED BY <1>9, <3>1, <3>4
  <2>2. /\ seenZapOrder' \in Seq(Zaps) /\ Len(seenZapOrder') = n
        /\ DOMAIN seenZapOrder' = 1..n
        /\ \A i \in 1..n : seenZapOrder'[i] = longer[i + 1]
    <3>1. \A i \in 2..(n + 1) : longer[i] \in Zaps
      BY <1>3, <1>7
    <3>2. n + 1 \in Nat /\ n + 1 <= Len(longer) /\ (n + 1) - 2 + 1 = n
      BY <1>3, <1>4
    <3>3. Len(seenZapOrder') = n
      BY <1>3, <1>4, <2>1, <3>2
    <3>4. \A i \in 1..n : seenZapOrder'[i] = longer[i + 1]
      BY <1>3, <1>4, <2>1, <3>2
    <3>5. seenZapOrder' \in Seq(Zaps)
      BY <1>3, <1>4, <2>1, <3>1, <3>2
    <3> QED BY <3>3, <3>4, <3>5
  <2>3. seenZapIds' = {longer[i + 1] : i \in 1..n}
    BY <2>2 DEF seenZapIds, Range
  <2>4. ASSUME NEW y \in Zaps \ seenZapIds' PROVE since'[y] = MaxSeen
    <3>1. CASE y = longer[1]
      <4>1. since'[y] >= n + 1 - 1
        BY <1>3, <1>7, <3>1
      <4>2. since'[y] \in 0..MaxSeen
        BY <1>5
      <4> QED BY <1>2, <2>1, <4>1, <4>2
    <3>2. CASE y # longer[1]
      <4>1. ASSUME NEW i \in 1..(n + 1) PROVE y # longer[i]
        <5>1. CASE i = 1
          BY <3>2, <5>1
        <5>2. CASE i # 1
          <6>1. i - 1 \in 1..n /\ (i - 1) + 1 = i
            BY <1>3, <5>2
          <6> QED BY <2>3, <2>4, <6>1
        <5> QED BY <5>1, <5>2
      <4> QED BY <1>8, <4>1
    <3> QED BY <3>1, <3>2
  <2>5. ASSUME NEW i \in 1..n PROVE since'[seenZapOrder'[i]] >= n - i
    <3>1. i + 1 \in 1..(n + 1) /\ n + 1 - (i + 1) = n - i
      BY <1>3
    <3>2. since'[longer[i + 1]] >= n + 1 - (i + 1)
      BY <1>7, <3>1
    <3> QED BY <2>2, <3>1, <3>2
  <2> QED BY <1>2, <1>5, <2>1, <2>2, <2>4, <2>5 DEF OrderOK
<1> QED BY <1>10, <1>11

\* A zap that is counted again had been forgotten, and the others of its note stay.
LEMMA DeliverSteps ==
  ASSUME ZapInv, NEW s \in Subs, NEW z \in Zaps, Deliver(s, z)
  PROVE  /\ TypeOK'
         /\ OrderOK' /\ twice' = {} /\ WatchedKeep
<1>1. TypeOK /\ cache \in Cache /\ twice = {} /\ OrderOK
  BY DEF ZapInv, TypeOK, Cache, Entry
<1>2. OrderOK'
  BY <1>1, MarkKeepsOrder DEF Deliver
<1>3. UNCHANGED <<configured, watching, stage, pending, fetching, timer, active, batch, timeouts>>
  BY DEF Deliver, requests
<1>4. ~(since[z] < MaxSeen)
  BY <1>1, PartsAssumption DEF Deliver, MarkSeen, OrderOK, ZapConstants
<1>5. cache' \in Cache /\ twice' = {} /\ WatchedKeep
  <2>1. CASE NoteOf[z] \notin Range(batch[s])
    <3>1. UNCHANGED <<cache, twice>>
      BY <2>1 DEF Deliver
    <3> QED BY <1>1, <3>1 DEF WatchedKeep, ZapsOf
  <2>2. CASE NoteOf[z] \in Range(batch[s])
    <3>1. PICK e \in Notes : e = NoteOf[z]
      <4>1. batch[s] \in Seq(Notes)
        BY <1>1 DEF TypeOK
      <4> QED BY <2>2, <4>1 DEF Range
    <3>2. PICK old \in SUBSET Zaps : old = ZapsOf(cache, e)
      BY <1>1, ZapsAreZaps
    <3>3. /\ cache' = Put(cache, e, old \cup {z}, TRUE)
          /\ twice' = twice \cup {y \in old \cap {z} : since[y] < MaxSeen}
      BY <2>2, <3>1, <3>2 DEF Deliver
    <3>4. Replaced(cache, e, old \cup {z}, cache')
      <4>1. PICK l \in BOOLEAN : cache' = Put(cache, e, old \cup {z}, l)
        BY <3>3
      <4>2. PICK zs \in SUBSET Zaps : zs = old \cup {z}
        OBVIOUS
      <4>3. Replaced(cache, e, zs, Put(cache, e, zs, l))
        BY <1>1, PutZaps
      <4> QED BY <4>1, <4>2, <4>3
    <3>5. twice' = {}
      BY <1>1, <1>4, <3>3
    <3>6. WatchedKeep
      <4> SUFFICES ASSUME NEW m \in watching
                   PROVE  ZapsOf(cache, m) \subseteq ZapsOf(cache', m)
        BY DEF WatchedKeep
      <4>1. m \in Notes
        BY <1>1 DEF TypeOK
      <4> QED BY <3>2, <3>4, <4>1 DEF Replaced
    <3> QED BY <3>4, <3>5, <3>6 DEF Replaced
  <2> QED BY <2>1, <2>2
<1>6. PoolTypeOK'
  BY <1>1, <1>3 DEF TypeOK, PoolTypeOK
<1>7. TypeOK'
  BY <1>1, <1>2, <1>3, <1>5, <1>6 DEF TypeOK, OrderOK, Cache, Entry
<1> QED BY <1>2, <1>5, <1>7

\* The end of a batch, heard of or timed out, takes nothing away.
LEMMA EndSteps ==
  ASSUME ZapInv, NEW s \in Subs, Eose(s) \/ TimeoutFires(s)
  PROVE  /\ TypeOK'
         /\ OrderOK' /\ twice' = {} /\ WatchedKeep
<1>1. TypeOK /\ cache \in Cache /\ twice = {} /\ OrderOK
  BY DEF ZapInv, TypeOK, Cache, Entry
<1>2. batch[s] \in Seq(Notes)
  BY <1>1 DEF TypeOK
<1>3. /\ UNCHANGED <<configured, watching, pending, timer, active, batch, seenZapOrder, since, twice, stage>>
      /\ timeouts' \subseteq timeouts /\ fetching' \subseteq fetching
  BY DEF Eose, TimeoutFires, counted
<1>4. PICK E : cache' = Finished(cache, batch[s], E)
  BY DEF Eose, TimeoutFires
<1>5. Keeps(cache, cache')
  BY <1>1, <1>2, <1>4, FinishedKeeps
<1>6. cache' \in Cache /\ OrderOK' /\ twice' = {} /\ WatchedKeep
  BY <1>3, <1>5, KeepsZaps
<1>7. PoolTypeOK'
  BY <1>1, <1>3 DEF TypeOK, PoolTypeOK
<1>8. TypeOK'
  BY <1>1, <1>3, <1>6, <1>7 DEF TypeOK, Cache, Entry
<1> QED BY <1>6, <1>8

\* Every step keeps the zaps of what is watched, and counts none twice.
LEMMA NextZaps ==
  ASSUME ZapInv, [Next]_zapVars
  PROVE  ZapInv' /\ WatchedKeep /\ twice' = {}
<1>1. SUFFICES /\ TypeOK'
               /\ OrderOK' /\ twice' = {} /\ WatchedKeep
  BY DEF ZapInv
<1>2. CASE UNCHANGED zapVars
  <2>1. OrderOK' /\ twice' = {} /\ WatchedKeep
    BY <1>2 DEF zapVars, counted, ZapInv, WatchedKeep, OrderOK, seenZapIds, ZapsOf
  <2>2. TypeOK'
    BY <1>2 DEF zapVars, requests, counted, ZapInv, TypeOK, PoolTypeOK
  <2> QED BY <2>1, <2>2
<1>3. CASE Configure \/ \E s \in Subs : SubOpened(s) \/ SubRefused(s)
  BY <1>3, PoolSteps
<1> QED BY <1>2, <1>3, CardSteps, BatchSteps, DeliverSteps, EndSteps DEF Next

-----------------------------------------------------------------------------
(* All three.  MCLiveData explores one at a time; each behaves as its own    *)
(* specification says.                                                       *)

\* The balance, the block and the zaps behave as their modules say.
LEMMA EachBehaves ==
  PartsSpec => /\ Wallet!Spec
               /\ Telemetry!Init /\ [][Telemetry!Next]_telemetryVars
               /\ Spec
<1>1. PartsInit => Wallet!Init /\ Telemetry!Init /\ Init
  BY DEF PartsInit
<1>2. [PartsNext]_<<part, walletVars, telemetryVars, zapVars>>
        => [Wallet!Next]_Wallet!vars /\ [Telemetry!Next]_telemetryVars /\ [Next]_zapVars
  BY DEF PartsNext, walletVars, Wallet!vars, Wallet!fetcher
<1> QED BY <1>1, <1>2, PTL DEF PartsSpec, Wallet!Spec, Spec

\* In every reachable state the wallet and its fetches, the poller and the viewers'
\* pages, the zap cache and its batches have their types: among them that failures in a
\* row never pass the limit, that no cache entry is of another note or zap, and that no
\* more than MAX_SEEN_ZAP_IDS zaps are remembered.
THEOREM LiveDataTyped == PartsSpec => []TypesOK
<1>1. Wallet!TypeOK /\ TelemetryInv /\ ZapInv => TypesOK
  BY DEF TypesOK, TelemetryInv, ZapInv
<1>2. TelemetryInv /\ [Telemetry!Next]_telemetryVars => TelemetryInv'
  BY NextTelemetry
<1>3. ZapInv /\ [Next]_zapVars => ZapInv'
  BY NextZaps
<1> QED BY EachBehaves, TypesCorrect, InitTelemetry, InitZaps, <1>1, <1>2, <1>3, PTL DEF Spec

\* What any client was told last is the server's last snapshot: no two visitors see two
\* balances, however their handlers and the interval share, join and await fetches.
THEOREM BalanceIsOne == PartsSpec => []OneBalance
<1>1. Wallet!OneBalance => OneBalance
  BY DEF OneBalance
<1> QED BY EachBehaves, SnapshotTold, <1>1, PTL

\* The total of a note on the screen only grows, and by each zap once until MaxSeen others
\* were seen, for any notes, zaps, cache and batch size: neither eviction for other notes
\* nor the end or the timeout of a batch takes a zap away, a replaced subscription brings
\* none a second time, and none is forgotten too soon.
THEOREM TotalsGrow == PartsSpec => TotalOnlyGrows
<1>1. ZapInv /\ [Next]_zapVars
        => /\ ZapInv'
           /\ [/\ \A e \in watching \cap watching' : ZapsOf(cache, e) \subseteq ZapsOf(cache', e)
               /\ twice' = {}]_zapVars
  BY NextZaps DEF WatchedKeep
<1> QED BY EachBehaves, InitZaps, <1>1, PTL DEF Spec, TotalOnlyGrows

=============================================================================
