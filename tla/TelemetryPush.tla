--------------------------- MODULE TelemetryPush ----------------------------
(***************************************************************************)
(* The newest block pushed to the visitors on /ws/telemetry: the first     *)
(* read when the server starts, which decides between the node and mock    *)
(* data, and the poller with its backoff and its giving up.                *)
(***************************************************************************)
EXTENDS Naturals

CONSTANTS
  Viewers,      \* visitors of /ws/telemetry
  MaxTip,       \* bound: the height of the chain
  MaxMoves,     \* bound: how often its newest block changes
  MaxFailures,  \* MAX_CONSECUTIVE_FAILURES
  NoBlock

TelemetryConstants ==
  MaxTip \in Nat /\ MaxMoves \in Nat /\ MaxFailures \in Nat \ {0} /\ NoBlock \notin Nat

VARIABLES
  tip,        \* the height at the node
  moves,      \* how often it changed
  source,     \* who the blocks come from: not known yet, the node, or nobody but a mock
  lastEvent,  \* the height of the block sent last
  lastErrorEvent,
  lastHeight,
  poll,       \* what the poll in flight waits for
  height,     \* the height it works on
  due,        \* Date.now() >= nextPollAt
  consecutiveFailures,
  shows,      \* what each viewer's page was sent last
  block       \* and the last block it was sent

poller == <<lastHeight, poll, height, due, consecutiveFailures>>
screens == <<shows, block>>
chain == <<tip, moves>>
vars == <<chain, source, lastEvent, lastErrorEvent, poller, screens>>

Heights == 0..MaxTip
Present == {v \in Viewers : shows[v] # "away"}

Init ==
  /\ tip = 0 /\ moves = 0
  /\ source = "starting"
  /\ lastEvent = NoBlock /\ lastErrorEvent = FALSE
  /\ lastHeight = NoBlock
  /\ poll = "none" /\ height = NoBlock
  /\ due = TRUE /\ consecutiveFailures = 0
  /\ shows = [v \in Viewers |-> "away"]
  /\ block = [v \in Viewers |-> NoBlock]

\* A block is found, or a reorganisation takes the newest ones back.
ChainMoves ==
  /\ moves < MaxMoves /\ moves' = moves + 1
  /\ tip' \in {tip - 1, tip + 1} \cap Heights
  /\ UNCHANGED <<source, lastEvent, lastErrorEvent, poller, screens>>

-----------------------------------------------------------------------------
BroadcastBlock(b) ==
  /\ lastEvent' = b
  /\ shows' = [v \in Viewers |-> IF v \in Present THEN "block" ELSE "away"]
  /\ block' = [v \in Viewers |-> IF v \in Present THEN b ELSE NoBlock]

BroadcastError ==
  /\ lastErrorEvent' = TRUE
  /\ shows' = [v \in Viewers |-> IF v \in Present THEN "error" ELSE "away"]
  /\ UNCHANGED <<lastEvent, block>>

\* The first read, before the server listens: without the tip only mock data is shown;
\* the tip without its block leaves an error event for the first visitors.
Prime ==
  /\ source = "starting"
  /\ UNCHANGED <<chain, poll, height, due, consecutiveFailures, screens>>
  /\ \/ /\ source' = "mock"
        /\ lastEvent' = 0
        /\ UNCHANGED <<lastErrorEvent, lastHeight>>
     \/ /\ source' = "node"
        /\ lastEvent' = tip /\ lastHeight' = tip
        /\ UNCHANGED lastErrorEvent
     \/ /\ source' = "node"
        /\ lastErrorEvent' = TRUE
        /\ UNCHANGED <<lastEvent, lastHeight>>

\* The mock's interval makes up a block.
MockBlock ==
  /\ source = "mock" /\ lastEvent < MaxTip
  /\ BroadcastBlock(lastEvent + 1)
  /\ UNCHANGED <<chain, source, lastErrorEvent, poller>>

\* A viewer connects and is sent the last block, or else an error: the last one, or
\* that there is no block yet.
Connect(v) ==
  /\ source # "starting" /\ v \notin Present
  /\ shows' = [shows EXCEPT ![v] = IF lastEvent = NoBlock THEN "error" ELSE "block"]
  /\ block' = [block EXCEPT ![v] = lastEvent]
  /\ UNCHANGED <<chain, source, lastEvent, lastErrorEvent, poller>>

Disconnect(v) ==
  /\ v \in Present
  /\ shows' = [shows EXCEPT ![v] = "away"]
  /\ block' = [block EXCEPT ![v] = NoBlock]
  /\ UNCHANGED <<chain, source, lastEvent, lastErrorEvent, poller>>

-----------------------------------------------------------------------------
(* The poller *)

PollStarts ==
  /\ source = "node" /\ poll = "none" /\ due
  /\ poll' = "tip"
  /\ UNCHANGED <<chain, source, lastEvent, lastErrorEvent, lastHeight, height, due>>
  /\ UNCHANGED <<consecutiveFailures, screens>>

\* The poll is over without an exception: failures are forgotten, and the next poll is
\* due after the base delay.
PollSucceeds ==
  /\ poll' = "none" /\ height' = NoBlock
  /\ due' = FALSE
  /\ consecutiveFailures' = 0

\* The node answers its height.  Unless it is that of the last block, its block is
\* asked for.
TipRead ==
  /\ poll = "tip"
  /\ UNCHANGED <<chain, source, lastEvent, lastErrorEvent, lastHeight, screens>>
  /\ \/ /\ tip # lastHeight
        /\ poll' = "block" /\ height' = tip
        /\ UNCHANGED <<due, consecutiveFailures>>
     \/ tip = lastHeight /\ PollSucceeds

\* The node's height is no number (esplora's provider only).
TipNotANumber ==
  /\ poll = "tip"
  /\ BroadcastError
  /\ PollSucceeds
  /\ UNCHANGED <<chain, source, lastHeight>>

BlockRead ==
  /\ poll = "block"
  /\ lastHeight' = height
  /\ lastErrorEvent' = FALSE
  /\ BroadcastBlock(height)
  /\ PollSucceeds
  /\ UNCHANGED <<chain, source>>

\* Seeded fault: the height counts as read although its block was not.
HeightOnly ==
  /\ poll = "block"
  /\ lastHeight' = height
  /\ BroadcastError
  /\ PollSucceeds
  /\ UNCHANGED <<chain, source>>

\* fetchBlock catches the exception, tells the viewers, and the poll has succeeded.
BlockFails ==
  /\ poll = "block"
  /\ BroadcastError
  /\ PollSucceeds
  /\ UNCHANGED <<chain, source, lastHeight>>

\* Seeded fault: one failure more than the limit.
Exceeded(n) == n > MaxFailures

\* Is the limit of failures in a row reached?
Exhausted(n) == n >= MaxFailures

\* The height cannot be read.  The poller backs off; the viewers are told the first
\* time, and again for another message or after a while; the failure that reaches the
\* limit stops the interval for good.
TipFails ==
  /\ poll = "tip"
  /\ poll' = "none" /\ height' = NoBlock
  /\ due' = FALSE
  /\ consecutiveFailures' = consecutiveFailures + 1
  /\ UNCHANGED <<chain, lastHeight>>
  /\ \/ /\ Exhausted(consecutiveFailures')
        /\ source' = "stopped"
        /\ BroadcastError
     \/ /\ ~Exhausted(consecutiveFailures')
        /\ UNCHANGED source
        /\ \/ BroadcastError
           \/ consecutiveFailures > 0 /\ UNCHANGED <<lastEvent, lastErrorEvent, screens>>

\* nextPollAt passes.
BecomesDue ==
  /\ source = "node" /\ poll = "none" /\ ~due
  /\ due' = TRUE
  /\ UNCHANGED <<chain, source, lastEvent, lastErrorEvent, lastHeight, poll, height>>
  /\ UNCHANGED <<consecutiveFailures, screens>>

-----------------------------------------------------------------------------
Next ==
  \/ ChainMoves
  \/ Prime \/ MockBlock
  \/ PollStarts \/ TipRead \/ TipNotANumber \/ TipFails
  \/ BlockRead \/ BlockFails \/ BecomesDue
  \/ \E v \in Viewers : Connect(v) \/ Disconnect(v)

Spec == Init /\ [][Next]_vars

\* The timer fires and requests end; a node that is asked endlessly often answers
\* endlessly often, about its height and about a block.
Fairness ==
  /\ WF_vars(PollStarts) /\ WF_vars(BecomesDue)
  /\ SF_vars(TipRead) /\ SF_vars(BlockRead)

FairSpec == Spec /\ Fairness

-----------------------------------------------------------------------------
TypeOK ==
  /\ tip \in Heights /\ moves \in 0..MaxMoves
  /\ source \in {"starting", "node", "mock", "stopped"}
  /\ lastEvent \in Heights \cup {NoBlock} /\ lastHeight \in Heights \cup {NoBlock}
  /\ lastErrorEvent \in BOOLEAN
  /\ poll \in {"none", "tip", "block"} /\ height \in Heights \cup {NoBlock}
  /\ due \in BOOLEAN
  /\ consecutiveFailures \in 0..MaxFailures
  /\ shows \in [Viewers -> {"away", "error", "block"}]
  /\ block \in [Viewers -> Heights \cup {NoBlock}]

Behind(v) == v \in Present /\ block[v] # tip /\ source = "node"

\* While the poller has not given up, a viewer whose block is not the newest one comes
\* to be sent the newest: errors in between, a block that cannot be read, or an error
\* sent to a new viewer in place of the block do not lose it.
BlockReaches == \A v \in Viewers : Behind(v) ~> ~Behind(v)

=============================================================================
