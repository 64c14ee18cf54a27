----------------------------- MODULE MCLiveData -----------------------------
(* What a page shows and nobody asks for twice, on small instances: the     *)
(* wallet's balance, the newest block and the zaps of notes.  The three     *)
(* share no state and none waits for another, so one behaviour explores one *)
(* of them and leaves the other two where they start.                       *)
EXTENDS ZapBatcher, TLC

CONSTANTS c1, c2, e1, e2, z1, z2, z3, b1, b2
CONSTANTS Visitors, MaxBalance, Unknown
CONSTANTS Viewers, MaxTip, MaxMoves, MaxFailures, NoBlock
VARIABLE part  \* the one that this behaviour explores

\* WalletPush
VARIABLES balance, at, heard, lastSnapshot, flights, failures, backingOff, withId

\* TelemetryPush
VARIABLES tip, moves, source, lastEvent, lastErrorEvent, lastHeight, poll, height,
          due, consecutiveFailures, shows, block

walletVars == <<balance, at, heard, lastSnapshot, flights, failures, backingOff, withId>>
telemetryVars == <<tip, moves, source, lastEvent, lastErrorEvent, lastHeight, poll, height,
                   due, consecutiveFailures, shows, block>>

Wallet == INSTANCE WalletPush

Telemetry == INSTANCE TelemetryPush

\* Two zaps are of the first note, one of them names the other note too; the third cannot
\* be parsed.  The other note competes for the cache and the batch.
FirstOf == (z1 :> e1) @@ (z2 :> e1) @@ (z3 :> NoNote)
Named == (z1 :> {e1, e2}) @@ (z2 :> {e1}) @@ (z3 :> {e1})

ASSUME PartsAssumption ==
  /\ Wallet!WalletConstants
  /\ Telemetry!TelemetryConstants
  /\ ZapConstants

\* A part that is not explored has one initial state.
PartsInit ==
  /\ part \in {"wallet", "telemetry", "zaps"}
  /\ Wallet!Init /\ (part # "wallet" => withId)
  /\ Telemetry!Init
  /\ Init

\* Bound: the other note stays on the screen.
Staying == e2 \in watching => e2 \in watching'

PartsNext ==
  /\ UNCHANGED part
  /\ \/ part = "wallet" /\ Wallet!Next /\ UNCHANGED <<telemetryVars, zapVars>>
     \/ part = "telemetry" /\ Telemetry!Next /\ UNCHANGED <<walletVars, zapVars>>
     \/ part = "zaps" /\ Next /\ Staying /\ UNCHANGED <<walletVars, telemetryVars>>

\* The fairness of all three: it asks nothing of a part that is where it starts.
PartsSpec ==
  /\ PartsInit /\ [][PartsNext]_<<part, walletVars, telemetryVars, zapVars>>
  /\ Wallet!Fairness /\ Telemetry!Fairness /\ Fairness

\* The values every variable of the three may have.
TypesOK ==
  /\ part = "wallet" => Wallet!TypeOK
  /\ part = "telemetry" => Telemetry!TypeOK
  /\ part = "zaps" => TypeOK

\* WalletPush: no two visitors see two balances.
OneBalance == part = "wallet" => Wallet!OneBalance

\* WalletPush: a change of the balance reaches every client that has one.
BalanceReaches == Wallet!BalanceReaches

\* TelemetryPush: the newest block reaches every viewer while the poller runs.
BlockReaches == Telemetry!BlockReaches

=============================================================================
