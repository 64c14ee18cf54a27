----------------------------- MODULE WalletPush -----------------------------
(***************************************************************************)
(* The wallet's balance pushed to the visitors on /ws/wallet: one fetch    *)
(* from LNbits shared by everybody who asks while it is under way, its     *)
(* backoff after failures, the tick that tells all clients of a change,    *)
(* and the connection handler that serves a new client.                    *)
(***************************************************************************)
EXTENDS Naturals

CONSTANTS
  Visitors,    \* visitors of /ws/wallet
  MaxBalance,  \* bound: the balance changes this often
  Unknown

WalletConstants == MaxBalance \in Nat /\ Unknown \notin Nat

VARIABLES
  balance,      \* the wallet at LNbits
  at,           \* where each client's connection and its handler are
  heard,        \* the balance each client was sent last
  lastSnapshot,
  flights,      \* fetches under way: who began it, the clients that wait for it, its answer
  failures,     \* successiveFailures, which count up to three here
  backingOff,   \* Date.now() < backoffUntil
  withId        \* walletId is set

fetcher == <<flights, failures, backingOff, withId>>
vars == <<balance, at, heard, lastSnapshot, fetcher>>

Tick == "tick"
Balances == 0..MaxBalance
Open == {c \in Visitors : at[c] \in {"waiting", "open"}}

Init ==
  /\ balance = 0
  /\ at = [c \in Visitors |-> "away"]
  /\ heard = [c \in Visitors |-> Unknown]
  /\ lastSnapshot = Unknown
  /\ flights = {} /\ failures = 0 /\ backingOff = FALSE
  /\ withId \in BOOLEAN

BalanceChanges ==
  /\ balance < MaxBalance
  /\ balance' = balance + 1
  /\ UNCHANGED <<at, heard, lastSnapshot, fetcher>>

-----------------------------------------------------------------------------
(* createWalletFetcher *)

NewFlight(who, waiting) == [by |-> who, waiting |-> waiting, got |-> Unknown]

\* Seeded fault: every caller makes a fetch of its own.
EachItsOwn(who, waiting) == flights' = flights \cup {NewFlight(who, waiting)}

\* fetchFn: a caller joins the fetch in flight, or begins one.
Fetch(who, waiting) ==
  flights' = IF flights = {} THEN {NewFlight(who, waiting)}
             ELSE {[f EXCEPT !.waiting = @ \cup waiting] : f \in flights}

\* LNbits reads the balance; the answer is on its way.
LnbitsReads(f) ==
  /\ f \in flights /\ f.got = Unknown
  /\ flights' = (flights \ {f}) \cup {[f EXCEPT !.got = balance]}
  /\ UNCHANGED <<balance, at, heard, lastSnapshot, failures, backingOff, withId>>

\* LNbits does not know the wallet: fetchOnce asks again without its id, and from now
\* on always.
WalletIdFails ==
  /\ withId /\ \E f \in flights : f.got = Unknown
  /\ withId' = FALSE
  /\ UNCHANGED <<balance, at, heard, lastSnapshot, flights, failures, backingOff>>

\* The handlers of the clients in W go on after their await.
Resumed(W) ==
  [c \in Visitors |-> IF c \in W THEN (IF at[c] = "waiting" THEN "open" ELSE "away") ELSE at[c]]

\* Seeded fault: the tick sends the first snapshot only.
FirstOnly(f) == lastSnapshot = Unknown

\* Has the wallet changed since the last snapshot?
Changed(f) == f.got # lastSnapshot

\* The answer arrives.  Those who waited resume in the order they asked in, so the
\* tick sees a change only if it was the first: a client's handler moves lastSnapshot
\* and sends to that client only.
Arrives(f) ==
  /\ f \in flights /\ f.got # Unknown
  /\ flights' = flights \ {f}
  /\ failures' = 0
  /\ lastSnapshot' = f.got
  /\ at' = Resumed(f.waiting)
  /\ LET told == (f.waiting \cap Open)
                   \cup (IF f.by = Tick /\ Changed(f) THEN Open ELSE {})
     IN  heard' = [c \in Visitors |-> IF c \in told THEN f.got ELSE heard[c]]
  /\ UNCHANGED <<balance, backingOff, withId>>

\* The request fails, or its answer makes no sense: null for everybody who waited, and
\* from the third failure in a row on a time without requests.
FetchFails(f) ==
  /\ f \in flights
  /\ flights' = flights \ {f}
  /\ failures' = IF failures < 3 THEN failures + 1 ELSE 3
  /\ backingOff' = (failures >= 2)
  /\ at' = Resumed(f.waiting)
  /\ UNCHANGED <<balance, heard, lastSnapshot, withId>>

BackoffEnds ==
  /\ backingOff
  /\ backingOff' = FALSE
  /\ UNCHANGED <<balance, at, heard, lastSnapshot, flights, failures, withId>>

-----------------------------------------------------------------------------
(* registerWalletWs *)

\* The interval: nothing without clients, and nothing came of a fetch while backing off.
IntervalTick ==
  /\ Open # {} /\ ~backingOff
  /\ Fetch(Tick, {})
  /\ UNCHANGED <<balance, at, heard, lastSnapshot, failures, backingOff, withId>>

\* A client connects.  It is sent the last snapshot; the first ones wait for a fetch,
\* which yields nothing while backing off.
Connect(c) ==
  /\ at[c] = "away"
  /\ UNCHANGED <<balance, lastSnapshot, failures, backingOff, withId>>
  /\ \/ /\ lastSnapshot # Unknown
        /\ at' = [at EXCEPT ![c] = "open"]
        /\ heard' = [heard EXCEPT ![c] = lastSnapshot]
        /\ UNCHANGED flights
     \/ /\ lastSnapshot = Unknown /\ ~backingOff
        /\ at' = [at EXCEPT ![c] = "waiting"]
        /\ Fetch(c, {c})
        /\ UNCHANGED heard
     \/ /\ lastSnapshot = Unknown /\ backingOff
        /\ at' = [at EXCEPT ![c] = "open"]
        /\ UNCHANGED <<heard, flights>>

\* A client goes; its handler may still wait for the fetch.
Disconnect(c) ==
  /\ c \in Open
  /\ at' = [at EXCEPT ![c] = IF at[c] = "waiting" THEN "left" ELSE "away"]
  /\ heard' = [heard EXCEPT ![c] = Unknown]
  /\ UNCHANGED <<balance, lastSnapshot, fetcher>>

-----------------------------------------------------------------------------
AnyRead == \E f \in flights : LnbitsReads(f)
AnyArrival == \E f \in flights : Arrives(f)
AnyFailure == \E f \in flights : FetchFails(f)

Next ==
  \/ BalanceChanges
  \/ AnyRead \/ WalletIdFails \/ AnyArrival \/ AnyFailure \/ BackoffEnds
  \/ IntervalTick
  \/ \E c \in Visitors : Connect(c) \/ Disconnect(c)

Spec == Init /\ [][Next]_vars

\* Timers fire, a fetch ends, and LNbits does not fail for ever: of endlessly many
\* fetches endlessly many are answered.
Fairness ==
  /\ WF_vars(IntervalTick) /\ WF_vars(BackoffEnds)
  /\ SF_vars(AnyRead) /\ SF_vars(AnyArrival)

FairSpec == Spec /\ Fairness

-----------------------------------------------------------------------------
TypeOK ==
  /\ balance \in Balances
  /\ at \in [Visitors -> {"away", "waiting", "left", "open"}]
  /\ heard \in [Visitors -> Balances \cup {Unknown}]
  /\ lastSnapshot \in Balances \cup {Unknown}
  /\ flights \subseteq [by : Visitors \cup {Tick}, waiting : SUBSET Visitors,
                        got : Balances \cup {Unknown}]
  /\ failures \in 0..3
  /\ backingOff \in BOOLEAN /\ withId \in BOOLEAN

\* What a client was told last is the server's last snapshot, whichever handlers wait
\* for LNbits and in whatever order they resume: no two visitors see two balances.
OneBalance == \A c \in Open : heard[c] # Unknown => heard[c] = lastSnapshot

\* A client that was ever sent a balance is in the end sent the wallet's present one,
\* or goes: a change is not lost to failures, the backoff or the shared fetch.
BalanceReaches ==
  \A c \in Visitors :
    (c \in Open /\ heard[c] # Unknown) ~> (c \notin Open \/ heard[c] = balance)

\* A client whose first fetch failed is sent a balance by the interval all the same,
\* which the log says of it ("will retry via interval").
EveryClientHears == \A c \in Visitors : at[c] = "open" ~> (c \notin Open \/ heard[c] # Unknown)

=============================================================================
