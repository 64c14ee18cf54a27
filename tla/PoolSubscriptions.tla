------------------------- MODULE PoolSubscriptions --------------------------
(***************************************************************************)
(* Subscriptions of SimplePool: subscribeMany returns at once, while the   *)
(* relays are being connected to, so that a subscription can be closed     *)
(* before it has an id to be closed by.  An open system: the module that   *)
(* uses the pool adds what its callbacks do.                               *)
(***************************************************************************)
CONSTANT Subs

VARIABLE stage  \* how far each subscription is: unused, starting, open, ended

PoolInit == stage = [s \in Subs |-> "unused"]

Idle(s) == stage[s] \in {"unused", "ended"}

\* close(): one that is open leaves the table of subscriptions and is unsubscribed,
\* one that is starting is only marked closed, which nothing looks at.
AfterClose(s) == IF stage[s] = "open" THEN "ended" ELSE stage[s]

\* subscribeMany for s, closing the subscription old, if there is one.
Replace(old, s) ==
  /\ Idle(s)
  /\ stage' = [t \in Subs |-> IF t = s THEN "starting"
                              ELSE IF t = old THEN AfterClose(t) ELSE stage[t]]

\* The relays are connected and subscribed to, even if it was closed meanwhile.
Opened(s) ==
  /\ stage[s] = "starting"
  /\ stage' = [stage EXCEPT ![s] = "open"]

\* No relay could be reached: it closes itself.
Refused(s) ==
  /\ stage[s] = "starting"
  /\ stage' = [stage EXCEPT ![s] = "ended"]

PoolTypeOK == stage \in [Subs -> {"unused", "starting", "open", "ended"}]

=============================================================================
