------------------------------ MODULE MCDialogs ------------------------------
(* The dialogs of the web application, on small instances: the login with    *)
(* one session that two wallets sign and two requests in flight, the login   *)
(* with two sessions of one wallet and one request at a time, so that it is  *)
(* closed and opened again, and the payment dialogs.  They share no state:   *)
(* one behaviour explores one of them and leaves the others where they start. *)
EXTENDS LnurlLogin

CONSTANTS k1, k2, x1, x2, r1, r2
CONSTANT MaxAttempts
VARIABLE part  \* what this behaviour explores

\* ZapPayment
VARIABLES kind, regtest, wallets, view, current, invoice, statusUrl, authError, step, poll,
          timers, timerRef, timedOut, regtestPays, paid

zapVars ==
  <<kind, regtest, wallets, view, current, invoice, statusUrl, authError, step, poll,
    timers, timerRef, timedOut, regtestPays, paid>>

Zap == INSTANCE ZapPayment

ASSUME AttemptsAssumption == MaxAttempts \in Nat

\* Bound: a page with both wallets, one with neither, and the demo's, which has neither.
Pages == {<<FALSE, {"nwc", "webln"}>>, <<FALSE, {}>>, <<TRUE, {}>>}

PartsInit ==
  /\ part \in {"login", "relogin", "zap"}
  /\ Init
  /\ Zap!Init /\ <<regtest, wallets>> \in Pages
  /\ part # "zap" => kind = "zap" /\ ~regtest /\ wallets = {}

\* The wallets are alike: x1 is the first to sign, and wrong signatures are x2's.
FirstIsX1 ==
  /\ (\E g \in signed : g.key = x2) => (\E g \in signed : g.key = x1)
  /\ \A t \in Requests : h[t].key = x1 => h[t].valid

\* Bound: what each login uses of the sessions, keys and requests.
OneSession == k2 \notin asked /\ (\A t \in Requests : h[t].k1 # k2) /\ FirstIsX1
OneRequest == h[r2] = Idle /\ h[r1].key # x2

PartsNext ==
  /\ UNCHANGED part
  /\ \/ part = "login" /\ Next /\ OneSession' /\ UNCHANGED zapVars
     \/ part = "relogin" /\ Next /\ OneRequest' /\ UNCHANGED zapVars
     \/ part = "zap" /\ Zap!Next /\ UNCHANGED vars

\* The fairness of the login is that with two requests: with one at a time, Poll of the
\* other would have to be fair too, so "relogin" is for safety.
PartsSpec ==
  /\ PartsInit /\ [][PartsNext]_<<part, vars, zapVars>>
  /\ Fairness /\ Zap!Fairness

\* The values every variable may have.
TypesOK == TypeOK /\ Zap!TypeOK

\* ZapPayment: the zap dialog does what is documented, of the current attempt only.
ZapFollowsFlow == Zap!ZapFollowsFlow

\* ZapPayment: polling notices a payment.
PaymentIsSeen == Zap!PaymentIsSeen

=============================================================================
