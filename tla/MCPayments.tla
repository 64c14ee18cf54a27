----------------------------- MODULE MCPayments -----------------------------
(* Payments on small instances: a is asked for with POST /api/pay, z through *)
(* LNURL-pay by a user with a pubkey.                                        *)
EXTENDS Payments

CONSTANTS a, z, r1, r2, s1

=============================================================================
