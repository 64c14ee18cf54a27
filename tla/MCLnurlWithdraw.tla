-------------------------- MODULE MCLnurlWithdraw --------------------------
(* LnurlWithdraw on small instances: every slot may serve any request, so    *)
(* slots, sessions and invoices in bounds are interchangeable.               *)
EXTENDS LnurlWithdraw, TLC

CONSTANTS k1, k2, i1, i2, big, r1, r2, r3

Interchangeable ==
  Permutations(Requests) \cup Permutations(Payable) \cup Permutations(Sessions)

=============================================================================
