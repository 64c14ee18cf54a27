---------------------------- MODULE MCPayWidget -----------------------------
(* PayWidget on a small instance: two invoices of this widget, one of them  *)
(* with a provider reference, and one of another visitor.                   *)
EXTENDS PayWidget

CONSTANTS c1, c2, d

=============================================================================
