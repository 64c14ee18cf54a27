--------------------------- MODULE PaymentLedger ----------------------------
(* What the payment service promises of each invoice: it is on the books     *)
(* before it can be paid, it is booked as paid after the provider has been   *)
(* paid and once and for all, and clients are told of it after that.         *)
CONSTANT Charges  \* the invoices

VARIABLES
  settled,  \* invoices the provider has been paid for
  booked,   \* the books: is the invoice absent, open or paid
  told      \* invoices clients were told are paid

ledger == <<settled, booked, told>>

Init ==
  /\ settled = {}
  /\ booked = [c \in Charges |-> "absent"]
  /\ told = {}

Open(c) ==
  /\ booked[c] = "absent"
  /\ booked' = [booked EXCEPT ![c] = "open"]
  /\ UNCHANGED <<settled, told>>

Settle(c) ==
  /\ booked[c] = "open"
  /\ settled' = settled \cup {c}
  /\ UNCHANGED <<booked, told>>

Book(c) ==
  /\ c \in settled
  /\ booked[c] = "open"
  /\ booked' = [booked EXCEPT ![c] = "paid"]
  /\ UNCHANGED <<settled, told>>

Tell(c) ==
  /\ booked[c] = "paid"
  /\ told' = told \cup {c}
  /\ UNCHANGED <<settled, booked>>

Next == \E c \in Charges : Open(c) \/ Settle(c) \/ Book(c) \/ Tell(c)

Spec == Init /\ [][Next]_ledger

=============================================================================
