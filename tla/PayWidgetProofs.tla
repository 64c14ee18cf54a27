--------------------------- MODULE PayWidgetProofs ---------------------------
(* Proofs about the pay widgets, for any invoices of this and other visitors. *)
EXTENDS PayWidget, SequenceTheorems, TLAPS

USE PayWidgetAssumption

-----------------------------------------------------------------------------
(* Types.  TypeOK is inductive. *)

\* The server's books.
BooksOK ==
  /\ settled \subseteq Charges /\ told \subseteq Charges
  /\ booked \in [Charges -> {"absent", "open", "paid"}]

\* The connection: it polls only about an invoice that has a provider reference.
ConnectionOK ==
  /\ cur \in Own \cup {None}
  /\ socket \in {"none", "connecting", "open"}
  /\ news \subseteq told
  /\ socket # "open" => news = {}
  /\ isPaid \in BOOLEAN /\ online \in BOOLEAN /\ listening \in BOOLEAN
  /\ reconnect \in BOOLEAN /\ polling \in BOOLEAN
  /\ polling => cur \in WithRef
  /\ polls \subseteq WithRef

\* The widget, and what the page was told.
WidgetOK ==
  /\ done \in BOOLEAN /\ enabled \in BOOLEAN /\ crossed \in BOOLEAN
  /\ kind \in {"tip", "unlock", "verified"}
  /\ pc \in [Own -> {"new", "asking", "handing", "watched", "failed", "unwatched"}]
  /\ shown \in Own \cup {None}
  /\ verifying \subseteq Own
  /\ calls \in Seq([said : Own, paid : Charges])

\* The three parts are all there is.
LEMMA Parts == TypeOK <=> BooksOK /\ ConnectionOK /\ WidgetOK
BY DEF TypeOK, BooksOK, ConnectionOK, WidgetOK

\* Acknowledging a payment leaves the connection and the widget typed.
LEMMA AcknowledgeTyped ==
  ASSUME ConnectionOK, WidgetOK, NEW c \in Charges, Acknowledge(c), told \subseteq told',
         isPaid' \in BOOLEAN, polls' \subseteq WithRef, verifying' \subseteq Own,
         UNCHANGED <<cur, kind, pc, shown, crossed>>
  PROVE  ConnectionOK' /\ WidgetOK'
<1>1. ConnectionOK'
  BY DEF Acknowledge, Stop, ConnectionOK
<1>2. calls' \in Seq([said : Own, paid : Charges])
  <2>1. CASE shown = None
    BY <2>1 DEF Acknowledge, WidgetOK
  <2>2. CASE shown # None
    <3>1. [said |-> shown, paid |-> c] \in [said : Own, paid : Charges]
      BY <2>2 DEF WidgetOK
    <3>2. calls' = Append(calls, [said |-> shown, paid |-> c])
      BY <2>2 DEF Acknowledge
    <3> QED BY <3>1, <3>2 DEF WidgetOK
  <2> QED BY <2>1, <2>2
<1>3. WidgetOK'
  BY <1>2 DEF Acknowledge, WidgetOK, Tip
<1> QED BY <1>1, <1>3

\* So does a payment marked, whether or not it is acknowledged.
LEMMA MarkPaidTyped ==
  ASSUME ConnectionOK, WidgetOK, NEW c \in Charges, NEW rest \in SUBSET news,
         MarkPaid(c, rest), told \subseteq told', polls' \subseteq WithRef,
         UNCHANGED <<cur, kind, pc, shown, verifying, crossed>>
  PROVE  ConnectionOK' /\ WidgetOK'
<1>1. CASE isPaid \/ done
  BY <1>1 DEF MarkPaid, ConnectionOK, WidgetOK
<1>2. CASE ~(isPaid \/ done)
  <2>1. Acknowledge(c) /\ isPaid' = TRUE
    BY <1>2 DEF MarkPaid
  <2>2. verifying' \subseteq Own
    BY DEF WidgetOK
  <2> QED BY <2>1, <2>2, AcknowledgeTyped
<1> QED BY <1>1, <1>2

\* What the server does leaves everything typed.
LEMMA ServerTyped ==
  ASSUME TypeOK, NEW c \in Charges, ServerStep(c) \/ TellPaid(c)
  PROVE  TypeOK'
<1> USE Parts
<1>1. BooksOK'
  BY DEF BooksOK, ServerStep, TellPaid, Ledger!Open, Ledger!Settle, Ledger!Book, Ledger!Tell
<1>2. told \subseteq told' /\ (TellPaid(c) => c \in told')
  BY DEF ServerStep, TellPaid, Ledger!Open, Ledger!Settle, Ledger!Book, Ledger!Tell
<1>3. ConnectionOK'
  BY <1>2 DEF ConnectionOK, ServerStep, TellPaid, connection, link
<1>4. WidgetOK'
  BY DEF WidgetOK, ServerStep, TellPaid, widget
<1> QED BY <1>1, <1>3, <1>4 DEF TypeOK, BooksOK, ConnectionOK, WidgetOK

\* Sockets, timers and the network leave everything typed.
LEMMA LinkTyped ==
  ASSUME TypeOK,
         \/ SocketOpens \/ SocketDrops \/ ReconnectFires \/ GoOffline \/ GoOnline \/ PollTick
         \/ \E c \in Own : PollInVain(c)
  PROVE  TypeOK'
<1> USE DEF TypeOK, server, link, widget
<1>1. CASE SocketOpens
  BY <1>1 DEF SocketOpens
<1>2. CASE SocketDrops
  BY <1>2 DEF SocketDrops
<1>3. CASE ReconnectFires
  BY <1>3 DEF ReconnectFires, Dialled
<1>4. CASE GoOffline
  BY <1>4 DEF GoOffline
<1>5. CASE GoOnline
  BY <1>5 DEF GoOnline
<1>6. CASE PollTick
  BY <1>6 DEF PollTick
<1>7. CASE \E c \in Own : PollInVain(c)
  BY <1>7 DEF PollInVain
<1> QED BY <1>1, <1>2, <1>3, <1>4, <1>5, <1>6, <1>7

\* So do the three ways to learn of a payment.
LEMMA NewsTyped ==
  ASSUME TypeOK,
         \/ \E c \in Charges : EventArrives(c)
         \/ \E c \in Own : PollSaysPaid(c) \/ Verified(c)
  PROVE  TypeOK'
<1>0. BooksOK /\ ConnectionOK /\ WidgetOK
  BY Parts
<1>1. BooksOK'
  BY <1>0 DEF EventArrives, PollSaysPaid, Verified, server, BooksOK
<1>2. told' = told
  BY DEF EventArrives, PollSaysPaid, Verified, server
<1>3. ASSUME NEW c \in Charges, EventArrives(c) PROVE ConnectionOK' /\ WidgetOK'
  <2>1. CASE Matches(c)
    <3>1. MarkPaid(c, news \ {c}) /\ polls' \subseteq WithRef
      BY <1>0, <1>3, <2>1 DEF EventArrives, ConnectionOK
    <3> QED BY <1>0, <1>2, <1>3, <3>1, MarkPaidTyped DEF EventArrives
  <2>2. CASE ~Matches(c)
    BY <1>0, <1>3, <2>2 DEF EventArrives, server, ConnectionOK, WidgetOK
  <2> QED BY <2>1, <2>2
<1>4. ASSUME NEW c \in Own, PollSaysPaid(c) PROVE ConnectionOK' /\ WidgetOK'
  <2>1. MarkPaid(c, news) /\ polls' \subseteq WithRef
    BY <1>0, <1>4 DEF PollSaysPaid, ConnectionOK
  <2> QED BY <1>0, <1>2, <1>4, <2>1, MarkPaidTyped DEF PollSaysPaid
<1>5. ASSUME NEW c \in Own, Verified(c) PROVE ConnectionOK' /\ WidgetOK'
  <2>0. verifying' \subseteq Own /\ polls' \subseteq WithRef /\ isPaid' \in BOOLEAN
    BY <1>0, <1>5 DEF Verified, ConnectionOK, WidgetOK
  <2>1. CASE Acknowledge(c)
    BY <1>0, <1>2, <1>5, <2>0, <2>1, AcknowledgeTyped DEF Verified
  <2>2. CASE UNCHANGED <<link, done, enabled, calls>>
    BY <1>0, <1>2, <1>5, <2>0, <2>2 DEF Verified, link, ConnectionOK, WidgetOK
  <2> QED BY <1>5, <2>1, <2>2 DEF Verified
<1> QED BY <1>1, <1>3, <1>4, <1>5 DEF TypeOK, BooksOK, ConnectionOK, WidgetOK

\* And so does the widget itself.
LEMMA WidgetTyped ==
  ASSUME TypeOK,
         \/ \E c \in Own : StartTip(c) \/ Show(c) \/ AttemptFails(c) \/ Watch(c)
         \/ \E c, d \in Own : Click(c, d)
         \/ Restart \/ AskVerifier \/ Destroy
  PROVE  TypeOK'
<1> USE DEF TypeOK, server, connection, link, widget
<1>1. ASSUME NEW c \in Own, StartTip(c) PROVE TypeOK'
  BY <1>1 DEF StartTip, Stop, Busy
<1>2. ASSUME NEW c \in Own, Show(c) PROVE TypeOK'
  BY <1>2 DEF Show
<1>3. ASSUME NEW c \in Own, AttemptFails(c) PROVE TypeOK'
  BY <1>3 DEF AttemptFails
<1>4. ASSUME NEW c \in Own, Watch(c) PROVE TypeOK'
  <2>0. polling' \in BOOLEAN
    <3>1. polling' = (c \in WithRef)
      BY <1>4 DEF Watch, Start
    <3>2. CASE c \in WithRef
      BY <3>1, <3>2
    <3>3. CASE c \notin WithRef
      BY <3>1, <3>3
    <3> QED BY <3>2, <3>3
  <2>1. polling' \in BOOLEAN /\ isPaid' \in BOOLEAN /\ enabled' \in BOOLEAN
    BY <1>4, <2>0 DEF Watch
  <2>2. ConnectionOK'
    BY <1>4, <2>1 DEF Watch, Start, Dialled, ConnectionOK
  <2>3. WidgetOK'
    BY <1>4, <2>1 DEF Watch, WidgetOK
  <2> QED BY <1>4, <2>2, <2>3 DEF Watch, ConnectionOK, WidgetOK
<1>5. ASSUME NEW c \in Own, NEW d \in Own, Click(c, d) PROVE TypeOK'
  BY <1>5 DEF Click, Stop
<1>6. CASE Restart
  BY <1>6 DEF Restart, Start, Dialled
<1>7. CASE AskVerifier
  BY <1>7 DEF AskVerifier
<1>8. CASE Destroy
  BY <1>8 DEF Destroy, Stop
<1> QED BY <1>1, <1>2, <1>3, <1>4, <1>5, <1>6, <1>7, <1>8

\* At first nothing was asked for.
LEMMA InitTyped == Init => TypeOK
<1> SUFFICES ASSUME Init PROVE TypeOK
  OBVIOUS
<1>1. BooksOK
  BY DEF Init, Ledger!Init, BooksOK
<1>2. ConnectionOK
  BY DEF Init, Ledger!Init, ConnectionOK
<1>3. WidgetOK
  <2>1. calls \in Seq([said : Own, paid : Charges])
    BY EmptySeq DEF Init
  <2> QED BY <2>1 DEF Init, WidgetOK
<1> QED BY <1>1, <1>2, <1>3, Parts

\* No step takes the types away.
LEMMA NextTyped == TypeOK /\ [Next]_vars => TypeOK'
<1> SUFFICES ASSUME TypeOK, [Next]_vars PROVE TypeOK'
  OBVIOUS
<1>1. CASE UNCHANGED vars
  BY <1>1 DEF vars, server, connection, link, widget, TypeOK
<1> QED BY <1>1, ServerTyped, LinkTyped, NewsTyped, WidgetTyped DEF Next

\* In every reachable state the server, the connection and the widget have their types,
\* polling is about an invoice with a reference, and a closed socket brings no news.
THEOREM TypesCorrect == Spec => []TypeOK
BY InitTyped, NextTyped, PTL DEF Spec

-----------------------------------------------------------------------------
(* What the page is told.  The widget's own flag keeps it from naming an     *)
(* invoice twice: it is lowered only when nothing is shown, and an invoice   *)
(* once named is past the answer that shows it.                              *)

\* An invoice the widget has shown.
WasShown(c) == pc[c] \in {"handing", "watched", "unwatched"}

\* Books and news say paid only what was settled.
PaidInv ==
  /\ told \subseteq settled
  /\ \A c \in Charges : booked[c] = "paid" => c \in settled

OnceInv ==
  /\ shown # None => WasShown(shown)
  /\ \A i \in DOMAIN calls : WasShown(calls[i].said) /\ (~done => calls[i].said # shown)
  /\ ~Tip /\ ~done => calls = <<>>
  /\ ToldOncePaid

\* What is settled stays so, and books and news follow it.
LEMMA NextPaid == TypeOK /\ PaidInv /\ [Next]_vars => PaidInv' /\ settled \subseteq settled'
<1> SUFFICES ASSUME TypeOK, PaidInv, [Next]_vars PROVE PaidInv' /\ settled \subseteq settled'
  OBVIOUS
<1>1. ASSUME NEW c \in Charges, ServerStep(c) \/ TellPaid(c)
      PROVE  PaidInv' /\ settled \subseteq settled'
  BY <1>1 DEF PaidInv, TypeOK, ServerStep, TellPaid, Ledger!Open, Ledger!Settle, Ledger!Book,
              Ledger!Tell
<1>2. CASE UNCHANGED server
  BY <1>2 DEF server, PaidInv
<1>3. CASE UNCHANGED vars
  BY <1>2, <1>3 DEF vars
<1>4. ASSUME Next, ~\E c \in Charges : ServerStep(c) \/ TellPaid(c) PROVE UNCHANGED server
  BY <1>4 DEF Next, EventArrives, SocketOpens, SocketDrops, ReconnectFires, GoOffline, GoOnline,
              PollTick, PollInVain, PollSaysPaid, Verified, StartTip, Show, AttemptFails, Watch,
              Click, Restart, AskVerifier, Destroy
<1> QED BY <1>1, <1>2, <1>3, <1>4

\* A payment is told for the first time since the button, of a settled invoice.
Tells ==
  /\ ~done /\ done' = TRUE
  /\ UNCHANGED <<kind, pc, shown, crossed>>
  /\ \E c \in settled \cap Own :
       calls' = IF shown = None THEN calls ELSE Append(calls, [said |-> shown, paid |-> c])

\* A step tells the page, or starts over, or does neither.
Quiets ==
  /\ UNCHANGED <<kind, calls>>
  /\ \A c \in Own : WasShown(c) => WasShown(c)'
  /\ \/ done' = done /\ shown' = shown
     \/ done' = done /\ shown' \in Own /\ pc[shown'] = "asking" /\ pc'[shown'] = "handing"
     \/ Tip /\ done' = FALSE /\ shown' = None

\* The three ways to learn of a payment tell it at most.
LEMMA NewsTell ==
  ASSUME TypeOK, PaidInv,
         \/ \E c \in Charges : EventArrives(c)
         \/ \E c \in Own : PollSaysPaid(c) \/ Verified(c)
  PROVE  Tells \/ (Quiets /\ UNCHANGED <<pc, shown, done, crossed>>)
<1> USE DEF Tells, Quiets, WasShown
<1>1. ASSUME NEW c \in Charges, EventArrives(c)
      PROVE  Tells \/ (Quiets /\ UNCHANGED <<pc, shown, done, crossed>>)
  <2>1. c \in settled
    BY <1>1 DEF EventArrives, TypeOK, PaidInv
  <2>2. Matches(c) => c \in Own
    BY DEF Matches, TypeOK
  <2> QED BY <1>1, <2>1, <2>2 DEF EventArrives, MarkPaid, Acknowledge
<1>2. ASSUME NEW c \in Own, PollSaysPaid(c)
      PROVE  Tells \/ (Quiets /\ UNCHANGED <<pc, shown, done, crossed>>)
  BY <1>2 DEF PollSaysPaid, MarkPaid, Acknowledge, PaidInv
<1>3. ASSUME NEW c \in Own, Verified(c)
      PROVE  Tells \/ (Quiets /\ UNCHANGED <<pc, shown, done, crossed>>)
  BY <1>3 DEF Verified, Acknowledge
<1> QED BY <1>1, <1>2, <1>3

\* Every step tells, starts over, or does neither.
LEMMA NextTells ==
  ASSUME TypeOK, PaidInv, [Next]_vars
  PROVE  Tells \/ Quiets
<1>1. CASE \/ \E c \in Charges : EventArrives(c)
           \/ \E c \in Own : PollSaysPaid(c) \/ Verified(c)
  BY <1>1, NewsTell
<1>2. CASE UNCHANGED <<widget, calls>>
  BY <1>2 DEF widget, Quiets, WasShown
<1>3. ASSUME NEW c \in Own, StartTip(c) \/ Show(c) \/ AttemptFails(c) \/ Watch(c)
      PROVE  Quiets
  BY <1>3 DEF StartTip, Show, AttemptFails, Watch, Quiets, WasShown, TypeOK
<1>4. ASSUME NEW c \in Own, NEW d \in Own, Click(c, d) PROVE Quiets
  BY <1>4 DEF Click, Quiets, WasShown, TypeOK
<1>5. CASE AskVerifier
  BY <1>5 DEF AskVerifier, Quiets, WasShown
<1>6. CASE UNCHANGED vars
  BY <1>2, <1>6 DEF vars
<1>7. CASE \/ \E c \in Charges : ServerStep(c) \/ TellPaid(c)
           \/ SocketOpens \/ SocketDrops \/ ReconnectFires \/ GoOffline \/ GoOnline
           \/ PollTick \/ \E c \in Own : PollInVain(c)
           \/ Restart \/ Destroy
  BY <1>2, <1>7 DEF ServerStep, TellPaid, SocketOpens, SocketDrops, ReconnectFires, GoOffline,
                    GoOnline, PollTick, PollInVain, Restart, Destroy
<1> QED BY <1>1, <1>3, <1>4, <1>5, <1>6, <1>7 DEF Next

\* The list of calls after one more.
LEMMA CallsGrow ==
  ASSUME TypeOK, NEW c \in Charges, shown # None,
         calls' = Append(calls, [said |-> shown, paid |-> c])
  PROVE  /\ Len(calls) \in Nat /\ Len(calls') = Len(calls) + 1
         /\ DOMAIN calls = 1..Len(calls) /\ DOMAIN calls' = 1..(Len(calls) + 1)
         /\ \A i \in DOMAIN calls : calls'[i] = calls[i] /\ calls[i] \in [said : Own, paid : Charges]
         /\ calls'[Len(calls) + 1] = [said |-> shown, paid |-> c]
<1> DEFINE S == [said : Own, paid : Charges]
           e == [said |-> shown, paid |-> c]
<1>1. e \in S
  BY DEF TypeOK
<1>2. calls \in Seq(S) /\ calls' = Append(calls, e)
  BY DEF TypeOK
<1> HIDE DEF S, e
<1>3. /\ calls' \in Seq(S) /\ Len(calls') = Len(calls) + 1
      /\ \A i \in 1..Len(calls) : calls'[i] = calls[i]
      /\ calls'[Len(calls) + 1] = e
  BY <1>1, <1>2, AppendProperties
<1>4. /\ Len(calls) \in Nat /\ DOMAIN calls = 1..Len(calls)
      /\ calls \in [1..Len(calls) -> S]
  BY <1>2, LenProperties
<1>5. DOMAIN calls' = 1..Len(calls')
  BY <1>3, LenProperties
<1> QED BY <1>3, <1>4, <1>5 DEF S, e

\* The strengthened invariant is kept by every step.
LEMMA NextOnce == TypeOK /\ PaidInv /\ OnceInv /\ [Next]_vars => OnceInv'
<1> SUFFICES ASSUME TypeOK, PaidInv, OnceInv, [Next]_vars PROVE OnceInv'
  OBVIOUS
<1>0. settled \subseteq settled' /\ \A i \in DOMAIN calls : calls[i].said \in Own
  <2>1. \A i \in DOMAIN calls : calls[i] \in [said : Own, paid : Charges]
    <3> DEFINE S == [said : Own, paid : Charges]
    <3>1. calls \in Seq(S)
      BY DEF TypeOK
    <3> HIDE DEF S
    <3>2. calls \in [1..Len(calls) -> S] /\ DOMAIN calls = 1..Len(calls)
      BY <3>1, LenProperties
    <3> QED BY <3>2 DEF S
  <2> QED BY <2>1, NextPaid
<1>1. CASE Quiets
  <2>1. shown' # None => WasShown(shown)'
    BY <1>1 DEF Quiets, OnceInv, WasShown, TypeOK
  <2>2. \A i \in DOMAIN calls' : WasShown(calls[i].said)' /\ (~done' => calls'[i].said # shown')
    BY <1>0, <1>1 DEF Quiets, OnceInv, WasShown
  <2>3. ~Tip' /\ ~done' => calls' = <<>>
    BY <1>1 DEF Quiets, OnceInv, Tip
  <2>4. ToldOncePaid'
    BY <1>0, <1>1 DEF Quiets, OnceInv, ToldOncePaid, Tip
  <2> QED BY <1>1, <2>1, <2>2, <2>3, <2>4 DEF OnceInv, Quiets, WasShown
<1>2. CASE Tells
  <2>1. CASE shown = None
    BY <1>0, <1>2, <2>1 DEF Tells, OnceInv, ToldOncePaid, WasShown, Tip
  <2>2. CASE shown # None
    <3>1. PICK c \in settled \cap Own : calls' = Append(calls, [said |-> shown, paid |-> c])
      BY <1>2, <2>2 DEF Tells
    <3> DEFINE n == Len(calls)
    <3>2. /\ n \in Nat /\ Len(calls') = n + 1
          /\ DOMAIN calls = 1..n /\ DOMAIN calls' = 1..(n + 1)
          /\ \A i \in DOMAIN calls : calls'[i] = calls[i]
          /\ calls'[n + 1].said = shown /\ calls'[n + 1].paid = c
      BY <2>2, <3>1, CallsGrow
    <3>3. ASSUME NEW i \in DOMAIN calls' PROVE i \in DOMAIN calls \/ i = n + 1
      BY <3>2
    <3> HIDE DEF n
    <3>4. \A i \in DOMAIN calls' : calls'[i].paid \in settled' \cap Own /\ WasShown(calls'[i].said)
      BY <1>0, <2>2, <3>2, <3>3 DEF OnceInv, ToldOncePaid
    <3>5. \A i, j \in DOMAIN calls' : calls'[i].said = calls'[j].said => i = j
      BY <1>2, <3>2, <3>3 DEF Tells, OnceInv, ToldOncePaid
    <3>6. ~Tip => Len(calls') <= 1
      <4> SUFFICES ASSUME ~Tip PROVE Len(calls') <= 1
        OBVIOUS
      <4>1. calls = <<>>
        BY <1>2 DEF Tells, OnceInv
      <4>2. n = 0
        BY <4>1, EmptySeq DEF n
      <4> QED BY <3>2, <4>2
    <3> QED BY <1>2, <2>2, <3>4, <3>5, <3>6 DEF Tells, OnceInv, ToldOncePaid, WasShown, Tip
  <2> QED BY <2>1, <2>2
<1> QED BY <1>1, <1>2, NextTells

\* The page hears only of invoices of this widget that were paid, a tip widget names
\* none twice and the other unlocks once, however many events and polls see a payment.
THEOREM PageToldOnce == Spec => []ToldOncePaid
<1>1. Init => PaidInv /\ OnceInv
  BY DEF Init, Ledger!Init, PaidInv, OnceInv, ToldOncePaid, WasShown
<1>2. OnceInv => ToldOncePaid
  BY DEF OnceInv
<1> QED BY InitTyped, NextTyped, NextPaid, NextOnce, <1>1, <1>2, PTL DEF Spec

-----------------------------------------------------------------------------
(* Which invoice is named.  As long as no two invoices are in use at once,   *)
(* the connection either follows the invoice shown or hears of nothing; the  *)
(* one before can then not be taken for it.                                  *)

\* A request for an invoice is on its way, or its invoice is being handed over.
Waits(c) == pc[c] \in {"asking", "handing"}

\* The connection asks and listens about the invoice shown, if about any.
Follows == cur \in {shown, None} /\ polls \subseteq {cur}

\* Nothing can reach the connection, and nothing will before it is started again.
Still == socket = "none" /\ ~listening /\ ~reconnect /\ ~polling /\ polls = {}

\* One attempt at a time, and a page that was told of the invoice shown.
AloneInv ==
  /\ \A c, d \in Own : Waits(c) /\ Waits(d) => c = d
  /\ \A c \in Own : Waits(c) => polls = {} /\ ~done /\ shown = IF pc[c] = "asking" THEN None ELSE c
  /\ Follows \/ Still
  /\ verifying = {}
  /\ ~Tip => \A c \in Own : pc[c] = "new"
  /\ \A i \in DOMAIN calls : calls[i].said = calls[i].paid
  /\ done => calls # <<>> /\ calls[Len(calls)].said = shown

NamedInv ==
  /\ cur # None => pc[cur] = "watched"
  /\ ~crossed => AloneInv

\* Two invoices once in use at the same time are not forgotten.
LEMMA CrossedStays ==
  ASSUME [Next]_vars, crossed
  PROVE  crossed' = TRUE
<1>1. CASE UNCHANGED crossed
  BY <1>1
<1>2. ASSUME NEW c \in Own, StartTip(c) PROVE crossed' = TRUE
  BY <1>2 DEF StartTip
<1>3. CASE Restart
  BY <1>3 DEF Restart
<1>4. ASSUME NEW c \in Own, NEW d \in Own, Click(c, d) PROVE crossed' = TRUE
  BY <1>4 DEF Click
<1>5. ASSUME Next, ~Restart, \A c \in Own : ~StartTip(c), \A c, d \in Own : ~Click(c, d)
      PROVE  UNCHANGED crossed
  BY <1>5 DEF Next, ServerStep, TellPaid, EventArrives, SocketOpens, SocketDrops, ReconnectFires,
              GoOffline, GoOnline, PollTick, PollInVain, PollSaysPaid, Verified, Show,
              AttemptFails, Watch, AskVerifier, Destroy
<1> QED BY <1>1, <1>2, <1>3, <1>4, <1>5 DEF vars

\* An invoice learned to be paid is the one shown.
LEMMA LearnsRight ==
  ASSUME TypeOK, NamedInv, ~crossed, NEW c \in Charges,
         \/ EventArrives(c) /\ Matches(c)
         \/ c \in Own /\ (PollSaysPaid(c) \/ Verified(c))
  PROVE  c = shown /\ c = cur
<1>1. AloneInv
  BY DEF NamedInv
<1>2. CASE Follows
  BY <1>1, <1>2 DEF AloneInv, Follows, EventArrives, Matches, PollSaysPaid, Verified
<1>3. CASE Still
  BY <1>1, <1>3 DEF AloneInv, Still, EventArrives, PollSaysPaid, Verified, TypeOK
<1> QED BY <1>1, <1>2, <1>3 DEF AloneInv

\* While an attempt waits, the connection's invoice is not the one shown.
LEMMA WaitsApart ==
  ASSUME TypeOK, NamedInv, ~crossed, NEW c \in Own, Waits(c)
  PROVE  cur = None \/ cur # shown
BY DEF NamedInv, AloneInv, Waits, TypeOK

\* Learning of a payment leaves the invoice named the one paid.
LEMMA NewsNamed ==
  ASSUME TypeOK, PaidInv, NamedInv,
         \/ \E c \in Charges : EventArrives(c)
         \/ \E c \in Own : PollSaysPaid(c) \/ Verified(c)
  PROVE  NamedInv'
<1>0. UNCHANGED <<cur, pc, shown, crossed, kind>>
  BY DEF EventArrives, PollSaysPaid, Verified
<1>1. ASSUME ~crossed PROVE AloneInv'
  <2>0. AloneInv /\ verifying' = {} /\ polls' \subseteq polls
    BY <1>1 DEF NamedInv, AloneInv, EventArrives, PollSaysPaid, Verified
  <2>1. Follows' \/ Still'
    <3>1. CASE Follows
      BY <1>0, <2>0, <3>1 DEF Follows
    <3>2. CASE Still
      <4>1. \A c \in Charges : ~EventArrives(c)
        BY <3>2 DEF Still, EventArrives, TypeOK
      <4>2. \A c \in Own : ~PollSaysPaid(c) /\ ~Verified(c)
        BY <2>0, <3>2 DEF Still, AloneInv, PollSaysPaid, Verified
      <4> QED BY <4>1, <4>2
    <3> QED BY <2>0, <3>1, <3>2 DEF AloneInv
  <2>2. CASE UNCHANGED <<done, calls>>
    BY <1>0, <2>0, <2>1, <2>2 DEF AloneInv, Waits, Tip
  <2>3. CASE ~UNCHANGED <<done, calls>>
    <3>1. PICK c \in Own : c = shown /\ c = cur /\ Acknowledge(c)
      <4>1. ASSUME NEW c \in Charges, EventArrives(c)
            PROVE  c \in Own /\ c = shown /\ c = cur /\ Acknowledge(c)
        <5>1. Matches(c)
          BY <2>3, <4>1 DEF EventArrives
        <5> QED BY <1>1, <2>3, <4>1, <5>1, LearnsRight DEF EventArrives, MarkPaid, TypeOK, Matches
      <4>2. ASSUME NEW c \in Own, PollSaysPaid(c) \/ Verified(c)
            PROVE  c = shown /\ c = cur /\ Acknowledge(c)
        BY <1>1, <2>3, <4>2, LearnsRight DEF PollSaysPaid, MarkPaid, Verified
      <4> QED BY <4>1, <4>2
    <3>2. ASSUME NEW e \in Own PROVE ~Waits(e)
      BY <1>1, <3>1, WaitsApart
    <3>3. shown # None /\ calls' = Append(calls, [said |-> shown, paid |-> c])
      BY <3>1 DEF Acknowledge
    <3> DEFINE n == Len(calls)
    <3>4. /\ n \in Nat /\ Len(calls') = n + 1
          /\ DOMAIN calls = 1..n /\ DOMAIN calls' = 1..(n + 1)
          /\ \A i \in DOMAIN calls : calls'[i] = calls[i]
          /\ calls'[n + 1].said = shown /\ calls'[n + 1].paid = c
      BY <3>3, CallsGrow
    <3>5. ASSUME NEW i \in DOMAIN calls' PROVE i \in DOMAIN calls \/ i = n + 1
      BY <3>4
    <3> HIDE DEF n
    <3>6. \A i \in DOMAIN calls' : calls'[i].said = calls'[i].paid
      BY <2>0, <3>1, <3>4, <3>5 DEF AloneInv
    <3>7. calls' # <<>> /\ calls'[Len(calls')].said = shown'
      <4>1. n + 1 \in DOMAIN calls'
        BY <3>4
      <4>2. calls' # <<>>
        BY <4>1
      <4> QED BY <1>0, <3>4, <4>2
    <3> QED BY <1>0, <2>0, <2>1, <3>2, <3>6, <3>7 DEF AloneInv, Waits, Tip
  <2> QED BY <2>2, <2>3
<1> QED BY <1>0, <1>1 DEF NamedInv

\* Nothing the server, the sockets and the timers do changes it.
LEMMA LinkNamed ==
  ASSUME TypeOK, NamedInv,
         \/ \E c \in Charges : ServerStep(c) \/ TellPaid(c)
         \/ SocketOpens \/ SocketDrops \/ ReconnectFires \/ GoOffline \/ GoOnline \/ PollTick
         \/ Destroy \/ \E c \in Own : PollInVain(c)
  PROVE  NamedInv'
<1>0. UNCHANGED <<widget, cur, calls, crossed>>
  BY DEF ServerStep, TellPaid, SocketOpens, SocketDrops, ReconnectFires, GoOffline, GoOnline,
         PollTick, PollInVain, connection, Destroy
<1>1. ASSUME ~crossed PROVE AloneInv'
  <2>0. AloneInv
    BY <1>1 DEF NamedInv
  <2>1. polls' \subseteq polls \/ (PollTick /\ polls' = polls \cup {cur} /\ cur # None /\ polling)
    BY DEF ServerStep, TellPaid, SocketOpens, SocketDrops, ReconnectFires, GoOffline, GoOnline,
           PollTick, PollInVain, connection, Destroy, TypeOK
  <2>2. Follows' \/ Still'
    <3>1. CASE Follows
      BY <1>0, <2>1, <3>1 DEF Follows, widget
    <3>2. CASE Still
      <4>1. ~PollTick
        BY <3>2 DEF Still, PollTick
      <4>2. socket' = "none" /\ ~listening' /\ ~reconnect' /\ ~polling'
        BY <3>2 DEF Still, ServerStep, TellPaid, SocketOpens, SocketDrops, ReconnectFires,
             GoOffline, GoOnline, PollTick, PollInVain, connection, link, Destroy, Stop
      <4> QED BY <2>1, <3>2, <4>1, <4>2 DEF Still
    <3> QED BY <2>0, <3>1, <3>2 DEF AloneInv
  <2>3. ASSUME NEW c \in Own, Waits(c) PROVE polls' = {}
    <3>1. polls = {} /\ (cur = None \/ cur # shown)
      BY <1>1, <2>0, <2>3, WaitsApart DEF AloneInv
    <3>2. ~(PollTick /\ cur # None /\ polling)
      BY <2>0, <3>1 DEF AloneInv, Follows, Still
    <3> QED BY <2>1, <3>1, <3>2
  <2> QED BY <1>0, <2>0, <2>2, <2>3 DEF AloneInv, Waits, Tip, widget
<1> QED BY <1>0, <1>1 DEF NamedInv, widget

\* Nor does the widget: a new attempt stops the connection, a watched invoice is shown.
LEMMA WidgetNamed ==
  ASSUME TypeOK, OnceInv, NamedInv, [Next]_vars,
         \/ \E c \in Own : StartTip(c) \/ Show(c) \/ AttemptFails(c) \/ Watch(c)
         \/ \E c, d \in Own : Click(c, d)
         \/ Restart \/ AskVerifier
  PROVE  NamedInv'
<1>1. cur' # None => pc'[cur'] = "watched"
  BY DEF NamedInv, TypeOK, StartTip, Show, AttemptFails, Watch, Click, Restart, AskVerifier,
         connection, widget
<1>2. ASSUME ~crossed' PROVE AloneInv'
  <2>0. ~crossed /\ AloneInv
    BY <1>2, CrossedStays DEF NamedInv
  <2>1. ASSUME NEW c \in Own, StartTip(c) PROVE AloneInv'
    <3>1. ~Busy /\ polls = {}
      BY <1>2, <2>1 DEF StartTip
    <3>2. \A d \in Own : Waits(d)' => d = c /\ pc'[d] = "asking"
      BY <2>1, <3>1 DEF StartTip, Busy, Waits, TypeOK
    <3>3. Still'
      BY <2>1, <3>1 DEF StartTip, Stop, Still
    <3> QED BY <2>0, <2>1, <3>1, <3>2, <3>3 DEF StartTip, AloneInv, Tip
  <2>2. ASSUME NEW c \in Own, Show(c) PROVE AloneInv'
    <3>1. Waits(c) /\ shown = None /\ polls = {} /\ ~done
      BY <2>0, <2>2 DEF Show, AloneInv, Waits
    <3>2. \A d \in Own : Waits(d)' => d = c /\ pc'[d] = "handing"
      BY <2>0, <2>2, <3>1 DEF Show, AloneInv, Waits, TypeOK
    <3>3. Follows' \/ Still'
      BY <2>0, <2>2, <3>1 DEF Show, AloneInv, Follows, Still, connection, link
    <3>4. Tip
      BY <2>0, <2>2 DEF Show, AloneInv
    <3> QED BY <2>0, <2>2, <3>1, <3>2, <3>3, <3>4 DEF Show, AloneInv, connection, Tip
  <2>3. ASSUME NEW c \in Own, AttemptFails(c) PROVE AloneInv'
    <3>1. \A d \in Own : Waits(d)' => d # c /\ Waits(d) /\ pc'[d] = pc[d]
      BY <2>3 DEF AttemptFails, Waits, TypeOK
    <3>2. Follows' \/ Still'
      BY <2>0, <2>3 DEF AttemptFails, AloneInv, Follows, Still, connection, link
    <3>3. Tip
      BY <2>0, <2>3 DEF AttemptFails, AloneInv
    <3> QED BY <2>0, <2>3, <3>1, <3>2, <3>3 DEF AttemptFails, AloneInv, connection, Tip
  <2>4. ASSUME NEW c \in Own, Watch(c) PROVE AloneInv'
    <3>1. Waits(c) /\ shown = c /\ polls = {} /\ ~done
      BY <2>0, <2>4 DEF Watch, AloneInv, Waits
    <3>2. \A d \in Own : ~Waits(d)'
      BY <2>0, <2>4, <3>1 DEF Watch, AloneInv, Waits, TypeOK
    <3>3. Tip
      BY <2>0, <2>4 DEF Watch, AloneInv
    <3>4. Follows'
      BY <2>4, <3>1 DEF Watch, Start, Follows
    <3> QED BY <2>0, <2>4, <3>1, <3>2, <3>3, <3>4 DEF Watch, AloneInv, Tip, Verifies
  <2>5. \A c, d \in Own : ~Click(c, d)
    BY <1>2 DEF Click
  <2>6. CASE Restart
    <3>1. cur \in {shown, None} /\ UNCHANGED <<cur, widget, calls>>
      BY <1>2, <2>6 DEF Restart
    <3>2. polls' \subseteq {cur} /\ (polls' # polls => cur # None)
      BY <2>0, <2>6 DEF Restart, Start, AloneInv, Follows, Still
    <3>3. \A c \in Own : Waits(c) => polls' = {}
      BY <2>0, <3>1, <3>2, WaitsApart DEF AloneInv
    <3> QED BY <2>0, <3>1, <3>2, <3>3 DEF AloneInv, Follows, Waits, Tip, widget
  <2>7. ~AskVerifier
    BY <2>0 DEF AskVerifier, AloneInv, OnceInv, WasShown, Verifies, Tip, TypeOK
  <2> QED BY <2>1, <2>2, <2>3, <2>4, <2>5, <2>6, <2>7
<1> QED BY <1>1, <1>2 DEF NamedInv

\* Every step keeps the strengthened invariant.
LEMMA NextNamed == TypeOK /\ PaidInv /\ OnceInv /\ NamedInv /\ [Next]_vars => NamedInv'
<1> SUFFICES ASSUME TypeOK, PaidInv, OnceInv, NamedInv, [Next]_vars PROVE NamedInv'
  OBVIOUS
<1>1. CASE UNCHANGED vars
  BY <1>1 DEF vars, server, connection, link, widget, NamedInv, AloneInv, Follows, Still, Waits,
              Tip
<1> QED BY <1>1, NewsNamed, LinkNamed, WidgetNamed DEF Next

\* The invoice the page is told of is the one that was paid, and a widget that thanks
\* its visitor has told of the invoice it shows, unless two invoices were in use at once.
THEOREM RightInvoice == Spec => []RightInvoiceNamed
<1>1. Init => PaidInv /\ OnceInv /\ NamedInv
  <2> SUFFICES ASSUME Init PROVE PaidInv /\ OnceInv /\ NamedInv
    OBVIOUS
  <2>1. PaidInv /\ OnceInv
    BY DEF Init, Ledger!Init, PaidInv, OnceInv, ToldOncePaid, WasShown
  <2>2. NamedInv
    BY DEF Init, NamedInv, AloneInv, Follows, Waits
  <2> QED BY <2>1, <2>2
<1>2. NamedInv => RightInvoiceNamed
  BY DEF NamedInv, AloneInv, RightInvoiceNamed
<1> QED BY InitTyped, NextTyped, NextPaid, NextOnce, NextNamed, <1>1, <1>2, PTL DEF Spec

=============================================================================
