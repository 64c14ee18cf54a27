--------------------------- MODULE MCEventReplies ---------------------------
(* EventReplies on small instances: a thread in its order, spread over two  *)
(* relays in every way, or one whose replies answer each other in every way. *)
EXTENDS EventReplies

CONSTANTS w1, w2

InOrder == time = [r \in Replies |-> r]

\* Each reply is on a relay, the first one on w1: the relays are alike.
Spread == UNION {holds[x] : x \in Relays} = Replies /\ 1 \in holds[w1]

\* Bound: the threads that are explored.
SmallInit ==
  /\ InOrder
  /\ holds \in [Relays -> SUBSET Replies]
  /\ configured \in BOOLEAN
  /\ \/ parent = [r \in Replies |-> None] /\ published = {1} /\ Spread
     \/ holds = [x \in Relays |-> Replies] /\ published = Replies /\ configured
  /\ Init

\* One of them.
OneThread ==
  /\ configured
  /\ holds = [x \in Relays |-> Replies] /\ published = Replies
  /\ parent = [r \in Replies |-> None]

SmallSpec == SmallInit /\ [][Next]_vars /\ Fairness

=============================================================================
