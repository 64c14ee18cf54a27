------------------------------ MODULE MCFeeds -------------------------------
(* The two lists that a page loads and brings up to date, on small          *)
(* instances: the tips for an item, with two sockets, of which one may be   *)
(* left open behind the other, two tips for a list of one row, and one of   *)
(* another tenant; and the replies to a note.  They share no state, so a behaviour  *)
(* explores one of them and leaves the other where it starts.               *)
EXTENDS TipsFeed

CONSTANTS s1, s2, w1, w2
CONSTANTS Replies, Relays, MaxTime, Limit, MaxHops, MaxLoads
VARIABLE part  \* the one that this behaviour explores

\* EventReplies
VARIABLES time, parent, holds, published, configured, current, step, status, replies,
          more, partial, crossed

replyVars == <<time, parent, holds, published, configured, current, step, status,
               replies, more, partial, crossed>>

Page == INSTANCE MCEventReplies

ASSUME RepliesAssumption == Page!EventConstants

\* A part that is not explored has one initial state.  Bound: a feed on the socket has an
\* API that matches, whose requests may all fail.
PartsInit ==
  /\ part \in {"tips", "replies"}
  /\ Init /\ (part # "tips" => online /\ realtime) /\ (realtime => matching)
  /\ Page!SmallInit /\ (part # "replies" => Page!OneThread)

\* Bounds: the tip of the other tenant is paid and sent before all else; no tip is paid
\* while the one before is on its way; there is one other visitor, who is gone when the
\* first of the widget's tips is paid.
InTurn ==
  /\ 3 \in paid' /\ (3 \in handling => handling' = {})
  /\ paid' # paid => handling = {} /\ \A s \in Sockets : wire[s] = {}
  /\ others' <= IF paid' = {3} THEN 1 ELSE 0

PartsNext ==
  /\ UNCHANGED part
  /\ \/ part = "tips" /\ Next /\ InTurn /\ UNCHANGED replyVars
     \/ part = "replies" /\ Page!Next /\ UNCHANGED vars

\* The fairness of the replies asks nothing of them while they are where they start.
PartsSpec ==
  /\ PartsInit /\ [][PartsNext]_<<part, vars, replyVars>>
  /\ Page!Fairness

\* The values every variable of the two may have.
TypesOK == (part = "tips" => TypeOK) /\ (part = "replies" => Page!TypeOK)

\* EventReplies: replies that answer each other in a circle are found, and only those.
LoopsAreFound == part = "replies" => Page!LoopsAreFound

\* EventReplies: no reply is missing between two that are shown.
NoGap == part = "replies" => Page!NoGap

\* EventReplies: the replies do not load for ever.
RepliesSettle == Page!RepliesSettle

=============================================================================
