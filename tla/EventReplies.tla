---------------------------- MODULE EventReplies ----------------------------
(***************************************************************************)
(* The replies to a note on its page: the API server asks the relays for   *)
(* one page of the thread at a time, drops replies that answer each other  *)
(* in a circle and hands out a cursor; the page loads the note from its    *)
(* cache, the API or the relays, then the first page of replies, and more  *)
(* on request, while it may be loaded again at any moment.                 *)
(***************************************************************************)
EXTENDS Naturals, Sequences, FiniteSets, SequencesExt

CONSTANTS
  Replies,   \* numbered in the order of their ids
  Relays,
  MaxTime,   \* bound: seconds that replies are dated
  Limit,     \* REPLY_PAGE_LIMIT, and the API's limit
  MaxHops,   \* MAX_REPLY_CYCLE_HOPS
  MaxLoads,  \* bound: how often the page is loaded
  None

EventConstants ==
  /\ Replies \subseteq Nat /\ IsFiniteSet(Replies) /\ None \notin Replies
  /\ MaxTime \in Nat /\ Limit \in Nat \ {0} /\ MaxHops \in Nat /\ MaxLoads \in Nat

VARIABLES
  \* the thread
  time,        \* created_at of each reply
  parent,      \* the reply that each one answers, None if that is the note itself
  holds,       \* what each relay has of it, once it is published
  published,
  \* the page
  configured,  \* apiBaseConfig.isConfigured
  current,     \* the load that is not cancelled
  step,        \* what each load awaits
  status,
  replies,
  more,        \* cursors of loadMoreReplies in flight
  \* observations
  partial,     \* did a relay not answer about one of the pages shown
  crossed      \* was the page loaded again with a request in flight that it then used

thread == <<time, parent, holds>>
vars == <<thread, published, configured, current, step, status, replies, more, partial, crossed>>

Loads == 1..MaxLoads

-----------------------------------------------------------------------------
(* The API server *)

\* The replies that circle detection follows: an answer to itself does not count.
Answering(S) == {q \in S : parent[q] \notin {None, q}}

\* Seeded fault: what leads to a circle is taken for a part of it.
LoopWithTail(path, q) == Range(path)

\* The circle that the path closes at q, which is on it.
LoopAt(path, q) == {path[i] : i \in {j \in DOMAIN path : \E k \in 1..j : path[k] = q}}

\* The walk from s to the replies it answers, at most MaxHops of them, until it comes
\* to one that no circle goes through, one that was walked before, or back to its path.
Hop(S, done, w) ==
  IF w.over \/ w.at \notin Answering(S) \ done THEN [w EXCEPT !.over = TRUE]
  ELSE IF w.at \in Range(w.path)
  THEN [w EXCEPT !.over = TRUE, !.loop = LoopAt(w.path, w.at)]
  ELSE [w EXCEPT !.path = Append(@, w.at), !.at = parent[w.at]]

AtStart(s) == [at |-> s, path |-> <<>>, loop |-> {}, over |-> FALSE]

WalkFrom(S, done, s) ==
  LET walk[i \in 0..MaxHops] ==
        IF i = 0 THEN AtStart(s) ELSE Hop(S, done, walk[i - 1])
  IN  walk[MaxHops]

\* One more reply is visited.
Visit(S, found, s) ==
  IF s \in found.done THEN found
  ELSE LET w == WalkFrom(S, found.done, s)
       IN  [done |-> found.done \cup Range(w.path), loops |-> found.loops \cup w.loop]

\* findReplyCycles: what is found when the replies in T were visited, one by one.
FindReplyCycles(S) ==
  LET found[T \in SUBSET Answering(S)] ==
        IF T = {} THEN [done |-> {}, loops |-> {}]
        ELSE LET s == Max(T) IN Visit(S, found[T \ {s}], s)
  IN  found[Answering(S)].loops

\* A relay's answer to a query with a limit: of the same second, the lowest ids first.
Newest(S, n) ==
  {r \in S : Cardinality({q \in S : time[q] > time[r] \/ (time[q] = time[r] /\ q < r)}) < n}

\* compareEventsAsc, and the last n in that order.
Before(q, r) == time[q] < time[r] \/ (time[q] = time[r] /\ q < r)
Latest(S, n) == {r \in S : Cardinality({q \in S : Before(r, q)}) < n}

\* Seeded fault: the next page starts a second earlier, as if no two replies shared one.
UntilBefore(cursor) == {r \in published : cursor = None \/ time[r] + 1 < time[cursor]}

\* What is asked for: replies up to the second of the cursor.
Until(cursor) == {r \in published : cursor = None \/ time[r] <= time[cursor]}

\* fetchReplies, when the relays in R answer in time: one more than the page holds is
\* asked for, which tells whether there is another page.  Nobody answering is no error.
Page(R, cursor) ==
  LET found == UNION {Newest(holds[x] \cap Until(cursor), Limit + 1) : x \in R}
      whole == {r \in found : parent[r] # r}
      kept  == {r \in whole \ FindReplyCycles(whole) : cursor = None \/ Before(r, cursor)}
      page  == Latest(kept, Limit)
      next  == Cardinality(kept) > Limit
  IN  [items |-> page, hasMore |-> next,
       nextCursor |-> IF next THEN CHOOSE r \in page : \A q \in page \ {r} : Before(r, q)
                      ELSE None]

-----------------------------------------------------------------------------
(* The page *)

Shown(st, items, hasMore, cursor, source) ==
  [status |-> st, items |-> items, hasMore |-> hasMore, nextCursor |-> cursor,
   isLoadingMore |-> FALSE, source |-> source]

Loading == Shown("loading", {}, FALSE, None, None)
Broken == Shown("error", {}, FALSE, None, None)

FromApi(page) == Shown("ready", page.items, page.hasMore, page.nextCursor, "api")

\* fetchRepliesFromRelays, when the relays in R answer.
FromRelays(R) ==
  Shown("ready", UNION {Newest(holds[x] \cap published, Limit) : x \in R}, FALSE, None, "relay")

Init ==
  /\ time \in [Replies -> 1..MaxTime]
  /\ parent \in [Replies -> Replies \cup {None}]
  /\ holds \in [Relays -> SUBSET Replies]
  /\ published \in SUBSET Replies
  /\ configured \in BOOLEAN
  /\ current = 0
  /\ step = [l \in Loads |-> "unused"]
  /\ status = "idle"
  /\ replies = Shown("idle", {}, FALSE, None, None)
  /\ more = {}
  /\ partial = FALSE /\ crossed = FALSE

\* Somebody answers, later than everybody before.
Publish(r) ==
  /\ r \notin published
  /\ \A q \in published : time[q] < time[r]
  /\ published' = published \cup {r}
  /\ UNCHANGED <<thread, configured, current, step, status, replies, more, partial, crossed>>

Go(l, s) == step' = [step EXCEPT ![l] = s]
Cancelled(l) == l # current

\* The effect, when the page opens, its relays change or the retry button is clicked:
\* the load before is cancelled, a request for more replies runs on.
Load ==
  /\ current < MaxLoads
  /\ current' = current + 1
  /\ Go(current', "cache")
  /\ status' = "loading" /\ replies' = Loading
  /\ crossed' = (crossed \/ more # {})
  /\ UNCHANGED <<thread, published, configured, more, partial>>

\* The API is asked, if there is one, else the relays, by a load that goes on.
AskNetwork(l) ==
  Go(l, IF configured THEN "api" ELSE IF Cancelled(l) THEN "over" ELSE "relays")

\* The note is in the browser's cache, or else in the nostrdb extension, and is shown,
\* with its replies to come; nobody asks whether the load was cancelled.
StoredNote(l) ==
  /\ step[l] \in {"cache", "nostrdb"}
  /\ status' = "ready" /\ replies' = Loading
  /\ AskNetwork(l)
  /\ crossed' = (crossed \/ Cancelled(l))
  /\ UNCHANGED <<thread, published, configured, current, more, partial>>

NotStored(l) ==
  /\ step[l] \in {"cache", "nostrdb"}
  /\ IF step[l] = "cache" THEN Go(l, "nostrdb") ELSE AskNetwork(l)
  /\ UNCHANGED <<thread, published, configured, current, status, replies, more, partial, crossed>>

\* Answers to a cancelled load.
Drop(l) ==
  /\ Cancelled(l)
  /\ \/ step[l] \in {"api", "relays", "reply relays"} /\ Go(l, "over")
     \/ step[l] = "replies" /\ (Go(l, "over") \/ Go(l, "reply relays"))
  /\ UNCHANGED <<thread, published, configured, current, status, replies, more, partial, crossed>>

ApiNote(l) ==
  /\ step[l] = "api" /\ ~Cancelled(l)
  /\ status' = "ready" /\ replies' = Loading
  /\ Go(l, "replies")
  /\ UNCHANGED <<thread, published, configured, current, more, partial, crossed>>

ApiFails(l) ==
  /\ step[l] = "api" /\ ~Cancelled(l)
  /\ Go(l, "relays")
  /\ UNCHANGED <<thread, published, configured, current, status, replies, more, partial, crossed>>

\* The relays have the note: their replies are shown with it.
RelayNote(l, R) ==
  /\ step[l] = "relays" /\ ~Cancelled(l)
  /\ status' = "ready" /\ replies' = FromRelays(R)
  /\ partial' = (R # Relays)
  /\ Go(l, "over")
  /\ UNCHANGED <<thread, published, configured, current, more, crossed>>

NoNote(l) ==
  /\ step[l] = "relays" /\ ~Cancelled(l)
  /\ status' = "error" /\ replies' = Broken
  /\ Go(l, "over")
  /\ UNCHANGED <<thread, published, configured, current, more, partial, crossed>>

\* The first page of replies comes: from the API, or when that fails from the relays.
FirstPage(l, R) ==
  /\ step[l] \in {"replies", "reply relays"} /\ ~Cancelled(l)
  /\ IF status = "ready"
     THEN replies' = IF step[l] = "replies" THEN FromApi(Page(R, None)) ELSE FromRelays(R)
     ELSE UNCHANGED replies
  /\ partial' = (R # Relays)
  /\ Go(l, "over")
  /\ UNCHANGED <<thread, published, configured, current, status, more, crossed>>

\* Seeded fault: a failure leaves the replies as they are.
RepliesGivenUp(l) ==
  /\ step[l] = "replies" /\ ~Cancelled(l)
  /\ Go(l, "over")
  /\ UNCHANGED <<thread, published, configured, current, status, replies, more, partial, crossed>>

RepliesFail(l) ==
  /\ step[l] = "replies" /\ ~Cancelled(l)
  /\ Go(l, "reply relays")
  /\ UNCHANGED <<thread, published, configured, current, status, replies, more, partial, crossed>>

\* loadMoreReplies; the button is there while the replies are.
LoadMore ==
  /\ configured /\ status = "ready"
  /\ replies.status = "ready" /\ replies.hasMore /\ ~replies.isLoadingMore
  /\ replies.nextCursor # None
  /\ more' = more \cup {replies.nextCursor}
  /\ replies' = [replies EXCEPT !.isLoadingMore = TRUE]
  /\ UNCHANGED <<thread, published, configured, current, step, status, partial, crossed>>

\* Its answer is merged into whatever is shown by then.
MoreReplies(c, R) ==
  /\ c \in more
  /\ more' = more \ {c}
  /\ LET page == Page(R, c) IN replies' = [FromApi(page) EXCEPT !.items = replies.items \cup @]
  /\ partial' = (partial \/ R # Relays)
  /\ UNCHANGED <<thread, published, configured, current, step, status, crossed>>

MoreFails(c) ==
  /\ c \in more
  /\ more' = more \ {c}
  /\ replies' = [replies EXCEPT !.isLoadingMore = FALSE]
  /\ UNCHANGED <<thread, published, configured, current, step, status, partial, crossed>>

Answers(l) ==
  \/ StoredNote(l) \/ NotStored(l) \/ Drop(l)
  \/ ApiNote(l) \/ ApiFails(l) \/ NoNote(l) \/ RepliesFail(l)
  \/ \E R \in SUBSET Relays : RelayNote(l, R) \/ FirstPage(l, R)

Next ==
  \/ \E r \in Replies : Publish(r)
  \/ Load
  \/ \E l \in Loads : Answers(l)
  \/ LoadMore
  \/ \E c \in more : MoreFails(c) \/ \E R \in SUBSET Relays : MoreReplies(c, R)

Spec == Init /\ [][Next]_vars

\* Requests end, one way or another: each has a timeout.
Fairness == \A l \in Loads : WF_vars(Answers(l))

FairSpec == Spec /\ Fairness

-----------------------------------------------------------------------------
(* Properties *)

TypeOK ==
  /\ time \in [Replies -> 1..MaxTime]
  /\ parent \in [Replies -> Replies \cup {None}]
  /\ holds \in [Relays -> SUBSET Replies]
  /\ published \subseteq Replies
  /\ current \in 0..MaxLoads
  /\ step \in [Loads -> {"unused", "cache", "nostrdb", "api", "relays", "replies",
                          "reply relays", "over"}]
  /\ status \in {"idle", "loading", "ready", "error"}
  /\ replies \in [status : {"idle", "loading", "ready", "error"}, items : SUBSET Replies,
                  hasMore : BOOLEAN, nextCursor : Replies \cup {None},
                  isLoadingMore : BOOLEAN, source : {"api", "relay", None}]
  /\ more \subseteq Replies
  /\ {configured, partial, crossed} \subseteq BOOLEAN

\* The replies that go round in circles, as a reader would define them: those in a set
\* whose members answer exactly each other.
InLoops(S) ==
  UNION {C \in SUBSET Answering(S) : {parent[q] : q \in C} = C}

\* The search finds circles only, and all of them while the hops suffice, in whatever
\* order the replies come and wherever the walks before it ended.
LoopsAreFound ==
  \A S \in SUBSET Replies :
    /\ FindReplyCycles(S) \subseteq InLoops(S)
    /\ Cardinality(S) < MaxHops => FindReplyCycles(S) = InLoops(S)

Thread == published \cap UNION {holds[x] : x \in Relays}

\* Nothing in the thread disturbs paging: no second with two replies, no answer to itself
\* and no circle.
Plain ==
  /\ \A q, r \in Thread : q # r => time[q] # time[r]
  /\ \A r \in Thread : parent[r] # r
  /\ InLoops(Thread) = {}

Settled == ~partial /\ ~crossed /\ replies.status = "ready" /\ replies.source = "api"

\* Pages fit together: however the thread is spread over the relays and while it grows,
\* no reply is missing between two that the page shows, unless a relay did not answer or
\* the page was loaded again with a request in flight.
NoGap ==
  Plain /\ Settled =>
    \A q, s \in replies.items, r \in Thread : Before(q, r) /\ Before(r, s) => r \in replies.items

\* The replies do not load for ever, however often the page is loaded again, unless a
\* cancelled load found the note in storage late.
RepliesSettle == replies.status = "loading" ~> (replies.status # "loading" \/ crossed)

\* "When hasMore is true, call again with replyCursor=nextCursor to fetch the next page":
\* whoever does so until it is false has seen the thread from the newest reply shown on.
LastPageIsLast ==
  Plain /\ Settled /\ ~replies.hasMore =>
    \A q \in replies.items, r \in Thread : Before(r, q) => r \in replies.items

=============================================================================
