----------------------------- MODULE ZapBatcher -----------------------------
(***************************************************************************)
(* The web application's zap batcher: notes whose zaps are wanted gather   *)
(* for a moment and are then asked for by one subscription, which replaces *)
(* the one before; zaps come by any subscription that still runs and are   *)
(* counted in a bounded cache, from which only notes that nobody shows are *)
(* evicted.  A card shows its note's cache entry, or that it is loading.   *)
(***************************************************************************)
EXTENDS Sequences, FiniteSets, Naturals, Functions, PoolSubscriptions

CONSTANTS
  Notes,
  Zaps,      \* zap receipts
  Tags,      \* the notes each names, by which relays find it
  NoteOf,    \* the first of these, which it counts for, or NoNote if it cannot be parsed
  NoNote,
  MaxCache,  \* MAX_CACHE_SIZE
  MaxBatch,  \* MAX_BATCH_SIZE
  MaxSeen,   \* MAX_SEEN_ZAP_IDS
  MaxQueue,  \* bound: requests that wait
  NoSub

ZapConstants ==
  /\ NoNote \notin Notes
  /\ NoteOf \in [Zaps -> Notes \cup {NoNote}] /\ Tags \in [Zaps -> SUBSET Notes]
  /\ MaxCache \in Nat /\ MaxBatch \in Nat \ {0} /\ MaxSeen \in Nat /\ MaxQueue \in Nat
  /\ NoSub \notin Subs

VARIABLES
  configured,  \* are there a pool and relays
  watching,    \* notes with subscribers
  cache,       \* entries, the one touched last at the end
  pending,     \* pendingRequests
  fetching,    \* fetchingEventIds
  timer,       \* batchTimer
  active,      \* activeSubscription
  batch,       \* the notes of each subscription
  timeouts,    \* subscriptions whose five seconds are not over
  seenZapOrder,  \* the zaps seen, the oldest first
  \* observations
  since,       \* how many zaps were seen since each was, MaxSeen standing for more or never
  twice        \* zaps counted twice in one entry with fewer than MaxSeen others in between

requests == <<pending, fetching, timer, active, batch, timeouts>>
counted == <<seenZapOrder, since, twice>>
zapVars == <<configured, watching, cache, requests, counted, stage>>

Init ==
  /\ PoolInit
  /\ configured = FALSE /\ watching = {}
  /\ cache = <<>> /\ pending = <<>> /\ fetching = {} /\ timer = FALSE
  /\ active = NoSub
  /\ batch = [s \in Subs |-> <<>>]
  /\ timeouts = {}
  /\ seenZapOrder = <<>> /\ since = [z \in Zaps |-> MaxSeen] /\ twice = {}

\* useTopZaps hands over the pool once the relays are known.
Configure ==
  /\ ~configured
  /\ configured' = TRUE
  /\ UNCHANGED <<watching, cache, requests, counted, stage>>

-----------------------------------------------------------------------------
(* The cache *)

Cached(c, e) == \E i \in DOMAIN c : c[i].id = e
ZapsOf(c, e) == UNION {c[i].zaps : i \in {j \in DOMAIN c : c[j].id = e}}

\* The entries of the notes E, in their order, and all the others.
Among(c, E) ==
  LET chosen[i \in 0..Len(c)] ==
        IF i = 0 THEN <<>>
        ELSE IF c[i].id \in E THEN Append(chosen[i - 1], c[i]) ELSE chosen[i - 1]
  IN  chosen[Len(c)]

Without(c, E) == Among(c, Notes \ E)

\* Seeded fault: the oldest entry goes, whoever watches it.
OldestFirst(c) == IF Len(c) <= MaxCache THEN c ELSE SubSeq(c, Len(c) - MaxCache + 1, Len(c))

\* evictCacheIfNeeded: as many as are too many, from the oldest on, but none watched.
Evict(c) ==
  LET loose(i) == {j \in 1..i : c[j].id \notin watching}
  IN  Without(c, {c[i].id : i \in {j \in DOMAIN c :
                     j \in loose(j) /\ Cardinality(loose(j)) <= Len(c) - MaxCache}})

\* setCachedEvent.
Put(c, e, zs, isLoading) ==
  Evict(Append(Without(c, {e}), [id |-> e, zaps |-> zs, loading |-> isLoading]))

\* The notes of ids that are in E are not loading any more, one after the other.
Finished(c, ids, E) ==
  LET done[i \in 0..Len(ids)] ==
        IF i = 0 THEN c
        ELSE LET d == done[i - 1]
                 e == ids[i]
             IN  IF e \in E THEN Put(d, e, ZapsOf(d, e), FALSE) ELSE d
  IN  done[Len(ids)]

-----------------------------------------------------------------------------
(* Subscribers and batches *)

\* The first card for a note: it moves to the end of the cache, or its fetch is queued
\* and the batch timer starts over.
Subscribe(e) ==
  /\ e \notin watching
  /\ watching' = watching \cup {e}
  /\ UNCHANGED <<configured, active, batch, timeouts, counted, stage>>
  /\ \/ /\ Cached(cache, e)
        /\ cache' = Without(cache, {e}) \o Among(cache, {e})
        /\ UNCHANGED <<pending, fetching, timer>>
     \/ /\ ~Cached(cache, e) /\ e \in fetching
        /\ UNCHANGED <<cache, pending, fetching, timer>>
     \/ /\ ~Cached(cache, e) /\ e \notin fetching /\ Len(pending) < MaxQueue
        /\ fetching' = fetching \cup {e}
        /\ pending' = Append(pending, e)
        /\ timer' = TRUE
        /\ UNCHANGED cache

Unsubscribe(e) ==
  /\ e \in watching
  /\ watching' = watching \ {e}
  /\ UNCHANGED <<configured, cache, requests, counted, stage>>

\* Seeded fault: the requests that found no place wait for the next card.
LeftWaiting(n) == FALSE

\* Is the timer set again, with n requests left?
SetAgain(n) == n > 0

\* processBatch.  Bound: there is a subscription s left to use, whose last batch is over.
ProcessBatch(s) ==
  /\ timer /\ configured /\ pending # <<>>
  /\ s # active /\ s \notin timeouts
  /\ LET n == IF Len(pending) < MaxBatch THEN Len(pending) ELSE MaxBatch IN
       /\ batch' = [batch EXCEPT ![s] = SubSeq(pending, 1, n)]
       /\ pending' = SubSeq(pending, n + 1, Len(pending))
       /\ timer' = SetAgain(Len(pending) - n)
  /\ Replace(active, s)
  /\ active' = s
  /\ timeouts' = timeouts \cup {s}
  /\ UNCHANGED <<configured, watching, cache, fetching, counted>>

SubOpened(s) ==
  /\ Opened(s)
  /\ UNCHANGED <<configured, watching, cache, requests, counted>>

SubRefused(s) ==
  /\ Refused(s)
  /\ UNCHANGED <<configured, watching, cache, requests, counted>>

-----------------------------------------------------------------------------
(* What a subscription brings, replaced or not *)

seenZapIds == Range(seenZapOrder)

\* Seeded fault: beyond the bound the newest zap is forgotten.
NewestForgotten(order) == SubSeq(order, 1, IF Len(order) > MaxSeen THEN MaxSeen ELSE Len(order))

\* The zaps seen, without the oldest of them when they are too many.
Kept(order) ==
  IF Len(order) > MaxSeen THEN SubSeq(order, Len(order) - MaxSeen + 1, Len(order)) ELSE order

\* markSeenZapId; when it says no, the event is dropped and nothing changes.
MarkSeen(z) == z \notin seenZapIds /\ seenZapOrder' = Kept(Append(seenZapOrder, z))

\* onevent, for a stored zap or a new one: it is seen, even if it is dropped because it
\* cannot be parsed or its first note is not of this batch.  A note that gets one counts
\* as loading again, its end of stored events come or not.
Deliver(s, z) ==
  /\ stage[s] = "open"
  /\ Range(batch[s]) \cap Tags[z] # {}
  /\ MarkSeen(z)
  /\ since' = [y \in Zaps |-> IF y = z THEN 0
                              ELSE IF since[y] < MaxSeen THEN since[y] + 1 ELSE MaxSeen]
  /\ IF NoteOf[z] \in Range(batch[s])
     THEN LET old == ZapsOf(cache, NoteOf[z]) IN
            /\ cache' = Put(cache, NoteOf[z], old \cup {z}, TRUE)
            /\ twice' = twice \cup {y \in old \cap {z} : since[y] < MaxSeen}
     ELSE UNCHANGED <<cache, twice>>
  /\ UNCHANGED <<configured, watching, requests, stage>>

\* oneose, which may come more than once.
Eose(s) ==
  /\ stage[s] = "open"
  /\ cache' = Finished(cache, batch[s], Notes)
  /\ fetching' = fetching \ Range(batch[s])
  /\ UNCHANGED <<configured, watching, pending, timer, active, batch>>
  /\ UNCHANGED <<timeouts, counted, stage>>

\* The five seconds are over: what is still being fetched is called loaded, even if it
\* is a later batch that fetches it.
TimeoutFires(s) ==
  /\ s \in timeouts
  /\ timeouts' = timeouts \ {s}
  /\ cache' = Finished(cache, batch[s], fetching)
  /\ fetching' = fetching \ Range(batch[s])
  /\ UNCHANGED <<configured, watching, pending, timer, active, batch>>
  /\ UNCHANGED <<counted, stage>>

Next ==
  \/ Configure
  \/ \E e \in Notes : Subscribe(e) \/ Unsubscribe(e)
  \/ \E s \in Subs : ProcessBatch(s) \/ SubOpened(s) \/ SubRefused(s)
  \/ \E s \in Subs, z \in Zaps : Deliver(s, z)
  \/ \E s \in Subs : Eose(s) \/ TimeoutFires(s)

Spec == Init /\ [][Next]_zapVars

\* The timers fire; relays may never answer.
Fairness ==
  /\ WF_zapVars(\E s \in Subs : ProcessBatch(s))
  /\ \A s \in Subs : WF_zapVars(TimeoutFires(s))

FairSpec == Spec /\ Fairness

-----------------------------------------------------------------------------
TypeOK ==
  /\ PoolTypeOK
  /\ configured \in BOOLEAN
  /\ watching \subseteq Notes
  /\ cache \in Seq([id : Notes, zaps : SUBSET Zaps, loading : BOOLEAN])
  /\ pending \in Seq(Notes) /\ fetching \subseteq Notes
  /\ timer \in BOOLEAN
  /\ active \in Subs \cup {NoSub}
  /\ batch \in [Subs -> Seq(Notes)]
  /\ timeouts \subseteq Subs
  /\ seenZapOrder \in Seq(Zaps) /\ Len(seenZapOrder) <= MaxSeen
  /\ since \in [Zaps -> 0..MaxSeen]
  /\ twice \subseteq Zaps

\* The total of a note on the screen only grows, and by each zap once until MAX_SEEN_ZAP_IDS
\* others were seen: neither the eviction for other notes nor a batch's end or timeout
\* takes a zap away, a replaced subscription that was closed before it opened brings none
\* a second time, and of the zaps seen none is forgotten too soon.
TotalOnlyGrows ==
  [][/\ \A e \in watching \cap watching' : ZapsOf(cache, e) \subseteq ZapsOf(cache', e)
     /\ twice' = {}]_zapVars

Waiting(e) == configured /\ e \in watching /\ ~Cached(cache, e)

\* A card does not wait for ever, whatever the relays do and however often the batch
\* timer started over or another batch came first.
WaitingEnds ==
  \A e \in Notes :
    Waiting(e) ~> (~Waiting(e) \/ \A s \in Subs : ~Idle(s) \/ s = active)

=============================================================================
