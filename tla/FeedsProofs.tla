---------------------------- MODULE FeedsProofs -----------------------------
(* Proofs about the two lists that a page loads and brings up to date: the   *)
(* tips feed, for any tips, sockets and cap on clients, and the replies to a *)
(* note, by what EventRepliesProofs proves of them.                          *)
EXTENDS MCFeeds, FiniteSetTheorems, SequenceTheorems, TLAPS

Pages == INSTANCE EventRepliesProofs

USE TipsFeedAssumption

-----------------------------------------------------------------------------
(* Sockets.  The widget hears of the end of every socket that has handlers,  *)
(* and says it is connected only while it has one.                           *)

SocketsOK ==
  /\ sock \in [Sockets -> {"closed", "dialled", "looking", "listed", "closing"}]
  /\ wired \subseteq Sockets /\ up \subseteq wired /\ ws \in wired \cup {None}
  /\ \A s \in wired : sock[s] # "closed"
  /\ connected => wired # {}
  /\ realtime \in BOOLEAN /\ matching \in BOOLEAN
  /\ connected \in BOOLEAN /\ online \in BOOLEAN
  /\ timer \in BOOLEAN /\ polling \in BOOLEAN /\ destroyed \in BOOLEAN
  /\ started \in BOOLEAN

SocketInv == SocketsOK /\ KeepsDialling

\* At first no socket is open and the feed is not started.
LEMMA InitSockets == Init => SocketInv
BY DEF Init, SocketInv, SocketsOK, KeepsDialling

\* Dialling gives the feed a socket, unless it is destroyed, off the socket or offline.
LEMMA Dials ==
  ASSUME SocketsOK, Dial
  PROVE  /\ sock' \in [Sockets -> {"closed", "dialled", "looking", "listed", "closing"}]
         /\ wired' \subseteq Sockets /\ up' \subseteq wired' /\ ws' \in wired' \cup {None}
         /\ \A s \in wired' : sock'[s] # "closed"
         /\ wired \subseteq wired' /\ polling' \in BOOLEAN
         /\ realtime /\ online' /\ ~destroyed => wired' # {}
<1>1. CASE UNCHANGED <<net, ws, wired, up>>
  <2>1. polling' \in BOOLEAN
    BY <1>1 DEF Dial, SocketsOK
  <2>2. realtime /\ online' /\ ~destroyed => wired' # {}
    BY <1>1 DEF Dial, SocketsOK
  <2> QED BY <1>1, <2>1, <2>2 DEF SocketsOK, net
<1>2. ASSUME NEW s \in Sockets, sock[s] = "closed", sock' = [sock EXCEPT ![s] = "dialled"],
             ws' = s, wired' = wired \cup {s}, UNCHANGED <<wire, up, polling>>
      PROVE  /\ sock' \in [Sockets -> {"closed", "dialled", "looking", "listed", "closing"}]
             /\ wired' \subseteq Sockets /\ up' \subseteq wired' /\ ws' \in wired' \cup {None}
             /\ \A u \in wired' : sock'[u] # "closed"
             /\ wired \subseteq wired' /\ polling' \in BOOLEAN
             /\ wired' # {}
  BY <1>2 DEF SocketsOK
<1> QED BY <1>1, <1>2 DEF Dial

\* Closing the present socket leaves the others as they are.
LEMMA Closes ==
  ASSUME SocketsOK, CloseCurrent
  PROVE  /\ sock' \in [Sockets -> {"closed", "dialled", "looking", "listed", "closing"}]
         /\ wired' \subseteq Sockets /\ up' \subseteq wired' /\ ws' = None
         /\ \A s \in wired' : sock'[s] # "closed"
         /\ connected' = FALSE
BY DEF CloseCurrent, SocketsOK

\* No step leaves the feed deaf, or a closed socket with handlers.
LEMMA NextSockets == SocketInv /\ [Next]_vars => SocketInv'
<1> SUFFICES ASSUME SocketInv, [Next]_vars PROVE SocketInv'
  OBVIOUS
<1> USE DEF SocketInv, setup
<1>1. CASE UNCHANGED <<sock, setup, link, started>>
  BY <1>1 DEF SocketsOK, KeepsDialling, link
<1>2. ASSUME NEW s \in Sockets, Accept(s) \/ ListClient(s) PROVE SocketInv'
  BY <1>2 DEF Accept, ListClient, SocketsOK, KeepsDialling, link
<1>3. ASSUME NEW s \in Sockets, Opens(s) PROVE SocketInv'
  BY <1>3 DEF Opens, SocketsOK, KeepsDialling, server
<1>4. ASSUME NEW s \in Sockets, HungUp(s) PROVE SocketInv'
  <2>1. timer' \in BOOLEAN /\ polling' \in BOOLEAN /\ connected' \in BOOLEAN
    BY <1>4 DEF HungUp, Hangup, SocketsOK
  <2>2. SocketsOK'
    BY <1>4, <2>1 DEF HungUp, Hangup, SocketsOK
  <2>3. KeepsDialling'
    BY <1>4 DEF HungUp, Hangup, SocketsOK, KeepsDialling
  <2> QED BY <2>2, <2>3
<1>5. CASE ReconnectFires
  <2>1. SocketsOK'
    BY <1>5, Dials DEF ReconnectFires, SocketsOK
  <2>2. KeepsDialling'
    BY <1>5, Dials DEF ReconnectFires, KeepsDialling
  <2> QED BY <2>1, <2>2
<1>6. CASE GoOffline
  BY <1>6, Closes DEF GoOffline, SocketsOK, KeepsDialling
<1>7. CASE GoOnline
  <2>1. CASE connected
    BY <1>7, <2>1 DEF GoOnline, SocketsOK, KeepsDialling, net
  <2>2. CASE ~connected
    <3>1. SocketsOK'
      BY <1>7, <2>2, Dials DEF GoOnline, SocketsOK
    <3>2. KeepsDialling'
      BY <1>7, <2>2, Dials DEF GoOnline, KeepsDialling
    <3> QED BY <3>1, <3>2
  <2> QED BY <2>1, <2>2 DEF SocketsOK
<1>8. CASE Destroy
  BY <1>8, Closes DEF Destroy, SocketsOK, KeepsDialling
<1>9. ASSUME NEW l \in loads, HydrateAnswered(l) PROVE SocketInv'
  <2>0. started' = TRUE /\ UNCHANGED <<online, setup, connected, timer, destroyed>>
    BY <1>9 DEF HydrateAnswered
  <2>1. CASE started \/ destroyed
    BY <1>9, <2>0, <2>1 DEF HydrateAnswered, SocketsOK, KeepsDialling, net
  <2>2. CASE ~(started \/ destroyed) /\ realtime
    <3>1. Dial
      BY <1>9, <2>2 DEF HydrateAnswered
    <3> QED BY <2>0, <3>1, Dials DEF SocketsOK, KeepsDialling
  <2>3. CASE ~(started \/ destroyed) /\ ~realtime
    BY <1>9, <2>0, <2>3 DEF HydrateAnswered, SocketsOK, KeepsDialling, net
  <2> QED BY <2>1, <2>2, <2>3
<1>10. CASE \/ \E t \in Tips : PayTip(t) \/ SendTip(t)
            \/ \E s \in Sockets, t \in Tips : Receive(s, t)
            \/ \E l \in loads : PollAnswered(l) \/ PollFails(l)
            \/ OthersChange \/ Hydrate \/ PollTick
  BY <1>1, <1>10 DEF PayTip, SendTip, Receive, PollAnswered, PollFails, OthersChange, Hydrate,
                     PollTick, Request, server, net
<1>11. CASE UNCHANGED vars
  BY <1>1, <1>11 DEF vars, server
<1> QED BY <1>2, <1>3, <1>4, <1>5, <1>6, <1>7, <1>8, <1>9, <1>10, <1>11 DEF Next

\* A feed on the socket that is started, online and not destroyed has a socket whose end
\* it will hear of or a timer, however its sockets overlap and go.
THEOREM NeverDeaf == Spec => []KeepsDialling
<1>1. SocketInv => KeepsDialling
  BY DEF SocketInv
<1> QED BY InitSockets, NextSockets, <1>1, PTL DEF Spec

-----------------------------------------------------------------------------
(* The cap.  A socket is counted from the moment it is let in, before its    *)
(* tenant is known, so what the cap admits is never more than what is        *)
(* counted.                                                                  *)

Admitted == {s \in Sockets : sock[s] \in {"looking", "listed"}}
Counted == {s \in Sockets : sock[s] \notin {"closed", "dialled"}}

CapInv == others \in Nat /\ others + Cardinality(Admitted) <= MaxClients

\* What the widget has at the server is finite, and counted when it is admitted.
LEMMA Counts ==
  /\ IsFiniteSet(Admitted) /\ IsFiniteSet(Counted)
  /\ Cardinality(Admitted) \in Nat /\ Cardinality(Counted) \in Nat
  /\ Cardinality(Admitted) <= Cardinality(Counted)
<1>1. Admitted \subseteq Counted /\ Counted \subseteq Sockets
  BY DEF Admitted, Counted
<1>2. IsFiniteSet(Counted)
  BY <1>1, FS_Subset
<1> QED BY <1>1, <1>2, FS_Subset, FS_CardinalityType

\* Fewer sockets and as many others are within the cap too.
LEMMA FewerAdmitted ==
  ASSUME CapInv, Admitted' \subseteq Admitted, others' \in Nat, others' <= others
  PROVE  CapInv'
<1>1. /\ IsFiniteSet(Admitted) /\ Cardinality(Admitted) \in Nat
  BY Counts
<1>2. Cardinality(Admitted') <= Cardinality(Admitted) /\ IsFiniteSet(Admitted')
  BY <1>1, FS_Subset
<1>3. Cardinality(Admitted') \in Nat
  BY <1>2, FS_CardinalityType
<1> QED BY <1>1, <1>2, <1>3 DEF CapInv

\* No step admits a client over the cap.
LEMMA NextCap == SocketInv /\ CapInv /\ [Next]_vars => CapInv'
<1> SUFFICES ASSUME SocketInv, CapInv, [Next]_vars PROVE CapInv'
  OBVIOUS
<1>0. sock \in [Sockets -> {"closed", "dialled", "looking", "listed", "closing"}]
  BY DEF SocketInv, SocketsOK
<1>1. ASSUME UNCHANGED others, Admitted' \subseteq Admitted PROVE CapInv'
  BY <1>1, FewerAdmitted DEF CapInv
<1>2. CASE UNCHANGED <<sock, others>>
  BY <1>1, <1>2 DEF Admitted
<1>3. ASSUME NEW s \in Sockets, Accept(s) PROVE CapInv'
  <2>1. CASE Clients + 1 > MaxClients
    <3>1. sock' = [sock EXCEPT ![s] = "closing"]
      BY <1>3, <2>1 DEF Accept
    <3>2. Admitted' \subseteq Admitted
      BY <1>0, <3>1 DEF Admitted
    <3> QED BY <1>1, <1>3, <3>2 DEF Accept
  <2>2. CASE ~(Clients + 1 > MaxClients)
    <3>1. sock[s] = "dialled" /\ sock' = [sock EXCEPT ![s] = "looking"]
      BY <1>3, <2>2 DEF Accept
    <3>2. Admitted' = Admitted \cup {s} /\ s \notin Admitted
      BY <1>0, <3>1 DEF Admitted
    <3>3. Cardinality(Admitted') = Cardinality(Admitted) + 1
      BY <3>2, Counts, FS_AddElement
    <3>4. others + Cardinality(Counted) + 1 <= MaxClients
      <4>1. Clients = others + Cardinality(Counted)
        BY DEF Clients, Counted
      <4> QED BY <2>2, <4>1, Counts DEF CapInv
    <3>5. others' = others
      BY <1>3 DEF Accept
    <3> QED BY <3>3, <3>4, <3>5, Counts DEF CapInv
  <2> QED BY <2>1, <2>2
<1>4. ASSUME NEW s \in Sockets, ListClient(s) PROVE CapInv'
  <2>1. Admitted' \subseteq Admitted
    BY <1>0, <1>4 DEF ListClient, Admitted
  <2> QED BY <1>1, <1>4, <2>1 DEF ListClient
<1>5. CASE OthersChange
  <2>1. Admitted' = Admitted
    BY <1>5 DEF OthersChange, net, Admitted
  <2>2. CASE Clients + 1 <= MaxClients /\ others' = others + 1
    <3>1. Clients = others + Cardinality(Counted)
      BY DEF Clients, Counted
    <3> QED BY <2>1, <2>2, <3>1, Counts DEF CapInv
  <2>3. CASE others > 0 /\ others' = others - 1
    BY <2>1, <2>3, FewerAdmitted DEF CapInv
  <2> QED BY <1>5, <2>2, <2>3 DEF OthersChange
<1>6. ASSUME NEW s \in Sockets, HungUp(s) PROVE CapInv'
  <2>1. Admitted' \subseteq Admitted
    BY <1>0, <1>6 DEF HungUp, Hangup, Admitted
  <2> QED BY <1>1, <1>6, <2>1 DEF HungUp
<1>7. ASSUME Dial \/ UNCHANGED <<net, ws, wired, up, polling>> \/ UNCHANGED <<net, ws, wired, up>>,
             UNCHANGED others
      PROVE  CapInv'
  <2>1. Admitted' \subseteq Admitted
    BY <1>0, <1>7 DEF Dial, net, Admitted
  <2> QED BY <1>1, <1>7, <2>1
<1>8. ASSUME CloseCurrent, UNCHANGED others PROVE CapInv'
  <2>1. Admitted' \subseteq Admitted
    BY <1>0, <1>8 DEF CloseCurrent, Admitted
  <2> QED BY <1>1, <1>8, <2>1
<1>9. CASE ReconnectFires \/ GoOnline \/ \E l \in loads : HydrateAnswered(l)
  BY <1>7, <1>9 DEF ReconnectFires, GoOnline, HydrateAnswered
<1>10. CASE GoOffline \/ Destroy
  BY <1>8, <1>10 DEF GoOffline, Destroy
<1>11. CASE \/ \E t \in Tips : PayTip(t) \/ SendTip(t)
            \/ \E s \in Sockets, t \in Tips : Receive(s, t)
            \/ \E s \in Sockets : Opens(s)
            \/ \E l \in loads : PollAnswered(l) \/ PollFails(l)
            \/ Hydrate \/ PollTick \/ UNCHANGED vars
  BY <1>2, <1>11 DEF PayTip, SendTip, Receive, Opens, PollAnswered, PollFails, Hydrate, PollTick,
                     Request, server, net, vars
<1> QED BY <1>3, <1>4, <1>5, <1>6, <1>9, <1>10, <1>11 DEF Next

\* At first nobody is let in.
LEMMA InitCap == Init => CapInv
<1> SUFFICES ASSUME Init PROVE CapInv
  OBVIOUS
<1>1. Admitted = {}
  BY DEF Init, Admitted
<1> QED BY <1>1, FS_EmptySet DEF Init, CapInv

\* However many sockets are let in while tenants are looked up, no more than MAX_CLIENTS
\* are listed or about to be.
THEOREM CapKept == Spec => []CapHolds
<1>1. CapInv => CapHolds
  BY DEF CapInv, CapHolds, Admitted
<1> QED BY InitSockets, NextSockets, InitCap, NextCap, <1>1, PTL DEF Spec

-----------------------------------------------------------------------------
(* The list.  What is on its way to the widget, on a socket or in an answer, *)
(* is paid and for its item and tenant; and what the page was given is among *)
(* the tips the connection remembers.                                        *)

Due == paid \cap SameItem \cap (OfDomain \cup OfHost)

\* Those that one answer may bring.
Answered == {S \in SUBSET Due : Cardinality(S) <= MaxItems}

Injective(list_) == \A i, j \in DOMAIN list_ : list_[i] = list_[j] => i = j

\* The list r is right for the tips S.
RightList(r, S) ==
  /\ r \in Seq(S) /\ Injective(r)
  /\ Len(r) = Smaller(Cardinality(S), MaxItems)

TipsOK ==
  /\ paid \subseteq Tips /\ handling \subseteq paid
  /\ wire \in [Sockets -> SUBSET Due]
  /\ loads \subseteq [what : {"hydrate", "poll"}, tips : Answered]
  /\ seen \subseteq Due /\ count = Cardinality(seen)
  /\ RightList(rows, seen)

GivenInv == seenIds \subseteq Tips /\ given \subseteq seenIds /\ again = {}

ListInv == TipsOK /\ GivenInv

\* Paid tips are finitely many.
LEMMA DueFinite == TipsOK => IsFiniteSet(Due) /\ IsFiniteSet(seen) /\ IsFiniteSet(Tips)
<1> SUFFICES ASSUME TipsOK PROVE IsFiniteSet(Due) /\ IsFiniteSet(seen)
  OBVIOUS
<1>1. Due \subseteq Tips /\ seen \subseteq Tips
  BY DEF TipsOK, Due
<1> QED BY <1>1, FS_Subset

\* New tips put on top of a list, which is then trimmed, make a list that is right for
\* the tips of both.
LEMMA TopsList ==
  ASSUME NEW S \in SUBSET Tips, NEW F \in SUBSET Tips, S \cap F = {},
         NEW r, RightList(r, S), NEW top \in Ascending(F)
  PROVE  RightList(Trimmed(top \o r), S \cup F)
<1> DEFINE both == top \o r
           k == Smaller(Len(both), MaxItems)
<1>1. /\ IsFiniteSet(S) /\ IsFiniteSet(F)
      /\ Cardinality(S) \in Nat /\ Cardinality(F) \in Nat
  BY FS_Subset, FS_CardinalityType
<1>2. Cardinality(S \cup F) = Cardinality(S) + Cardinality(F)
  <2>1. Cardinality(S \cup F) = Cardinality(S) + Cardinality(F) - Cardinality(S \cap F)
    BY <1>1, FS_Union
  <2>2. Cardinality(S \cap F) = 0
    BY FS_EmptySet
  <2> QED BY <1>1, <2>1, <2>2
<1>3. /\ top \in Seq(F) /\ Len(top) = Cardinality(F)
      /\ \A i, j \in 1..Cardinality(F) : i < j => top[i] < top[j]
  BY <1>1 DEF Ascending
<1>4. Injective(top)
  <2> SUFFICES ASSUME NEW i \in DOMAIN top, NEW j \in DOMAIN top, top[i] = top[j] PROVE i = j
    BY DEF Injective
  <2>1. i \in 1..Cardinality(F) /\ j \in 1..Cardinality(F) /\ top[i] \in F /\ top[j] \in F
    BY <1>3
  <2>2. top[i] \in Nat
    BY <2>1
  <2> QED BY <1>1, <1>3, <2>1, <2>2
<1>5. r \in Seq(S) /\ Len(r) \in Nat /\ Len(r) = Smaller(Cardinality(S), MaxItems)
  BY DEF RightList
<1>6. /\ both \in Seq(S \cup F) /\ Len(both) = Cardinality(F) + Len(r)
      /\ \A i \in 1..Len(both) : both[i] = IF i <= Len(top) THEN top[i] ELSE r[i - Len(top)]
  BY <1>3, <1>5
<1>7. k \in 0..Len(both) /\ k = Smaller(Cardinality(S \cup F), MaxItems)
  BY <1>1, <1>2, <1>5, <1>6 DEF Smaller
<1>8. ASSUME NEW i \in 1..Len(both), NEW j \in 1..Len(both), both[i] = both[j] PROVE i = j
  <2>1. Len(top) \in Nat /\ Len(r) \in Nat /\ Len(both) = Len(top) + Len(r)
    BY <1>3, <1>5, <1>6
  <2>2. CASE i <= Len(top) /\ j <= Len(top)
    BY <1>3, <1>4, <1>6, <1>8, <2>1, <2>2 DEF Injective
  <2>3. CASE i > Len(top) /\ j > Len(top)
    <3>1. i - Len(top) \in 1..Len(r) /\ j - Len(top) \in 1..Len(r)
      BY <2>1, <2>3
    <3>2. r[i - Len(top)] = r[j - Len(top)]
      BY <1>6, <1>8, <2>1, <2>3
    <3>3. \A a, b \in 1..Len(r) : r[a] = r[b] => a = b
      BY <1>5 DEF Injective, RightList
    <3>4. i - Len(top) = j - Len(top)
      BY <3>1, <3>2, <3>3
    <3> QED BY <2>1, <2>3, <3>4
  <2>4. ASSUME NEW m \in 1..Len(both), NEW n \in 1..Len(both), m <= Len(top), n > Len(top)
        PROVE  both[m] # both[n]
    <3>1. both[m] \in F
      BY <1>3, <1>6, <2>1, <2>4
    <3>2. n - Len(top) \in 1..Len(r)
      BY <2>1, <2>4
    <3>3. both[n] \in S
      BY <1>5, <1>6, <2>1, <2>4, <3>2
    <3> QED BY <3>1, <3>3
  <2> QED BY <1>8, <2>1, <2>2, <2>3, <2>4
<1>9. /\ Trimmed(both) = SubSeq(both, 1, k) /\ Trimmed(both) \in Seq(S \cup F)
      /\ Len(Trimmed(both)) = k
      /\ \A i \in 1..k : Trimmed(both)[i] = both[i]
  <2> HIDE DEF both
  <2> QED BY <1>6, <1>7 DEF Trimmed
<1>10. Injective(Trimmed(both))
  <2>1. Len(both) \in Nat /\ k \in 0..Len(both)
    BY <1>3, <1>5, <1>6, <1>7
  <2> HIDE DEF both, k
  <2>2. DOMAIN Trimmed(both) = 1..k /\ 1..k \subseteq 1..Len(both)
    BY <1>9, <2>1
  <2> QED BY <1>8, <1>9, <2>2 DEF Injective
<1> QED BY <1>7, <1>9, <1>10 DEF RightList

\* Showing tips that are due and not remembered keeps the list right and gives the page
\* none twice.
LEMMA Shows ==
  ASSUME ListInv, NEW new \in SUBSET Due, new \cap seenIds = {}, ShowTips(new)
  PROVE  /\ seen' \subseteq Due /\ count' = Cardinality(seen') /\ RightList(rows', seen')
         /\ given' = given \cup new /\ again' = {}
<1>1. again' = {} /\ given' = given \cup new
  BY DEF ShowTips, ListInv, GivenInv
<1> DEFINE fresh == new \ seen
<1>2. seen' = seen \cup fresh /\ seen' \subseteq Due /\ seen \cap fresh = {}
  BY DEF ShowTips, ListInv, TipsOK
<1>3. seen \in SUBSET Tips /\ fresh \in SUBSET Tips
  BY DEF ListInv, TipsOK, Due
<1>4. /\ IsFiniteSet(seen) /\ IsFiniteSet(fresh)
      /\ Cardinality(seen) \in Nat /\ Cardinality(fresh) \in Nat
  BY <1>3, FS_Subset, FS_CardinalityType
<1>5. count' = Cardinality(seen')
  <2>1. count' = Cardinality(seen) + Cardinality(fresh)
    BY DEF ShowTips, ListInv, TipsOK
  <2> HIDE DEF fresh
  <2>2. Cardinality(seen \cup fresh)
          = Cardinality(seen) + Cardinality(fresh) - Cardinality(seen \cap fresh)
    BY <1>4, FS_Union
  <2>3. Cardinality(seen \cap fresh) = 0
    BY <1>2, FS_EmptySet
  <2> QED BY <1>2, <1>4, <2>1, <2>2, <2>3
<1>6. RightList(rows', seen')
  <2>1. PICK top \in Ascending(fresh) : rows' = Trimmed(top \o rows)
    BY DEF ShowTips
  <2>2. RightList(rows, seen)
    BY DEF ListInv, TipsOK
  <2> HIDE DEF fresh
  <2> QED BY <1>2, <1>3, <2>1, <2>2, TopsList
<1> QED BY <1>1, <1>2, <1>5, <1>6

\* What a request comes back with is due, and no more than the list has room for.
LEMMA ListingsDue ==
  ASSUME TipsOK
  PROVE  Listings \subseteq Answered
<1>1. IsFiniteSet(Found) /\ Cardinality(Found) \in Nat
  BY FS_Subset, FS_CardinalityType DEF Found, TipsOK
<1>2. Smaller(Cardinality(Found), MaxItems) <= MaxItems
  BY <1>1 DEF Smaller
<1>3. {} \in Answered
  BY FS_EmptySet DEF Answered
<1> QED BY <1>2, <1>3 DEF Listings, Answered, Found, Due

\* The list that an answer brings is right for what it brings.
LEMMA ListsAnswer ==
  ASSUME TipsOK, NEW tips \in Answered, NEW r \in Descending(tips)
  PROVE  RightList(r, tips)
<1>1. tips \subseteq Tips /\ tips \subseteq Nat
  BY DEF TipsOK, Answered, Due
<1>2. Cardinality(tips) \in Nat /\ Cardinality(tips) <= MaxItems
  BY <1>1, FS_Subset, FS_CardinalityType DEF Answered
<1>3. /\ r \in [1..Cardinality(tips) -> tips]
      /\ r \in Seq(tips) /\ Len(r) = Cardinality(tips)
      /\ \A i, j \in 1..Cardinality(tips) : i < j => r[i] > r[j]
  BY <1>2 DEF Descending
<1>4. Injective(r)
  <2> SUFFICES ASSUME NEW i \in DOMAIN r, NEW j \in DOMAIN r, r[i] = r[j] PROVE i = j
    BY DEF Injective
  <2>1. i \in 1..Cardinality(tips) /\ j \in 1..Cardinality(tips) /\ r[i] \in Nat
    BY <1>1, <1>3
  <2> QED BY <1>2, <1>3, <2>1
<1> QED BY <1>2, <1>3, <1>4 DEF RightList, Smaller

\* Steps that show nothing leave the list as it is.
LEMMA ShowsNothing ==
  ASSUME ListInv, UNCHANGED <<seenIds, list, told>>, paid \subseteq paid', paid' \subseteq Tips,
         handling' \subseteq paid',
         wire' \in [Sockets -> SUBSET Due'],
         loads' \subseteq [what : {"hydrate", "poll"}, tips : Answered']
  PROVE  ListInv'
<1>1. Due \subseteq Due'
  BY DEF Due
<1>2. RightList(rows', seen')
  BY DEF ListInv, TipsOK, list
<1> QED BY <1>1, <1>2 DEF ListInv, TipsOK, GivenInv, list, told

\* A tip reaches the page as one that is paid, due and new.
LEMMA NextList == SocketInv /\ ListInv /\ [Next]_vars => ListInv'
<1> SUFFICES ASSUME SocketInv, ListInv, [Next]_vars PROVE ListInv'
  OBVIOUS
<1>0. TipsOK
  BY DEF ListInv
<1>1. ASSUME NEW t \in Tips, PayTip(t) PROVE ListInv'
  <2>1. paid \subseteq paid' /\ paid' \subseteq Tips /\ handling' \subseteq paid' /\ Due \subseteq Due'
    BY <1>0, <1>1 DEF PayTip, TipsOK, Due
  <2>2. Answered \subseteq Answered'
    BY <2>1 DEF Answered
  <2> QED BY <1>0, <1>1, <2>1, <2>2, ShowsNothing DEF PayTip, TipsOK, net
<1>2. ASSUME NEW t \in Tips, SendTip(t) PROVE ListInv'
  <2>1. IsFor(t) => t \in Due
    BY <1>0, <1>2 DEF SendTip, IsFor, TipsOK, Due
  <2>2. wire' \in [Sockets -> SUBSET Due]
    BY <1>0, <1>2, <2>1 DEF SendTip, TipsOK
  <2>3. handling' \subseteq paid /\ Due' = Due /\ Answered' = Answered
    BY <1>0, <1>2 DEF SendTip, TipsOK, Due, Answered
  <2> QED BY <1>0, <1>2, <2>2, <2>3, ShowsNothing DEF SendTip, TipsOK
<1>3. ASSUME UNCHANGED <<paid, handling, seenIds, list, told>>,
             wire' \in [Sockets -> SUBSET Due],
             loads' \subseteq loads \cup [what : {"hydrate", "poll"}, tips : Answered]
      PROVE  ListInv'
  BY <1>0, <1>3, ShowsNothing DEF TipsOK, Due, Answered
<1>4. ASSUME UNCHANGED <<paid, handling, wire, seenIds, list, told>>, loads' \subseteq loads
      PROVE  ListInv'
  BY <1>0, <1>3, <1>4 DEF TipsOK
<1>5. ASSUME NEW s \in Sockets, NEW t \in Tips, Receive(s, t) PROVE ListInv'
  <2> DEFINE new == ({t} \cap SameItem) \ seenIds
  <2>1. ShowTips(new) /\ seenIds' = seenIds \cup new
    BY <1>5 DEF Receive
  <2>2. new \in SUBSET Due /\ new \cap seenIds = {} /\ new \subseteq Tips
    BY <1>0, <1>5 DEF Receive, TipsOK, Due
  <2>3. wire' \in [Sockets -> SUBSET Due]
    BY <1>0, <1>5 DEF Receive, TipsOK
  <2> HIDE DEF new
  <2>4. /\ seen' \subseteq Due /\ count' = Cardinality(seen') /\ RightList(rows', seen')
        /\ given' = given \cup new /\ again' = {}
    BY <2>1, <2>2, Shows
  <2> QED BY <1>0, <1>5, <2>1, <2>2, <2>3, <2>4 DEF Receive, ListInv, TipsOK, GivenInv, Due, Answered
<1>6. ASSUME NEW l \in loads, PollAnswered(l) PROVE ListInv'
  <2> DEFINE new == l.tips \ seenIds
  <2>0. l.tips \subseteq Due /\ l.tips \subseteq Tips
    BY <1>0 DEF TipsOK, Answered, Due
  <2>1. ShowTips(new) /\ seenIds' = seenIds \cup l.tips /\ new \subseteq l.tips
    BY <1>6 DEF PollAnswered
  <2>2. new \in SUBSET Due /\ new \cap seenIds = {}
    BY <2>0
  <2> HIDE DEF new
  <2>3. /\ seen' \subseteq Due /\ count' = Cardinality(seen') /\ RightList(rows', seen')
        /\ given' = given \cup new /\ again' = {}
    BY <2>1, <2>2, Shows
  <2> QED BY <1>0, <1>6, <2>0, <2>1, <2>3 DEF PollAnswered, server, ListInv, TipsOK, GivenInv, Due, Answered
<1>7. ASSUME NEW l \in loads, HydrateAnswered(l) PROVE ListInv'
  <2>0. l.tips \subseteq Due /\ l.tips \subseteq Tips
    BY <1>0 DEF TipsOK, Answered, Due
  <2>1. PICK tips \in {l.tips, {}} :
          /\ seenIds' = Remembered(tips) /\ rows' \in Descending(tips)
          /\ seen' = Replaced(tips)
          /\ count' = Cardinality(tips) /\ given' = given \cup tips
    BY <1>7 DEF HydrateAnswered
  <2>2. UNCHANGED <<paid, handling, wire, again>>
    BY <1>7 DEF HydrateAnswered, net, Dial
  <2>3. loads' \subseteq loads
    BY <1>7 DEF HydrateAnswered
  <2>4. tips \in Answered
    <3>1. {} \in Answered
      BY FS_EmptySet DEF Answered
    <3>2. l.tips \in Answered
      BY <1>0 DEF TipsOK
    <3> QED BY <2>1, <3>1, <3>2
  <2>5. RightList(rows', seen')
    BY <1>0, <2>1, <2>4, ListsAnswer DEF Replaced
  <2>6. Due' = Due /\ Answered' = Answered
    BY <2>2 DEF Due, Answered
  <2>7. TipsOK'
    BY <1>0, <2>0, <2>1, <2>2, <2>3, <2>5, <2>6 DEF Replaced, TipsOK
  <2>8. GivenInv'
    BY <2>0, <2>1, <2>2 DEF Remembered, ListInv, GivenInv
  <2> QED BY <2>7, <2>8 DEF ListInv
<1>8. CASE Hydrate \/ PollTick
  <2>1. PICK what \in {"hydrate", "poll"} : Request(what)
    BY <1>8 DEF Hydrate, PollTick
  <2>2. PICK tips \in Listings : loads' = loads \cup {[what |-> what, tips |-> tips]}
    BY <2>1 DEF Request
  <2>3. tips \in Answered
    BY <1>0, <2>2, ListingsDue
  <2> QED BY <1>0, <1>3, <2>1, <2>2, <2>3 DEF Request, server, TipsOK
<1>9. ASSUME NEW s \in Sockets, HungUp(s) PROVE ListInv'
  <2>1. wire' \in [Sockets -> SUBSET Due]
    BY <1>0, <1>9 DEF HungUp, Hangup, TipsOK
  <2> QED BY <1>3, <1>9, <2>1 DEF HungUp
<1>10. CASE GoOffline \/ Destroy
  <2>1. wire' \in [Sockets -> SUBSET Due]
    BY <1>0, <1>10 DEF GoOffline, Destroy, CloseCurrent, TipsOK
  <2> QED BY <1>3, <1>10, <2>1 DEF GoOffline, Destroy
<1>11. CASE ReconnectFires \/ GoOnline
  <2>1. wire' = wire
    BY <1>11 DEF ReconnectFires, GoOnline, Dial, net
  <2> QED BY <1>4, <1>11, <2>1 DEF ReconnectFires, GoOnline
<1>12. CASE \/ \E s \in Sockets : Accept(s) \/ ListClient(s) \/ Opens(s)
            \/ \E l \in loads : PollFails(l)
            \/ OthersChange
            \/ UNCHANGED vars
  BY <1>4, <1>12 DEF Accept, ListClient, Opens, PollFails, OthersChange, vars, server, net
<1> QED BY <1>1, <1>2, <1>5, <1>6, <1>7, <1>8, <1>9, <1>10, <1>11, <1>12 DEF Next

\* At first there are no tips.
LEMMA InitList == Init => ListInv
<1> SUFFICES ASSUME Init PROVE ListInv
  OBVIOUS
<1>1. seen = {} /\ rows = <<>> /\ Cardinality(seen) = 0
  BY FS_EmptySet DEF Init
<1>2. RightList(rows, seen)
  BY <1>1 DEF RightList, Injective, Smaller
<1> QED BY <1>1, <1>2 DEF Init, ListInv, TipsOK, GivenInv, Due

\* No tip is given to the page as new that it was given before, in a list, by a poll or
\* on another of the feed's sockets.
THEOREM EachGivenOnce == Spec => []GivenOnce
<1>1. ListInv => GivenOnce
  BY DEF ListInv, GivenInv, GivenOnce
<1> QED BY InitSockets, NextSockets, InitList, NextList, <1>1, PTL DEF Spec

\* Whatever came between a refresh and its answer, the list shows no tip twice and has as
\* many as are counted, up to maxItems; each was paid, for this item and for one of the
\* two tenants the widget may be given tips of.
THEOREM ListRight == Spec => []ListIsRight
<1>1. ListInv => ListIsRight
  <2> SUFFICES ASSUME ListInv PROVE ListIsRight
    OBVIOUS
  <2>1. RightList(rows, seen) /\ seen \subseteq Due /\ count = Cardinality(seen)
    BY DEF ListInv, TipsOK
  <2>2. \A i \in DOMAIN rows : rows[i] \in seen
    BY <2>1 DEF RightList
  <2> QED BY <2>1, <2>2 DEF RightList, Injective, ListIsRight, Due
<1> QED BY InitSockets, NextSockets, InitList, NextList, <1>1, PTL DEF Spec

\* In every reachable state the feed, its sockets and the server have their types; there
\* are no more tips in the list than tips, and no more clients than the cap.
THEOREM TypesCorrect == Spec => []TypeOK
<1>1. SocketInv /\ CapInv /\ ListInv => TypeOK
  <2> SUFFICES ASSUME SocketInv, CapInv, ListInv PROVE TypeOK
    OBVIOUS
  <2>1. others \in 0..MaxClients
    BY Counts DEF CapInv
  <2>2. count \in 0..Cardinality(Tips)
    <3>1. seen \subseteq Tips /\ IsFiniteSet(Tips)
      BY DEF ListInv, TipsOK, Due
    <3>2. IsFiniteSet(seen) /\ Cardinality(seen) <= Cardinality(Tips)
      BY <3>1, FS_Subset
    <3> QED BY <3>1, <3>2, FS_CardinalityType DEF ListInv, TipsOK
  <2>3. Due \subseteq Tips /\ Answered \subseteq SUBSET Tips
    BY DEF Due, Answered, ListInv, TipsOK
  <2>4. rows \in Seq(Tips) /\ seen \subseteq Tips
    <3>1. rows \in Seq(seen) /\ seen \subseteq Tips
      BY <2>3 DEF ListInv, TipsOK, RightList
    <3> QED BY <3>1, SeqMonotonic
  <2>5. wire \in [Sockets -> SUBSET Tips]
    BY <2>3 DEF ListInv, TipsOK
  <2>6. loads \subseteq [what : {"hydrate", "poll"}, tips : SUBSET Tips]
    BY <2>3 DEF ListInv, TipsOK
  <2>7. given \subseteq Tips /\ handling \subseteq paid /\ paid \subseteq Tips
    BY DEF ListInv, TipsOK, GivenInv
  <2>8. /\ seenIds \subseteq Tips /\ again \subseteq given
    BY DEF ListInv, GivenInv
  <2>9. /\ SocketsOK
        /\ {realtime, matching, connected, online, timer, polling, destroyed, started}
             \subseteq BOOLEAN
    BY DEF SocketInv, SocketsOK
  <2> QED BY <2>1, <2>2, <2>4, <2>5, <2>6, <2>7, <2>8, <2>9 DEF SocketsOK, TypeOK
<1> QED BY InitSockets, NextSockets, InitCap, NextCap, InitList, NextList, <1>1, PTL DEF Spec

-----------------------------------------------------------------------------
(* Both lists.  MCFeeds explores one at a time, from some of its initial     *)
(* states; each list behaves as its own specification says, so that what is  *)
(* proved of it holds here.  Page and Pages are two instances of one module: *)
(* their definitions are the same.                                           *)

\* A page of replies is the same by either name.
LEMMA SamePages ==
  ASSUME NEW R, NEW c
  PROVE  Page!Page(R, c) = Pages!Page(R, c)
BY
   DEF Page!Page, Pages!Page, Page!Until, Pages!Until, Page!Before, Pages!Before,
       Page!Newest, Pages!Newest, Page!Latest, Pages!Latest, Page!Cardinality,
       Pages!Cardinality, Page!FindReplyCycles, Pages!FindReplyCycles, Page!Answering,
       Pages!Answering, Page!Visit, Pages!Visit, Page!WalkFrom, Pages!WalkFrom, Page!Hop,
       Pages!Hop, Page!AtStart, Pages!AtStart, Page!LoopAt, Pages!LoopAt, Page!Range,
       Pages!Range, Page!Max, Pages!Max

\* So are the replies of the relays.
LEMMA SameRelays ==
  ASSUME NEW R
  PROVE  Page!FromRelays(R) = Pages!FromRelays(R)
BY
   DEF Page!FromRelays, Pages!FromRelays, Page!Shown, Pages!Shown, Page!Newest,
       Pages!Newest, Page!Cardinality, Pages!Cardinality

\* So are the steps of a load.
LEMMA SameAnswers ==
  ASSUME NEW l, Page!Answers(l)
  PROVE  Pages!Answers(l)
<1>1. /\ Page!StoredNote(l) => Pages!StoredNote(l)
      /\ Page!NotStored(l) => Pages!NotStored(l)
      /\ Page!Drop(l) => Pages!Drop(l)
      /\ Page!ApiNote(l) => Pages!ApiNote(l)
      /\ Page!ApiFails(l) => Pages!ApiFails(l)
      /\ Page!NoNote(l) => Pages!NoNote(l)
      /\ Page!RepliesFail(l) => Pages!RepliesFail(l)
  BY
     DEF Page!StoredNote, Pages!StoredNote, Page!NotStored, Pages!NotStored, Page!Drop,
         Pages!Drop, Page!ApiNote, Pages!ApiNote, Page!ApiFails, Pages!ApiFails,
         Page!NoNote, Pages!NoNote, Page!RepliesFail, Pages!RepliesFail, Page!Go, Pages!Go,
         Page!Cancelled, Pages!Cancelled, Page!AskNetwork, Pages!AskNetwork, Page!Loading,
         Pages!Loading, Page!Broken, Pages!Broken, Page!Shown, Pages!Shown, Page!thread,
         Pages!thread
<1>2. ASSUME NEW R
      PROVE  /\ Page!RelayNote(l, R) => Pages!RelayNote(l, R)
             /\ Page!FirstPage(l, R) => Pages!FirstPage(l, R)
  BY SamePages, SameRelays
     DEF Page!RelayNote, Pages!RelayNote, Page!FirstPage, Pages!FirstPage, Page!Go,
         Pages!Go, Page!Cancelled, Pages!Cancelled, Page!FromApi, Pages!FromApi,
         Page!Shown, Pages!Shown, Page!thread, Pages!thread
<1>3. CASE \E R \in SUBSET Relays : Page!RelayNote(l, R) \/ Page!FirstPage(l, R)
  <2>1. PICK R \in SUBSET Relays : Page!RelayNote(l, R) \/ Page!FirstPage(l, R)
    BY <1>3
  <2> QED BY <1>2, <2>1 DEF Pages!Answers
<1>4. CASE ~\E R \in SUBSET Relays : Page!RelayNote(l, R) \/ Page!FirstPage(l, R)
  BY <1>1, <1>4 DEF Page!Answers, Pages!Answers
<1> QED BY <1>3, <1>4

\* So is every step of the page.
LEMMA SameNext ==
  ASSUME Page!Next
  PROVE  Pages!Next
<1>1. /\ \A r : Page!Publish(r) => Pages!Publish(r)
      /\ Page!Load => Pages!Load
      /\ Page!LoadMore => Pages!LoadMore
      /\ \A c : Page!MoreFails(c) => Pages!MoreFails(c)
  BY
     DEF Page!Publish, Pages!Publish, Page!Load, Pages!Load, Page!LoadMore, Pages!LoadMore,
         Page!MoreFails, Pages!MoreFails, Page!Go, Pages!Go, Page!Loading, Pages!Loading,
         Page!Shown, Pages!Shown, Page!thread, Pages!thread
<1>2. \A c, R : Page!MoreReplies(c, R) => Pages!MoreReplies(c, R)
  BY SamePages
     DEF Page!MoreReplies, Pages!MoreReplies, Page!FromApi, Pages!FromApi, Page!Shown,
         Pages!Shown, Page!thread, Pages!thread
<1>3. ASSUME NEW r \in Replies, Page!Publish(r) PROVE Pages!Next
  <2>1. Pages!Publish(r)
    BY <1>1, <1>3
  <2> QED BY <2>1 DEF Pages!Next
<1>4. CASE Page!Load \/ Page!LoadMore
  <2>1. Pages!Load \/ Pages!LoadMore
    BY <1>1, <1>4
  <2> QED BY <2>1 DEF Pages!Next
<1>5. ASSUME NEW l \in Page!Loads, Page!Answers(l) PROVE Pages!Next
  <2>1. Pages!Answers(l) /\ l \in Pages!Loads
    BY <1>5, SameAnswers DEF Page!Loads, Pages!Loads
  <2> QED BY <2>1 DEF Pages!Next
<1>6. ASSUME NEW c \in more, Page!MoreFails(c) PROVE Pages!Next
  <2>1. Pages!MoreFails(c)
    BY <1>1, <1>6
  <2> QED BY <2>1 DEF Pages!Next
<1>7. ASSUME NEW c \in more, NEW R \in SUBSET Relays, Page!MoreReplies(c, R) PROVE Pages!Next
  <2>1. Pages!MoreReplies(c, R)
    BY <1>2, <1>7
  <2> QED BY <2>1 DEF Pages!Next
<1> QED BY <1>3, <1>4, <1>5, <1>6, <1>7 DEF Page!Next

\* What the constants are assumed to be.
LEMMA PagesConstants == Pages!EventConstants
BY RepliesAssumption DEF Page!EventConstants, Pages!EventConstants, Page!IsFiniteSet, Pages!IsFiniteSet

\* The tips behave as TipsFeed says, the replies as EventReplies.
LEMMA EachBehaves == PartsSpec => Spec /\ Pages!Spec
<1>1. PartsInit => Init /\ Pages!Init
  BY DEF PartsInit, Page!SmallInit, Page!Init, Pages!Init, Page!Shown, Pages!Shown, Page!Loads,
         Pages!Loads
<1>2. [PartsNext]_<<part, vars, replyVars>> => [Next]_vars
  BY DEF PartsNext
<1>3. [PartsNext]_<<part, vars, replyVars>> => [Pages!Next]_Pages!vars
  <2>1. UNCHANGED replyVars => UNCHANGED Pages!vars
    BY DEF replyVars, Pages!vars, Pages!thread
  <2> QED BY <2>1, SameNext DEF PartsNext
<1> QED BY <1>1, <1>2, <1>3, PTL DEF PartsSpec, Spec, Pages!Spec

\* In every reachable state the variables of both lists have their types.
THEOREM FeedsTyped == PartsSpec => []TypesOK
<1>1. TypeOK /\ Pages!TypeOK => TypesOK
  BY DEF TypesOK, Page!TypeOK, Pages!TypeOK, Page!Loads, Pages!Loads
<1>2. Pages!Spec => []Pages!TypeOK
  BY PagesConstants, Pages!TypesCorrect
<1> QED BY EachBehaves, TypesCorrect, <1>1, <1>2, PTL

\* findReplyCycles drops replies that answer each other in a circle and no other, and all
\* of these when the hops suffice.
THEOREM LoopsFound == PartsSpec => []LoopsAreFound
<1>1. Pages!LoopsAreFound => LoopsAreFound
  <2>1. \A S : Page!FindReplyCycles(S) = Pages!FindReplyCycles(S)
    BY
       DEF Page!FindReplyCycles, Pages!FindReplyCycles, Page!Answering, Pages!Answering,
           Page!Visit, Pages!Visit, Page!WalkFrom, Pages!WalkFrom, Page!Hop, Pages!Hop,
           Page!AtStart, Pages!AtStart, Page!LoopAt, Pages!LoopAt, Page!Range, Pages!Range,
           Page!Max, Pages!Max
  <2>2. \A S : Page!InLoops(S) = Pages!InLoops(S) /\ Page!Cardinality(S) = Pages!Cardinality(S)
    BY
       DEF Page!InLoops, Pages!InLoops, Page!Answering, Pages!Answering, Page!Cardinality,
           Pages!Cardinality
  <2> QED BY <2>1, <2>2 DEF LoopsAreFound, Page!LoopsAreFound, Pages!LoopsAreFound
<1>2. Pages!Spec => []Pages!LoopsAreFound
  BY PagesConstants, Pages!CirclesFound
<1> QED BY EachBehaves, <1>1, <1>2, PTL

\* No reply is missing between two that the page shows, as pages are loaded one after
\* another while the thread grows, unless a relay was silent or a reload crossed a request.
THEOREM GapFree == PartsSpec => []NoGap
<1>1. Pages!NoGap => NoGap
  BY DEF NoGap, Page!NoGap, Pages!NoGap, Page!Plain, Pages!Plain, Page!Settled, Pages!Settled,
         Page!Thread, Pages!Thread, Page!InLoops, Pages!InLoops, Page!Answering, Pages!Answering,
         Page!Before, Pages!Before
<1>2. Pages!Spec => []Pages!NoGap
  BY PagesConstants, Pages!PagesFit
<1> QED BY EachBehaves, <1>1, <1>2, PTL

=============================================================================
