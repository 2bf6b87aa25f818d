------------------------- MODULE FeedRecorderProofs -------------------------
(***************************************************************************)
(* Proofs about FeedRecorder, for every number of feeds, trips, alerts and *)
(* timestamps, every interval, every content of the feeds and every choice *)
(* of faults: in particular for any number of gaps that overlap.           *)
(***************************************************************************)
EXTENDS FeedRecorder, TLAPS, WellFoundedInduction

\* A set of numbers has a least one.
LEMMA LeastOf ==
  ASSUME NEW S \in SUBSET Nat, S # {}
  PROVE  \E m \in S : \A x \in S : m <= x
  <1> DEFINE less == {p \in Nat \X Nat : p[1] < p[2]}
  <1>1. PICK m \in S : \A x \in S : ~ (<<x, m>> \in less)
    <2>1. less = OpToRel(<, Nat)
      BY DEF OpToRel
    <2>2. IsWellFoundedOn(less, Nat)
      BY <2>1, NatLessThanWellFounded
    <2> HIDE DEF less
    <2> QED BY <2>2, WFMin
  <1>2. ASSUME NEW x \in S PROVE m <= x
    <2>1. x \in Nat /\ m \in Nat
      OBVIOUS
    <2>2. ~ (x < m)
      BY <1>1, <2>1
    <2> QED BY <2>1, <2>2
  <1> QED BY <1>2

USE RecorderAssumption DEF RecorderAssumption

-----------------------------------------------------------------------------
(* Type correctness.                                                       *)

LEMMA NoStatsType == NoStats \in [at : Nat, error : BOOLEAN]
  BY DEF NoStats

LEMMA TypeInit == Init => TypeOK
  <1> SUFFICES ASSUME Init PROVE TypeOK
    OBVIOUS
  <1>1. \A f \in Feeds : LoopOK(f)
    BY DEF Init, LoopOK, NoStats
  <1>2. /\ stats \in [Feeds -> [at : Nat, error : BOOLEAN]]
        /\ content \in [Feeds -> [Times -> SUBSET Entities]]
        /\ rows \in [Items -> [arrival : Nat, departure : Nat, version : Versions]
                               \cup {Nil}]
    BY NoStatsType DEF Init
  <1>3. /\ stored \in [Feeds -> SUBSET [item : Items, at : Nat, version : Versions]]
        /\ gaps \in [Feeds -> SUBSET (Nat \X Nat)]
        /\ unlogged \in [Feeds -> SUBSET (Nat \X Nat)]
        /\ published \in [Feeds -> SUBSET Nat]
        /\ seen \in [Feeds -> SUBSET Nat]
        /\ pc \in [Feeds -> States]
    BY DEF Init, States
  <1>4. /\ todo \subseteq Entities
        /\ batch \subseteq [entity : Entities, version : Versions]
        /\ crashes \in 0..MaxCrashes
        /\ {catalog, cache} \subseteq Versions
    BY DEF Init
  <1> QED BY <1>1, <1>2, <1>3, <1>4 DEF Init, TypeOK

LEMMA PublishType ==
  ASSUME TypeOK, NEW f \in Feeds, NEW t \in Stamps[f], NEW feed \in Contents[f],
         Publish(f, t, feed)
  PROVE  TypeOK'
  <1>1. t \in Times /\ t \in Nat /\ feed \subseteq Entities
    BY DEF Times
  <1>2. /\ content' \in [Feeds -> [Times -> SUBSET Entities]]
        /\ upstream' \in [Feeds -> Nat]
        /\ published' \in [Feeds -> SUBSET Nat]
    BY <1>1 DEF TypeOK, Publish
  <1>3. \A g \in Feeds : LoopOK(g)'
    BY <1>1 DEF TypeOK, Publish, LoopOK, memory, tables
  <1> QED BY <1>2, <1>3 DEF TypeOK, Publish, memory, tables

LEMMA ServeAgainType ==
  ASSUME TypeOK, NEW f \in Feeds, NEW t \in Stamps[f], ServeAgain(f, t)
  PROVE  TypeOK'
  <1>1. /\ upstream' \in [Feeds -> Nat]
        /\ wentBack' \subseteq Feeds
    BY DEF TypeOK, ServeAgain
  <1>2. \A g \in Feeds : LoopOK(g)'
    BY DEF TypeOK, ServeAgain, LoopOK, memory, tables
  <1> QED BY <1>1, <1>2 DEF TypeOK, ServeAgain, memory, tables

LEMMA OtherType ==
  ASSUME TypeOK, NewCatalog \/ Start \/ Crash \/ ReloadTrips \/ ReloadFails
  PROVE  TypeOK'
  <1>1. CASE NewCatalog
    <2>1. \A g \in Feeds : LoopOK(g)'
      BY <1>1 DEF TypeOK, NewCatalog, LoopOK, world, memory, tables
    <2> QED BY <1>1, <2>1 DEF TypeOK, NewCatalog, world, memory, tables
  <1>2. CASE Start
    <2>1. \A g \in Feeds : LoopOK(g)'
      BY <1>2 DEF TypeOK, Start, LoopOK, world, memory, tables
    <2>2. cache' \in Versions
      BY <1>2 DEF TypeOK, Start
    <2> QED BY <1>2, <2>1, <2>2 DEF TypeOK, Start, world, memory, tables
  <1>3. CASE Crash
    <2>1. \A g \in Feeds : LoopOK(g)'
      BY <1>3 DEF TypeOK, Crash, LoopOK, world, tables, NoStats
    <2>2. /\ stats' \in [Feeds -> [at : Nat, error : BOOLEAN]]
          /\ pc' \in [Feeds -> States]
          /\ held' \in [Feeds -> Nat]
          /\ crashes' \in 0..MaxCrashes
      BY <1>3, NoStatsType DEF TypeOK, Crash, States
    <2>3. todo' \subseteq Entities /\ cache' \in Versions
          /\ batch' \subseteq [entity : Entities, version : Versions]
      BY <1>3 DEF Crash
    <2> QED BY <1>3, <2>1, <2>2, <2>3 DEF TypeOK, Crash, world, tables
  <1>4. CASE ReloadTrips
    <2>1. \A g \in Feeds : LoopOK(g)'
      BY <1>4 DEF TypeOK, ReloadTrips, LoopOK, world, memory, tables
    <2> QED BY <1>4, <2>1 DEF TypeOK, ReloadTrips, world, memory, tables
  <1>5. CASE ReloadFails
    <2>1. \A g \in Feeds : LoopOK(g)'
      BY <1>5 DEF TypeOK, ReloadFails, LoopOK, world, memory, tables
    <2> QED BY <1>5, <2>1 DEF TypeOK, ReloadFails, world, memory, tables
  <1> QED BY <1>1, <1>2, <1>3, <1>4, <1>5

LEMMA AbortType ==
  ASSUME TypeOK, NEW f \in Feeds, Abort(f)
  PROVE  /\ stats' \in [Feeds -> [at : Nat, error : BOOLEAN]]
         /\ held' \in [Feeds -> Nat]
         /\ pc' \in [Feeds -> States]
         /\ pc'[f] = "idle"
         /\ \A g \in Feeds : stats'[g].at = stats[g].at
         /\ \A g \in Feeds \ {f} : pc'[g] = pc[g] /\ held'[g] = held[g]
  <1>1. /\ stats[f] \in [at : Nat, error : BOOLEAN]
        /\ stats' = [stats EXCEPT ![f] = [stats[f] EXCEPT !.error = TRUE]]
    BY DEF TypeOK, Abort
  <1>2. /\ [stats[f] EXCEPT !.error = TRUE] \in [at : Nat, error : BOOLEAN]
        /\ [stats[f] EXCEPT !.error = TRUE].at = stats[f].at
    BY <1>1
  <1>3. /\ stats' \in [Feeds -> [at : Nat, error : BOOLEAN]]
        /\ \A g \in Feeds : stats'[g].at = stats[g].at
    BY <1>1, <1>2 DEF TypeOK
  <1> QED BY <1>3 DEF TypeOK, Abort, States

LEMMA SucceedType ==
  ASSUME TypeOK, NEW f \in Feeds, Succeed(f)
  PROVE  /\ stats' \in [Feeds -> [at : Nat, error : BOOLEAN]]
         /\ pc' \in [Feeds -> States]
         /\ pc'[f] = "gap"
         /\ batch' \subseteq batch
         /\ stats'[f].at = held[f]
         /\ \A g \in Feeds \ {f} : pc'[g] = pc[g] /\ stats'[g] = stats[g]
  BY DEF TypeOK, Succeed, States

LEMMA FetchType ==
  ASSUME TypeOK, NEW f \in Feeds, Fetch(f)
  PROVE  TypeOK'
  <1>1. \A g \in Feeds : LoopOK(g)'
    BY DEF TypeOK, Fetch, LoopOK, world, tables
  <1>2. pc' \in [Feeds -> States] /\ held' \in [Feeds -> Nat] /\ shown' \in Nat
    BY DEF TypeOK, Fetch, States
  <1> QED BY <1>1, <1>2 DEF TypeOK, Fetch, world, tables

LEMMA FetchFailsType ==
  ASSUME TypeOK, NEW f \in Feeds, FetchFails(f)
  PROVE  TypeOK'
  <1>1. Abort(f)
    BY DEF FetchFails
  <1>2. \A g \in Feeds : LoopOK(g)'
    BY <1>1, AbortType DEF TypeOK, FetchFails, LoopOK, world, tables
  <1> QED BY <1>1, <1>2, AbortType DEF TypeOK, FetchFails, world, tables

LEMMA NoticesFailType ==
  ASSUME TypeOK, NEW f \in Feeds, NoticesFail(f)
  PROVE  TypeOK'
  <1>1. Abort(f)
    BY DEF NoticesFail
  <1>2. \A g \in Feeds : LoopOK(g)'
    BY <1>1, AbortType DEF TypeOK, NoticesFail, LoopOK, world, tables
  <1> QED BY <1>1, <1>2, AbortType DEF TypeOK, NoticesFail, world, tables

LEMMA StoreNoticesType ==
  ASSUME TypeOK, NEW f \in Feeds, StoreNotices(f)
  PROVE  TypeOK'
  <1>1. \A g \in Feeds : LoopOK(g)'
    BY DEF TypeOK, StoreNotices, LoopOK, world, States
  <1>2. held[f] \in Nat /\ held[f] \in Times
    BY DEF TypeOK, StoreNotices, LoopOK, Times
  <1>3. content[f][held[f]] \subseteq Entities
    BY <1>2 DEF TypeOK
  <1>4. Notices(content[f][held[f]]) \subseteq Items
    BY <1>3 DEF Notices, Entities
  <1>5. \A i \in Items : Context(i) \in Versions
    BY DEF Context, TypeOK
  <1>6. Inserted(f) \subseteq [item : Items, at : Nat, version : Versions]
    BY <1>2, <1>4, <1>5 DEF Inserted
  <1>7. stored' \in [Feeds -> SUBSET [item : Items, at : Nat, version : Versions]]
    BY <1>6 DEF TypeOK, StoreNotices
  <1>8. todo' \subseteq Entities
    BY <1>3 DEF TypeOK, StoreNotices, Delays
  <1>9. pc' \in [Feeds -> States]
    BY DEF TypeOK, StoreNotices, States
  <1> QED BY <1>1, <1>7, <1>8, <1>9 DEF TypeOK, StoreNotices, world

LEMMA LookupType ==
  ASSUME TypeOK, NEW e \in todo, Lookup(e)
  PROVE  TypeOK'
  <1>1. \A g \in Feeds : LoopOK(g)'
    BY DEF TypeOK, Lookup, LoopOK, world, tables
  <1>2. [entity |-> e, version |-> cache] \in [entity : Entities, version : Versions]
    BY DEF TypeOK
  <1>3. batch' \subseteq [entity : Entities, version : Versions]
    BY <1>2 DEF TypeOK, Lookup
  <1>4. todo' \subseteq Entities
    BY DEF TypeOK, Lookup
  <1> QED BY <1>1, <1>3, <1>4 DEF TypeOK, Lookup, world, tables

\* Of the updates queued for a row one was queued under the oldest catalog.
LEMMA FirstOf ==
  ASSUME NEW of \in SUBSET [entity : Entities, version : Versions], of # {}
  PROVE  \E b \in of : FirstVersion(of) = b.version
  <1> DEFINE S == {b.version : b \in of}
  <1>1. \A b \in of : b.version \in Nat
    <2> SUFFICES ASSUME NEW b \in of PROVE b.version \in Nat
      OBVIOUS
    <2>1. b \in [entity : Entities, version : Versions]
      OBVIOUS
    <2>2. b.version \in Versions
      BY <2>1
    <2> QED BY <2>2
  <1>2. S \in SUBSET Nat /\ S # {}
    BY <1>1
  <1>3. \E m \in S : \A x \in S : m <= x
    <2> HIDE DEF S
    <2> QED BY <1>2, LeastOf
  <1>4. FirstVersion(of) \in S
    BY <1>3 DEF FirstVersion
  <1> QED BY <1>4

LEMMA CoalescedType ==
  ASSUME NEW old \in [arrival : Nat, departure : Nat, version : Versions] \cup {Nil},
         NEW of \in SUBSET [entity : Entities, version : Versions], of # {},
         NEW t \in Nat
  PROVE  Coalesced(old, of, t) \in [arrival : Nat, departure : Nat, version : Versions]
  <1>1. FirstVersion(of) \in Versions
    BY FirstOf
  <1> QED BY <1>1 DEF Coalesced, Row

LEMMA StoreRowsType ==
  ASSUME TypeOK, NEW f \in Feeds, StoreRows(f)
  PROVE  TypeOK'
  <1>1. Succeed(f)
    BY DEF StoreRows
  <1>2. \A g \in Feeds : LoopOK(g)'
    BY <1>1, SucceedType DEF TypeOK, StoreRows, LoopOK, world
  <1>3. rows' \in [Items -> [arrival : Nat, departure : Nat, version : Versions]
                            \cup {Nil}]
    <2>1. CASE f # "trips"
      BY <2>1 DEF StoreRows, TypeOK
    <2>2. CASE f = "trips"
      <3> DEFINE Of(i) == {b \in batch : b.entity.item = i}
      <3>1. rows' = [i \in Items |->
                       IF Of(i) = {} THEN rows[i]
                       ELSE Coalesced(rows[i], Of(i), held[f])]
        BY <2>2 DEF StoreRows
      <3>2. ASSUME NEW i \in Items
            PROVE  rows'[i] \in [arrival : Nat, departure : Nat, version : Versions]
                                 \cup {Nil}
        <4>1. CASE Of(i) = {}
          BY <3>1, <4>1 DEF TypeOK
        <4>2. CASE Of(i) # {}
          <5>1. Of(i) \in SUBSET [entity : Entities, version : Versions]
            BY DEF TypeOK
          <5> HIDE DEF Of
          <5> QED BY <3>1, <4>2, <5>1, CoalescedType DEF TypeOK
        <4> QED BY <4>1, <4>2
      <3> HIDE DEF Of
      <3> QED BY <3>1, <3>2
    <2> QED BY <2>1, <2>2
  <1>4. batch' \subseteq [entity : Entities, version : Versions]
    BY <1>1, SucceedType DEF TypeOK
  <1> QED BY <1>1, <1>2, <1>3, <1>4, SucceedType DEF TypeOK, StoreRows, world

LEMMA RowsFailType ==
  ASSUME TypeOK, NEW f \in Feeds, RowsFail(f)
  PROVE  TypeOK'
  <1>1. Succeed(f)
    BY DEF RowsFail
  <1>2. \A g \in Feeds : LoopOK(g)'
    BY <1>1, SucceedType DEF TypeOK, RowsFail, LoopOK, world, tables
  <1>3. batch' \subseteq [entity : Entities, version : Versions]
    BY <1>1, SucceedType DEF TypeOK
  <1> QED BY <1>1, <1>2, <1>3, SucceedType DEF TypeOK, RowsFail, world, tables

LEMMA GapType ==
  ASSUME TypeOK, NEW f \in Feeds, CheckGap(f) \/ GapFails(f)
  PROVE  TypeOK'
  <1>1. \A g \in Feeds : LoopOK(g)'
    BY DEF TypeOK, CheckGap, GapFails, LoopOK, world
  <1>2. <<last[f], held[f]>> \in Nat \X Nat
    BY DEF TypeOK
  <1>3. /\ gaps' \in [Feeds -> SUBSET (Nat \X Nat)]
        /\ unlogged' \in [Feeds -> SUBSET (Nat \X Nat)]
        /\ pc' \in [Feeds -> States]
    BY <1>2 DEF TypeOK, CheckGap, GapFails, States
  <1>4. CASE CheckGap(f)
    BY <1>1, <1>3, <1>4 DEF TypeOK, CheckGap, world
  <1>5. CASE GapFails(f)
    BY <1>1, <1>3, <1>5 DEF TypeOK, GapFails, world
  <1> QED BY <1>4, <1>5

LEMMA StateType ==
  ASSUME TypeOK, NEW f \in Feeds, SaveState(f) \/ SaveFails(f)
  PROVE  TypeOK'
  <1>1. \A g \in Feeds : LoopOK(g)'
    BY DEF TypeOK, SaveState, SaveFails, LoopOK, world, tables
  <1>2. /\ pc' \in [Feeds -> States]
        /\ held' \in [Feeds -> Nat]
        /\ last' \in [Feeds -> Nat]
        /\ seen' \in [Feeds -> SUBSET Nat]
    BY DEF TypeOK, SaveState, SaveFails, States, tables
  <1>3. CASE SaveState(f)
    BY <1>1, <1>2, <1>3 DEF TypeOK, SaveState, world
  <1>4. CASE SaveFails(f)
    BY <1>1, <1>2, <1>4 DEF TypeOK, SaveFails, world, tables
  <1> QED BY <1>3, <1>4

LEMMA TypeStep == TypeOK /\ [Next]_vars => TypeOK'
  <1> SUFFICES ASSUME TypeOK, [Next]_vars PROVE TypeOK'
    OBVIOUS
  <1>1. CASE UNCHANGED vars
    BY <1>1 DEF TypeOK, LoopOK, vars, world, memory, tables
  <1>2. CASE Environment
    BY <1>2, PublishType, ServeAgainType, OtherType DEF Environment
  <1>3. CASE Start \/ Crash \/ ReloadTrips \/ ReloadFails
    BY <1>3, OtherType
  <1>4. ASSUME NEW f \in Feeds, Poll(f) PROVE TypeOK'
    BY <1>4, FetchType, StoreNoticesType, StoreRowsType, GapType, StateType,
       LookupType DEF Poll
  <1>5. ASSUME NEW f \in Feeds, Fails(f) PROVE TypeOK'
    BY <1>5, FetchFailsType, NoticesFailType, RowsFailType, GapType, StateType
       DEF Fails
  <1> QED BY <1>1, <1>2, <1>3, <1>4, <1>5 DEF Next

\* The tables and the memory of the recorder hold what they are declared to
\* hold, and what a loop, the statistics and feed_state have seen are
\* timestamps that were published.
THEOREM TypeCorrect == Spec => []TypeOK
  BY TypeInit, TypeStep, PTL DEF Spec

-----------------------------------------------------------------------------
(* What is recorded is stored.                                             *)

AllStored(f, t) == \A i \in Notices(content[f][t]) : IsStored(f, i, t)

\* A poll that is past its notices has stored them.
PastNotices ==
  \A f \in Feeds : pc[f] \in {"rows", "gap", "state"} => AllStored(f, held[f])

\* Every step keeps what is stored, and what a feed said.
LEMMA KeepsStored ==
  ASSUME TypeOK, [Next]_vars, NEW f \in Feeds, NEW t \in published[f], AllStored(f, t)
  PROVE  AllStored(f, t)'
  <1>1. stored[f] \subseteq stored'[f] /\ content'[f][t] = content[f][t]
    <2>1. CASE UNCHANGED vars
      BY <2>1 DEF vars, world, tables
    <2>2. ASSUME NEW g \in Feeds, NEW s \in Stamps[g], NEW feed \in Contents[g],
                 Publish(g, s, feed)
          PROVE  stored[f] \subseteq stored'[f] /\ content'[f][t] = content[f][t]
      <3>1. g = f => s # t
        BY <2>2 DEF Publish, TypeOK
      <3>2. s \in Times /\ t \in Times
        BY DEF Times, TypeOK, LoopOK
      <3> QED BY <2>2, <3>1, <3>2 DEF Publish, TypeOK, tables
    <2>3. ASSUME NEW g \in Feeds, NEW s \in Stamps[g], ServeAgain(g, s)
          PROVE  stored[f] \subseteq stored'[f] /\ content'[f][t] = content[f][t]
      BY <2>3 DEF ServeAgain, tables
    <2>4. CASE NewCatalog \/ Start \/ Crash \/ ReloadTrips \/ ReloadFails
      BY <2>4 DEF NewCatalog, Start, Crash, ReloadTrips, ReloadFails, world, tables
    <2>5. ASSUME NEW g \in Feeds, Poll(g)
          PROVE  stored[f] \subseteq stored'[f] /\ content'[f][t] = content[f][t]
      BY <2>5 DEF TypeOK, Poll, Fetch, StoreNotices, StoreRows, CheckGap, SaveState, Lookup,
                  world, tables
    <2>6. ASSUME NEW g \in Feeds, Fails(g)
          PROVE  stored[f] \subseteq stored'[f] /\ content'[f][t] = content[f][t]
      BY <2>6 DEF Fails, FetchFails, NoticesFail, RowsFail, GapFails, SaveFails,
                  world, tables
    <2> QED BY <2>1, <2>2, <2>3, <2>4, <2>5, <2>6 DEF Next, Environment
  <1> QED BY <1>1 DEF AllStored, IsStored

\* A poll stores all the notices of the feed it holds.
LEMMA StoresAll ==
  ASSUME TypeOK, NEW f \in Feeds, StoreNotices(f)
  PROVE  AllStored(f, held[f])'
  <1>1. UNCHANGED <<content, held, cache>> /\ stored'[f] = stored[f] \cup Inserted(f)
    BY DEF StoreNotices, TypeOK, world
  <1>2. ASSUME NEW i \in Notices(content[f][held[f]])
        PROVE  \E n \in stored[f] \cup Inserted(f) : n.item = i /\ n.at = held[f]
    <2>1. CASE \E n \in stored[f] : n.item = i /\ n.at = held[f]
      BY <2>1
    <2>2. CASE \A n \in stored[f] : ~(n.item = i /\ n.at = held[f])
      <3>1. [item |-> i, at |-> held[f],
             version |-> IF f = "trips" THEN Context(i) ELSE 0] \in Inserted(f)
        BY <2>2 DEF Inserted
      <3> QED BY <3>1
    <2> QED BY <2>1, <2>2
  <1> QED BY <1>1, <1>2 DEF AllStored, IsStored

NoticesInv == TypeOK /\ PastNotices /\ NoticesBeforeState

\* What feed_state and the statistics gain is what a loop past its notices holds.
LEMMA NewlyRecorded ==
  ASSUME TypeOK, [Next]_vars, NEW f \in Feeds,
         NEW t \in seen'[f] \cup ({stats'[f].at} \ {0})
  PROVE  \/ t \in seen[f] \cup ({stats[f].at} \ {0})
         \/ t = held[f] /\ pc[f] \in {"rows", "gap", "state"}
  <1>1. CASE UNCHANGED vars
    BY <1>1 DEF vars, memory, tables
  <1>2. CASE Environment
    BY <1>2 DEF Environment, Publish, ServeAgain, NewCatalog, memory, tables
  <1>3. CASE Start \/ ReloadTrips \/ ReloadFails
    BY <1>3 DEF Start, ReloadTrips, ReloadFails, memory, tables
  <1>4. CASE Crash
    BY <1>4 DEF Crash, NoStats, tables
  <1>5. ASSUME NEW g \in Feeds, Poll(g)
        PROVE  \/ t \in seen[f] \cup ({stats[f].at} \ {0})
               \/ t = held[f] /\ pc[f] \in {"rows", "gap", "state"}
    <2>1. CASE StoreRows(g)
      BY <2>1, SucceedType DEF StoreRows
    <2>2. CASE SaveState(g)
      BY <2>2 DEF SaveState, TypeOK
    <2>3. CASE Fetch(g) \/ StoreNotices(g) \/ CheckGap(g) \/ \E e \in todo : Lookup(e)
      BY <2>3 DEF Fetch, StoreNotices, CheckGap, Lookup, tables
    <2> QED BY <1>5, <2>1, <2>2, <2>3 DEF Poll
  <1>6. ASSUME NEW g \in Feeds, Fails(g)
        PROVE  \/ t \in seen[f] \cup ({stats[f].at} \ {0})
               \/ t = held[f] /\ pc[f] \in {"rows", "gap", "state"}
    <2>1. CASE FetchFails(g) \/ NoticesFail(g)
      BY <2>1, AbortType DEF FetchFails, NoticesFail, tables
    <2>2. CASE RowsFail(g)
      BY <2>2, SucceedType DEF RowsFail, tables
    <2>3. CASE GapFails(g) \/ SaveFails(g)
      BY <2>3 DEF GapFails, SaveFails, tables
    <2> QED BY <1>6, <2>1, <2>2, <2>3 DEF Fails
  <1> QED BY <1>1, <1>2, <1>3, <1>4, <1>5, <1>6 DEF Next

\* A loop comes past its notices by storing them, and holds on to its feed.
LEMMA NewlyPast ==
  ASSUME TypeOK, [Next]_vars, NEW f \in Feeds, pc'[f] \in {"rows", "gap", "state"}
  PROVE  \/ StoreNotices(f)
         \/ pc[f] \in {"rows", "gap", "state"} /\ held'[f] = held[f]
  <1>1. CASE UNCHANGED vars
    BY <1>1 DEF vars, memory
  <1>2. CASE Environment
    BY <1>2 DEF Environment, Publish, ServeAgain, NewCatalog, memory
  <1>3. CASE Start \/ ReloadTrips \/ ReloadFails
    BY <1>3 DEF Start, ReloadTrips, ReloadFails, memory
  <1>4. CASE Crash
    BY <1>4 DEF Crash
  <1>5. ASSUME NEW g \in Feeds, Poll(g)
        PROVE  \/ StoreNotices(f)
               \/ pc[f] \in {"rows", "gap", "state"} /\ held'[f] = held[f]
    <2>1. CASE Fetch(g)
      BY <2>1 DEF Fetch, TypeOK
    <2>2. CASE StoreNotices(g)
      BY <2>2 DEF StoreNotices, TypeOK
    <2>3. CASE StoreRows(g)
      BY <2>3, SucceedType DEF StoreRows
    <2>4. CASE CheckGap(g)
      BY <2>4 DEF CheckGap, TypeOK
    <2>5. CASE SaveState(g)
      BY <2>5 DEF SaveState, TypeOK
    <2>6. CASE \E e \in todo : Lookup(e)
      BY <2>6 DEF Lookup
    <2> QED BY <1>5, <2>1, <2>2, <2>3, <2>4, <2>5, <2>6 DEF Poll
  <1>6. ASSUME NEW g \in Feeds, Fails(g)
        PROVE  pc[f] \in {"rows", "gap", "state"} /\ held'[f] = held[f]
    <2>1. CASE FetchFails(g) \/ NoticesFail(g)
      BY <2>1, AbortType DEF FetchFails, NoticesFail
    <2>2. CASE RowsFail(g)
      BY <2>2, SucceedType DEF RowsFail
    <2>3. CASE GapFails(g)
      BY <2>3 DEF GapFails, TypeOK
    <2>4. CASE SaveFails(g)
      BY <2>4 DEF SaveFails, TypeOK
    <2> QED BY <1>6, <2>1, <2>2, <2>3, <2>4 DEF Fails
  <1> QED BY <1>1, <1>2, <1>3, <1>4, <1>5, <1>6 DEF Next

LEMMA NoticesStep == NoticesInv /\ [Next]_vars => NoticesInv'
  <1> SUFFICES ASSUME NoticesInv, [Next]_vars PROVE NoticesInv'
    OBVIOUS
  <1>1. TypeOK /\ TypeOK'
    BY TypeStep DEF NoticesInv
  <1>2. PastNotices'
    <2> SUFFICES ASSUME NEW f \in Feeds, pc'[f] \in {"rows", "gap", "state"}
                 PROVE  AllStored(f, held[f])'
      BY DEF PastNotices
    <2>1. CASE StoreNotices(f)
      BY <1>1, <2>1, StoresAll
    <2>2. CASE pc[f] \in {"rows", "gap", "state"} /\ held'[f] = held[f]
      <3>1. AllStored(f, held[f]) /\ held[f] \in published[f]
        BY <1>1, <2>2 DEF NoticesInv, PastNotices, TypeOK, LoopOK
      <3>2. \A t \in published[f] : AllStored(f, t) => AllStored(f, t)'
        BY <1>1, KeepsStored
      <3> QED BY <2>2, <3>1, <3>2, SMTT(20) DEF AllStored, IsStored
    <2> QED BY <1>1, <2>1, <2>2, NewlyPast
  <1>3. NoticesBeforeState'
    <2> SUFFICES ASSUME NEW f \in Feeds,
                        NEW t \in seen'[f] \cup ({stats'[f].at} \ {0})
                 PROVE  AllStored(f, t)'
      BY DEF NoticesBeforeState, AllStored
    <2>1. AllStored(f, t) /\ t \in published[f]
      BY <1>1, NewlyRecorded
      DEF NoticesInv, NoticesBeforeState, PastNotices, AllStored, TypeOK, LoopOK
    <2> QED BY <1>1, <2>1, KeepsStored
  <1> QED BY <1>1, <1>2, <1>3 DEF NoticesInv

\* A feed that feed_state or the statistics call recorded has all its
\* cancellations or alerts in the table.
THEOREM NoticesFirst == Spec => []NoticesBeforeState
  <1>1. Init => NoticesInv
    BY TypeInit DEF Init, NoticesInv, PastNotices, NoticesBeforeState, NoStats
  <1>2. NoticesInv => NoticesBeforeState
    BY DEF NoticesInv
  <1> QED BY <1>1, <1>2, NoticesStep, PTL DEF Spec

-----------------------------------------------------------------------------
(* The gaps are the holes.                                                 *)

\* A poll that comes to save its timestamp has recorded the gap before it.
GapBeforeState(f) ==
  pc[f] = "state" =>
    \/ last[f] = 0
    \/ held[f] - last[f] <= GapThreshold * Interval
    \/ <<last[f], held[f]>> \in gaps[f] \cup unlogged[f]

\* No timestamp and no end of a gap is after t.
NothingAfter(f, t) ==
  /\ \A s \in seen[f] : s <= t
  /\ \A g \in gaps[f] : g[2] <= t

\* Unless the feed went back, it only goes forward.
Forward(f) ==
  f \notin wentBack =>
    /\ \A s \in seen[f] : s <= last[f]
    /\ NothingAfter(f, upstream[f])
    /\ pc[f] # "idle" => held[f] <= upstream[f] /\ NothingAfter(f, held[f])

GapInv ==
  /\ TypeOK
  /\ \A f \in Feeds : GapBeforeState(f) /\ Forward(f)
  /\ GapsAreTheHoles

\* A step that neither looks for a gap nor saves the state of f.
Elsewhere(f) ==
  /\ last'[f] = last[f] /\ seen'[f] = seen[f]
  /\ gaps'[f] = gaps[f] /\ unlogged'[f] = unlogged[f]
  /\ pc'[f] = "state" => pc[f] = "state"
  /\ pc'[f] # "idle" => \/ pc[f] # "idle" /\ held'[f] = held[f]
                        \/ pc'[f] # "state" /\ held'[f] = upstream'[f]
  /\ f \notin wentBack' => f \notin wentBack /\ upstream[f] <= upstream'[f]

LEMMA StepIsElsewhere ==
  ASSUME TypeOK, [Next]_vars, NEW f \in Feeds
  PROVE  CheckGap(f) \/ GapFails(f) \/ SaveState(f) \/ Elsewhere(f)
  <1>0. upstream[f] \in Nat
    BY DEF TypeOK
  <1>1. CASE UNCHANGED vars
    BY <1>0, <1>1 DEF Elsewhere, vars, world, memory, tables
  <1>2. ASSUME NEW g \in Feeds, NEW t \in Stamps[g], NEW feed \in Contents[g],
               Publish(g, t, feed)
        PROVE  Elsewhere(f)
    <2>1. upstream[f] <= upstream'[f]
      BY <1>0, <1>2 DEF Publish, TypeOK, LoopOK
    <2> QED BY <1>2, <2>1 DEF Elsewhere, Publish, memory, tables
  <1>3. ASSUME NEW g \in Feeds, NEW t \in Stamps[g], ServeAgain(g, t)
        PROVE  Elsewhere(f)
    <2>1. f \notin wentBack' => f \notin wentBack /\ upstream[f] <= upstream'[f]
      BY <1>0, <1>3 DEF ServeAgain, TypeOK
    <2> QED BY <1>3, <2>1 DEF Elsewhere, ServeAgain, memory, tables
  <1>4. CASE NewCatalog \/ Start \/ ReloadTrips \/ ReloadFails
    BY <1>0, <1>4 DEF Elsewhere, NewCatalog, Start, ReloadTrips, ReloadFails,
                      world, memory, tables
  <1>5. CASE Crash
    BY <1>0, <1>5 DEF Elsewhere, Crash, world, tables
  <1>6. ASSUME NEW g \in Feeds, Poll(g)
        PROVE  CheckGap(f) \/ SaveState(f) \/ Elsewhere(f)
    <2>1. CASE Fetch(g)
      BY <1>0, <2>1 DEF Elsewhere, Fetch, TypeOK, world, tables
    <2>2. CASE StoreNotices(g)
      BY <1>0, <2>2 DEF Elsewhere, StoreNotices, TypeOK, world
    <2>3. CASE StoreRows(g)
      BY <1>0, <2>3, SucceedType DEF Elsewhere, StoreRows, world
    <2>4. CASE CheckGap(g) /\ g # f
      BY <1>0, <2>4 DEF Elsewhere, CheckGap, TypeOK, world
    <2>5. CASE SaveState(g) /\ g # f
      BY <1>0, <2>5 DEF Elsewhere, SaveState, TypeOK, world
    <2>6. CASE \E e \in todo : Lookup(e)
      BY <1>0, <2>6 DEF Elsewhere, Lookup, world, tables
    <2> QED BY <1>6, <2>1, <2>2, <2>3, <2>4, <2>5, <2>6 DEF Poll
  <1>7. ASSUME NEW g \in Feeds, Fails(g)
        PROVE  GapFails(f) \/ Elsewhere(f)
    <2>1. CASE FetchFails(g) \/ NoticesFail(g)
      BY <1>0, <2>1, AbortType DEF Elsewhere, FetchFails, NoticesFail, world, tables
    <2>2. CASE RowsFail(g)
      BY <1>0, <2>2, SucceedType DEF Elsewhere, RowsFail, world, tables
    <2>3. CASE GapFails(g) /\ g # f
      BY <1>0, <2>3 DEF Elsewhere, GapFails, TypeOK, world
    <2>4. CASE SaveFails(g)
      BY <1>0, <2>4 DEF Elsewhere, SaveFails, TypeOK, world, tables
    <2> QED BY <1>7, <2>1, <2>2, <2>3, <2>4 DEF Fails
  <1> QED BY <1>1, <1>2, <1>3, <1>4, <1>5, <1>6, <1>7 DEF Next, Environment

LEMMA ElsewhereKeeps ==
  ASSUME GapInv, TypeOK', NEW f \in Feeds, Elsewhere(f)
  PROVE  (GapBeforeState(f) /\ Forward(f) /\ HoleIsRecorded(f) /\ GapIsHole(f))'
  <1>1. /\ upstream[f] \in Nat /\ upstream'[f] \in Nat
        /\ held[f] \in Nat /\ last[f] \in Nat
        /\ seen[f] \in SUBSET Nat /\ gaps[f] \in SUBSET (Nat \X Nat)
    BY DEF GapInv, TypeOK
  <1>2. GapBeforeState(f) /\ Forward(f) /\ HoleIsRecorded(f) /\ GapIsHole(f)
    BY DEF GapInv, GapsAreTheHoles
  <1>3. GapBeforeState(f)'
    BY <1>2 DEF GapBeforeState, Elsewhere
  <1>4. Forward(f)'
    BY <1>1, <1>2 DEF Forward, NothingAfter, Elsewhere
  <1>5. HoleIsRecorded(f)'
    BY <1>2 DEF HoleIsRecorded, Elsewhere
  <1>6. GapIsHole(f)'
    BY <1>2 DEF GapIsHole, Elsewhere
  <1> QED BY <1>3, <1>4, <1>5, <1>6

LEMMA CheckKeeps ==
  ASSUME GapInv, TypeOK', NEW f \in Feeds, CheckGap(f) \/ GapFails(f)
  PROVE  (GapBeforeState(f) /\ Forward(f) /\ HoleIsRecorded(f) /\ GapIsHole(f))'
  <1>1. /\ upstream[f] \in Nat /\ held[f] \in Nat /\ last[f] \in Nat
        /\ seen[f] \in SUBSET Nat /\ gaps[f] \in SUBSET (Nat \X Nat)
        /\ pc[f] # "idle" /\ pc'[f] = "state"
        /\ upstream'[f] = upstream[f] /\ held'[f] = held[f] /\ last'[f] = last[f]
        /\ seen'[f] = seen[f] /\ wentBack' = wentBack
    BY DEF GapInv, TypeOK, CheckGap, GapFails, world
  <1>2. Forward(f) /\ HoleIsRecorded(f) /\ GapIsHole(f)
    BY DEF GapInv, GapsAreTheHoles
  <1>3. \/ /\ IsGap(f)
           /\ gaps'[f] = gaps[f] \cup {<<last[f], held[f]>>}
           /\ unlogged'[f] = unlogged[f]
        \/ /\ IsGap(f)
           /\ gaps'[f] = gaps[f]
           /\ unlogged'[f] = unlogged[f] \cup {<<last[f], held[f]>>}
        \/ /\ ~IsGap(f)
           /\ gaps'[f] = gaps[f]
           /\ unlogged'[f] = unlogged[f]
    BY DEF CheckGap, GapFails, GapInv, TypeOK
  <1>4. GapBeforeState(f)'
    BY <1>1, <1>3 DEF GapBeforeState, IsGap, GapThreshold
  <1>5. Forward(f)'
    BY <1>1, <1>2, <1>3 DEF Forward, NothingAfter
  <1>6. HoleIsRecorded(f)'
    BY <1>1, <1>2, <1>3 DEF HoleIsRecorded
  <1>7. GapIsHole(f)'
    BY <1>1, <1>2, <1>3 DEF GapIsHole, Forward
  <1> QED BY <1>4, <1>5, <1>6, <1>7

LEMMA SaveKeeps ==
  ASSUME GapInv, TypeOK', NEW f \in Feeds, SaveState(f)
  PROVE  (GapBeforeState(f) /\ Forward(f) /\ HoleIsRecorded(f) /\ GapIsHole(f))'
  <1>1. /\ upstream[f] \in Nat /\ held[f] \in Nat /\ last[f] \in Nat
        /\ seen[f] \in SUBSET Nat /\ gaps[f] \in SUBSET (Nat \X Nat)
        /\ pc[f] = "state" /\ pc'[f] = "idle"
        /\ upstream'[f] = upstream[f] /\ last'[f] = held[f]
        /\ seen'[f] = seen[f] \cup {held[f]} /\ wentBack' = wentBack
        /\ gaps'[f] = gaps[f] /\ unlogged'[f] = unlogged[f]
    BY DEF GapInv, TypeOK, SaveState, world
  <1>2. Forward(f) /\ HoleIsRecorded(f) /\ GapIsHole(f) /\ GapBeforeState(f)
    BY DEF GapInv, GapsAreTheHoles
  <1>3. GapBeforeState(f)'
    BY <1>1 DEF GapBeforeState
  <1>4. Forward(f)'
    BY <1>1, <1>2 DEF Forward, NothingAfter
  <1>5. HoleIsRecorded(f)'
    <2> SUFFICES ASSUME NEW x \in Stamps[f], NEW y \in Stamps[f],
                        y - x > GapThreshold * Interval, y <= last'[f],
                        NEW s \in seen'[f], s <= x,
                        \A r \in seen'[f] : ~(x < r /\ r < y)
                 PROVE  \E g \in gaps'[f] \cup unlogged'[f] : g[1] <= x /\ y <= g[2]
      BY DEF HoleIsRecorded
    <2>1. x \in Nat /\ y \in Nat /\ s \in seen[f] /\ y <= held[f]
      BY <1>1 DEF GapThreshold
    <2>2. CASE y <= last[f]
      BY <1>1, <1>2, <2>1, <2>2 DEF HoleIsRecorded
    <2>3. CASE last[f] < y
      <3>1. last[f] \in seen[f] /\ last[f] # 0
        <4>1. last[f] \in seen[f]
          BY <2>1 DEF GapInv, TypeOK, LoopOK
        <4>2. seen[f] \subseteq Stamps[f]
          BY DEF GapInv, TypeOK, LoopOK
        <4> QED BY <4>1, <4>2
      <3>2. last[f] <= x
        BY <1>1, <2>1, <2>3, <3>1
      <3>3. <<last[f], held[f]>> \in gaps[f] \cup unlogged[f]
        BY <1>1, <1>2, <2>1, <3>1, <3>2 DEF GapBeforeState, GapThreshold
      <3> QED BY <1>1, <2>1, <3>2, <3>3
    <2> QED BY <1>1, <2>1, <2>2, <2>3
  <1>6. GapIsHole(f)'
    BY <1>1, <1>2 DEF GapIsHole, Forward, NothingAfter
  <1> QED BY <1>3, <1>4, <1>5, <1>6

LEMMA GapStep == GapInv /\ [Next]_vars => GapInv'
  <1> SUFFICES ASSUME GapInv, [Next]_vars PROVE GapInv'
    OBVIOUS
  <1>1. TypeOK /\ TypeOK'
    BY TypeStep DEF GapInv
  <1>2. ASSUME NEW f \in Feeds
        PROVE  (GapBeforeState(f) /\ Forward(f) /\ HoleIsRecorded(f) /\ GapIsHole(f))'
    BY <1>1, StepIsElsewhere, ElsewhereKeeps, CheckKeeps, SaveKeeps
  <1> QED BY <1>1, <1>2 DEF GapInv, GapsAreTheHoles

LEMMA GapInit == Init => GapInv
  <1> SUFFICES ASSUME Init PROVE GapInv
    OBVIOUS
  <1>1. \A f \in Feeds : GapBeforeState(f) /\ Forward(f)
    BY DEF Init, GapBeforeState, Forward, NothingAfter
  <1>2. GapsAreTheHoles
    BY DEF Init, GapsAreTheHoles, HoleIsRecorded, GapIsHole
  <1> QED BY <1>1, <1>2, TypeInit DEF GapInv

\* feed_gap is exactly the holes between the timestamps of feed_state, over
\* restarts, failures and, for the first half, a feed that goes back in time.
THEOREM GapsComplete == Spec => []GapsAreTheHoles
  <1>1. GapInv => GapsAreTheHoles
    BY DEF GapInv
  <1> QED BY <1>1, GapInit, GapStep, PTL DEF Spec

-----------------------------------------------------------------------------
(* The rows of delays.                                                     *)

\* What the poll of the trips has to look up and to write is of the feed it
\* holds, and what it has looked up a catalog knew.
LookedUp ==
  IF pc["trips"] = "rows"
  THEN LET feed == Delays(content["trips"][held["trips"]]) IN
       /\ todo \subseteq feed
       /\ \A b \in batch :
            /\ b.entity \in feed
            /\ b.entity.item \in Catalog[b.version]
            /\ b.version <= catalog
  ELSE todo = {} /\ batch = {}

\* The delays of a row are from feeds that were published, whose contents
\* therefore no longer change.
RowsArePublished ==
  \A i \in Items : rows[i] # Nil =>
    {rows[i].arrival, rows[i].departure} \subseteq published["trips"] \cup {0}

RowsInv ==
  TypeOK /\ cache <= catalog /\ LookedUp /\ RowsArePublished /\ RowsHaveContext

\* What a feed that was published says, it goes on saying; catalogs only grow.
LEMMA KeepsContent ==
  ASSUME TypeOK, [Next]_vars
  PROVE  /\ catalog <= catalog'
         /\ published["trips"] \subseteq published'["trips"]
         /\ \A t \in published["trips"] : content'["trips"][t] = content["trips"][t]
  <1> DEFINE Kept ==
        /\ catalog <= catalog'
        /\ published["trips"] \subseteq published'["trips"]
        /\ \A t \in published["trips"] : content'["trips"][t] = content["trips"][t]
  <1>0. catalog \in Nat
    BY DEF TypeOK
  <1>1. CASE UNCHANGED vars
    BY <1>0, <1>1 DEF vars, world
  <1>2. ASSUME NEW g \in Feeds, NEW s \in Stamps[g], NEW feed \in Contents[g],
               Publish(g, s, feed)
        PROVE  Kept
    <2>1. published["trips"] \subseteq published'["trips"]
      BY <1>2 DEF Publish, TypeOK
    <2>2. ASSUME NEW t \in published["trips"]
          PROVE  content'["trips"][t] = content["trips"][t]
      <3>1. g = "trips" => s # t
        BY <1>2 DEF Publish, TypeOK
      <3>2. s \in Times /\ t \in Times
        BY DEF Times, TypeOK, LoopOK
      <3> QED BY <1>2, <3>1, <3>2 DEF Publish, TypeOK
    <2> QED BY <1>0, <1>2, <2>1, <2>2 DEF Publish
  <1>3. ASSUME NEW g \in Feeds, NEW s \in Stamps[g], ServeAgain(g, s) PROVE Kept
    BY <1>0, <1>3 DEF ServeAgain
  <1>4. CASE NewCatalog
    BY <1>0, <1>4 DEF NewCatalog, world
  <1>5. CASE Start \/ Crash \/ ReloadTrips \/ ReloadFails
    BY <1>0, <1>5 DEF Start, Crash, ReloadTrips, ReloadFails, world
  <1>6. ASSUME NEW g \in Feeds, Poll(g) PROVE Kept
    BY <1>0, <1>6 DEF Poll, Fetch, StoreNotices, StoreRows, CheckGap, SaveState, Lookup, world
  <1>7. ASSUME NEW g \in Feeds, Fails(g) PROVE Kept
    BY <1>0, <1>7 DEF Fails, FetchFails, NoticesFail, RowsFail, GapFails, SaveFails, world
  <1> QED BY <1>1, <1>2, <1>3, <1>4, <1>5, <1>6, <1>7 DEF Next, Environment

\* The cache never has a catalog that is not there yet.
LEMMA CacheStep ==
  ASSUME TypeOK, cache <= catalog, [Next]_vars
  PROVE  cache' <= catalog'
  <1>0. catalog \in Nat /\ cache \in Nat
    BY DEF TypeOK
  <1>1. CASE UNCHANGED vars
    BY <1>1 DEF vars
  <1>2. CASE Environment
    BY <1>0, <1>2 DEF Environment, Publish, ServeAgain, NewCatalog
  <1>3. CASE Start \/ Crash \/ ReloadTrips \/ ReloadFails
    BY <1>0, <1>3 DEF Start, Crash, ReloadTrips, ReloadFails
  <1>4. ASSUME NEW g \in Feeds, Poll(g) PROVE cache' <= catalog'
    BY <1>4 DEF Poll, Fetch, StoreNotices, StoreRows, CheckGap, SaveState, Lookup
  <1>5. ASSUME NEW g \in Feeds, Fails(g) PROVE cache' <= catalog'
    BY <1>5 DEF Fails, FetchFails, NoticesFail, RowsFail, GapFails, SaveFails
  <1> QED BY <1>1, <1>2, <1>3, <1>4, <1>5 DEF Next

\* The delays to look up and to write change when the notices are stored, a
\* delay is looked up, or there are none left.
LEMMA StepOfBatch ==
  ASSUME TypeOK, LookedUp, [Next]_vars
  PROVE  \/ StoreNotices("trips")
         \/ \E e \in todo : Lookup(e)
         \/ pc'["trips"] # "rows" /\ todo' = {} /\ batch' = {}
         \/ /\ pc'["trips"] = pc["trips"] /\ todo' = todo /\ batch' = batch
            /\ pc["trips"] = "rows" => held'["trips"] = held["trips"]
  <1> DEFINE Kept ==
        /\ pc'["trips"] = pc["trips"] /\ todo' = todo /\ batch' = batch
        /\ pc["trips"] = "rows" => held'["trips"] = held["trips"]
      Gone == pc'["trips"] # "rows" /\ todo' = {} /\ batch' = {}
      Goal == StoreNotices("trips") \/ (\E e \in todo : Lookup(e)) \/ Gone \/ Kept
  <1>1. CASE UNCHANGED vars
    BY <1>1 DEF vars, memory
  <1>2. CASE Environment
    BY <1>2 DEF Environment, Publish, ServeAgain, NewCatalog, memory
  <1>3. CASE Start \/ ReloadTrips \/ ReloadFails
    BY <1>3 DEF Start, ReloadTrips, ReloadFails, memory
  <1>4. CASE Crash
    BY <1>4 DEF Crash
  <1>5. ASSUME NEW g \in Feeds, Poll(g) PROVE Goal
    <2>1. CASE Fetch(g)
      BY <2>1 DEF Fetch, TypeOK, LookedUp
    <2>2. CASE StoreNotices(g)
      BY <2>2 DEF StoreNotices, TypeOK
    <2>3. CASE StoreRows(g)
      BY <2>3, SucceedType DEF StoreRows, Succeed
    <2>4. CASE CheckGap(g)
      BY <2>4 DEF CheckGap, TypeOK, LookedUp
    <2>5. CASE SaveState(g)
      BY <2>5 DEF SaveState, TypeOK, LookedUp
    <2> QED BY <1>5, <2>1, <2>2, <2>3, <2>4, <2>5 DEF Poll
  <1>6. ASSUME NEW g \in Feeds, Fails(g) PROVE Goal
    <2>1. CASE FetchFails(g) \/ NoticesFail(g)
      BY <2>1, AbortType DEF FetchFails, NoticesFail, LookedUp
    <2>2. CASE RowsFail(g)
      BY <2>2, SucceedType DEF RowsFail, Succeed
    <2>3. CASE GapFails(g)
      BY <2>3 DEF GapFails, TypeOK, LookedUp
    <2>4. CASE SaveFails(g)
      BY <2>4 DEF SaveFails, TypeOK, LookedUp
    <2> QED BY <1>6, <2>1, <2>2, <2>3, <2>4 DEF Fails
  <1> QED BY <1>1, <1>2, <1>3, <1>4, <1>5, <1>6 DEF Next

LEMMA LookedUpStep ==
  ASSUME TypeOK, TypeOK', cache <= catalog, LookedUp, [Next]_vars
  PROVE  LookedUp'
  <1>0. /\ catalog \in Nat /\ catalog' \in Nat /\ catalog <= catalog'
        /\ batch \subseteq [entity : Entities, version : Versions]
    BY KeepsContent DEF TypeOK
  <1>1. CASE StoreNotices("trips")
    <2>1. batch' = {} /\ pc'["trips"] = "rows"
      BY <1>1 DEF StoreNotices, LookedUp, TypeOK
    <2>2. todo' = Delays(content["trips"][held["trips"]])'
      BY <1>1 DEF StoreNotices, world
    <2> QED BY <2>1, <2>2 DEF LookedUp
  <1>2. ASSUME NEW e \in todo, Lookup(e) PROVE LookedUp'
    <2>1. /\ pc' = pc /\ pc["trips"] = "rows" /\ UNCHANGED <<held, content, catalog>>
          /\ todo' \subseteq todo
          /\ batch' \subseteq batch \cup {[entity |-> e, version |-> cache]}
          /\ e.item \notin Catalog[cache] => batch' = batch
      BY <1>2 DEF Lookup, world
    <2> DEFINE feed == Delays(content["trips"][held["trips"]])
    <2>2. feed' = feed /\ e \in feed /\ todo' \subseteq feed
      BY <2>1 DEF LookedUp
    <2>3. ASSUME NEW b \in batch'
          PROVE  /\ b.entity \in feed
                 /\ b.entity.item \in Catalog[b.version]
                 /\ b.version <= catalog
      <3>1. CASE b \in batch
        BY <2>1, <3>1 DEF LookedUp
      <3>2. CASE b \notin batch
        <4>1. b = [entity |-> e, version |-> cache] /\ e.item \in Catalog[cache]
          BY <2>1, <3>2
        <4> QED BY <2>2, <4>1
      <3> QED BY <3>1, <3>2
    <2> HIDE DEF feed
    <2>4. LookedUp' = (todo' \subseteq feed' /\ \A b \in batch' :
             b.entity \in feed' /\ b.entity.item \in Catalog[b.version] /\ b.version <= catalog')
      BY <2>1 DEF LookedUp, feed
    <2> QED BY <2>1, <2>2, <2>3, <2>4
  <1>3. CASE pc'["trips"] # "rows" /\ todo' = {} /\ batch' = {}
    BY <1>3 DEF LookedUp
  <1>4. CASE /\ pc'["trips"] = pc["trips"] /\ todo' = todo /\ batch' = batch
             /\ pc["trips"] = "rows" => held'["trips"] = held["trips"]
    <2>1. CASE pc["trips"] = "rows"
      <3>1. held["trips"] \in published["trips"] /\ held'["trips"] = held["trips"]
        BY <1>4, <2>1 DEF TypeOK, LoopOK
      <3>2. content'["trips"][held'["trips"]] = content["trips"][held["trips"]]
        BY <3>1, KeepsContent
      <3>3. \A b \in batch : b.version \in Nat
        BY <1>0
      <3> QED BY <1>0, <1>4, <2>1, <3>2, <3>3 DEF LookedUp
    <2>2. CASE pc["trips"] # "rows"
      BY <1>4, <2>2 DEF LookedUp
    <2> QED BY <2>1, <2>2
  <1> QED BY <1>1, <1>2, <1>3, <1>4, StepOfBatch

\* Rows are only written by the poll of the trips.
LEMMA StepOfRows ==
  ASSUME TypeOK, [Next]_vars
  PROVE  StoreRows("trips") \/ rows' = rows
  <1>1. CASE UNCHANGED vars
    BY <1>1 DEF vars, tables
  <1>2. CASE Environment \/ Start \/ Crash \/ ReloadTrips \/ ReloadFails
    BY <1>2 DEF Environment, Publish, ServeAgain, NewCatalog, Start, Crash, ReloadTrips,
                ReloadFails, tables
  <1>3. ASSUME NEW g \in Feeds, Poll(g) PROVE StoreRows("trips") \/ rows' = rows
    BY <1>3 DEF Poll, Fetch, StoreNotices, StoreRows, CheckGap, SaveState, Lookup, tables
  <1>4. ASSUME NEW g \in Feeds, Fails(g) PROVE rows' = rows
    BY <1>4 DEF Fails, FetchFails, NoticesFail, RowsFail, GapFails, SaveFails, tables
  <1> QED BY <1>1, <1>2, <1>3, <1>4 DEF Next

\* A row is left alone, or takes the updates that the batch has of it.
LEMMA RowWritten ==
  ASSUME TypeOK, StoreRows("trips"), NEW i \in Items
  PROVE  \/ rows'[i] = rows[i]
         \/ \E of \in SUBSET batch :
              /\ of # {}
              /\ \A b \in of : b.entity.item = i
              /\ rows'[i] = Coalesced(rows[i], of, held["trips"])
  <1> DEFINE of == {b \in batch : b.entity.item = i}
  <1>1. rows'[i] = IF of = {} THEN rows[i]
                   ELSE Coalesced(rows[i], of, held["trips"])
    BY DEF StoreRows
  <1> QED BY <1>1

\* What a write makes of a row: the context of the old row or of one of the
\* updates, each delay the old one or that of the feed.
LEMMA CoalescedRow ==
  ASSUME NEW old \in [arrival : Nat, departure : Nat, version : Versions] \cup {Nil},
         NEW of \in SUBSET [entity : Entities, version : Versions], of # {},
         NEW t \in Nat
  PROVE  /\ Coalesced(old, of, t) # Nil
         /\ \E b \in of : Coalesced(old, of, t).version =
                           IF old = Nil THEN b.version ELSE old.version
         /\ Coalesced(old, of, t).arrival =
              IF Any(of, "arrival") THEN t ELSE IF old = Nil THEN 0 ELSE old.arrival
         /\ Coalesced(old, of, t).departure =
              IF Any(of, "departure") THEN t ELSE IF old = Nil THEN 0 ELSE old.departure
  <1>1. Coalesced(old, of, t) # Nil
    <2> DEFINE AnyRow == [arrival : Nat, departure : Nat, version : Versions]
    <2>1. Coalesced(old, of, t) \in AnyRow
      BY CoalescedType
    <2>2. Nil \notin AnyRow
      BY NilAssumption
    <2> HIDE DEF AnyRow
    <2> QED BY <2>1, <2>2
  <1>2. PICK b \in of : FirstVersion(of) = b.version
    BY FirstOf
  <1> QED BY <1>1, <1>2 DEF Coalesced, Row

LEMMA RowsStep == RowsInv /\ [Next]_vars => RowsInv'
  <1> SUFFICES ASSUME RowsInv, [Next]_vars PROVE RowsInv'
    OBVIOUS
  <1>1. /\ TypeOK /\ TypeOK' /\ LookedUp /\ RowsArePublished /\ RowsHaveContext
        /\ cache <= catalog
    BY TypeStep DEF RowsInv
  <1>2. cache' <= catalog' /\ LookedUp'
    BY <1>1, CacheStep, LookedUpStep
  <1>3. /\ catalog \in Nat /\ catalog' \in Nat /\ catalog <= catalog'
        /\ published["trips"] \subseteq published'["trips"]
        /\ published["trips"] \subseteq Nat \ {0}
        /\ \A t \in published["trips"] : content'["trips"][t] = content["trips"][t]
    BY <1>1, KeepsContent DEF TypeOK, LoopOK
  <1>4. ASSUME NEW i \in Items, NEW t \in published["trips"]
        PROVE  /\ Updates(i, t)' = Updates(i, t)
               /\ \A d : Says(i, t, d) => Says(i, t, d)'
    BY <1>3, <1>4 DEF Says, Updates
  <1> DEFINE Good(i) ==
        /\ i \in Catalog[rows[i].version]
        /\ rows[i].version <= catalog
        /\ \E t \in published["trips"] : Updates(i, t) # {}
        /\ {rows[i].arrival, rows[i].departure} \subseteq published["trips"] \cup {0}
        /\ rows[i].arrival # 0 => Says(i, rows[i].arrival, "arrival")
        /\ rows[i].departure # 0 => Says(i, rows[i].departure, "departure")
  <1>5. \A i \in Items : rows[i] # Nil => Good(i)
    BY <1>1 DEF RowsArePublished, RowsHaveContext
  <1>6. ASSUME NEW i \in Items, rows'[i] # Nil PROVE Good(i)'
    <2>1. CASE rows'[i] = rows[i]
      <3>1. rows[i].version \in Nat
        BY <1>1, <1>6, <2>1 DEF TypeOK
      <3> QED BY <1>3, <1>4, <1>5, <1>6, <2>1, <3>1
    <2>2. CASE rows'[i] # rows[i]
      <3>1. StoreRows("trips")
        BY <1>1, <2>2, StepOfRows
      <3>2. PICK of \in SUBSET batch :
              /\ of # {}
              /\ \A b \in of : b.entity.item = i
              /\ rows'[i] = Coalesced(rows[i], of, held["trips"])
        BY <1>1, <2>2, <3>1, RowWritten
      <3>3. /\ pc["trips"] = "rows" /\ catalog' = catalog /\ content' = content
            /\ published' = published
            /\ held["trips"] \in published["trips"]
        BY <1>1, <3>1 DEF StoreRows, world, TypeOK, LoopOK
      <3>4. \A b \in of : /\ b.entity \in Updates(i, held["trips"])
                         /\ i \in Catalog[b.version]
                         /\ b.version <= catalog
        BY <1>1, <3>2, <3>3 DEF LookedUp, Delays, Updates
      <3>5. /\ Any(of, "arrival") => Says(i, held["trips"], "arrival")
            /\ Any(of, "departure") => Says(i, held["trips"], "departure")
        BY <3>4 DEF Any, Says
      <3>6. /\ rows[i] \in [arrival : Nat, departure : Nat, version : Versions] \cup {Nil}
            /\ of \subseteq [entity : Entities, version : Versions]
            /\ held["trips"] \in Nat
        BY <1>1 DEF TypeOK
      <3> DEFINE row == rows'[i]
      <3>7. /\ \E b \in of : row.version = IF rows[i] = Nil THEN b.version
                                            ELSE rows[i].version
            /\ row.arrival = IF Any(of, "arrival") THEN held["trips"]
                             ELSE IF rows[i] = Nil THEN 0 ELSE rows[i].arrival
            /\ row.departure = IF Any(of, "departure") THEN held["trips"]
                               ELSE IF rows[i] = Nil THEN 0 ELSE rows[i].departure
        <4> DEFINE new == Coalesced(rows[i], of, held["trips"])
        <4>1. /\ \E b \in of : new.version = IF rows[i] = Nil THEN b.version
                                              ELSE rows[i].version
              /\ new.arrival = IF Any(of, "arrival") THEN held["trips"]
                               ELSE IF rows[i] = Nil THEN 0 ELSE rows[i].arrival
              /\ new.departure = IF Any(of, "departure") THEN held["trips"]
                                 ELSE IF rows[i] = Nil THEN 0 ELSE rows[i].departure
          <5>1. of \in SUBSET [entity : Entities, version : Versions] /\ of # {}
            BY <3>2, <3>6
          <5> QED BY ONLY <3>6, <5>1, CoalescedRow
        <4>2. row = new
          BY <3>2
        <4> HIDE DEF new, row
        <4> QED BY <4>1, <4>2
      <3>8. /\ i \in Catalog[row.version]
            /\ row.version <= catalog
            /\ \E t \in published["trips"] : Updates(i, t) # {}
        BY <1>5, <3>2, <3>3, <3>4, <3>7
      <3>9. /\ row.arrival \in published["trips"] \cup {0}
            /\ row.arrival # 0 => Says(i, row.arrival, "arrival")
        BY <1>5, <3>3, <3>5, <3>7
      <3>10. /\ row.departure \in published["trips"] \cup {0}
             /\ row.departure # 0 => Says(i, row.departure, "departure")
        BY <1>5, <3>3, <3>5, <3>7
      <3>11. \A t, d : Says(i, t, d)' = Says(i, t, d) /\ Updates(i, t)' = Updates(i, t)
        BY <3>3 DEF Says, Updates
      <3> QED BY <3>3, <3>8, <3>9, <3>10, <3>11
    <2> QED BY <2>1, <2>2
  <1>7. RowsArePublished' /\ RowsHaveContext'
    BY <1>6 DEF RowsArePublished, RowsHaveContext
  <1> QED BY <1>1, <1>2, <1>7 DEF RowsInv

LEMMA RowsInit == Init => RowsInv
  <1> SUFFICES ASSUME Init PROVE RowsInv
    OBVIOUS
  <1>1. LookedUp /\ cache <= catalog
    BY DEF Init, LookedUp
  <1>2. RowsArePublished /\ RowsHaveContext
    BY DEF Init, RowsArePublished, RowsHaveContext
  <1> QED BY <1>1, <1>2, TypeInit DEF RowsInv

\* A row of stop_delay has the context of a catalog that knew its trip, is of a
\* stop update that a feed carried, with a delay or without, and each delay in
\* it is one that a feed said, whatever is reloaded between two lookups.
THEOREM RowsInContext == Spec => []RowsHaveContext
  <1>1. RowsInv => RowsHaveContext
    BY DEF RowsInv
  <1> QED BY <1>1, RowsInit, RowsStep, PTL DEF Spec

-----------------------------------------------------------------------------
(* Delays go forward.                                                      *)

\* No delay is from after t.
NoneAfter(t) ==
  \A i \in Items : rows[i] # Nil => rows[i].arrival <= t /\ rows[i].departure <= t

\* Unless the feed went back, no delay is newer than the feed that is served
\* or that the poll of the trips holds.
DelaysForward ==
  "trips" \notin wentBack =>
    NoneAfter(upstream["trips"]) /\ (pc["trips"] # "idle" => NoneAfter(held["trips"]))

DelaysInv == GapInv /\ DelaysForward

LEMMA DelaysStep == DelaysInv /\ [Next]_vars => DelaysInv'
  <1> SUFFICES ASSUME DelaysInv, [Next]_vars PROVE DelaysInv'
    OBVIOUS
  <1>1. GapInv /\ GapInv' /\ TypeOK /\ TypeOK' /\ DelaysForward
    BY GapStep DEF DelaysInv, GapInv
  <1> SUFFICES ASSUME "trips" \notin wentBack'
               PROVE  /\ NoneAfter(upstream["trips"])'
                      /\ pc'["trips"] # "idle" => NoneAfter(held["trips"])'
    BY <1>1 DEF DelaysInv, DelaysForward
  <1>2. /\ upstream["trips"] \in Nat /\ upstream'["trips"] \in Nat
        /\ held["trips"] \in Nat /\ held'["trips"] \in Nat
        /\ rows \in [Items -> [arrival : Nat, departure : Nat, version : Versions]
                              \cup {Nil}]
        /\ batch \subseteq [entity : Entities, version : Versions]
    BY <1>1 DEF TypeOK
  <1>3. CASE StoreRows("trips")
    <2>1. /\ pc["trips"] = "rows" /\ held' = held /\ upstream' = upstream
          /\ wentBack' = wentBack
      BY <1>3 DEF StoreRows, world
    <2>2. held["trips"] <= upstream["trips"] /\ NoneAfter(held["trips"])
      BY <1>1, <2>1 DEF GapInv, Forward, DelaysForward
    <2>3. NoneAfter(held["trips"])'
      <3> SUFFICES ASSUME NEW i \in Items, rows'[i] # Nil
                   PROVE  rows'[i].arrival <= held["trips"] /\ rows'[i].departure <= held["trips"]
        BY <2>1 DEF NoneAfter
      <3>1. CASE rows'[i] = rows[i]
        BY <2>2, <3>1 DEF NoneAfter
      <3>2. ASSUME NEW of \in SUBSET batch, of # {},
                   rows'[i] = Coalesced(rows[i], of, held["trips"])
            PROVE  rows'[i].arrival <= held["trips"] /\ rows'[i].departure <= held["trips"]
        <4>1. /\ rows'[i].arrival = IF Any(of, "arrival") THEN held["trips"]
                                   ELSE IF rows[i] = Nil THEN 0 ELSE rows[i].arrival
              /\ rows'[i].departure = IF Any(of, "departure") THEN held["trips"]
                                     ELSE IF rows[i] = Nil THEN 0 ELSE rows[i].departure
          BY <1>2, <3>2, CoalescedRow, SMTT(20)
        <4>2. rows[i] # Nil => rows[i].arrival <= held["trips"] /\ rows[i].departure <= held["trips"]
          BY <2>2 DEF NoneAfter
        <4> QED BY <1>2, <4>1, <4>2
      <3> QED BY <1>1, <1>3, <3>1, <3>2, RowWritten
    <2>4. NoneAfter(upstream["trips"])'
      BY <1>1, <1>2, <2>1, <2>2, <2>3 DEF NoneAfter, TypeOK
    <2> QED BY <2>3, <2>4
  <1>4. CASE rows' = rows
    <2>1. /\ "trips" \notin wentBack /\ upstream["trips"] <= upstream'["trips"]
          /\ pc'["trips"] # "idle" => \/ pc["trips"] # "idle" /\ held'["trips"] = held["trips"]
                                      \/ held'["trips"] = upstream'["trips"]
      <3>1. \/ CheckGap("trips") \/ GapFails("trips") \/ SaveState("trips")
            \/ Elsewhere("trips")
        BY <1>1, StepIsElsewhere
      <3>2. CASE Elsewhere("trips")
        BY <3>2 DEF Elsewhere
      <3>3. CASE CheckGap("trips") \/ GapFails("trips")
        BY <1>2, <3>3 DEF CheckGap, GapFails, world
      <3>4. CASE SaveState("trips")
        BY <1>1, <1>2, <3>4 DEF SaveState, world, TypeOK
      <3> QED BY <3>1, <3>2, <3>3, <3>4
    <2>2. NoneAfter(upstream["trips"]) /\ (pc["trips"] # "idle" => NoneAfter(held["trips"]))
      BY <1>1, <2>1 DEF DelaysForward
    <2>3. NoneAfter(upstream["trips"])'
      BY <1>2, <1>4, <2>1, <2>2 DEF NoneAfter
    <2> QED BY <1>4, <2>1, <2>2, <2>3 DEF NoneAfter
  <1> QED BY <1>1, <1>3, <1>4, StepOfRows

\* A delay once stored is never nulled and, unless the feed goes back in time,
\* never replaced by an older one, over polls, failures and restarts.
THEOREM DelaysForwardOnly == Spec => DelaysNeverGoBack
  <1>1. Init => DelaysInv
    <2> SUFFICES ASSUME Init PROVE DelaysInv
      OBVIOUS
    <2>1. GapInv
      BY GapInit
    <2>2. DelaysForward
      BY DEF Init, DelaysForward, NoneAfter
    <2> QED BY <2>1, <2>2 DEF DelaysInv
  <1>2. DelaysInv /\ [Next]_vars =>
          [\A i \in Items : rows[i] # Nil =>
             /\ rows'[i] # Nil
             /\ rows[i].arrival # 0 => rows'[i].arrival # 0
             /\ rows[i].departure # 0 => rows'[i].departure # 0
             /\ "trips" \notin wentBack =>
                  /\ rows'[i].arrival >= rows[i].arrival
                  /\ rows'[i].departure >= rows[i].departure]_vars
    <2> SUFFICES ASSUME DelaysInv, [Next]_vars, NEW i \in Items, rows[i] # Nil
                 PROVE  /\ rows'[i] # Nil
                        /\ rows[i].arrival # 0 => rows'[i].arrival # 0
                        /\ rows[i].departure # 0 => rows'[i].departure # 0
                        /\ "trips" \notin wentBack =>
                             /\ rows'[i].arrival >= rows[i].arrival
                             /\ rows'[i].departure >= rows[i].departure
      OBVIOUS
    <2>1. TypeOK /\ DelaysForward
      BY DEF DelaysInv, GapInv
    <2>2. /\ rows[i] \in [arrival : Nat, departure : Nat, version : Versions]
          /\ held["trips"] \in Nat
          /\ batch \subseteq [entity : Entities, version : Versions]
      BY <2>1 DEF TypeOK
    <2>3. CASE rows'[i] = rows[i]
      BY <2>2, <2>3
    <2>4. CASE StoreRows("trips") /\ rows'[i] # rows[i]
      <3>1. PICK of \in SUBSET batch :
              of # {} /\ rows'[i] = Coalesced(rows[i], of, held["trips"])
        BY <2>1, <2>4, RowWritten
      <3>2. pc["trips"] = "rows" /\ held["trips"] # 0
        BY <2>1, <2>4 DEF StoreRows, TypeOK, LoopOK
      <3>3. "trips" \notin wentBack =>
              rows[i].arrival <= held["trips"] /\ rows[i].departure <= held["trips"]
        BY <2>1, <3>2 DEF DelaysForward, NoneAfter
      <3>4. /\ rows'[i] # Nil
            /\ rows'[i].arrival = IF Any(of, "arrival") THEN held["trips"] ELSE rows[i].arrival
            /\ rows'[i].departure = IF Any(of, "departure") THEN held["trips"] ELSE rows[i].departure
        BY <2>2, <3>1, CoalescedRow
      <3> QED BY <2>2, <3>2, <3>3, <3>4
    <2> QED BY <2>1, <2>3, <2>4, StepOfRows
  <1> QED BY <1>1, <1>2, DelaysStep, PTL DEF Spec, DelaysNeverGoBack

=============================================================================
