------------------------- MODULE VisitTrackerProofs -------------------------
(***************************************************************************)
(* Proofs about VisitTracker, for every fleet, network, geometry, feed and *)
(* choice of faults.                                                       *)
(***************************************************************************)
EXTENDS VisitTracker, TLAPS

USE ConstantsAssumption, NilAssumption DEF ConstantsAssumption, NilAssumption

LEMMA InitType == Init => TypeOK
  <1> SUFFICES ASSUME Init PROVE TypeOK
    OBVIOUS
  <1> USE DEF Init
  <1>1. feedTS \in Time /\ today \in Dates /\ serviceDate \in Dates \cup {Nil}
    BY DEF Time, Dates
  <1>2. batch \in Seq(Feed)
    OBVIOUS
  <1>3. sweepCounter \in 0..(SweepEvery - 1)
    OBVIOUS
  <1>4. /\ states \in [Vehicles -> State \cup {Nil}]
        /\ active \in [Keys -> [Dates -> Visit \cup {Nil}]]
        /\ entries \in [Keys -> Sighting \cup {Nil}]
        /\ exits \in [Keys -> Time \cup {Nil}]
        /\ rows \in [Keys -> Row \cup {Nil}]
    BY DEF NoEntries, NoExits
  <1> QED BY <1>1, <1>2, <1>3, <1>4 DEF TypeOK

\* What detection adds to the queues and to memory is well typed.
LEMMA TrackType ==
  ASSUME TypeOK, pc = "detect", serviceDate \in Dates, NEW p \in Feed,
         NEW at \in [Stops -> Time], NEW first \in [Keys -> Dates],
         Track(p, at, first)
  PROVE  /\ states' \in [Vehicles -> State \cup {Nil}]
         /\ active' \in [Keys -> [Dates -> Visit \cup {Nil}]]
         /\ entries' \in [Keys -> Sighting \cup {Nil}]
         /\ exits' \in [Keys -> Time \cup {Nil}]
  <1> p \in Position /\ p.veh \in Vehicles
    BY DEF Track, Position
  <1>1. states' \in [Vehicles -> State \cup {Nil}]
    BY DEF Track, TypeOK, State, Position
  <1>2. active' \in [Keys -> [Dates -> Visit \cup {Nil}]]
    <2>1. [veh |-> p.veh, last |-> feedTS, lastAt |-> p.at] \in Visit
      BY DEF Visit, TypeOK, Position
    <2>2. ASSUME NEW k \in Keys, NEW d \in Dates, At(p, Dwelling(p), k, d)
          PROVE  [active[k][d] EXCEPT !.last = feedTS, !.lastAt = p.at]
                    \in Visit
      <3>1. active[k][d] # Nil
        BY <2>2 DEF At, Dwelling, Busy, InVisit, Keys
      <3>2. active[k][d] \in Visit
        BY <3>1 DEF TypeOK
      <3> QED BY <3>2 DEF Visit, TypeOK, Position
    <2>3. ASSUME NEW k \in Keys, NEW d \in Dates
          PROVE  VisitAfter(p, k, d) \in Visit \cup {Nil}
      <3>1. active[k][d] \in Visit \cup {Nil}
        BY DEF TypeOK
      <3> QED BY <2>1, <2>2, <3>1 DEF VisitAfter
    <2> QED BY <2>3 DEF Track
  <1>3. entries' \in [Keys -> Sighting \cup {Nil}]
    BY DEF Track, TypeOK, Queue, Sighting, Keys, EntryOf
  <1>4. exits' \in [Keys -> Time \cup {Nil}]
    <2>1. ASSUME NEW k \in Keys, NEW d \in Dates, LeftBehind(p, k, d)
          PROVE  active[k][d].last \in Time
      BY <2>1 DEF LeftBehind, InVisit, TypeOK, Visit
    <2> QED BY <2>1 DEF Track, TypeOK, Queue, Keys, ExitOf
  <1> QED BY <1>1, <1>2, <1>3, <1>4

LEMMA BatchType ==
  ASSUME TypeOK, batch # <<>>
  PROVE  Head(batch) \in Feed /\ Tail(batch) \in Seq(Feed)
  BY DEF TypeOK

\* INSERT and UPDATE keep the table well typed.
LEMMA RowsType ==
  ASSUME TypeOK, NEW out \in [Keys -> Time \cup {Nil}]
  PROVE  /\ Inserted \in [Keys -> Row \cup {Nil}]
         /\ Updated(out) \in [Keys -> Row \cup {Nil}]
  BY DEF TypeOK, Inserted, Updated, Row

\* No batch removes a row; an UPDATE opens none and closes what it names.
LEMMA RowsKept ==
  ASSUME TypeOK, NEW out \in [Keys -> Time \cup {Nil}], NEW k \in Keys
  PROVE  /\ Inserted[k] # Nil <=> (rows[k] # Nil \/ entries[k] # Nil)
         /\ rows[k] # Nil => Inserted[k] = rows[k]
         /\ Updated(out)[k] # Nil <=> rows[k] # Nil
         /\ rows[k] # Nil => Updated(out)[k].seen = rows[k].seen
         /\ rows[k] # Nil /\ rows[k].exited # Nil => Updated(out)[k] = rows[k]
         /\ rows[k] # Nil /\ rows[k].exited = Nil =>
              Updated(out)[k].exited = out[k]
  <1>1. rows[k] \in Row \cup {Nil}
    BY DEF TypeOK
  <1>2. CASE rows[k] = Nil
    <2>1. entries[k] # Nil => [seen |-> entries[k], exited |-> Nil] \in Row
      BY DEF TypeOK, Row
    <2> QED BY <1>2, <2>1 DEF Inserted, Updated
  <1>3. CASE rows[k] \in Row
    <2>1. out[k] # Nil => [rows[k] EXCEPT !.exited = out[k]] \in Row
      BY <1>3 DEF Row
    <2> QED BY <1>3, <2>1 DEF Inserted, Updated, Row
  <1> QED BY <1>1, <1>2, <1>3

LEMMA SweptType ==
  ASSUME TypeOK, NEW first \in [Keys -> Dates]
  PROVE  Swept(first) \in [Keys -> Time \cup {Nil}]
  BY DEF Swept, Stale, Quiet, InVisit, TypeOK, Visit

LEMMA StepType ==
  ASSUME TypeOK, QueuesScoped, [Next]_vars
  PROVE  TypeOK' /\ QueuesScoped'
  <1> USE DEF TypeOK, QueuesScoped
  <1>1. ASSUME NEW ps \in Batches, NEW ts \in Time, Fetch(ps, ts)
        PROVE  TypeOK' /\ QueuesScoped'
    <2>1. ps \in Seq(Feed)
      BY DEF Batches
    <2> QED BY <1>1, <2>1 DEF Fetch, caches, memory, queues, db, lost,
                              OpenKeys
  <1>2. CASE CachesReady
    BY <1>2 DEF CachesReady, Continue, memory, queues, db, lost
  <1>3. CASE CachesFail
    BY <1>3 DEF CachesFail, memory, queues, db, lost
  <1>0. ASSUME NEW ok \in BOOLEAN, UpsertVehicles(ok)
        PROVE  TypeOK' /\ QueuesScoped'
    <2>1. Buses \subseteq Vehicles
      BY DEF Buses, Position
    <2> QED BY <1>0, <2>1 DEF UpsertVehicles, caches, memory, queues
  <1>4. ASSUME NEW ok \in BOOLEAN, InsertAssignments(ok)
        PROVE  TypeOK' /\ QueuesScoped'
    <2>1. Assigned \subseteq Vehicles \X Trips
      BY DEF Assigned, Position
    <2> QED BY <1>4, <2>1 DEF InsertAssignments, caches, memory, queues
  <1>5. CASE BeginDetect
    BY <1>5 DEF BeginDetect, caches, memory, queues, db, lost
  <1>6. CASE Detect
    <2>1. /\ states' \in [Vehicles -> State \cup {Nil}]
          /\ active' \in [Keys -> [Dates -> Visit \cup {Nil}]]
          /\ entries' \in [Keys -> Sighting \cup {Nil}]
          /\ exits' \in [Keys -> Time \cup {Nil}]
      <3>1. CASE Skip(Head(batch))
        BY <3>1 DEF Skip, queues
      <3>2. ASSUME NEW at \in [Stops -> Time], NEW first \in [Keys -> Dates],
                   Track(Head(batch), at, first)
            PROVE  <2>1
        BY <1>6, <3>2, BatchType, TrackType DEF Detect
      <3> QED BY <1>6, <3>1, <3>2 DEF Detect
    <2>2. batch' \in Seq(Feed)
      BY <1>6, BatchType DEF Detect
    <2> QED BY <1>6, <2>1, <2>2 DEF Detect, caches, db, lost
  <1>7. ASSUME NEW ok \in BOOLEAN, FlushEntries(ok)
        PROVE  TypeOK' /\ QueuesScoped'
    BY <1>7, RowsType DEF FlushEntries, caches, memory, NoEntries, Queued
  <1>8. ASSUME NEW ok \in BOOLEAN, FlushExits(ok)
        PROVE  TypeOK' /\ QueuesScoped'
    BY <1>8, RowsType DEF FlushExits, caches, memory, NoExits, Queued
  <1>9. ASSUME NEW ok \in BOOLEAN, NEW first \in [Keys -> Dates],
               Sweep(ok, first)
        PROVE  TypeOK' /\ QueuesScoped'
    <2>1. sweepCounter' \in 0..(SweepEvery - 1)
      BY <1>9 DEF Sweep, SweepDue
    <2>2. active' \in [Keys -> [Dates -> Visit \cup {Nil}]]
      BY <1>9 DEF Sweep
    <2>3. /\ rows' \in [Keys -> Row \cup {Nil}]
          /\ abandoned' \subseteq Keys
      <3>1. Swept(first) \in [Keys -> Time \cup {Nil}]
        BY SweptType
      <3>2. Updated(Swept(first)) \in [Keys -> Row \cup {Nil}]
        BY <3>1, RowsType
      <3>3. \/ rows' = Updated(Swept(first)) /\ UNCHANGED abandoned
            \/ /\ abandoned' = abandoned \cup Queued(Swept(first))
               /\ UNCHANGED rows
            \/ UNCHANGED <<rows, abandoned>>
        BY <1>9 DEF Sweep
      <3> QED BY <3>2, <3>3 DEF Queued
    <2> QED BY <1>9, <2>1, <2>2, <2>3 DEF Sweep, caches, queues
  <1>10. CASE Rollover
    BY <1>10 DEF Rollover, thread, caches, memory, queues, db, lost, Dates
  <1>11. CASE Restart
    <2>1. served' \subseteq RouteStops /\ QueuesScoped'
      BY <1>11 DEF Restart, NoEntries, NoExits
    <2>2. /\ states' \in [Vehicles -> State \cup {Nil}]
          /\ active' \in [Keys -> [Dates -> Visit \cup {Nil}]]
      BY <1>11 DEF Restart
    <2>3. /\ entries' \in [Keys -> Sighting \cup {Nil}]
          /\ exits' \in [Keys -> Time \cup {Nil}]
      BY <1>11 DEF Restart, NoEntries, NoExits
    <2>4. abandoned' \subseteq Keys /\ sweepCounter' \in 0..(SweepEvery - 1)
      BY <1>11 DEF Restart, OpenKeys
    <2>5. batch' \in Seq(Feed) /\ serviceDate' = Nil
      BY <1>11 DEF Restart
    <2> QED BY <1>11, <2>1, <2>2, <2>3, <2>4, <2>5 DEF Restart, db
  <1>12. CASE UNCHANGED vars
    BY <1>12 DEF vars, thread, caches, memory, queues, db, lost
  <1> QED
    BY <1>0, <1>1, <1>2, <1>3, <1>4, <1>5, <1>6, <1>7, <1>8, <1>9, <1>10,
       <1>11, <1>12 DEF Next, Poll

LEMMA FirstOfGone ==
  ASSUME NEW p, NEW first \in [Keys -> Dates],
         FirstOf(LeftBehindBy(p), first),
         NEW k \in Keys, NEW d \in Dates, LeftBehind(p, k, d)
  PROVE  LeftBehind(p, k, first[k])
  <1>1. <<k, d>> \in LeftBehindBy(p)
    BY DEF LeftBehindBy
  <1>2. <<k, first[k]>> \in LeftBehindBy(p)
    BY <1>1 DEF FirstOf
  <1> QED BY <1>2 DEF LeftBehindBy

\* Track, one key and date at a time.
LEMMA TrackAt ==
  ASSUME TypeOK, serviceDate \in Dates, NEW p \in Feed,
         NEW at \in [Stops -> Time], NEW first \in [Keys -> Dates],
         Track(p, at, first),
         NEW k \in Keys
  PROVE  /\ \A d \in Dates : active'[k][d] = VisitAfter(p, k, d)
         /\ entries'[k] = Queue(entries, k, EntryOf(p, at, k))
         /\ exits'[k] = Queue(exits, k, ExitOf(p, at, first, k))
         /\ FirstOf(LeftBehindBy(p), first)
         /\ EventTimes(p, at)
  BY DEF Track

\* Where an event happens: at a stop of the trip, on the date of the poll.
LEMMA EventAt ==
  ASSUME TypeOK, NEW p \in Feed, NEW k \in Keys, NEW d \in Dates
  PROVE  /\ At(p, Entering(p), k, d) => ~InVisit(k, d)
         /\ At(p, Dwelling(p), k, d) => InVisit(k, d)
         /\ At(p, Leaving(p), k, d) => InVisit(k, d)
         /\ LeftBehind(p, k, d) => InVisit(k, d) /\ k[1] # p.trip
         /\ \A S : At(p, S, k, d) => d = serviceDate /\ k[1] = p.trip
         /\ InVisit(k, d) => active[k][d] \in Visit
         /\ k[2] \in Stops
         /\ Nil \notin Visit /\ Nil \notin Time /\ Nil \notin Sighting
  <1>1. k[2] \in Stops /\ k = <<k[1], k[2]>>
    BY DEF Keys
  <1>2. ASSUME NEW S, At(p, S, k, d)
        PROVE  k = <<p.trip, k[2]>> /\ d = serviceDate /\ k[2] \in S
    BY <1>1, <1>2 DEF At
  <1>3. At(p, Entering(p), k, d) => ~InVisit(k, d)
    BY <1>2 DEF Entering, Busy
  <1>4. At(p, Dwelling(p), k, d) => InVisit(k, d)
    BY <1>2 DEF Dwelling, Busy
  <1>5. At(p, Leaving(p), k, d) => InVisit(k, d)
    BY <1>2 DEF Leaving, Busy
  <1>6. LeftBehind(p, k, d) => InVisit(k, d) /\ k[1] # p.trip
    BY DEF LeftBehind
  <1>7. InVisit(k, d) => active[k][d] \in Visit
    BY DEF InVisit, TypeOK
  <1>8. Nil \notin Visit /\ Nil \notin Time /\ Nil \notin Sighting
    BY DEF Visit, Sighting
  <1> QED BY <1>1, <1>2, <1>3, <1>4, <1>5, <1>6, <1>7, <1>8 DEF At

\* What detection does to the visits, the queues and the rows of one key.
LEMMA TrackTracked ==
  ASSUME TypeOK, serviceDate \in Dates, Tracked, Recorded,
         NEW p \in Feed, NEW at \in [Stops -> Time],
         NEW first \in [Keys -> Dates], Track(p, at, first),
         UNCHANGED <<rows, abandoned, unrecorded>>
  PROVE  Tracked' /\ Recorded'
  <1> p \in Position /\ p.veh \in Vehicles
    BY DEF Track, Position
  <1>1. \A k \in Keys : k \in OpenKeys' <=> k \in OpenKeys
    BY DEF OpenKeys
  <1>2. ASSUME NEW k \in Keys, entries[k] # Nil
        PROVE  entries'[k] # Nil
    BY <1>2, TrackAt DEF Queue
  <1>3. ASSUME NEW k \in Keys, exits[k] # Nil
        PROVE  exits'[k] # Nil
    BY <1>3, TrackAt DEF Queue
  \* A visit that ends leaves an exit.
  <1>4. ASSUME NEW k \in Keys, NEW d \in Dates, InVisit(k, d), ~InVisit(k, d)'
        PROVE  exits'[k] # Nil
    <2>1. VisitAfter(p, k, d) = Nil
      BY <1>4, TrackAt DEF InVisit
    <2>2. exits'[k] = Queue(exits, k, ExitOf(p, at, first, k))
      BY TrackAt
    <2>3. active[k][d] \in Visit /\ Nil \notin Visit
      BY <1>4, EventAt
    <2>4. LeftBehind(p, k, d) \/ At(p, Leaving(p), k, d)
      <3>1. At(p, Dwelling(p), k, d) =>
              [active[k][d] EXCEPT !.last = feedTS, !.lastAt = p.at] # Nil
        BY <2>3 DEF Visit, TypeOK, Position
      <3>2. ~At(p, Entering(p), k, d)
        BY <1>4, EventAt
      <3> QED BY <2>1, <2>3, <3>1, <3>2 DEF VisitAfter
    <2>5. CASE At(p, Leaving(p), k, d)
      <3>1. d = serviceDate /\ at[k[2]] \in Time
        BY <2>5, EventAt
      <3> QED BY <2>2, <2>5, <3>1 DEF Queue, ExitOf
    <2>6. CASE LeftBehind(p, k, d)
      <3>1. LeftBehind(p, k, first[k])
        BY <2>6, TrackAt, FirstOfGone
      <3>2. active[k][first[k]].last \in Time
        BY <3>1, EventAt DEF Visit
      <3>3. ~At(p, Leaving(p), k, serviceDate)
        BY <2>6, EventAt
      <3> QED BY <2>2, <3>1, <3>2, <3>3 DEF Queue, ExitOf
    <2> QED BY <2>4, <2>5, <2>6
  \* A visit that begins brings an entry, and the other way round.
  <1>5. ASSUME NEW k \in Keys, NEW d \in Dates, ~InVisit(k, d), InVisit(k, d)'
        PROVE  entries'[k] # Nil
    <2>1. VisitAfter(p, k, d) # Nil /\ active[k][d] = Nil
      BY <1>5, TrackAt DEF InVisit
    <2>2. At(p, Entering(p), k, d)
      <3>1. ~At(p, Dwelling(p), k, d)
        BY <1>5, EventAt
      <3> QED BY <2>1, <3>1 DEF VisitAfter
    <2>3. At(p, Entering(p), k, serviceDate)
      BY <2>2, EventAt
    <2>4. [veh |-> p.veh, at |-> at[k[2]], date |-> serviceDate] \in Sighting
      BY EventAt DEF Sighting
    <2>5. EntryOf(p, at, k) # Nil
      BY <2>3, <2>4 DEF EntryOf, Sighting
    <2> QED BY <2>5, TrackAt DEF Queue
  <1>6. ASSUME NEW k \in Keys, entries[k] = Nil, entries'[k] # Nil
        PROVE  active'[k][serviceDate] # Nil
    <2>1. EntryOf(p, at, k) # Nil
      BY <1>6, TrackAt DEF Queue
    <2>2. At(p, Entering(p), k, serviceDate)
      BY <2>1 DEF EntryOf
    <2>3. [veh |-> p.veh, last |-> feedTS, lastAt |-> p.at] # Nil
      BY DEF Visit, TypeOK, Position
    <2>4. /\ ~LeftBehind(p, k, serviceDate)
          /\ ~At(p, Leaving(p), k, serviceDate)
      BY <2>2, EventAt
    <2>5. VisitAfter(p, k, serviceDate) # Nil
      BY <2>2, <2>3, <2>4 DEF VisitAfter
    <2> QED BY <2>5, TrackAt
  <1>7. ASSUME NEW k \in Keys, exits[k] = Nil, exits'[k] # Nil
        PROVE  \E d \in Dates : InVisit(k, d)
    <2>1. ExitOf(p, at, first, k) # Nil
      BY <1>7, TrackAt DEF Queue
    <2>2. CASE At(p, Leaving(p), k, serviceDate)
      BY <2>2, EventAt
    <2>3. CASE LeftBehind(p, k, first[k])
      BY <2>3, EventAt
    <2> QED BY <2>1, <2>2, <2>3 DEF ExitOf
  <1>8. Tracked'
    <2> SUFFICES ASSUME NEW k \in Keys, k \in OpenKeys \/ entries'[k] # Nil
                 PROVE  \/ \E d \in Dates : InVisit(k, d)'
                        \/ exits'[k] # Nil
                        \/ k \in abandoned
      BY <1>1 DEF Tracked
    <2> QED BY <1>3, <1>4, <1>6 DEF Tracked, InVisit
  <1>9. Recorded'
    <2> SUFFICES ASSUME NEW k \in Keys,
                        (\E d \in Dates : InVisit(k, d)') \/ exits'[k] # Nil
                 PROVE  rows[k] # Nil \/ entries'[k] # Nil \/ k \in unrecorded
      BY DEF Recorded
    <2> QED BY <1>2, <1>5, <1>7 DEF Recorded
  <1> QED BY <1>8, <1>9

LEMMA FirstOfStale ==
  ASSUME NEW first \in [Keys -> Dates], FirstOf(StaleVisits, first),
         NEW k \in Keys, NEW d \in Dates, Stale(k, d)
  PROVE  Stale(k, first[k])
  <1>1. <<k, d>> \in StaleVisits
    BY DEF StaleVisits
  <1>2. <<k, first[k]>> \in StaleVisits
    BY <1>1 DEF FirstOf
  <1> QED BY <1>2 DEF StaleVisits

LEMMA StepTracked ==
  ASSUME TypeOK, QueuesScoped, Tracked, Recorded, [Next]_vars
  PROVE  Tracked' /\ Recorded'
  <1>1. ASSUME UNCHANGED <<active, entries, exits, rows, abandoned, unrecorded>>
        PROVE  Tracked' /\ Recorded'
    BY <1>1 DEF Tracked, Recorded, OpenKeys, InVisit
  <1>2. ASSUME NEW ps \in Batches, NEW ts \in Time, Fetch(ps, ts)
        PROVE  Tracked' /\ Recorded'
    BY <1>1, <1>2 DEF Fetch, memory, queues, db, lost
  <1>3. CASE CachesReady \/ CachesFail \/ BeginDetect
    BY <1>1, <1>3 DEF CachesReady, CachesFail, BeginDetect, memory, queues,
                      db, lost
  <1>4. ASSUME NEW ok \in BOOLEAN,
               UpsertVehicles(ok) \/ InsertAssignments(ok)
        PROVE  Tracked' /\ Recorded'
    BY <1>1, <1>4 DEF UpsertVehicles, InsertAssignments, memory, queues
  <1>5. CASE Detect
    <2>1. CASE Skip(Head(batch))
      BY <1>1, <1>5, <2>1 DEF Detect, Skip, queues, db, lost
    <2>2. ASSUME NEW at \in [Stops -> Time], NEW first \in [Keys -> Dates],
                 Track(Head(batch), at, first)
          PROVE  Tracked' /\ Recorded'
      <3>1. Head(batch) \in Feed /\ serviceDate \in Dates
        BY <1>5, BatchType DEF Detect, QueuesScoped
      <3> QED BY <1>5, <2>2, <3>1, TrackTracked DEF Detect, db, lost
    <2> QED BY <1>5, <2>1, <2>2 DEF Detect
  <1>6. ASSUME NEW ok \in BOOLEAN, FlushEntries(ok)
        PROVE  Tracked' /\ Recorded'
    <2>1. UNCHANGED <<active, exits, abandoned>> /\ entries' = NoEntries
      BY <1>6 DEF FlushEntries, memory
    <2>2. CASE ok
      <3>1. rows' = Inserted /\ UNCHANGED unrecorded
        BY <1>6, <2>2 DEF FlushEntries
      <3>2. \A k \in Keys :
              rows'[k] # Nil <=> (rows[k] # Nil \/ entries[k] # Nil)
        BY <3>1, RowsKept DEF TypeOK
      <3>3. \A k \in Keys :
              k \in OpenKeys' => k \in OpenKeys \/ entries[k] # Nil
        BY <3>1 DEF Inserted, OpenKeys
      <3> QED BY <2>1, <3>1, <3>2, <3>3
              DEF Tracked, Recorded, InVisit, NoEntries
    <2>3. CASE ~ok
      <3>1. /\ UNCHANGED rows
            /\ unrecorded' = unrecorded \cup Queued(entries)
        BY <1>6, <2>3 DEF FlushEntries
      <3>2. OpenKeys' = OpenKeys
        BY <3>1 DEF OpenKeys
      <3> QED BY <2>1, <3>1, <3>2
              DEF Tracked, Recorded, InVisit, NoEntries, Queued
    <2> QED BY <2>2, <2>3
  <1>7. ASSUME NEW ok \in BOOLEAN, FlushExits(ok)
        PROVE  Tracked' /\ Recorded'
    <2>1. UNCHANGED <<active, entries, unrecorded>> /\ exits' = NoExits
      BY <1>7 DEF FlushExits, memory
    <2>2. entries = NoEntries
      BY <1>7 DEF FlushExits, QueuesScoped
    <2>3. CASE ok
      <3>1. rows' = Updated(exits) /\ UNCHANGED abandoned
        BY <1>7, <2>3 DEF FlushExits
      <3>2. \A k \in Keys : rows'[k] # Nil <=> rows[k] # Nil
        BY <3>1, RowsKept DEF TypeOK
      <3>3. \A k \in Keys : k \in OpenKeys' => k \in OpenKeys /\ exits[k] = Nil
        BY <3>1 DEF Updated, OpenKeys, TypeOK
      <3> QED BY <2>1, <2>2, <3>1, <3>2, <3>3
              DEF Tracked, Recorded, InVisit, NoEntries, NoExits
    <2>4. CASE ~ok
      <3>1. UNCHANGED rows /\ abandoned' = abandoned \cup Queued(exits)
        BY <1>7, <2>4 DEF FlushExits
      <3>2. OpenKeys' = OpenKeys
        BY <3>1 DEF OpenKeys
      <3> QED BY <2>1, <2>2, <3>1, <3>2
              DEF Tracked, Recorded, InVisit, NoEntries, NoExits, Queued
    <2> QED BY <2>3, <2>4
  <1>8. ASSUME NEW ok \in BOOLEAN, NEW first \in [Keys -> Dates],
               Sweep(ok, first)
        PROVE  Tracked' /\ Recorded'
    <2>1. UNCHANGED <<entries, exits, unrecorded>> /\ exits = NoExits
      BY <1>8 DEF Sweep, queues, QueuesScoped
    <2>2. CASE ~SweepDue
      BY <1>1, <1>8, <2>1, <2>2 DEF Sweep
    <2>3. CASE SweepDue
      <3>1. /\ FirstOf(StaleVisits, first)
            /\ active' = [k \in Keys |-> [d \in Dates |->
                            IF Stale(k, d) THEN Nil ELSE active[k][d]]]
        BY <1>8, <2>3 DEF Sweep
      <3>2. \A k \in Keys, d \in Dates :
              active'[k][d] = IF Stale(k, d) THEN Nil ELSE active[k][d]
        BY <3>1
      <3>3. ASSUME NEW k \in Keys, NEW d \in Dates, Stale(k, d)
            PROVE  Swept(first)[k] # Nil
        <4>1. Stale(k, first[k])
          BY <3>1, <3>3, FirstOfStale
        <4> QED BY <4>1 DEF Stale, Quiet, InVisit, Swept, TypeOK, Visit
      <3>4. \A k \in Keys : Swept(first)[k] = Nil =>
              \A d \in Dates : active'[k][d] = active[k][d]
        BY <3>2, <3>3
      <3>5. Swept(first) \in [Keys -> Time \cup {Nil}]
        BY SweptType
      <3>6. Recorded'
        <4>1. \A k \in Keys : rows'[k] # Nil <=> rows[k] # Nil
          BY <1>8, <2>3, <3>5, RowsKept DEF Sweep
        <4> QED BY <2>1, <3>2, <4>1 DEF Recorded, InVisit, NoExits
      <3>7. CASE ok
        <4>1. rows' = Updated(Swept(first)) /\ UNCHANGED abandoned
          BY <1>8, <2>3, <3>7 DEF Sweep
        <4>2. \A k \in Keys :
                k \in OpenKeys' => k \in OpenKeys /\ Swept(first)[k] = Nil
          BY <4>1, <3>5 DEF Updated, OpenKeys, TypeOK
        <4>3. entries = NoEntries
          BY <1>8 DEF Sweep, QueuesScoped
        <4>4. Tracked'
          BY <2>1, <3>4, <4>1, <4>2, <4>3
             DEF Tracked, InVisit, NoEntries, NoExits
        <4> QED BY <3>6, <4>4
      <3>8. CASE ~ok
        <4>1. /\ UNCHANGED rows
              /\ abandoned' = abandoned \cup Queued(Swept(first))
          BY <1>8, <2>3, <3>8 DEF Sweep
        <4>2. OpenKeys' = OpenKeys
          BY <4>1 DEF OpenKeys
        <4>3. entries = NoEntries
          BY <1>8 DEF Sweep, QueuesScoped
        <4>4. Tracked'
          BY <2>1, <3>4, <4>1, <4>2, <4>3
             DEF Tracked, InVisit, NoEntries, NoExits, Queued
        <4> QED BY <3>6, <4>4
      <3> QED BY <3>7, <3>8
    <2> QED BY <2>2, <2>3
  <1>9. CASE Rollover
    BY <1>1, <1>9 DEF Rollover, memory, queues, db, lost
  <1>10. CASE Restart
    <2>1. /\ active' = [k \in Keys |-> [d \in Dates |-> Nil]]
          /\ entries' = NoEntries /\ exits' = NoExits
          /\ abandoned' = abandoned \cup OpenKeys
          /\ UNCHANGED <<rows, unrecorded>>
      BY <1>10 DEF Restart, db
    <2>2. OpenKeys' = OpenKeys
      BY <2>1 DEF OpenKeys
    <2> QED BY <2>1, <2>2 DEF Tracked, Recorded, InVisit, NoEntries, NoExits
  <1>11. CASE UNCHANGED vars
    BY <1>1, <1>11 DEF vars, memory, queues, db, lost
  <1> QED
    BY <1>2, <1>3, <1>4, <1>5, <1>6, <1>7, <1>8, <1>9, <1>10, <1>11
       DEF Next, Poll

LEMMA TailAssigned ==
  ASSUME TypeOK, batch # <<>>, batch' = Tail(batch)
  PROVE  /\ Assigned' \subseteq Assigned /\ Buses' \subseteq Buses
         /\ Head(batch).veh # Nil => Head(batch).veh \in Buses
         /\ Head(batch).veh # Nil /\ Head(batch).trip # Nil =>
              <<Head(batch).veh, Head(batch).trip>> \in Assigned
  <1>1. /\ Len(batch) \in Nat /\ Len(batch) >= 1
        /\ DOMAIN Tail(batch) = 1..(Len(batch) - 1)
        /\ \A i \in DOMAIN Tail(batch) :
             i + 1 \in DOMAIN batch /\ Tail(batch)[i] = batch[i + 1]
    BY DEF TypeOK
  <1>2. Assigned' \subseteq Assigned /\ Buses' \subseteq Buses
    BY <1>1 DEF Assigned, Buses
  <1>3. 1 \in DOMAIN batch /\ Head(batch) = batch[1]
    BY DEF TypeOK
  <1> QED BY <1>2, <1>3 DEF Assigned, Buses

LEMMA StepAssignments ==
  ASSUME TypeOK, QueuesScoped, AssignmentsFirst, [Next]_vars
  PROVE  AssignmentsFirst'
  <1>1. ASSUME UNCHANGED <<entries, rows, fleet, unlisted, assignments,
                           unassigned>>,
               pc' \in {"assign", "lock", "detect"} =>
                 /\ batch' = batch /\ pc \in {"assign", "lock", "detect"}
                 /\ pc' \in {"lock", "detect"} => pc \in {"lock", "detect"}
        PROVE  AssignmentsFirst'
    BY <1>1 DEF AssignmentsFirst, Assigned, Buses, Known
  <1>2. ASSUME NEW ps \in Batches, NEW ts \in Time, Fetch(ps, ts)
        PROVE  AssignmentsFirst'
    BY <1>1, <1>2 DEF Fetch, queues, db, lost
  <1>3. CASE CachesReady \/ CachesFail \/ BeginDetect
    BY <1>1, <1>3 DEF CachesReady, CachesFail, BeginDetect, Continue, queues,
                      db, lost
  <1>4. ASSUME NEW ok \in BOOLEAN,
               UpsertVehicles(ok) \/ InsertAssignments(ok)
        PROVE  AssignmentsFirst'
    <2>1. UNCHANGED <<entries, rows, batch>>
      BY <1>4 DEF UpsertVehicles, InsertAssignments, queues
    <2>2. Buses' = Buses /\ Assigned' = Assigned
      BY <2>1 DEF Buses, Assigned
    <2>3. /\ fleet \cup unlisted \subseteq (fleet \cup unlisted)'
          /\ assignments \cup unassigned \subseteq
               (assignments \cup unassigned)'
      BY <1>4 DEF UpsertVehicles, InsertAssignments
    <2>4. \A v, t : Known(v, t) => Known(v, t)'
      BY <2>3 DEF Known
    <2>5. Buses \subseteq (fleet \cup unlisted)'
      <3>1. CASE UpsertVehicles(ok)
        BY <3>1 DEF UpsertVehicles
      <3>2. CASE InsertAssignments(ok)
        BY <2>3, <3>2 DEF InsertAssignments, AssignmentsFirst
      <3> QED BY <1>4, <3>1, <3>2
    <2>6. pc' = "lock" => Assigned \subseteq (assignments \cup unassigned)'
      BY <1>4 DEF UpsertVehicles, InsertAssignments
    <2>7. pc' \in {"assign", "lock"}
      BY <1>4 DEF UpsertVehicles, InsertAssignments
    <2> QED BY <2>1, <2>2, <2>4, <2>5, <2>6, <2>7 DEF AssignmentsFirst
  <1>5. CASE Detect
    <2>1. /\ UNCHANGED <<pc, rows, fleet, unlisted, assignments, unassigned>>
          /\ Assigned' \subseteq Assigned /\ Buses' \subseteq Buses
          /\ Assigned \subseteq assignments \cup unassigned
          /\ Buses \subseteq fleet \cup unlisted
      BY <1>5, TailAssigned DEF Detect, db, lost, AssignmentsFirst
    <2>2. CASE Skip(Head(batch))
      BY <2>1, <2>2 DEF Skip, queues, AssignmentsFirst, Known
    <2>3. ASSUME NEW at \in [Stops -> Time], NEW first \in [Keys -> Dates],
                 Track(Head(batch), at, first)
          PROVE  AssignmentsFirst'
      <3> DEFINE p == Head(batch)
      <3>1. p \in Feed /\ serviceDate \in Dates
        BY <1>5, BatchType DEF Detect, QueuesScoped
      <3>2. ASSUME NEW k \in Keys, entries'[k] # Nil
            PROVE  Known(entries'[k].veh, k[1])
        <4>1. entries'[k] = Queue(entries, k, EntryOf(p, at, k))
          BY <2>3, <3>1, TrackAt
        <4>2. CASE entries[k] # Nil
          BY <4>1, <4>2 DEF Queue, AssignmentsFirst
        <4>3. CASE At(p, Entering(p), k, serviceDate) /\ entries[k] = Nil
          <5>1. entries'[k].veh = p.veh /\ k[1] = p.trip
            BY <4>1, <4>3 DEF Queue, EntryOf, At
          <5>2. p.trip # Nil /\ p.veh # Nil
            BY <2>3, <4>3 DEF At, Entering, ServedStops, Track
          <5>3. p.veh \in Buses /\ <<p.veh, p.trip>> \in Assigned
            BY <1>5, <5>2, TailAssigned DEF Detect
          <5> QED BY <2>1, <5>1, <5>3 DEF Known
        <4> QED BY <3>2, <4>1, <4>2, <4>3 DEF Queue, EntryOf
      <3> QED BY <2>1, <3>2 DEF AssignmentsFirst, Known
    <2> QED BY <1>5, <2>2, <2>3 DEF Detect
  <1>6. ASSUME NEW ok \in BOOLEAN, FlushEntries(ok)
        PROVE  AssignmentsFirst'
    <2>1. /\ rows' = Inserted \/ UNCHANGED rows
          /\ entries' = NoEntries /\ pc' = "exits"
          /\ UNCHANGED <<fleet, unlisted, assignments, unassigned>>
      BY <1>6 DEF FlushEntries
    <2>2. ASSUME NEW k \in Keys, rows'[k] # Nil
          PROVE  Known(rows'[k].seen.veh, k[1])
      <3>1. CASE rows[k] # Nil
        BY <2>1, <3>1, RowsKept DEF AssignmentsFirst, TypeOK
      <3>2. CASE rows[k] = Nil
        <4>1. rows'[k] = [seen |-> entries[k], exited |-> Nil]
          BY <2>1, <2>2, <3>2 DEF Inserted
        <4>2. entries[k] # Nil
          BY <2>1, <2>2, <3>2 DEF Inserted
        <4>3. rows'[k].seen = entries[k]
          BY <4>1
        <4> QED BY <4>2, <4>3 DEF AssignmentsFirst
      <3> QED BY <3>1, <3>2
    <2> QED BY <2>1, <2>2 DEF AssignmentsFirst, NoEntries, Known
  <1>7. ASSUME NEW out \in [Keys -> Time \cup {Nil}],
               rows' = Updated(out) \/ UNCHANGED rows,
               UNCHANGED <<entries, fleet, unlisted, assignments, unassigned>>,
               pc' \notin {"assign", "lock", "detect"}
        PROVE  AssignmentsFirst'
    <2>1. ASSUME NEW k \in Keys, rows'[k] # Nil
          PROVE  rows[k] # Nil /\ rows'[k].seen = rows[k].seen
      BY <1>7, <2>1, RowsKept
    <2> QED BY <1>7, <2>1 DEF AssignmentsFirst, Known
  <1>8. ASSUME NEW ok \in BOOLEAN, FlushExits(ok)
        PROVE  AssignmentsFirst'
    BY <1>7, <1>8 DEF FlushExits, TypeOK
  <1>9. ASSUME NEW ok \in BOOLEAN, NEW first \in [Keys -> Dates],
               Sweep(ok, first)
        PROVE  AssignmentsFirst'
    BY <1>7, <1>9, SweptType DEF Sweep, queues
  <1>10. CASE Rollover
    BY <1>1, <1>10 DEF Rollover, thread, queues, db, lost
  <1>11. CASE Restart
    BY <1>11 DEF Restart, db, AssignmentsFirst, NoEntries, Known
  <1>12. CASE UNCHANGED vars
    BY <1>1, <1>12 DEF vars, thread, queues, db, lost
  <1> QED
    BY <1>2, <1>3, <1>4, <1>5, <1>6, <1>8, <1>9, <1>10, <1>11, <1>12
       DEF Next, Poll

\* What detection does to the times, when the feed's clock is monotone.
LEMMA TrackTimes ==
  ASSUME TypeOK, serviceDate \in Dates, Tracked, Recorded, PastTimes,
         OrderedTimes,
         NEW p \in Feed, NEW at \in [Stops -> Time],
         NEW first \in [Keys -> Dates], Track(p, at, first),
         UNCHANGED <<feedTS, rows, abandoned, unrecorded>>
  PROVE  PastTimes' /\ OrderedTimes'
  <1> p \in Position /\ p.veh \in Vehicles /\ feedTS \in Nat
    BY DEF Track, Position, TypeOK, Time
  <1>0. Recorded'
    BY TrackTracked
  <1>1. \A v \in Vehicles : states'[v] # Nil => states'[v].ts <= feedTS
    BY DEF Track, TypeOK, PastTimes, State, Time
  <1>2. ASSUME NEW k \in Keys, NEW d \in Dates, InVisit(k, d)'
        PROVE  \/ active'[k][d].last = feedTS
               \/ InVisit(k, d) /\ active'[k][d].last = active[k][d].last
    <2>1. active'[k][d] = VisitAfter(p, k, d) /\ active'[k][d] # Nil
      BY <1>2, TrackAt DEF InVisit
    <2>2. CASE At(p, Entering(p), k, d)
      BY <2>1, <2>2 DEF VisitAfter
    <2>3. CASE At(p, Dwelling(p), k, d) /\ ~At(p, Entering(p), k, d)
      <3>1. active[k][d] \in Visit
        BY <2>3, EventAt
      <3> QED BY <2>1, <2>3, <3>1 DEF VisitAfter, Visit
    <2> QED BY <2>1, <2>2, <2>3 DEF VisitAfter, InVisit
  <1>3. ASSUME NEW k \in Keys, entries[k] = Nil, entries'[k] # Nil
        PROVE  entries'[k].at \in Time /\ entries'[k].at <= feedTS
    <2>1. entries'[k] = EntryOf(p, at, k) /\ At(p, Entering(p), k, serviceDate)
      BY <1>3, TrackAt DEF Queue, EntryOf
    <2> DEFINE s == k[2]
    <2>2. s \in Entering(p) /\ at[s] \in EntryTimes(p, s)
      BY <2>1, TrackAt DEF At, EventTimes
    <2>3. ASSUME HasPrev(p)
          PROVE  at[s] <= feedTS
      <3>1. states[p.veh].ts \in Nat /\ states[p.veh].ts <= feedTS
        BY <2>3 DEF HasPrev, TypeOK, State, PastTimes, Time
      <3> QED BY <2>2, <3>1 DEF EntryTimes, Between, Time
    <2>4. ASSUME ~HasPrev(p)
          PROVE  at[s] <= feedTS
      BY <2>2, <2>4 DEF EntryTimes
    <2>5. entries'[k].at = at[s] /\ at[s] \in Time
      BY <2>1, EventAt DEF EntryOf
    <2>6. at[s] <= feedTS
      BY <2>3, <2>4
    <2> QED BY <2>5, <2>6
  <1>4. PastTimes'
    <2>1. ASSUME NEW k \in Keys, entries'[k] # Nil
          PROVE  entries'[k].at <= feedTS
      <3>1. CASE entries[k] # Nil
        BY <3>1, TrackAt DEF Queue, PastTimes
      <3> QED BY <1>3, <2>1, <3>1
    <2> QED BY <1>1, <1>2, <2>1 DEF PastTimes
  \* Where something is known of the key, its first sighting stays.
  <1>5. ASSUME NEW k \in Keys, rows[k] # Nil \/ entries[k] # Nil
        PROVE  FirstSeen(k)' = FirstSeen(k)
    BY <1>5, TrackAt DEF FirstSeen, Queue
  <1>6. ASSUME NEW k \in Keys \ unrecorded, rows[k] # Nil \/ entries'[k] # Nil
        PROVE  FirstSeen(k)' \in Nat /\ FirstSeen(k)' <= feedTS
    <2>1. CASE rows[k] # Nil
      BY <2>1 DEF FirstSeen, PastTimes, TypeOK, Row, Sighting, Time
    <2>2. CASE rows[k] = Nil /\ entries[k] # Nil
      <3>1. entries[k] \in Sighting /\ entries[k].at <= feedTS
        BY <2>2 DEF TypeOK, PastTimes
      <3> QED BY <2>2, <3>1, <1>5 DEF FirstSeen, Sighting, Time
    <2>3. CASE rows[k] = Nil /\ entries[k] = Nil
      BY <1>3, <1>6, <2>3 DEF FirstSeen, Time
    <2> QED BY <2>1, <2>2, <2>3
  <1>7. ASSUME NEW k \in Keys \ unrecorded, NEW d \in Dates, InVisit(k, d)
        PROVE  /\ rows[k] # Nil \/ entries[k] # Nil
               /\ FirstSeen(k)' <= active[k][d].last
               /\ active[k][d].last \in Time /\ active[k][d].last <= feedTS
    <2>1. rows[k] # Nil \/ entries[k] # Nil
      BY <1>7 DEF Recorded
    <2>2. active[k][d] \in Visit
      BY <1>7, EventAt
    <2> QED BY <1>5, <1>7, <2>1, <2>2 DEF OrderedTimes, PastTimes, Visit
  <1>8. ASSUME NEW k \in Keys \ unrecorded, NEW d \in Dates, InVisit(k, d)'
        PROVE  FirstSeen(k)' <= active'[k][d].last
    <2>1. CASE InVisit(k, d) /\ active'[k][d].last = active[k][d].last
      BY <1>7, <2>1
    <2>2. CASE active'[k][d].last = feedTS
      <3>1. rows[k] # Nil \/ entries'[k] # Nil
        BY <1>8, <1>0 DEF Recorded
      <3> QED BY <1>6, <2>2, <3>1
    <2> QED BY <1>2, <1>8, <2>1, <2>2
  <1>9. ASSUME NEW k \in Keys \ unrecorded, exits'[k] # Nil
        PROVE  FirstSeen(k)' <= exits'[k]
    <2>1. exits'[k] = Queue(exits, k, ExitOf(p, at, first, k))
      BY TrackAt
    <2>2. CASE exits[k] # Nil
      <3>1. rows[k] # Nil \/ entries[k] # Nil
        BY <2>2 DEF Recorded
      <3> QED BY <1>5, <2>1, <2>2, <3>1 DEF Queue, OrderedTimes
    <2>3. CASE exits[k] = Nil /\ At(p, Leaving(p), k, serviceDate)
      <3> DEFINE s == k[2]
                 v == active[k][serviceDate]
      <3>1. exits'[k] = at[s] /\ InVisit(k, serviceDate)
        BY <2>1, <2>3, EventAt DEF Queue, ExitOf
      <3>2. /\ FirstSeen(k)' \in Nat
            /\ FirstSeen(k)' <= v.last /\ v.last \in Time /\ v.last <= feedTS
        BY <1>6, <1>7, <3>1, TrackAt DEF Queue
      <3>3. s \in Leaving(p) /\ k = <<p.trip, s>>
        BY <2>3 DEF At, Keys
      <3>4. at[s] \in ExitTimes(p, s)
        BY <3>3, TrackAt DEF EventTimes
      <3>5. at[s] \in Time /\ v.last <= at[s]
        BY <3>2, <3>3, <3>4 DEF ExitTimes, Between, Time
      <3> QED BY <3>1, <3>2, <3>5 DEF Time
    <2>4. CASE /\ exits[k] = Nil /\ ~At(p, Leaving(p), k, serviceDate)
               /\ LeftBehind(p, k, first[k])
      <3>1. exits'[k] = active[k][first[k]].last /\ InVisit(k, first[k])
        BY <2>1, <2>4, EventAt DEF Queue, ExitOf
      <3> QED BY <1>7, <3>1
    <2> QED BY <1>9, <2>1, <2>2, <2>3, <2>4 DEF Queue, ExitOf
  <1>10. OrderedTimes'
    BY <1>8, <1>9 DEF OrderedTimes
  <1> QED BY <1>4, <1>10

\* An UPDATE that writes no time before the first sighting keeps the order.
LEMMA UpdateTimes ==
  ASSUME TypeOK, PastTimes, OrderedTimes,
         NEW out \in [Keys -> Time \cup {Nil}],
         \A k \in Keys \ unrecorded :
           rows[k] # Nil /\ out[k] # Nil => rows[k].seen.at <= out[k],
         rows' = Updated(out), UNCHANGED <<entries, unrecorded>>
  PROVE  /\ \A k \in Keys :
              /\ FirstSeen(k)' = FirstSeen(k)
              /\ rows'[k] # Nil => rows'[k].seen.at <= feedTS
         /\ \A k \in Keys \ unrecorded :
              rows'[k] # Nil /\ rows'[k].exited # Nil =>
                rows'[k].seen.at <= rows'[k].exited
  <1>1. ASSUME NEW k \in Keys
        PROVE  /\ FirstSeen(k)' = FirstSeen(k)
               /\ rows'[k] # Nil => rows'[k].seen.at <= feedTS
    BY RowsKept DEF FirstSeen, PastTimes
  <1>2. ASSUME NEW k \in Keys \ unrecorded,
               rows'[k] # Nil, rows'[k].exited # Nil
        PROVE  rows'[k].seen.at <= rows'[k].exited
    <2>1. rows[k] # Nil /\ rows'[k].seen = rows[k].seen
      BY <1>2, RowsKept
    <2>2. CASE rows[k].exited # Nil
      BY <1>2, <2>1, <2>2, RowsKept DEF OrderedTimes
    <2>3. CASE rows[k].exited = Nil
      <3>1. rows'[k].exited = out[k]
        BY <2>1, <2>3, RowsKept
      <3> QED BY <1>2, <2>1, <3>1
    <2> QED BY <2>2, <2>3
  <1> QED BY <1>1, <1>2

LEMMA StepTimes ==
  ASSUME TypeOK, QueuesScoped, Tracked, Recorded, PastTimes, OrderedTimes,
         ~FeedRegresses, [Next]_vars
  PROVE  PastTimes' /\ OrderedTimes'
  <1>1. ASSUME UNCHANGED <<states, active, entries, exits, rows, unrecorded,
                           feedTS>>
        PROVE  PastTimes' /\ OrderedTimes'
    BY <1>1 DEF PastTimes, OrderedTimes, InVisit, FirstSeen
  <1>2. ASSUME NEW ps \in Batches, NEW ts \in Time, Fetch(ps, ts)
        PROVE  PastTimes' /\ OrderedTimes'
    <2>1. /\ UNCHANGED <<states, active, entries, exits, rows, unrecorded>>
          /\ feedTS' = ts /\ ts >= feedTS /\ ts \in Nat /\ feedTS \in Nat
      BY <1>2 DEF Fetch, memory, queues, db, lost, TypeOK, Time
    <2>2. OrderedTimes'
      BY <2>1 DEF OrderedTimes, InVisit, FirstSeen
    <2>3. \A v \in Vehicles : states[v] # Nil => states[v].ts \in Nat
      BY DEF TypeOK, State, Time
    <2>4. \A k \in Keys :
            /\ rows[k] # Nil => rows[k].seen.at \in Nat
            /\ entries[k] # Nil => entries[k].at \in Nat
            /\ \A d \in Dates : InVisit(k, d) => active[k][d].last \in Nat
      BY DEF TypeOK, InVisit, Row, Sighting, Visit, Time
    <2>5. PastTimes'
      BY <2>1, <2>3, <2>4 DEF PastTimes, InVisit
    <2> QED BY <2>2, <2>5
  <1>3. CASE CachesReady \/ CachesFail \/ BeginDetect
    BY <1>1, <1>3 DEF CachesReady, CachesFail, BeginDetect, memory, queues,
                      db, lost
  <1>4. ASSUME NEW ok \in BOOLEAN,
               UpsertVehicles(ok) \/ InsertAssignments(ok)
        PROVE  PastTimes' /\ OrderedTimes'
    BY <1>1, <1>4 DEF UpsertVehicles, InsertAssignments, memory, queues
  <1>5. CASE Detect
    <2>1. UNCHANGED <<feedTS, rows, abandoned, unrecorded>>
      BY <1>5 DEF Detect, db, lost
    <2>2. CASE Skip(Head(batch))
      BY <1>1, <2>1, <2>2 DEF Skip, queues
    <2>3. ASSUME NEW at \in [Stops -> Time], NEW first \in [Keys -> Dates],
                 Track(Head(batch), at, first)
          PROVE  PastTimes' /\ OrderedTimes'
      <3>1. Head(batch) \in Feed /\ serviceDate \in Dates
        BY <1>5, BatchType DEF Detect, QueuesScoped
      <3> QED BY <2>1, <2>3, <3>1, TrackTimes
    <2> QED BY <1>5, <2>2, <2>3 DEF Detect
  <1>6. ASSUME NEW ok \in BOOLEAN, FlushEntries(ok)
        PROVE  PastTimes' /\ OrderedTimes'
    <2>1. /\ UNCHANGED <<states, active, exits, feedTS>>
          /\ entries' = NoEntries
      BY <1>6 DEF FlushEntries, memory
    <2>2. CASE ok
      <3>1. rows' = Inserted /\ UNCHANGED unrecorded
        BY <1>6, <2>2 DEF FlushEntries
      <3>2. ASSUME NEW k \in Keys
            PROVE  \/ rows[k] # Nil /\ rows'[k] = rows[k]
                   \/ /\ rows[k] = Nil /\ entries[k] # Nil
                      /\ rows'[k] # Nil
                      /\ rows'[k].seen = entries[k] /\ rows'[k].exited = Nil
                   \/ rows[k] = Nil /\ entries[k] = Nil /\ rows'[k] = Nil
        <4>1. rows'[k] = IF rows[k] = Nil /\ entries[k] # Nil
                         THEN [seen |-> entries[k], exited |-> Nil]
                         ELSE rows[k]
          BY <3>1 DEF Inserted
        <4>2. entries[k] # Nil =>
                [seen |-> entries[k], exited |-> Nil] \in Row
          BY DEF TypeOK, Row
        <4> QED BY <4>1, <4>2
      <3>3. PastTimes'
        BY <2>1, <3>2 DEF PastTimes, InVisit, NoEntries
      <3>4. ASSUME NEW k \in Keys, rows[k] # Nil \/ entries[k] # Nil
            PROVE  FirstSeen(k)' = FirstSeen(k)
        BY <3>2, <3>4 DEF FirstSeen
      <3> QED BY <2>1, <3>1, <3>2, <3>3, <3>4
              DEF OrderedTimes, Recorded, InVisit
    <2>3. CASE ~ok
      <3>1. /\ UNCHANGED rows
            /\ unrecorded' = unrecorded \cup Queued(entries)
        BY <1>6, <2>3 DEF FlushEntries
      <3>2. PastTimes'
        BY <2>1, <3>1 DEF PastTimes, InVisit, NoEntries
      <3>3. ASSUME NEW k \in Keys, rows[k] # Nil
            PROVE  FirstSeen(k)' = FirstSeen(k)
        BY <3>1, <3>3 DEF FirstSeen
      <3> QED BY <2>1, <3>1, <3>2, <3>3
              DEF OrderedTimes, Recorded, InVisit, Queued
    <2> QED BY <2>2, <2>3
  <1>7. ASSUME NEW ok \in BOOLEAN, FlushExits(ok)
        PROVE  PastTimes' /\ OrderedTimes'
    <2>1. /\ UNCHANGED <<states, active, entries, unrecorded, feedTS>>
          /\ exits' = NoExits
          /\ rows' = Updated(exits) \/ UNCHANGED rows
          /\ exits \in [Keys -> Time \cup {Nil}]
      BY <1>7 DEF FlushExits, memory, TypeOK
    <2>2. CASE rows' = Updated(exits)
      <3>1. \A k \in Keys \ unrecorded :
              rows[k] # Nil /\ exits[k] # Nil => rows[k].seen.at <= exits[k]
        BY DEF OrderedTimes, FirstSeen
      <3>2. /\ \A k \in Keys :
                 /\ FirstSeen(k)' = FirstSeen(k)
                 /\ rows'[k] # Nil => rows'[k].seen.at <= feedTS
            /\ \A k \in Keys \ unrecorded :
                 rows'[k] # Nil /\ rows'[k].exited # Nil =>
                   rows'[k].seen.at <= rows'[k].exited
        BY <2>1, <2>2, <3>1, UpdateTimes
      <3> QED BY <2>1, <3>2 DEF PastTimes, OrderedTimes, InVisit, NoExits
    <2>3. CASE UNCHANGED rows
      BY <2>1, <2>3 DEF PastTimes, OrderedTimes, InVisit, NoExits, FirstSeen
    <2> QED BY <2>1, <2>2, <2>3
  <1>8. ASSUME NEW ok \in BOOLEAN, NEW first \in [Keys -> Dates],
               Sweep(ok, first)
        PROVE  PastTimes' /\ OrderedTimes'
    <2>1. UNCHANGED <<states, entries, exits, unrecorded, feedTS>>
      BY <1>8 DEF Sweep, queues
    <2>2. ASSUME NEW k \in Keys, NEW d \in Dates, InVisit(k, d)'
          PROVE  InVisit(k, d) /\ active'[k][d] = active[k][d]
      BY <1>8, <2>2 DEF Sweep, InVisit
    <2>3. CASE rows' = Updated(Swept(first))
      <3>1. \A k \in Keys \ unrecorded :
              rows[k] # Nil /\ Swept(first)[k] # Nil =>
                rows[k].seen.at <= Swept(first)[k]
        BY DEF OrderedTimes, FirstSeen, Swept, Stale, Quiet
      <3>2. Swept(first) \in [Keys -> Time \cup {Nil}]
        BY SweptType
      <3>3. /\ \A k \in Keys :
                 /\ FirstSeen(k)' = FirstSeen(k)
                 /\ rows'[k] # Nil => rows'[k].seen.at <= feedTS
            /\ \A k \in Keys \ unrecorded :
                 rows'[k] # Nil /\ rows'[k].exited # Nil =>
                   rows'[k].seen.at <= rows'[k].exited
        BY <2>1, <2>3, <3>1, <3>2, UpdateTimes
      <3> QED BY <2>1, <2>2, <3>3 DEF PastTimes, OrderedTimes
    <2>4. CASE UNCHANGED rows
      BY <2>1, <2>2, <2>4 DEF PastTimes, OrderedTimes, FirstSeen
    <2> QED BY <1>8, <2>3, <2>4 DEF Sweep
  <1>9. CASE Rollover
    BY <1>1, <1>9 DEF Rollover, thread, memory, queues, db, lost
  <1>10. CASE Restart
    <2>1. /\ active' = [k \in Keys |-> [d \in Dates |-> Nil]]
          /\ states' = [v \in Vehicles |-> Nil]
          /\ entries' = NoEntries /\ exits' = NoExits
          /\ UNCHANGED <<rows, unrecorded, feedTS>>
      BY <1>10 DEF Restart, db
    <2> QED BY <2>1 DEF PastTimes, OrderedTimes, InVisit, NoEntries, NoExits
  <1>11. CASE UNCHANGED vars
    BY <1>1, <1>11 DEF vars, thread, memory, queues, db, lost
  <1> QED
    BY <1>2, <1>3, <1>4, <1>5, <1>6, <1>7, <1>8, <1>9, <1>10, <1>11
       DEF Next, Poll

-----------------------------------------------------------------------------
(* The invariant holds, and what follows from it.                          *)

LEMMA InitInvariant == Init => IInv
  <1> SUFFICES ASSUME Init PROVE IInv
    OBVIOUS
  <1>1. TypeOK
    BY InitType
  <1>2. /\ pc = "idle" /\ batch = <<>> /\ serviceDate = Nil
        /\ states = [v \in Vehicles |-> Nil]
        /\ active = [k \in Keys |-> [d \in Dates |-> Nil]]
        /\ entries = NoEntries /\ exits = NoExits
        /\ rows = [k \in Keys |-> Nil]
    BY DEF Init
  <1>3. QueuesScoped
    BY <1>2 DEF QueuesScoped
  <1>4. Tracked /\ Recorded
    BY <1>2 DEF Tracked, Recorded, OpenKeys, InVisit, NoEntries, NoExits
  <1>5. AssignmentsFirst
    BY <1>2 DEF AssignmentsFirst, NoEntries
  <1>6. PastTimes /\ OrderedTimes
    BY <1>2 DEF PastTimes, OrderedTimes, InVisit, NoEntries, NoExits
  <1> QED BY <1>1, <1>3, <1>4, <1>5, <1>6 DEF IInv

LEMMA StepInvariant == IInv /\ [Next]_vars => IInv'
  <1> SUFFICES ASSUME IInv, [Next]_vars PROVE IInv'
    OBVIOUS
  <1>1. TypeOK' /\ QueuesScoped'
    BY StepType DEF IInv
  <1>2. Tracked' /\ Recorded'
    BY StepTracked DEF IInv
  <1>3. AssignmentsFirst'
    BY StepAssignments DEF IInv
  <1>4. ~FeedRegresses => PastTimes' /\ OrderedTimes'
    BY StepTimes DEF IInv
  <1> QED BY <1>1, <1>2, <1>3, <1>4 DEF IInv

\* The invariant the four below are read off.
THEOREM Invariance == Spec => []IInv
  BY InitInvariant, StepInvariant, PTL DEF Spec

\* The tracker's memory, queues and tables stay well formed through every
\* fault: a visit is one of a known vehicle, a queued exit a time of the feed.
THEOREM TypeCorrect == Spec => []TypeOK
  <1>1. IInv => TypeOK
    BY DEF IInv
  <1> QED BY <1>1, Invariance, PTL

\* No row of stop_visit is left open and forgotten between polls, but by a
\* restart or a failed UPDATE.
THEOREM OpenRowsTracked == Spec => []OpenRowIsTracked
  <1>1. IInv => OpenRowIsTracked
    <2> SUFFICES ASSUME IInv, pc = "idle", NEW k \in OpenKeys
                 PROVE  (\E d \in Dates : InVisit(k, d)) \/ k \in abandoned
      BY DEF OpenRowIsTracked
    <2>1. exits[k] = Nil /\ k \in Keys
      BY DEF IInv, QueuesScoped, NoExits, OpenKeys
    <2> QED BY <2>1 DEF IInv, Tracked
  <1> QED BY <1>1, Invariance, PTL

\* No visit in memory lacks the row its exit is to be written to, but by a
\* failed INSERT.
THEOREM VisitsRecorded == Spec => []VisitIsRecorded
  <1>1. IInv => VisitIsRecorded
    <2> SUFFICES ASSUME IInv, pc = "idle", NEW k \in Keys, NEW d \in Dates,
                        InVisit(k, d)
                 PROVE  rows[k] # Nil \/ k \in unrecorded
      BY DEF VisitIsRecorded
    <2>1. entries[k] = Nil
      BY DEF IInv, QueuesScoped, NoEntries
    <2> QED BY <2>1 DEF IInv, Recorded
  <1> QED BY <1>1, Invariance, PTL

\* Every vehicle stop_visit names was assigned to the trip it is named for,
\* but for a failed assignment batch.
THEOREM VisitsAssigned == Spec => []VisitHasAssignment
  <1>1. IInv => VisitHasAssignment
    BY DEF IInv, AssignmentsFirst, VisitHasAssignment, Known
  <1> QED BY <1>1, Invariance, PTL

\* Interpolated or swept, on a shared trip, over a restart or a date change,
\* an exit is never before its entry while the feed's clock does not go back.
THEOREM ExitsAfterEntries == Spec => []ExitNotBeforeEntry
  <1>1. IInv => ExitNotBeforeEntry
    BY DEF IInv, OrderedTimes, ExitNotBeforeEntry
  <1> QED BY <1>1, Invariance, PTL

\* The tracker keeps the promise of the table: whatever the feed, the faults
\* and the order of events do, the first sighting wins and the exit is
\* written once.
THEOREM Refinement == Spec => LogSpec
  <1>1. Init => Log!Init
    BY DEF Init, Log!Init
  <1>2. ASSUME IInv, [Next]_vars
        PROVE  [Log!Next]_rows
    <2>1. ASSUME rows' = Inserted
          PROVE  Log!Next
      BY <1>2, <2>1 DEF IInv, TypeOK, Inserted, Log!Next, Log!Open
    <2>2. ASSUME NEW out \in [Keys -> Time \cup {Nil}], rows' = Updated(out)
          PROVE  Log!Next
      <3>1. rows' = [k \in Keys |->
                       IF Log!IsOpen(k) /\ out[k] # Nil
                       THEN [rows[k] EXCEPT !.exited = out[k]]
                       ELSE rows[k]]
        BY <2>2 DEF Updated, Log!IsOpen
      <3> QED BY <3>1 DEF Log!Next, Log!Close
    <2>3. ASSUME NEW ok \in BOOLEAN, FlushEntries(ok)
          PROVE  [Log!Next]_rows
      BY <2>1, <2>3 DEF FlushEntries
    <2>4. ASSUME NEW ok \in BOOLEAN, FlushExits(ok)
          PROVE  [Log!Next]_rows
      BY <1>2, <2>2, <2>4 DEF FlushExits, IInv, TypeOK
    <2>5. ASSUME NEW ok \in BOOLEAN, NEW first \in [Keys -> Dates],
                 Sweep(ok, first)
          PROVE  [Log!Next]_rows
      BY <1>2, <2>2, <2>5, SweptType DEF Sweep, IInv
    <2>6. CASE \/ \E ps \in Batches, ts \in Time : Fetch(ps, ts)
               \/ CachesReady \/ CachesFail
               \/ \E ok \in BOOLEAN :
                    UpsertVehicles(ok) \/ InsertAssignments(ok)
               \/ BeginDetect \/ Detect \/ Rollover \/ Restart
               \/ UNCHANGED vars
      BY <2>6 DEF Fetch, CachesReady, CachesFail, UpsertVehicles,
                  InsertAssignments, BeginDetect, Detect, Rollover, Restart,
                  vars, db
    <2> QED BY <1>2, <2>3, <2>4, <2>5, <2>6 DEF Next, Poll
  <1> QED BY <1>1, <1>2, Invariance, PTL DEF Spec, LogSpec, Log!Spec
=============================================================================
