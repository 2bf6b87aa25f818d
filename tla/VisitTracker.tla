---------------------------- MODULE VisitTracker ----------------------------
(***************************************************************************)
(* The stop-visit tracker: internal/transit/vehicle_tracker.go, driven by  *)
(* recordVehicles in recorder.go.  Each poll of the vehicle feed runs one  *)
(* thread through                                                          *)
(*                                                                         *)
(*   fetch -> load caches -> vehicles -> assignments -> detect             *)
(*         -> INSERT entries -> UPDATE exits -> sweep                      *)
(*                                                                         *)
(* Detection is in memory; every database batch may fail (the code logs    *)
(* and goes on), the wall clock may roll over to the next service date     *)
(* between any two steps and the process may restart at any of them.       *)
(*                                                                         *)
(* The geometry is a parameter: which fixes lie within 50 m of a stop,     *)
(* which moves graze its circle and which cross its boundary.              *)
(***************************************************************************)
EXTENDS Naturals, Sequences

CONSTANTS
  Vehicles, Trips, Stops, Routes,
  Places,        \* GPS fixes
  NoFix,         \* the fix 0,0, which the code takes for "no position"
  RouteStops,    \* <<route, stop>>: pattern stops with a known location
  Near,          \* <<fix, stop>>: haversineMeters <= 50
  Grazing,       \* <<from, to, stop>>: segmentDistToPoint <= 50
  Crossing,      \* <<from, to, stop>>: segmentCircleCrossing finds a root
  Feed,          \* the vehicle positions the feed may carry
  MaxBatch,      \* bound: positions in one poll
  MaxTime,       \* bound: the clock of the feed header
  LastDate,      \* bound: service dates
  StaleTimeout,  \* staleVisitTimeout, in ticks
  SweepEvery,    \* sweepEveryNPolls
  Faults,        \* bound: the kinds of fault that may happen
  FeedRegresses, \* may the feed header's timestamp go back?
  Nil            \* nil pointer, empty string, SQL NULL or no row

Time  == 0..MaxTime
Dates == 1..LastDate
Keys  == Trips \X Stops   \* the primary key of transit.stop_visit

Position == [veh : Vehicles \cup {Nil}, trip : Trips \cup {Nil},
             route : Routes \cup {Nil}, at : Places]

Sighting == [veh : Vehicles, at : Time, date : Dates]
Row      == [seen : Sighting, exited : Time \cup {Nil}]
Visit    == [veh : Vehicles, last : Time, lastAt : Places]
State    == [trip : Trips \cup {Nil}, at : Places, ts : Time]

ASSUME ConstantsAssumption ==
  /\ MaxTime \in Nat
  /\ LastDate \in Nat \ {0}
  /\ MaxBatch \in Nat
  /\ StaleTimeout \in Nat
  /\ SweepEvery \in Nat \ {0}
  /\ FeedRegresses \in BOOLEAN
  /\ NoFix \in Places
  /\ RouteStops \subseteq Routes \X Stops
  /\ Feed \subseteq Position

ASSUME NilAssumption ==
  /\ Nil \notin Vehicles \cup Trips \cup Routes \cup Time
  /\ Nil \notin Sighting \cup Row \cup Visit \cup State

\* A feed message names a vehicle once.
Batches ==
  {ps \in UNION {[1..n -> Feed] : n \in 0..MaxBatch} :
     \A i, j \in DOMAIN ps : ps[i].veh = ps[j].veh => i = j}

VARIABLES
  \* the process
  pc,           \* where the poll loop is
  batch,        \* the positions of this poll not yet processed
  feedTS,       \* header timestamp of the last fetched feed
  serviceDate,  \* the date detection read when it took the lock, in scope
                \* until the flush
  cacheOnce,    \* has loadCaches run?
  served,       \* the part of RouteStops the caches hold
  states,       \* states[v]: vehicleState of the previous poll
  active,       \* active[k][d]: the visit in progress at key k, date d
  sweepCounter,
  entries,      \* entries[k]: the INSERT queued for key k
  exits,        \* exits[k]: the exit time of the UPDATE queued for key k
  \* the database
  rows,         \* transit.stop_visit
  fleet,        \* transit.vehicle: the vehicle ids
  assignments,  \* transit.vehicle_assignment: <<vehicle, trip>>, of any date
  \* the world
  today,        \* the wall clock's service date
  \* history: what a fault has lost
  unrecorded,   \* keys an INSERT batch failed on
  abandoned,    \* keys left open by a restart or a failed UPDATE batch
  unlisted,     \* vehicles a fleet batch failed on
  unassigned    \* <<vehicle, trip>> an assignment batch failed on

thread == <<pc, batch, feedTS, serviceDate>>
caches == <<cacheOnce, served>>
memory == <<states, active, sweepCounter>>
queues == <<entries, exits>>
db     == <<rows, fleet, assignments>>
lost   == <<unrecorded, abandoned, unlisted, unassigned>>
vars   == <<thread, caches, memory, queues, db, today, lost>>

NoEntries == [k \in Keys |-> Nil]
NoExits   == [k \in Keys |-> Nil]

Init ==
  /\ pc = "idle"
  /\ batch = <<>>
  /\ feedTS = 0
  /\ serviceDate = Nil
  /\ cacheOnce = FALSE
  /\ served = {}
  /\ states = [v \in Vehicles |-> Nil]
  /\ active = [k \in Keys |-> [d \in Dates |-> Nil]]
  /\ sweepCounter = 0
  /\ entries = NoEntries
  /\ exits = NoExits
  /\ rows = [k \in Keys |-> Nil]
  /\ fleet = {}
  /\ assignments = {}
  /\ today = 1
  /\ unrecorded = {}
  /\ abandoned = {}
  /\ unlisted = {}
  /\ unassigned = {}

-----------------------------------------------------------------------------
(* Fetching and the caches.                                                *)

\* recordVehicles: the feed answers with ps, stamped ts.
Fetch(ps, ts) ==
  /\ pc = "idle"
  /\ FeedRegresses \/ ts >= feedTS
  /\ pc' = "fetched"
  /\ batch' = ps
  /\ feedTS' = ts
  /\ UNCHANGED <<serviceDate, caches, memory, queues, db, today, lost>>

\* An empty feed returns before the sweep counter.
Continue ==
  /\ pc' = IF batch = <<>> THEN "idle" ELSE "vehicles"
  /\ UNCHANGED batch

\* The caches load with the first poll, or have been loaded before.
CachesReady ==
  /\ pc = "fetched"
  /\ cacheOnce' = TRUE
  /\ served' = IF cacheOnce THEN served ELSE RouteStops
  /\ Continue
  /\ UNCHANGED <<feedTS, serviceDate, memory, queues, db, today, lost>>

\* The first load fails part way: the poll is given up, and sync.Once will
\* not try again, so the process keeps whatever part it had read.
CachesFail ==
  /\ pc = "fetched"
  /\ "caches" \in Faults
  /\ ~cacheOnce
  /\ cacheOnce' = TRUE
  /\ served' \in SUBSET RouteStops
  /\ pc' = "idle"
  /\ batch' = <<>>
  /\ UNCHANGED <<feedTS, serviceDate, memory, queues, db, today, lost>>

-----------------------------------------------------------------------------
(* The fleet and its assignments.  A batch of statements is one implicit   *)
(* transaction: all of it or nothing.                                      *)

Buses ==
  {batch[i].veh : i \in {j \in DOMAIN batch : batch[j].veh # Nil}}

UpsertVehicles(ok) ==
  /\ ok \/ "vehicles" \in Faults
  /\ pc = "vehicles"
  /\ pc' = "assign"
  /\ IF ok
     THEN /\ fleet' = fleet \cup Buses
          /\ UNCHANGED unlisted
     ELSE /\ unlisted' = unlisted \cup Buses
          /\ UNCHANGED fleet
  /\ UNCHANGED <<batch, feedTS, serviceDate, caches, memory, queues, rows,
                 assignments, today, unrecorded, abandoned, unassigned>>

\* Mutant: a vehicle gets its assignment only when first seen.
AssignedOnce ==
  {<<batch[i].veh, batch[i].trip>> :
     i \in {j \in DOMAIN batch : /\ batch[j].veh # Nil /\ batch[j].trip # Nil
                                 /\ states[batch[j].veh] = Nil}}

Assigned ==
  {<<batch[i].veh, batch[i].trip>> :
     i \in {j \in DOMAIN batch : batch[j].veh # Nil /\ batch[j].trip # Nil}}

InsertAssignments(ok) ==
  /\ ok \/ "assign" \in Faults
  /\ pc = "assign"
  /\ pc' = "lock"
  /\ IF ok
     THEN /\ assignments' = assignments \cup Assigned
          /\ UNCHANGED unassigned
     ELSE /\ unassigned' = unassigned \cup Assigned
          /\ UNCHANGED assignments
  /\ UNCHANGED <<batch, feedTS, serviceDate, caches, memory, queues, rows,
                 fleet, today, unrecorded, abandoned, unlisted>>

-----------------------------------------------------------------------------
(* Detection.                                                              *)

\* The service date is read again once the mutex is held.
BeginDetect ==
  /\ pc = "lock"
  /\ pc' = "detect"
  /\ serviceDate' = today
  /\ UNCHANGED <<batch, feedTS, caches, memory, queues, db, today, lost>>

\* Any time between two polls: where on the segment the boundary lies.
Between(a, b) == {t \in Time : (a <= t /\ t <= b) \/ (b <= t /\ t <= a)}

InVisit(k, d) == active[k][d] # Nil

ServedStops(p) ==
  IF p.trip = Nil \/ p.route = Nil THEN {}
  ELSE {s \in Stops : <<p.route, s>> \in served}

\* The previous fix of the vehicle anchors a segment only on the same trip.
HasPrev(p) ==
  LET prev == states[p.veh]
  IN  prev # Nil /\ prev.trip = p.trip /\ prev.at # NoFix

Busy(p, s) == InVisit(<<p.trip, s>>, serviceDate)

\* Point distance, or for a new visit the distance of the segment.
Inside(p, s) ==
  \/ <<p.at, s>> \in Near
  \/ /\ ~Busy(p, s)
     /\ HasPrev(p)
     /\ <<states[p.veh].at, p.at, s>> \in Grazing

Entering(p) == {s \in ServedStops(p) : Inside(p, s) /\ ~Busy(p, s)}
Dwelling(p) == {s \in ServedStops(p) : Inside(p, s) /\ Busy(p, s)}
Leaving(p)  == {s \in ServedStops(p) : ~Inside(p, s) /\ Busy(p, s)}

\* finalizeVisitsForTrip: the visits this vehicle left with its old trip.
LeftBehind(p, k, d) ==
  LET prev == states[p.veh]
  IN  /\ prev # Nil /\ p.trip # Nil /\ prev.trip # Nil /\ prev.trip # p.trip
      /\ InVisit(k, d)
      /\ active[k][d].veh = p.veh
      /\ k[1] = prev.trip

EntryTimes(p, s) ==
  IF HasPrev(p) /\ <<states[p.veh].at, p.at, s>> \in Crossing
  THEN Between(states[p.veh].ts, feedTS)
  ELSE {feedTS}

\* Mutant: the exit is interpolated from the departing bus's own last poll.
ExitTimesOfBus(p, s) ==
  LET v == active[<<p.trip, s>>][serviceDate]
  IN  IF states[p.veh] # Nil /\ <<v.lastAt, p.at, s>> \in Crossing
      THEN Between(states[p.veh].ts, feedTS)
      ELSE {v.last}

ExitTimes(p, s) ==
  LET v == active[<<p.trip, s>>][serviceDate]
  IN  IF <<v.lastAt, p.at, s>> \in Crossing
      THEN Between(v.last, feedTS)
      ELSE {v.last}

\* The interpolated time of each stop's event; feedTS where there is none.
EventTimes(p, at) ==
  /\ \A s \in Entering(p) : at[s] \in EntryTimes(p, s)
  /\ \A s \in Leaving(p) : at[s] \in ExitTimes(p, s)
  /\ \A s \in Stops \ (Entering(p) \cup Leaving(p)) : at[s] = feedTS

At(p, S, k, d) == k[1] = p.trip /\ k[2] \in S /\ d = serviceDate

\* Go ranges over a map in any order: first[k] is the date whose visit comes
\* first among those of key k that are closed together.
FirstOf(gone, first) ==
  \A k \in Keys :
    (\E d \in Dates : <<k, d>> \in gone) => <<k, first[k]>> \in gone

LeftBehindBy(p) == {kd \in Keys \X Dates : LeftBehind(p, kd[1], kd[2])}

\* A batch is a list, and of the statements it holds for one row only the
\* first changes it (ON CONFLICT DO NOTHING; exited_at IS NULL): the queues
\* keep that one.
Queue(q, k, val) == IF q[k] # Nil THEN q[k] ELSE val

Skip(p) ==
  /\ p.veh = Nil
  /\ UNCHANGED <<states, active, queues>>

\* The visit at key k, date d after this position.
VisitAfter(p, k, d) ==
  IF LeftBehind(p, k, d) \/ At(p, Leaving(p), k, d) THEN Nil
  ELSE IF At(p, Entering(p), k, d)
       THEN [veh |-> p.veh, last |-> feedTS, lastAt |-> p.at]
  ELSE IF At(p, Dwelling(p), k, d)
       THEN [active[k][d] EXCEPT !.last = feedTS, !.lastAt = p.at]
  ELSE active[k][d]

EntryOf(p, at, k) ==
  IF At(p, Entering(p), k, serviceDate)
  THEN [veh |-> p.veh, at |-> at[k[2]], date |-> serviceDate]
  ELSE Nil

ExitOf(p, at, first, k) ==
  IF At(p, Leaving(p), k, serviceDate) THEN at[k[2]]
  ELSE IF LeftBehind(p, k, first[k]) THEN active[k][first[k]].last
  ELSE Nil

Track(p, at, first) ==
  /\ p.veh # Nil
  /\ EventTimes(p, at)
  /\ FirstOf(LeftBehindBy(p), first)
  /\ states' = [states EXCEPT ![p.veh] =
                  [trip |-> p.trip, at |-> p.at, ts |-> feedTS]]
  /\ active' = [k \in Keys |-> [d \in Dates |-> VisitAfter(p, k, d)]]
  /\ entries' = [k \in Keys |-> Queue(entries, k, EntryOf(p, at, k))]
  /\ exits' = [k \in Keys |-> Queue(exits, k, ExitOf(p, at, first, k))]

\* One turn of the loop over the positions.
Detect ==
  /\ pc = "detect"
  /\ batch # <<>>
  /\ batch' = Tail(batch)
  /\ \/ Skip(Head(batch))
     \/ \E at \in [Stops -> Time], first \in [Keys -> Dates] :
          Track(Head(batch), at, first)
  /\ UNCHANGED <<pc, feedTS, serviceDate, caches, sweepCounter, db, today,
                 lost>>

-----------------------------------------------------------------------------
(* The flushes and the sweep.                                              *)

\* Mutant: entries of a service date that has ended are dropped.
InsertedToday ==
  [k \in Keys |-> IF rows[k] = Nil /\ entries[k] # Nil /\ serviceDate = today
                  THEN [seen |-> entries[k], exited |-> Nil]
                  ELSE rows[k]]

\* INSERT ... ON CONFLICT (trip_id, stop_id) DO NOTHING
Inserted ==
  [k \in Keys |-> IF rows[k] = Nil /\ entries[k] # Nil
                  THEN [seen |-> entries[k], exited |-> Nil]
                  ELSE rows[k]]

\* Mutant: without AND exited_at IS NULL.
UpdatedAgain(out) ==
  [k \in Keys |-> IF rows[k] # Nil /\ out[k] # Nil
                  THEN [rows[k] EXCEPT !.exited = out[k]]
                  ELSE rows[k]]

\* UPDATE ... WHERE trip_id AND stop_id AND exited_at IS NULL
Updated(out) ==
  [k \in Keys |-> IF rows[k] # Nil /\ rows[k].exited = Nil /\ out[k] # Nil
                  THEN [rows[k] EXCEPT !.exited = out[k]]
                  ELSE rows[k]]

Queued(q) == {k \in Keys : q[k] # Nil}

FlushEntries(ok) ==
  /\ ok \/ "insert" \in Faults
  /\ pc = "detect"
  /\ batch = <<>>
  /\ pc' = "exits"
  /\ serviceDate' = Nil
  /\ entries' = NoEntries
  /\ IF ok THEN rows' = Inserted /\ UNCHANGED unrecorded
           ELSE /\ unrecorded' = unrecorded \cup Queued(entries)
                /\ UNCHANGED rows
  /\ UNCHANGED <<batch, feedTS, caches, memory, exits, fleet, assignments,
                 today, abandoned, unlisted, unassigned>>

FlushExits(ok) ==
  /\ ok \/ "update" \in Faults
  /\ pc = "exits"
  /\ pc' = "sweep"
  /\ exits' = NoExits
  /\ IF ok THEN rows' = Updated(exits) /\ UNCHANGED abandoned
           ELSE /\ abandoned' = abandoned \cup Queued(exits)
                /\ UNCHANGED rows
  /\ UNCHANGED <<batch, feedTS, serviceDate, caches, memory, entries, fleet,
                 assignments, today, unrecorded, unlisted, unassigned>>

Quiet(k, d) == InVisit(k, d) /\ feedTS >= active[k][d].last + StaleTimeout

\* Mutant: only visits left over from an earlier service date.
StaleYesterday(k, d) == Quiet(k, d) /\ d < today

Stale(k, d) == Quiet(k, d)

StaleVisits == {kd \in Keys \X Dates : Stale(kd[1], kd[2])}

\* Mutant: the counter is compared with its limit before it counts.
SweepDueLate == sweepCounter >= SweepEvery

SweepDue == sweepCounter + 1 >= SweepEvery

\* Mutant: the sweep deletes the visits and forgets the UPDATE.
SweptSilently(first) == NoExits

Swept(first) ==
  [k \in Keys |-> IF Stale(k, first[k]) THEN active[k][first[k]].last ELSE Nil]

\* Every SweepEvery-th poll closes the visits that have gone quiet.
Sweep(ok, first) ==
  /\ ok \/ "update" \in Faults
  /\ pc = "sweep"
  /\ pc' = "idle"
  /\ IF ~SweepDue
     THEN /\ sweepCounter' = sweepCounter + 1
          /\ UNCHANGED <<active, rows, abandoned>>
     ELSE /\ sweepCounter' = 0
          /\ FirstOf(StaleVisits, first)
          /\ active' = [k \in Keys |-> [d \in Dates |->
                          IF Stale(k, d) THEN Nil ELSE active[k][d]]]
          /\ IF ok
             THEN rows' = Updated(Swept(first)) /\ UNCHANGED abandoned
             ELSE /\ abandoned' = abandoned \cup Queued(Swept(first))
                  /\ UNCHANGED rows
  /\ UNCHANGED <<batch, feedTS, serviceDate, caches, states, queues, fleet,
                 assignments, today, unrecorded, unlisted, unassigned>>

-----------------------------------------------------------------------------
(* The world.                                                              *)

\* 4 AM in the agency's time zone.
Rollover ==
  /\ today < LastDate
  /\ today' = today + 1
  /\ UNCHANGED <<thread, caches, memory, queues, db, lost>>

OpenKeys == {k \in Keys : rows[k] # Nil /\ rows[k].exited = Nil}

\* A crash or a deployment: newVehicleTracker starts from nothing.
Restart ==
  /\ "restart" \in Faults
  /\ pc' = "idle"
  /\ batch' = <<>>
  /\ serviceDate' = Nil
  /\ cacheOnce' = FALSE
  /\ served' = {}
  /\ states' = [v \in Vehicles |-> Nil]
  /\ active' = [k \in Keys |-> [d \in Dates |-> Nil]]
  /\ sweepCounter' = 0
  /\ entries' = NoEntries
  /\ exits' = NoExits
  /\ abandoned' = abandoned \cup OpenKeys
  /\ UNCHANGED <<feedTS, db, today, unrecorded, unlisted, unassigned>>

Poll ==
  \/ \E ps \in Batches, ts \in Time : Fetch(ps, ts)
  \/ CachesReady
  \/ CachesFail
  \/ \E ok \in BOOLEAN : UpsertVehicles(ok)
  \/ \E ok \in BOOLEAN : InsertAssignments(ok)
  \/ BeginDetect
  \/ Detect
  \/ \E ok \in BOOLEAN : FlushEntries(ok)
  \/ \E ok \in BOOLEAN : FlushExits(ok)
  \/ \E ok \in BOOLEAN, first \in [Keys -> Dates] : Sweep(ok, first)

Next == Poll \/ Rollover \/ Restart

Spec == Init /\ [][Next]_vars

-----------------------------------------------------------------------------
(* Properties.                                                             *)

TypeOK ==
  /\ pc \in {"idle", "fetched", "vehicles", "assign", "lock", "detect",
             "exits", "sweep"}
  /\ batch \in Seq(Feed)
  /\ feedTS \in Time
  /\ serviceDate \in Dates \cup {Nil}
  /\ cacheOnce \in BOOLEAN
  /\ served \subseteq RouteStops
  /\ states \in [Vehicles -> State \cup {Nil}]
  /\ active \in [Keys -> [Dates -> Visit \cup {Nil}]]
  /\ sweepCounter \in 0..(SweepEvery - 1)
  /\ entries \in [Keys -> Sighting \cup {Nil}]
  /\ exits \in [Keys -> Time \cup {Nil}]
  /\ rows \in [Keys -> Row \cup {Nil}]
  /\ fleet \subseteq Vehicles
  /\ assignments \subseteq Vehicles \X Trips
  /\ today \in Dates
  /\ unrecorded \subseteq Keys
  /\ abandoned \subseteq Keys
  /\ unlisted \subseteq Vehicles
  /\ unassigned \subseteq Vehicles \X Trips

\* Between polls a row without an exit time still has a visit in memory that
\* will give it one, whatever two buses on one trip, a date change or a graze
\* did, unless a restart or a failed UPDATE cut it off.
OpenRowIsTracked ==
  pc = "idle" =>
    \A k \in OpenKeys : (\E d \in Dates : InVisit(k, d)) \/ k \in abandoned

\* Between polls every visit in memory has its row (of this date or another),
\* unless an INSERT for that row has failed: its exit is never lost on a row
\* that was not there.
VisitIsRecorded ==
  pc = "idle" =>
    \A k \in Keys, d \in Dates :
      InVisit(k, d) => rows[k] # Nil \/ k \in unrecorded

\* While the feed's clock does not go back, no bus leaves a stop before it
\* came, across interpolation, restarts, shared trips and date changes; only
\* a failed INSERT can make a later pass open the row an earlier one closes.
ExitNotBeforeEntry ==
  ~FeedRegresses =>
    \A k \in Keys :
      rows[k] # Nil /\ rows[k].exited # Nil /\ k \notin unrecorded =>
        rows[k].seen.at <= rows[k].exited

\* The bus a row names is in the fleet table and was assigned to the row's
\* trip on some date, unless those batches failed: the three tables, written
\* at either end of a poll, agree.
VisitHasAssignment ==
  \A k \in Keys : rows[k] # Nil =>
    /\ rows[k].seen.veh \in fleet \cup unlisted
    /\ <<rows[k].seen.veh, k[1]>> \in assignments \cup unassigned

\* The table keeps VisitLog's promise: first sighting wins, one exit, and
\* nothing is rewritten, by a second pass, a restart or a late exit.
Log == INSTANCE VisitLog
LogSpec == Log!Spec

-----------------------------------------------------------------------------
(* The inductive invariant behind the four: what holds inside a poll too.  *)

QueuesScoped ==
  /\ pc = "detect" => serviceDate \in Dates
  /\ pc # "detect" => entries = NoEntries
  /\ pc \notin {"detect", "exits"} => exits = NoExits

\* A row that is open, or about to be, has a visit or an exit on its way.
Tracked ==
  \A k \in Keys :
    k \in OpenKeys \/ entries[k] # Nil =>
      (\E d \in Dates : InVisit(k, d)) \/ exits[k] # Nil \/ k \in abandoned

\* A visit, or an exit on its way, has a row or one on its way.
Recorded ==
  \A k \in Keys :
    (\E d \in Dates : InVisit(k, d)) \/ exits[k] # Nil =>
      rows[k] # Nil \/ entries[k] # Nil \/ k \in unrecorded

Known(v, t) ==
  /\ v \in fleet \cup unlisted
  /\ <<v, t>> \in assignments \cup unassigned

AssignmentsFirst ==
  /\ pc \in {"assign", "lock", "detect"} =>
       Buses \subseteq fleet \cup unlisted
  /\ pc \in {"lock", "detect"} =>
       Assigned \subseteq assignments \cup unassigned
  /\ \A k \in Keys :
       /\ entries[k] # Nil => Known(entries[k].veh, k[1])
       /\ rows[k] # Nil => Known(rows[k].seen.veh, k[1])

\* When key k was first seen, as far as the table or the queue tells.
FirstSeen(k) == IF rows[k] # Nil THEN rows[k].seen.at ELSE entries[k].at

PastTimes ==
  /\ \A v \in Vehicles : states[v] # Nil => states[v].ts <= feedTS
  /\ \A k \in Keys :
       /\ rows[k] # Nil => rows[k].seen.at <= feedTS
       /\ entries[k] # Nil => entries[k].at <= feedTS
       /\ \A d \in Dates : InVisit(k, d) => active[k][d].last <= feedTS

OrderedTimes ==
  \A k \in Keys \ unrecorded :
    /\ rows[k] # Nil /\ rows[k].exited # Nil =>
         rows[k].seen.at <= rows[k].exited
    /\ exits[k] # Nil => FirstSeen(k) <= exits[k]
    /\ \A d \in Dates : InVisit(k, d) => FirstSeen(k) <= active[k][d].last

IInv ==
  /\ TypeOK
  /\ QueuesScoped
  /\ Tracked
  /\ Recorded
  /\ AssignmentsFirst
  /\ ~FeedRegresses => PastTimes /\ OrderedTimes

-----------------------------------------------------------------------------
(* Liveness: the recorder is one goroutine on a ticker.                    *)

FairSpec == Spec /\ WF_vars(Poll)

\* Assumed of the world, not of the code: the feed is not empty for ever.
BusesRun ==
  SF_vars(\E ps \in Batches \ {<<>>}, ts \in Time : Fetch(ps, ts))

LiveSpec == FairSpec /\ BusesRun

\* A visit that has gone quiet is closed, or its bus is seen there again.
StaleVisitSwept ==
  \A k \in Keys, d \in Dates : Quiet(k, d) ~> ~Quiet(k, d)
=============================================================================
