---------------------------- MODULE TripPlanner -----------------------------
(***************************************************************************)
(* The trip planner's rounds: Plan in internal/transit/raptor.go, on the   *)
(* timetable that BuildTimetable makes of one service day.                 *)
(*                                                                         *)
(* A round scans every route that serves a stop reached in the round       *)
(* before, stop by stop, on the earliest trip it can board, and then walks *)
(* from the stops it reached.  The code ranges over maps to pick the next  *)
(* route and the next stop: any order may happen.  The itineraries that    *)
(* are made of the labels are in TripPlans.                                *)
(*                                                                         *)
(* Times are whole numbers: the seconds of the code.                       *)
(***************************************************************************)
EXTENDS Integers, Sequences, FiniteSets

CONSTANTS
  Stops,
  Routes,    \* a route in one direction: route_id|headsign
  Trips,     \* [id, visits]; a visit is [stop, arr, dep]
  Rounds,    \* maxRounds
  Infinity,  \* raptorInfinity
  Plans,     \* what may be asked, of which timetable
  Origin,    \* where a walk to the first stop starts
  Nil        \* nothing

Visit == [stop : Stops, arr : Nat, dep : Nat]

Times == 0..Infinity

\* What is asked: trips of each direction, how far stops are apart, the times of
\* walks of 400 m and less (Infinity when there is none) between stops, from the
\* origin and to the destination, and how far that is.
PlanType ==
  [trips : [Routes -> SUBSET Trips],
   metres : [Stops -> [Stops -> Nat]],
   foot : [Stops -> [Stops -> Times]],
   access : [Stops -> Times],
   egress : [Stops -> Times],
   last : [Stops -> Nat],
   pinned : Stops \cup {Nil},
   depart : Nat,
   exclude : SUBSET {t.id : t \in Trips}]

\* How a stop was reached, and when.
Label == [time : Nat, route : Routes \cup {Nil}, trip : Trips \cup {Nil},
          from : Stops \cup {Origin}]

ASSUME PlannerAssumption ==
  /\ Rounds \in Nat
  /\ Infinity \in Nat
  /\ IsFiniteSet(Trips)
  /\ \A t \in Trips : t.visits \in Seq(Visit) /\ t.visits # <<>>
  /\ \A t \in Trips : \A i \in DOMAIN t.visits :
       t.visits[i].arr < Infinity /\ t.visits[i].dep < Infinity
  /\ Plans \subseteq PlanType
  /\ Nil \notin Trips \cup Stops \cup Label
  /\ Origin \notin Stops

VARIABLES
  plan,     \* one of Plans, for good
  order,    \* order[r]: RouteTrips, the trips of r by their first departure
  pc,       \* "foot", "round", "scan", "ride", "walk" or "done"
  round,    \* k
  tauStar,  \* the best arrival at each stop
  tauPrev,  \* the best arrival at each stop before this round
  tauCurr,  \* and in this round
  labels,   \* labels[k][s]: how s was reached in round k
  marked,   \* stops that the round before reached
  fresh,    \* newMarked: stops that this round reached
  todo,     \* routes or stops that the loop has not come to
  route,    \* the scan: the route,
  pos,      \* the position in its first trip,
  trip,     \* currentTrip,
  board     \* and boardStop

tau  == <<tauStar, tauPrev, tauCurr, labels>>
scan == <<route, pos, trip, board>>
vars == <<plan, order, pc, round, tau, marked, fresh, todo, scan>>

-----------------------------------------------------------------------------
(* The timetable.                                                          *)

Serves(t, s) == \E i \in DOMAIN t.visits : t.visits[i].stop = s

\* stopIdx: of a stop that the trip visits twice it has the last visit.
StopIdx(t, s) ==
  CHOOSE i \in DOMAIN t.visits :
    /\ t.visits[i].stop = s
    /\ \A j \in DOMAIN t.visits : t.visits[j].stop = s => j <= i

Arr(t, s) == t.visits[StopIdx(t, s)].arr
Dep(t, s) == t.visits[StopIdx(t, s)].dep

\* The trips of a route in the order of their first departures.
Sorted(T) ==
  {q \in [1..Cardinality(T) -> T] :
     /\ \A t \in T : \E i \in DOMAIN q : q[i] = t
     /\ \A i, j \in DOMAIN q : i < j => q[i].visits[1].dep <= q[j].visits[1].dep}

\* The trip whose stops stand for those of the route.
Rep(r) == order[r][1]

\* Mutant: a trip that left is boarded.
CatchableLate(r, s, time) ==
  {i \in DOMAIN order[r] : /\ order[r][i].id \notin plan.exclude
                           /\ Serves(order[r][i], s)
                           /\ Dep(order[r][i], s) >= time - 1}

\* Trips of r that can be boarded at s, of which earliestTrip takes the first.
Catchable(r, s, time) ==
  {i \in DOMAIN order[r] : /\ order[r][i].id \notin plan.exclude
                           /\ Serves(order[r][i], s)
                           /\ Dep(order[r][i], s) >= time}

\* Where the scan of r starts: the first of the marked stops on its first trip.
Starts(r) == {StopIdx(Rep(r), s) : s \in {u \in marked : Serves(Rep(r), u)}}

\* How a stop was reached: on foot from a stop, or on a trip boarded there.
Walked(s, time) == [time |-> time, route |-> Nil, trip |-> Nil, from |-> s]
Rode(r, t, s, time) == [time |-> time, route |-> r, trip |-> t, from |-> s]

-----------------------------------------------------------------------------
(* Round 0: on foot.                                                       *)

AccessTime(s) == plan.depart + plan.access[s]

Near == {s \in Stops : AccessTime(s) < Infinity}

Init ==
  /\ plan \in Plans
  /\ order \in {o \in [Routes -> UNION {Sorted(plan.trips[r]) : r \in Routes}] :
                  \A r \in Routes : o[r] \in Sorted(plan.trips[r])}
  /\ pc = "foot"
  /\ round = 0
  /\ tauStar = [s \in Stops |-> IF s \in Near THEN AccessTime(s) ELSE Infinity]
  /\ tauPrev = tauStar
  /\ tauCurr = tauStar
  /\ labels = [k \in 0..Rounds |-> [s \in Stops |->
                 IF k = 0 /\ s \in Near THEN Walked(Origin, AccessTime(s)) ELSE Nil]]
  /\ marked = Near
  /\ fresh = {}
  /\ todo = marked
  /\ route = Nil /\ pos = 0 /\ trip = Nil /\ board = Nil

Reached(best, s, u) == best[s] + plan.foot[s][u]

\* A walk from a stop near the origin.  The loop ranges over the map that it
\* adds to: it may or may not come to a stop that it added.
FirstWalk(s) ==
  /\ pc = "foot"
  /\ s \in todo
  /\ LET better == {u \in Stops : Reached(tauPrev, s, u) < tauPrev[u]}
     IN /\ tauPrev' = [u \in Stops |-> IF u \in better THEN Reached(tauPrev, s, u)
                                                       ELSE tauPrev[u]]
        /\ tauStar' = [u \in Stops |-> IF u \in better THEN Reached(tauPrev, s, u)
                                                       ELSE tauStar[u]]
        /\ labels' = [labels EXCEPT ![0] = [u \in Stops |->
                        IF u \in better THEN Walked(s, Reached(tauPrev, s, u)) ELSE @[u]]]
        /\ marked' = marked \cup better
        /\ \E seen \in SUBSET (better \ marked) : todo' = (todo \ {s}) \cup seen
  /\ UNCHANGED <<plan, order, pc, round, tauCurr, fresh, scan>>

FirstWalksDone ==
  /\ pc = "foot"
  /\ todo = {}
  /\ pc' = "round"
  /\ UNCHANGED <<plan, order, round, tau, marked, fresh, todo, scan>>

-----------------------------------------------------------------------------
(* A round.                                                                *)

Stop ==
  /\ pc = "round"
  /\ round = Rounds \/ marked = {}
  /\ pc' = "done"
  /\ UNCHANGED <<plan, order, round, tau, marked, fresh, todo, scan>>

\* The routes of the marked stops are collected.
Begin ==
  /\ pc = "round"
  /\ round < Rounds
  /\ marked # {}
  /\ round' = round + 1
  /\ tauCurr' = tauPrev
  /\ fresh' = {}
  /\ todo' = {r \in Routes : order[r] # <<>> /\ Starts(r) # {}}
  /\ pc' = "scan"
  /\ UNCHANGED <<plan, order, tauStar, tauPrev, labels, marked, scan>>

StartScan(r) ==
  /\ pc = "scan"
  /\ r \in todo
  /\ todo' = todo \ {r}
  /\ route' = r
  /\ \E p \in Starts(r) : (\A q \in Starts(r) : p <= q) /\ pos' = p
  /\ trip' = Nil
  /\ board' = Nil
  /\ pc' = "ride"
  /\ UNCHANGED <<plan, order, round, tau, marked, fresh>>

\* Mutant: a later arrival replaces an earlier one.
BeatsNothing(s) ==
  /\ trip # Nil
  /\ Serves(trip, s)

\* Is s reached earlier on the trip than in any way before?
Improves(s) ==
  /\ trip # Nil
  /\ Serves(trip, s)
  /\ Arr(trip, s) < tauCurr[s]
  /\ Arr(trip, s) < tauStar[s]

Alight(s) ==
  IF Improves(s)
  THEN /\ tauCurr' = [tauCurr EXCEPT ![s] = Arr(trip, s)]
       /\ tauStar' = [tauStar EXCEPT ![s] = Arr(trip, s)]
       /\ labels' = [labels EXCEPT ![round][s] = Rode(route, trip, board, Arr(trip, s))]
       /\ fresh' = fresh \cup {s}
  ELSE UNCHANGED <<tauCurr, tauStar, labels, fresh>>

\* Mutant: what this round reached is boarded from.
BoardableNow(s) == Catchable(route, s, tauCurr[s])

\* Boarding goes by the times of the round before.
Boardable(s) == Catchable(route, s, tauPrev[s])

\* Is t boarded at s rather than stayed on the trip?
Sooner(t, s) == trip # Nil => Serves(trip, s) /\ Dep(t, s) < Dep(trip, s)

Board(s) ==
  \/ /\ \/ tauPrev[s] >= Infinity
        \/ Boardable(s) = {}
        \/ \E i \in Boardable(s) : /\ \A j \in Boardable(s) : i <= j
                                   /\ ~Sooner(order[route][i], s)
     /\ UNCHANGED <<trip, board>>
  \/ \E i \in Boardable(s) :
       /\ tauPrev[s] < Infinity
       /\ \A j \in Boardable(s) : i <= j
       /\ Sooner(order[route][i], s)
       /\ trip' = order[route][i]
       /\ board' = s

\* The next stop of the scan: alight, then board.
Ride ==
  /\ pc = "ride"
  /\ pos <= Len(Rep(route).visits)
  /\ Alight(Rep(route).visits[pos].stop)
  /\ Board(Rep(route).visits[pos].stop)
  /\ pos' = pos + 1
  /\ UNCHANGED <<plan, order, pc, round, tauPrev, marked, todo, route>>

EndScan ==
  /\ pc = "ride"
  /\ pos > Len(Rep(route).visits)
  /\ pc' = "scan"
  /\ UNCHANGED <<plan, order, round, tau, marked, fresh, todo, scan>>

ScansDone ==
  /\ pc = "scan"
  /\ todo = {}
  /\ todo' = fresh
  /\ pc' = "walk"
  /\ UNCHANGED <<plan, order, round, tau, marked, fresh, scan>>

\* A walk from a stop that a trip reached.
Walk(s) ==
  /\ pc = "walk"
  /\ s \in todo
  /\ todo' = todo \ {s}
  /\ LET better == {u \in Stops : /\ Reached(tauCurr, s, u) < tauCurr[u]
                                  /\ Reached(tauCurr, s, u) < tauStar[u]}
     IN /\ tauCurr' = [u \in Stops |-> IF u \in better THEN Reached(tauCurr, s, u)
                                                       ELSE tauCurr[u]]
        /\ tauStar' = [u \in Stops |-> IF u \in better THEN Reached(tauCurr, s, u)
                                                       ELSE tauStar[u]]
        /\ labels' = [labels EXCEPT ![round] = [u \in Stops |->
                        IF u \in better THEN Walked(s, Reached(tauCurr, s, u)) ELSE @[u]]]
        /\ fresh' = fresh \cup better
  /\ UNCHANGED <<plan, order, pc, round, tauPrev, marked, scan>>

End ==
  /\ pc = "walk"
  /\ todo = {}
  /\ tauPrev' = tauCurr
  /\ marked' = fresh
  /\ pc' = "round"
  /\ UNCHANGED <<plan, order, round, tauStar, tauCurr, labels, fresh, todo, scan>>

-----------------------------------------------------------------------------
Next ==
  \/ FirstWalksDone \/ Stop \/ Begin \/ Ride \/ EndScan \/ ScansDone \/ End
  \/ \E s \in Stops : FirstWalk(s) \/ Walk(s)
  \/ \E r \in Routes : StartScan(r)

Spec == Init /\ [][Next]_vars

-----------------------------------------------------------------------------
(* Properties.                                                             *)

\* The arrays, labels and loops hold what they are declared to hold.
TypeOK ==
  /\ plan \in Plans
  /\ order \in [Routes -> Seq(Trips)]
  /\ pc \in {"foot", "round", "scan", "ride", "walk", "done"}
  /\ round \in 0..Rounds
  /\ tauStar \in [Stops -> Times]
  /\ tauPrev \in [Stops -> Times]
  /\ tauCurr \in [Stops -> Times]
  /\ labels \in [0..Rounds -> [Stops -> Label \cup {Nil}]]
  /\ marked \subseteq Stops
  /\ fresh \subseteq Stops
  /\ todo \subseteq Stops \cup Routes
  /\ route \in Routes \cup {Nil}
  /\ pos \in Nat
  /\ trip \in Trips \cup {Nil}
  /\ board \in Stops \cup {Nil}

\* Do the trips of a direction visit the stops that they share in one order,
\* and none of them a stop twice?
Straight(q) ==
  \A r \in Routes : \A t, u \in q.trips[r] : \A i, j \in DOMAIN u.visits :
    /\ i < j
    /\ Serves(t, u.visits[i].stop)
    /\ Serves(t, u.visits[j].stop)
    => StopIdx(t, u.visits[i].stop) < StopIdx(t, u.visits[j].stop)

\* A ride goes forward on a trip that runs: it boards at a stop that was
\* reached in an earlier round, in time, and alights at a later visit.
RideOK(k, s, l) ==
  /\ l.trip \in plan.trips[l.route]
  /\ l.trip.id \notin plan.exclude
  /\ Serves(l.trip, l.from) /\ Serves(l.trip, s)
  /\ StopIdx(l.trip, l.from) < StopIdx(l.trip, s)
  /\ l.time = Arr(l.trip, s)
  /\ \E j \in 0..(k - 1) :
       labels[j][l.from] # Nil /\ labels[j][l.from].time <= Dep(l.trip, l.from)

\* A walk is from the origin, or from a stop that was reached in time in the
\* same round.
WalkOK(k, s, l) ==
  IF l.from = Origin
  THEN k = 0 /\ l.time = AccessTime(s)
  ELSE /\ labels[k][l.from] # Nil
       /\ labels[k][l.from].time + plan.foot[l.from][s] <= l.time

\* Whatever the order of the loops, each label tells how its stop is reached
\* at its time: across rounds, with the arrays and labels that later walks and
\* routes overwrite (raptor.go:467, 484, 533).
LabelsAreJourneys ==
  Straight(plan) =>
    \A k \in 0..Rounds, s \in Stops :
      labels[k][s] # Nil =>
        IF labels[k][s].trip = Nil THEN WalkOK(k, s, labels[k][s])
                                   ELSE RideOK(k, s, labels[k][s])
=============================================================================
