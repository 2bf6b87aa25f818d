-------------------------- MODULE TripPlannerProofs --------------------------
(***************************************************************************)
(* Proofs about TripPlanner and the labels that TripPlans goes back by,    *)
(* for every timetable, every number of rounds and every order in which    *)
(* the code ranges over its maps.                                          *)
(*                                                                         *)
(* Four invariants follow each other.  IInv says what the labels tell;     *)
(* EarlyInv that no ride is missed; WaysInv with LabelsInv that labels     *)
(* lead back to the origin, so that the itineraries can be gone; SoonInv   *)
(* that the rounds keep up with the reference: it walks on only from rides *)
(* ahead of every label that, by the third, the planner may have had.      *)
(***************************************************************************)
EXTENDS TripPlans, FiniteSetTheorems, WellFoundedInduction, TLAPS

-----------------------------------------------------------------------------
(* The timetable.                                                          *)

\* stopIdx is a visit to the stop.
LEMMA LastVisit ==
  ASSUME NEW t \in Trips, NEW s, Serves(t, s)
  PROVE  /\ StopIdx(t, s) \in DOMAIN t.visits
         /\ t.visits[StopIdx(t, s)].stop = s
  <1> USE PlannerAssumption DEF PlannerAssumption
  <1> DEFINE n == Len(t.visits)
             at == {i \in 1..n : t.visits[i].stop = s}
             back == {n - i : i \in at}
  <1>1. n \in Nat /\ DOMAIN t.visits = 1..n
    OBVIOUS
  <1>2. back \subseteq Nat /\ back # {}
    <2>1. PICK i \in DOMAIN t.visits : t.visits[i].stop = s
      BY DEF Serves
    <2>2. i \in at
      BY <1>1, <2>1
    <2>3. n - i \in back
      BY <2>2
    <2>4. \A j \in at : n - j \in Nat
      BY <1>1
    <2> QED BY <2>3, <2>4
  <1> HIDE DEF back
  <1> DEFINE less == {p \in Nat \X Nat : p[1] < p[2]}
  <1>3. PICK m \in back : \A k \in back : ~ (<<k, m>> \in less)
    <2>1. less = OpToRel(<, Nat)
      BY DEF OpToRel
    <2>2. IsWellFoundedOn(less, Nat)
      BY <2>1, NatLessThanWellFounded
    <2> HIDE DEF less
    <2> QED BY <1>2, <2>2, WFMin
  <1>4. \A k \in back : m <= k
    <2>1. ASSUME NEW k \in back PROVE m <= k
      <3>1. k \in Nat /\ m \in Nat
        BY <1>2
      <3>2. <<k, m>> \notin less
        BY <1>3
      <3>3. ~ (k < m)
        BY <3>1, <3>2
      <3> QED BY <3>1, <3>3
    <2> QED BY <2>1
  <1>5. PICK i \in at : m = n - i
    BY DEF back
  <1>6. ASSUME NEW j \in at PROVE j <= i
    <2>1. n - j \in back
      BY DEF back
    <2>2. m <= n - j
      BY <1>4, <2>1
    <2> QED BY <1>1, <1>5, <2>2
  <1>7. \E k \in DOMAIN t.visits :
          /\ t.visits[k].stop = s
          /\ \A j \in DOMAIN t.visits : t.visits[j].stop = s => j <= k
    BY <1>1, <1>5, <1>6
  <1> QED BY <1>7 DEF StopIdx

LEMMA VisitTimes ==
  ASSUME NEW t \in Trips, NEW s, Serves(t, s)
  PROVE  /\ Arr(t, s) \in Nat /\ Arr(t, s) < Infinity
         /\ Dep(t, s) \in Nat /\ Dep(t, s) < Infinity
         /\ StopIdx(t, s) \in Nat \ {0}
  <1> USE PlannerAssumption DEF PlannerAssumption
  <1> DEFINE i == StopIdx(t, s)
  <1>1. i \in DOMAIN t.visits
    BY LastVisit
  <1>2. t.visits \in Seq(Visit)
    OBVIOUS
  <1> HIDE DEF i
  <1>3. t.visits[i] \in Visit /\ i \in Nat \ {0}
    BY <1>1, <1>2
  <1>4. t.visits[i].arr \in Nat /\ t.visits[i].dep \in Nat
    BY <1>3 DEF Visit
  <1>5. t.visits[i].arr < Infinity /\ t.visits[i].dep < Infinity
    BY <1>1
  <1> QED BY <1>3, <1>4, <1>5 DEF Arr, Dep, i

\* The trips of a route, in order, are trips of the route.
LEMMA SortedTrips ==
  ASSUME NEW T \in SUBSET Trips, NEW q \in Sorted(T)
  PROVE  q \in Seq(Trips) /\ \A i \in DOMAIN q : q[i] \in T
  <1> USE PlannerAssumption DEF PlannerAssumption
  <1>1. Cardinality(T) \in Nat
    BY FS_Subset, FS_CardinalityType
  <1>2. q \in [1..Cardinality(T) -> T]
    BY DEF Sorted
  <1> QED BY <1>1, <1>2

LEMMA Bounds ==
  /\ Rounds \in Nat /\ Infinity \in Nat
  /\ Nil \notin Trips /\ Nil \notin Stops /\ Nil \notin Label
  /\ Origin \notin Stops
  BY PlannerAssumption DEF PlannerAssumption

LEMMA PlanParts ==
  ASSUME plan \in Plans
  PROVE  /\ \A r \in Routes : plan.trips[r] \in SUBSET Trips
         /\ \A s, u \in Stops : plan.foot[s][u] \in Nat /\ plan.metres[s][u] \in Nat
         /\ \A s \in Stops : AccessTime(s) \in Nat
  <1>1. plan \in PlanType
    BY PlannerAssumption DEF PlannerAssumption
  <1>2. /\ plan.trips \in [Routes -> SUBSET Trips]
        /\ plan.foot \in [Stops -> [Stops -> Times]]
        /\ plan.metres \in [Stops -> [Stops -> Nat]]
        /\ plan.access \in [Stops -> Times]
        /\ plan.depart \in Nat
    BY <1>1 DEF PlanType
  <1>3. Times \subseteq Nat
    BY Bounds DEF Times
  <1>4. ASSUME NEW s \in Stops
        PROVE  AccessTime(s) \in Nat
    <2>1. plan.access[s] \in Nat
      BY <1>2, <1>3
    <2> QED BY <1>2, <2>1 DEF AccessTime
  <1> QED BY <1>2, <1>3, <1>4

-----------------------------------------------------------------------------
(* Types.                                                                  *)

\* Where the loops are: what they still have to visit, and on which trips.
Shape ==
  /\ \A r \in Routes : \A i \in DOMAIN order[r] : order[r][i] \in plan.trips[r]
  /\ pc = "foot" => round = 0
  /\ pc \in {"foot", "walk"} => todo \subseteq Stops
  /\ pc \in {"scan", "ride", "walk"} => round # 0
  /\ pc \in {"scan", "ride"} => \A r \in todo : r \in Routes /\ order[r] # <<>>
  /\ pc = "ride" => /\ route \in Routes
                    /\ order[route] # <<>>
                    /\ pos # 0
                    /\ trip # Nil => board \in Stops

LEMMA InitTypes == Init => TypeOK /\ Shape
  <1> SUFFICES ASSUME Init PROVE TypeOK /\ Shape
    OBVIOUS
  <1>1. plan \in Plans
    BY DEF Init
  <1>2. /\ \A r \in Routes : order[r] \in Seq(Trips)
        /\ \A r \in Routes : \A i \in DOMAIN order[r] : order[r][i] \in plan.trips[r]
    BY <1>1, PlanParts, SortedTrips DEF Init
  <1>3. order \in [Routes -> Seq(Trips)]
    BY <1>2 DEF Init
  <1>4. tauStar \in [Stops -> Times]
    <2>1. \A s \in Stops : s \in Near => AccessTime(s) \in Times
      BY <1>1, PlanParts, Bounds DEF Near, Times
    <2> QED BY <2>1, Bounds DEF Init, Times
  <1>5. labels \in [0..Rounds -> [Stops -> Label \cup {Nil}]]
    <2>1. \A s \in Stops : Walked(Origin, AccessTime(s)) \in Label
      BY <1>1, PlanParts DEF Walked, Label
    <2> QED BY <2>1 DEF Init
  <1>6. TypeOK
    BY <1>1, <1>3, <1>4, <1>5, Bounds DEF Init, TypeOK, Near
  <1>7. Shape
    BY <1>2 DEF Init, Shape, Near
  <1> QED BY <1>6, <1>7

LEMMA StepTypes ==
  ASSUME TypeOK, Shape, [Next]_vars
  PROVE  TypeOK' /\ Shape'
  <1> USE Bounds
  <1>1. /\ plan \in Plans /\ Times \subseteq Nat /\ round \in Nat
        /\ \A x \in Stops : /\ tauStar[x] \in Nat /\ tauPrev[x] \in Nat
                            /\ tauCurr[x] \in Nat
        /\ \A x \in Stops : tauPrev[x] <= Infinity /\ tauCurr[x] <= Infinity
    BY DEF TypeOK, Times
  <1>2. ASSUME NEW s \in Stops, FirstWalk(s)
        PROVE  TypeOK' /\ Shape'
    <2> DEFINE better == {u \in Stops : Reached(tauPrev, s, u) < tauPrev[u]}
    <2>1. ASSUME NEW u \in better
          PROVE  /\ Reached(tauPrev, s, u) \in Times
                 /\ Walked(s, Reached(tauPrev, s, u)) \in Label
      <3>1. plan.foot[s][u] \in Nat /\ u \in Stops
        BY <1>1, PlanParts
      <3>2. Reached(tauPrev, s, u) \in Nat
        BY <1>1, <3>1 DEF Reached
      <3>3. Reached(tauPrev, s, u) \in Times
        BY <1>1, <3>2 DEF Times
      <3> QED BY <3>2, <3>3 DEF Walked, Label
    <2>2. /\ tauPrev' \in [Stops -> Times] /\ tauStar' \in [Stops -> Times]
          /\ labels' \in [0..Rounds -> [Stops -> Label \cup {Nil}]]
          /\ marked' \subseteq Stops /\ todo' \subseteq Stops
      BY <1>2, <2>1 DEF FirstWalk, TypeOK, Shape
    <2> HIDE DEF better
    <2> QED BY <1>2, <2>2 DEF FirstWalk, TypeOK, Shape, scan
  <1>3. CASE FirstWalksDone \/ Stop \/ EndScan
    BY <1>3 DEF FirstWalksDone, Stop, EndScan, TypeOK, Shape, tau, scan
  <1>4. CASE Begin
    BY <1>4 DEF Begin, TypeOK, Shape, scan
  <1>5. ASSUME NEW r \in Routes, StartScan(r)
        PROVE  TypeOK' /\ Shape'
    <2>1. order[r] # <<>> /\ r \in todo
      BY <1>5 DEF StartScan, Shape
    <2>2. Rep(r) \in Trips
      BY <2>1 DEF Rep, TypeOK
    <2>3. pos' \in Nat \ {0}
      BY <1>5, <2>2, VisitTimes DEF StartScan, Starts
    <2> QED BY <1>5, <2>1, <2>3 DEF StartScan, TypeOK, Shape, tau
  <1>6. CASE Ride
    <2> DEFINE s == Rep(route).visits[pos].stop
    <2>1. Rep(route) \in Trips
      BY <1>6 DEF Ride, Rep, TypeOK, Shape
    <2>2. s \in Stops
      <3>1. pos \in 1..Len(Rep(route).visits) /\ Rep(route).visits \in Seq(Visit)
        BY <1>6, <2>1, PlannerAssumption
           DEF Ride, TypeOK, Shape, PlannerAssumption
      <3>2. Rep(route).visits[pos] \in Visit
        BY <3>1
      <3> QED BY <3>2 DEF Visit
    <2> HIDE DEF s
    <2>3. /\ tauCurr' \in [Stops -> Times] /\ tauStar' \in [Stops -> Times]
          /\ labels' \in [0..Rounds -> [Stops -> Label \cup {Nil}]]
          /\ fresh' \subseteq Stops
      <3>1. Alight(s)
        BY <1>6 DEF Ride, s
      <3>2. CASE Improves(s)
        <4>1. trip \in Trips /\ Arr(trip, s) \in Times
          BY <3>2, VisitTimes DEF Improves, TypeOK, Times
        <4>2. Rode(route, trip, board, Arr(trip, s)) \in Label
          <5>1. route \in Routes /\ board \in Stops
            BY <1>6, <3>2 DEF Ride, Shape, Improves
          <5> QED BY <4>1, <5>1, <1>1 DEF Rode, Label
        <4> DEFINE l == Rode(route, trip, board, Arr(trip, s))
        <4>3. /\ tauCurr' = [tauCurr EXCEPT ![s] = Arr(trip, s)]
              /\ tauStar' = [tauStar EXCEPT ![s] = Arr(trip, s)]
              /\ labels' = [labels EXCEPT ![round][s] = l]
              /\ fresh' = fresh \cup {s}
          BY <3>1, <3>2 DEF Alight
        <4>4. l \in Label
          BY <4>2
        <4> HIDE DEF l
        <4> QED BY <2>2, <4>1, <4>3, <4>4 DEF TypeOK
      <3>3. CASE ~Improves(s)
        BY <3>1, <3>3 DEF Alight, TypeOK
      <3> QED BY <3>2, <3>3
    <2>4. trip' \in Trips \cup {Nil} /\ board' \in Stops \cup {Nil}
      BY <1>6, <2>2, SMTT(20) DEF Ride, Board, s, TypeOK, Shape, Boardable, Catchable
    <2>5. trip' # Nil => board' \in Stops
      <3>1. \/ UNCHANGED <<trip, board>>
            \/ board' = s
        BY <1>6 DEF Ride, Board, s
      <3> QED BY <1>6, <2>2, <3>1 DEF Ride, Shape
    <2>6. /\ UNCHANGED <<plan, order, pc, round, tauPrev, marked, todo, route>>
          /\ pc = "ride" /\ pos' = pos + 1
      BY <1>6 DEF Ride
    <2>7. TypeOK'
      BY <2>3, <2>4, <2>6 DEF TypeOK
    <2>8. Shape'
      BY <2>5, <2>6 DEF TypeOK, Shape
    <2> QED BY <2>7, <2>8
  <1>7. CASE ScansDone
    BY <1>7 DEF ScansDone, TypeOK, Shape, tau, scan
  <1>8. ASSUME NEW s \in Stops, Walk(s)
        PROVE  TypeOK' /\ Shape'
    <2> DEFINE better == {u \in Stops : /\ Reached(tauCurr, s, u) < tauCurr[u]
                                        /\ Reached(tauCurr, s, u) < tauStar[u]}
    <2>1. ASSUME NEW u \in better
          PROVE  /\ Reached(tauCurr, s, u) \in Times
                 /\ Walked(s, Reached(tauCurr, s, u)) \in Label
      <3>1. plan.foot[s][u] \in Nat /\ u \in Stops
        BY <1>1, PlanParts
      <3>2. Reached(tauCurr, s, u) \in Nat
        BY <1>1, <3>1 DEF Reached
      <3>3. Reached(tauCurr, s, u) \in Times
        BY <1>1, <3>2 DEF Times
      <3> QED BY <3>2, <3>3 DEF Walked, Label
    <2>2. /\ tauCurr' \in [Stops -> Times] /\ tauStar' \in [Stops -> Times]
          /\ labels' \in [0..Rounds -> [Stops -> Label \cup {Nil}]]
          /\ fresh' \subseteq Stops
      BY <1>8, <2>1 DEF Walk, TypeOK
    <2> HIDE DEF better
    <2> QED BY <1>8, <2>2 DEF Walk, TypeOK, Shape, scan
  <1>9. CASE End
    BY <1>9 DEF End, TypeOK, Shape, scan
  <1>10. CASE UNCHANGED vars
    BY <1>10 DEF vars, tau, scan, TypeOK, Shape
  <1> QED BY <1>2, <1>3, <1>4, <1>5, <1>6, <1>7, <1>8, <1>9, <1>10 DEF Next

-----------------------------------------------------------------------------
(* Times: whatever an array holds, a label tells.                          *)

At(k, s, time) == labels[k][s] # Nil /\ labels[k][s].time = time

Busy == pc \in {"scan", "ride", "walk"}

\* The last round whose labels are final for the trips boarded now.
Past == IF Busy THEN round - 1 ELSE round

\* Later rounds have no labels.
Blank == \A k \in 0..Rounds, s \in Stops : k > round => labels[k][s] = Nil

\* A time that a trip can be boarded after is in a label of an earlier round.
Prev ==
  \A s \in Stops : tauPrev[s] < Infinity => \E j \in 0..Past : At(j, s, tauPrev[s])

\* On the first walks the arrays and the labels of round 0 agree.
OnFoot ==
  pc = "foot" =>
    /\ todo \subseteq marked
    /\ \A s \in marked : tauPrev[s] < Infinity
    /\ \A s \in Stops : tauPrev[s] < Infinity => At(0, s, tauPrev[s])
    /\ \A s \in Stops : labels[0][s] # Nil => labels[0][s].time = tauPrev[s]

\* In a round its labels agree with tauCurr, and what it reached has one.
InRound ==
  Busy =>
    /\ \A s \in Stops : tauCurr[s] < Infinity =>
         \E j \in 0..round : At(j, s, tauCurr[s])
    /\ \A s \in Stops : labels[round][s] # Nil => labels[round][s].time = tauCurr[s]
    /\ \A s \in fresh : labels[round][s] # Nil
    /\ pc = "walk" => todo \subseteq fresh

Told == Blank /\ Prev /\ OnFoot /\ InRound

\* Labels are only replaced by earlier ones.
OnlyEarlier ==
  \A k \in 0..Rounds, s \in Stops :
    labels[k][s] # Nil => /\ labels'[k][s] # Nil
                          /\ labels'[k][s].time <= labels[k][s].time

LEMMA WalkedLabel ==
  ASSUME NEW s \in Stops \cup {Origin}, NEW t \in Nat
  PROVE  /\ Walked(s, t) \in Label /\ Walked(s, t) # Nil
         /\ Walked(s, t).time = t /\ Walked(s, t).trip = Nil
         /\ Walked(s, t).from = s
  <1>1. Walked(s, t) \in Label
    BY DEF Walked, Label
  <1> QED BY <1>1, Bounds DEF Walked

LEMMA RodeLabel ==
  ASSUME NEW r \in Routes, NEW t \in Trips, NEW s \in Stops, NEW a \in Nat
  PROVE  /\ Rode(r, t, s, a) \in Label /\ Rode(r, t, s, a) # Nil
         /\ Rode(r, t, s, a).time = a /\ Rode(r, t, s, a).trip = t
         /\ Rode(r, t, s, a).from = s /\ Rode(r, t, s, a).route = r
  <1>1. Rode(r, t, s, a) \in Label
    BY DEF Rode, Label
  <1> QED BY <1>1, Bounds DEF Rode

\* What a first walk does to the arrays and labels.
LEMMA FirstWalkEffect ==
  ASSUME TypeOK, Shape, NEW s \in Stops, FirstWalk(s)
  PROVE  \A u \in Stops :
           \/ /\ tauPrev'[u] = tauPrev[u] /\ labels'[0][u] = labels[0][u]
              /\ u \in marked' => u \in marked
           \/ /\ Reached(tauPrev, s, u) \in Nat
              /\ Reached(tauPrev, s, u) < tauPrev[u]
              /\ tauPrev'[u] = Reached(tauPrev, s, u)
              /\ labels'[0][u] = Walked(s, Reached(tauPrev, s, u))
  <1> DEFINE better == {u \in Stops : Reached(tauPrev, s, u) < tauPrev[u]}
  <1> SUFFICES ASSUME NEW u \in Stops
               PROVE  \/ /\ tauPrev'[u] = tauPrev[u] /\ labels'[0][u] = labels[0][u]
                         /\ u \in marked' => u \in marked
                      \/ /\ Reached(tauPrev, s, u) \in Nat
                         /\ Reached(tauPrev, s, u) < tauPrev[u]
                         /\ tauPrev'[u] = Reached(tauPrev, s, u)
                         /\ labels'[0][u] = Walked(s, Reached(tauPrev, s, u))
    OBVIOUS
  <1>1. /\ tauPrev'[u] = IF u \in better THEN Reached(tauPrev, s, u) ELSE tauPrev[u]
        /\ labels'[0][u] = IF u \in better THEN Walked(s, Reached(tauPrev, s, u))
                                           ELSE labels[0][u]
        /\ marked' = marked \cup better
    BY Bounds DEF FirstWalk, TypeOK
  <1>2. Reached(tauPrev, s, u) \in Nat
    <2>1. plan.foot[s][u] \in Nat
      BY PlanParts DEF TypeOK
    <2>2. tauPrev[s] \in Nat
      BY Bounds DEF TypeOK, Times
    <2> QED BY <2>1, <2>2 DEF Reached
  <1> QED BY <1>1, <1>2

\* What a walk does to them.
LEMMA WalkEffect ==
  ASSUME TypeOK, Shape, NEW s \in Stops, Walk(s)
  PROVE  \A u \in Stops :
           \/ /\ tauCurr'[u] = tauCurr[u] /\ labels'[round][u] = labels[round][u]
              /\ u \in fresh' <=> u \in fresh
           \/ /\ Reached(tauCurr, s, u) \in Nat
              /\ Reached(tauCurr, s, u) < tauCurr[u]
              /\ tauCurr'[u] = Reached(tauCurr, s, u)
              /\ labels'[round][u] = Walked(s, Reached(tauCurr, s, u))
              /\ u \in fresh'
  <1> DEFINE better == {u \in Stops : /\ Reached(tauCurr, s, u) < tauCurr[u]
                                      /\ Reached(tauCurr, s, u) < tauStar[u]}
             w(u) == Walked(s, Reached(tauCurr, s, u))
  <1> SUFFICES ASSUME NEW u \in Stops
               PROVE  \/ /\ tauCurr'[u] = tauCurr[u]
                         /\ labels'[round][u] = labels[round][u]
                         /\ u \in fresh' <=> u \in fresh
                      \/ /\ Reached(tauCurr, s, u) \in Nat
                         /\ Reached(tauCurr, s, u) < tauCurr[u]
                         /\ tauCurr'[u] = Reached(tauCurr, s, u)
                         /\ labels'[round][u] = w(u)
                         /\ u \in fresh'
    OBVIOUS
  <1>1. /\ tauCurr'[u] = IF u \in better THEN Reached(tauCurr, s, u) ELSE tauCurr[u]
        /\ labels'[round][u] = IF u \in better THEN w(u) ELSE labels[round][u]
        /\ fresh' = fresh \cup better
    BY DEF Walk, TypeOK
  <1>2. Reached(tauCurr, s, u) \in Nat
    <2>1. plan.foot[s][u] \in Nat
      BY PlanParts DEF TypeOK
    <2>2. tauCurr[s] \in Nat
      BY Bounds DEF TypeOK, Times
    <2> QED BY <2>1, <2>2 DEF Reached
  <1> QED BY <1>1, <1>2

\* What alighting does to them.
LEMMA AlightEffect ==
  ASSUME TypeOK, Shape, pc = "ride", NEW s \in Stops, Alight(s)
  PROVE  /\ \A u \in Stops :
              \/ /\ tauCurr'[u] = tauCurr[u] /\ labels'[round][u] = labels[round][u]
                 /\ u \in fresh' <=> u \in fresh
              \/ /\ u = s /\ trip \in Trips /\ Serves(trip, s)
                 /\ route \in Routes /\ board \in Stops
                 /\ Arr(trip, s) \in Nat /\ Arr(trip, s) < tauCurr[s]
                 /\ tauCurr'[s] = Arr(trip, s)
                 /\ labels'[round][s] = Rode(route, trip, board, Arr(trip, s))
                 /\ s \in fresh'
         /\ \A k \in 0..Rounds : k # round => labels'[k] = labels[k]
  <1>1. CASE Improves(s)
    <2> DEFINE l == Rode(route, trip, board, Arr(trip, s))
    <2>1. /\ trip \in Trips /\ Serves(trip, s) /\ Arr(trip, s) < tauCurr[s]
          /\ route \in Routes /\ board \in Stops
      BY <1>1 DEF Improves, TypeOK, Shape
    <2>2. Arr(trip, s) \in Nat
      BY <2>1, VisitTimes
    <2>3. /\ tauCurr' = [tauCurr EXCEPT ![s] = Arr(trip, s)]
          /\ labels' = [labels EXCEPT ![round][s] = l]
          /\ fresh' = fresh \cup {s}
      BY <1>1 DEF Alight
    <2> HIDE DEF l
    <2>4. /\ \A k \in 0..Rounds : k # round => labels'[k] = labels[k]
          /\ \A u \in Stops \ {s} : /\ labels'[round][u] = labels[round][u]
                                    /\ tauCurr'[u] = tauCurr[u]
                                    /\ u \in fresh' <=> u \in fresh
          /\ labels'[round][s] = l /\ tauCurr'[s] = Arr(trip, s) /\ s \in fresh'
      BY <2>3 DEF TypeOK
    <2> QED BY <2>1, <2>2, <2>4 DEF l
  <1>2. CASE ~Improves(s)
    BY <1>2 DEF Alight
  <1> QED BY <1>1, <1>2

LEMMA InitTold == Init => Told
  <1> SUFFICES ASSUME Init PROVE Told
    OBVIOUS
  <1>1. TypeOK /\ Shape /\ plan \in Plans
    BY InitTypes DEF TypeOK
  <1>2. ASSUME NEW s \in Stops
        PROVE  /\ s \in Near => /\ labels[0][s] = Walked(Origin, AccessTime(s))
                                /\ tauPrev[s] = AccessTime(s)
                                /\ AccessTime(s) \in Nat
               /\ s \notin Near => labels[0][s] = Nil /\ tauPrev[s] = Infinity
               /\ \A k \in 0..Rounds : k # 0 => labels[k][s] = Nil
    BY <1>1, PlanParts, Bounds DEF Init
  <1>3. ASSUME NEW s \in Stops
        PROVE  /\ tauPrev[s] < Infinity => At(0, s, tauPrev[s])
               /\ labels[0][s] # Nil => labels[0][s].time = tauPrev[s]
               /\ s \in Near => tauPrev[s] < Infinity
    <2>1. CASE s \in Near
      BY <1>2, <2>1, WalkedLabel DEF At, Near
    <2>2. CASE s \notin Near
      BY <1>2, <2>2, Bounds
    <2> QED BY <2>1, <2>2
  <1>4. pc = "foot" /\ round = 0 /\ todo = Near /\ marked = Near /\ Near \subseteq Stops
    BY DEF Init, Near
  <1>5. Past = 0 /\ ~Busy
    BY <1>4 DEF Past, Busy
  <1>6. Blank
    BY <1>2, <1>4 DEF Blank
  <1>7. Prev
    BY <1>3, <1>5 DEF Prev
  <1>8. OnFoot
    BY <1>3, <1>4 DEF OnFoot
  <1> QED BY <1>5, <1>6, <1>7, <1>8 DEF Told, InRound

LEMMA FirstWalkTold ==
  ASSUME TypeOK, Shape, Told, NEW s \in Stops, FirstWalk(s)
  PROVE  Told' /\ OnlyEarlier
  <1>1. /\ pc = "foot" /\ pc' = "foot" /\ round = 0 /\ round' = 0
        /\ s \in todo /\ ~Busy' /\ Past' = 0 /\ Past = 0
    BY DEF FirstWalk, Shape, Busy, Past
  <1>2. /\ todo' \subseteq marked'
        /\ marked' = marked \cup {u \in Stops : Reached(tauPrev, s, u) < tauPrev[u]}
        /\ \A k \in 0..Rounds : k # 0 => labels'[k] = labels[k]
    BY <1>1 DEF FirstWalk, TypeOK, Told, OnFoot
  <1>3. ASSUME NEW u \in Stops
        PROVE  /\ tauPrev'[u] < Infinity => At(0, u, tauPrev[u])'
               /\ labels'[0][u] # Nil => labels'[0][u].time = tauPrev'[u]
               /\ u \in marked' => tauPrev'[u] < Infinity
               /\ labels[0][u] # Nil => /\ labels'[0][u] # Nil
                                        /\ labels'[0][u].time <= labels[0][u].time
    <2>1. /\ tauPrev[u] < Infinity => At(0, u, tauPrev[u])
          /\ labels[0][u] # Nil => labels[0][u].time = tauPrev[u]
          /\ u \in marked => tauPrev[u] < Infinity
          /\ tauPrev[u] \in Nat /\ tauPrev[u] <= Infinity /\ Infinity \in Nat
      BY <1>1, Bounds DEF Told, OnFoot, TypeOK, Times
    <2>2. CASE /\ tauPrev'[u] = tauPrev[u] /\ labels'[0][u] = labels[0][u]
               /\ u \in marked' => u \in marked
      BY <2>1, <2>2 DEF At
    <2>3. CASE /\ Reached(tauPrev, s, u) \in Nat
               /\ Reached(tauPrev, s, u) < tauPrev[u]
               /\ tauPrev'[u] = Reached(tauPrev, s, u)
               /\ labels'[0][u] = Walked(s, Reached(tauPrev, s, u))
      BY <2>1, <2>3, WalkedLabel DEF At
    <2> QED BY <2>2, <2>3, FirstWalkEffect
  <1>4. OnFoot'
    BY <1>2, <1>3, <1>1 DEF OnFoot, TypeOK
  <1>5. Prev'
    BY <1>1, <1>3 DEF Prev
  <1>6. Blank'
    BY <1>1, <1>2 DEF Blank, Told
  <1>7. OnlyEarlier
    <2> SUFFICES ASSUME NEW k \in 0..Rounds, NEW u \in Stops, labels[k][u] # Nil
                 PROVE  /\ labels'[k][u] # Nil
                        /\ labels'[k][u].time <= labels[k][u].time
      BY DEF OnlyEarlier
    <2>1. CASE k = 0
      BY <1>3, <2>1
    <2>2. CASE k # 0
      <3>1. labels[k][u].time \in Nat
        BY DEF TypeOK, Label
      <3> QED BY <1>2, <2>2, <3>1
    <2> QED BY <2>1, <2>2
  <1> QED BY <1>1, <1>4, <1>5, <1>6, <1>7 DEF Told, InRound

\* The step of a round: at each stop nothing changes, or a label and its time
\* are replaced by earlier ones.
LEMMA RoundStepTold ==
  ASSUME TypeOK, Shape, Told, Busy, Busy', pc' = pc, round' = round,
         tauPrev' = tauPrev, pc = "walk" => todo' \subseteq fresh',
         fresh' \subseteq Stops,
         \A k \in 0..Rounds : k # round => labels'[k] = labels[k],
         \A u \in Stops :
           \/ /\ tauCurr'[u] = tauCurr[u] /\ labels'[round][u] = labels[round][u]
              /\ u \in fresh' <=> u \in fresh
           \/ /\ tauCurr'[u] \in Nat /\ tauCurr'[u] < tauCurr[u]
              /\ labels'[round][u] # Nil
              /\ labels'[round][u].time = tauCurr'[u]
  PROVE  Told' /\ OnlyEarlier
  <1>1. /\ round \in 0..Rounds /\ round # 0 /\ Past = round - 1 /\ Past' = round - 1
        /\ pc # "foot" /\ pc' # "foot"
    BY DEF TypeOK, Busy, Shape, Past
  <1>2. ASSUME NEW u \in Stops
        PROVE  /\ tauCurr'[u] < Infinity => \E j \in 0..round : At(j, u, tauCurr[u])'
               /\ labels'[round][u] # Nil => labels'[round][u].time = tauCurr'[u]
               /\ u \in fresh' => labels'[round][u] # Nil
               /\ labels[round][u] # Nil =>
                    /\ labels'[round][u] # Nil
                    /\ labels'[round][u].time <= labels[round][u].time
    <2>1. /\ labels[round][u] # Nil => labels[round][u].time = tauCurr[u]
          /\ u \in fresh => labels[round][u] # Nil
          /\ tauCurr[u] \in Nat
      BY Bounds DEF Told, InRound, TypeOK, Times
    <2>2. CASE /\ tauCurr'[u] = tauCurr[u] /\ labels'[round][u] = labels[round][u]
               /\ u \in fresh' <=> u \in fresh
      <3>1. ASSUME tauCurr'[u] < Infinity
            PROVE  \E j \in 0..round : At(j, u, tauCurr[u])'
        <4>1. PICK j \in 0..round : At(j, u, tauCurr[u])
          BY <2>2, <3>1 DEF Told, InRound
        <4>2. j \in 0..Rounds
          BY <1>1, Bounds
        <4>3. labels'[j][u] = labels[j][u]
          <5>1. CASE j = round
            BY <2>2, <5>1
          <5>2. CASE j # round
            BY <4>2, <5>2
          <5> QED BY <5>1, <5>2
        <4> QED BY <2>2, <4>1, <4>3 DEF At
      <3> QED BY <2>1, <2>2, <3>1
    <2>3. CASE /\ tauCurr'[u] \in Nat /\ tauCurr'[u] < tauCurr[u]
               /\ labels'[round][u] # Nil
               /\ labels'[round][u].time = tauCurr'[u]
      <3>1. At(round, u, tauCurr[u])' /\ round \in 0..round
        BY <1>1, <2>3 DEF At
      <3> QED BY <2>1, <2>3, <3>1
    <2> QED BY <2>2, <2>3
  <1>3. InRound'
    BY <1>2 DEF InRound
  <1>4. Prev'
    <2> SUFFICES ASSUME NEW u \in Stops, tauPrev[u] < Infinity
                 PROVE  \E j \in 0..(round - 1) : At(j, u, tauPrev[u])'
      BY <1>1 DEF Prev
    <2>1. PICK j \in 0..(round - 1) : At(j, u, tauPrev[u])
      BY <1>1 DEF Prev, Told
    <2>2. labels'[j] = labels[j]
      <3>1. j \in 0..Rounds /\ j # round
        BY <1>1, Bounds
      <3> QED BY <3>1
    <2> QED BY <2>1, <2>2 DEF At
  <1>5. Blank'
    BY <1>1 DEF Blank, Told
  <1>6. OnlyEarlier
    <2> SUFFICES ASSUME NEW k \in 0..Rounds, NEW u \in Stops, labels[k][u] # Nil
                 PROVE  /\ labels'[k][u] # Nil
                        /\ labels'[k][u].time <= labels[k][u].time
      BY DEF OnlyEarlier
    <2>1. CASE k = round
      BY <1>2, <2>1
    <2>2. CASE k # round
      <3>1. labels[k][u].time \in Nat
        BY DEF TypeOK, Label
      <3> QED BY <2>2, <3>1
    <2> QED BY <2>1, <2>2
  <1> QED BY <1>1, <1>3, <1>4, <1>5, <1>6 DEF Told, OnFoot

LEMMA SameLabels ==
  ASSUME TypeOK, labels' = labels
  PROVE  OnlyEarlier
  <1>1. \A k \in 0..Rounds, s \in Stops : labels[k][s] # Nil => labels[k][s].time \in Nat
    BY DEF TypeOK, Label
  <1> QED BY <1>1 DEF OnlyEarlier

LEMMA LoopStepTold ==
  ASSUME TypeOK, Told, UNCHANGED <<tau, round, fresh>>, Past' = Past, pc' # "foot",
         Busy' => Busy, pc' = "walk" => todo' \subseteq fresh'
  PROVE  Told' /\ OnlyEarlier
  <1>1. UNCHANGED <<labels, tauPrev, tauCurr>>
    BY DEF tau
  <1>2. Blank' /\ Prev'
    BY <1>1 DEF Told, Blank, Prev, At
  <1>3. InRound'
    BY <1>1 DEF Told, InRound, At
  <1> QED BY <1>1, <1>2, <1>3, SameLabels DEF Told, OnFoot

LEMMA StepTold ==
  ASSUME TypeOK, Shape, Told, [Next]_vars
  PROVE  Told' /\ OnlyEarlier
  <1>1. ASSUME NEW s \in Stops, FirstWalk(s)
        PROVE  Told' /\ OnlyEarlier
    BY <1>1, FirstWalkTold
  <1>2. CASE FirstWalksDone \/ Stop \/ EndScan
    BY <1>2, LoopStepTold DEF FirstWalksDone, Stop, EndScan, Past, Busy
  <1>3. CASE Begin
    <2>1. /\ pc = "round" /\ pc' = "scan" /\ round' = round + 1 /\ round < Rounds
          /\ tauCurr' = tauPrev /\ UNCHANGED <<tauPrev, labels>> /\ fresh' = {}
          /\ round \in Nat /\ Rounds \in Nat
      BY <1>3, Bounds DEF Begin, TypeOK
    <2>2. Past = round /\ Past' = round
      BY <2>1 DEF Past, Busy
    <2>3. Blank'
      BY <2>1 DEF Told, Blank
    <2>4. Prev'
      BY <2>1, <2>2 DEF Told, Prev, At
    <2>5. ASSUME NEW s \in Stops
          PROVE  /\ tauPrev[s] < Infinity => \E j \in 0..(round + 1) : At(j, s, tauPrev[s])
                 /\ labels[round + 1][s] = Nil
      <3>1. labels[round + 1][s] = Nil
        <4>1. round + 1 \in 0..Rounds /\ round + 1 > round
          BY <2>1
        <4> QED BY <4>1 DEF Told, Blank
      <3>2. ASSUME tauPrev[s] < Infinity
            PROVE  \E j \in 0..(round + 1) : At(j, s, tauPrev[s])
        <4>1. PICK j \in 0..round : At(j, s, tauPrev[s])
          BY <2>2, <3>2 DEF Told, Prev
        <4>2. j \in 0..(round + 1)
          BY <2>1
        <4> QED BY <4>1, <4>2
      <3> QED BY <3>1, <3>2
    <2>6. InRound'
      BY <2>1, <2>5 DEF InRound, At
    <2> QED BY <2>1, <2>3, <2>4, <2>6, SameLabels DEF Told, OnFoot
  <1>4. ASSUME NEW r \in Routes, StartScan(r)
        PROVE  Told' /\ OnlyEarlier
    BY <1>4, LoopStepTold DEF StartScan, Past, Busy
  <1>5. CASE Ride
    <2> DEFINE s == Rep(route).visits[pos].stop
    <2>1. /\ Alight(s) /\ pc = "ride" /\ pc' = pc
          /\ UNCHANGED <<round, tauPrev>> /\ s \in Stops
      <3>1. pos \in 1..Len(Rep(route).visits) /\ Rep(route) \in Trips
        BY <1>5 DEF Ride, Rep, TypeOK, Shape
      <3>2. Rep(route).visits \in Seq(Visit)
        BY <3>1, PlannerAssumption DEF PlannerAssumption
      <3>3. Rep(route).visits[pos] \in Visit
        BY <3>1, <3>2
      <3> QED BY <1>5, <3>3 DEF Ride, Visit
    <2> HIDE DEF s
    <2>2. /\ Busy /\ Busy' /\ fresh' \subseteq Stops
      BY <2>1, StepTypes DEF Busy, TypeOK
    <2>3. ASSUME NEW u \in Stops
          PROVE  \/ /\ tauCurr'[u] = tauCurr[u]
                    /\ labels'[round][u] = labels[round][u]
                    /\ u \in fresh' <=> u \in fresh
                 \/ /\ tauCurr'[u] \in Nat /\ tauCurr'[u] < tauCurr[u]
                    /\ labels'[round][u] # Nil
                    /\ labels'[round][u].time = tauCurr'[u]
      BY <2>1, AlightEffect, RodeLabel
    <2>4. \A k \in 0..Rounds : k # round => labels'[k] = labels[k]
      BY <2>1, AlightEffect
    <2> QED BY <2>1, <2>2, <2>3, <2>4, RoundStepTold
  <1>6. CASE ScansDone
    BY <1>6, LoopStepTold DEF ScansDone, Past, Busy
  <1>7. ASSUME NEW s \in Stops, Walk(s)
        PROVE  Told' /\ OnlyEarlier
    <2>1. /\ pc = "walk" /\ pc' = pc /\ Busy /\ Busy'
          /\ UNCHANGED <<round, tauPrev>>
          /\ todo' \subseteq todo /\ fresh \subseteq fresh' /\ fresh' \subseteq Stops
          /\ \A k \in 0..Rounds : k # round => labels'[k] = labels[k]
      BY <1>7 DEF Walk, Busy, TypeOK
    <2>2. todo' \subseteq fresh'
      BY <2>1 DEF Told, InRound
    <2>3. ASSUME NEW u \in Stops
          PROVE  \/ /\ tauCurr'[u] = tauCurr[u]
                    /\ labels'[round][u] = labels[round][u]
                    /\ u \in fresh' <=> u \in fresh
                 \/ /\ tauCurr'[u] \in Nat /\ tauCurr'[u] < tauCurr[u]
                    /\ labels'[round][u] # Nil
                    /\ labels'[round][u].time = tauCurr'[u]
      BY <1>7, WalkEffect, WalkedLabel
    <2> QED BY <2>1, <2>2, <2>3, RoundStepTold
  <1>8. CASE End
    <2>1. /\ pc = "walk" /\ pc' = "round" /\ tauPrev' = tauCurr
          /\ UNCHANGED <<labels, round>>
      BY <1>8 DEF End
    <2>2. Past' = round /\ ~Busy'
      BY <2>1 DEF Past, Busy
    <2>3. Prev'
      BY <2>1, <2>2 DEF Told, InRound, Busy, Prev, At
    <2>4. Blank'
      BY <2>1 DEF Told, Blank
    <2> QED BY <2>1, <2>2, <2>3, <2>4, SameLabels DEF Told, OnFoot, InRound
  <1>9. CASE UNCHANGED vars
    <2>1. UNCHANGED <<pc, round, tauPrev, tauCurr, labels, fresh, marked, todo>>
      BY <1>9 DEF vars, tau
    <2>2. Past' = Past /\ Busy' = Busy
      BY <2>1 DEF Past, Busy
    <2>3. Blank' /\ Prev'
      BY <2>1, <2>2 DEF Told, Blank, Prev, At
    <2>4. OnFoot' /\ InRound'
      BY <2>1, <2>2 DEF Told, OnFoot, InRound, At
    <2> QED BY <2>1, <2>3, <2>4, SameLabels DEF Told
  <1> QED BY <1>1, <1>2, <1>3, <1>4, <1>5, <1>6, <1>7, <1>8, <1>9 DEF Next

-----------------------------------------------------------------------------
(* Journeys.                                                               *)

\* Who is on a trip boarded it behind the scan, in time.
Aboard ==
  pc = "ride" /\ trip # Nil =>
    /\ trip \in plan.trips[route] /\ trip.id \notin plan.exclude
    /\ Serves(trip, board)
    /\ \E j \in 0..(round - 1) :
         labels[j][board] # Nil /\ labels[j][board].time <= Dep(trip, board)
    /\ \E p \in DOMAIN Rep(route).visits :
         p < pos /\ Rep(route).visits[p].stop = board

LEMMA RideStop ==
  ASSUME TypeOK, Shape, Ride
  PROVE  /\ Rep(route) \in Trips /\ Rep(route) \in plan.trips[route]
         /\ pos \in DOMAIN Rep(route).visits
         /\ Rep(route).visits[pos].stop \in Stops
  <1>1. /\ Rep(route) \in Trips /\ Rep(route) \in plan.trips[route]
        /\ pos \in 1..Len(Rep(route).visits)
    BY DEF Ride, Rep, TypeOK, Shape
  <1>2. Rep(route).visits \in Seq(Visit)
    BY <1>1, PlannerAssumption DEF PlannerAssumption
  <1>3. Rep(route).visits[pos] \in Visit /\ pos \in DOMAIN Rep(route).visits
    BY <1>1, <1>2
  <1> QED BY <1>1, <1>3 DEF Visit

LEMMA StepAboard ==
  ASSUME TypeOK, Shape, Told, Aboard, [Next]_vars
  PROVE  Aboard'
  <1>1. CASE Ride
    <2> DEFINE s == Rep(route).visits[pos].stop
    <2>1. /\ s \in Stops /\ pos \in DOMAIN Rep(route).visits /\ pos \in Nat
          /\ route \in Routes /\ round # 0 /\ round \in 0..Rounds /\ pc = "ride"
      BY <1>1, RideStop DEF Ride, TypeOK, Shape
    <2>2. /\ UNCHANGED <<plan, order, route, round>> /\ pos' = pos + 1
          /\ Rep(route)' = Rep(route)
      BY <1>1 DEF Ride, Rep
    <2>3. ASSUME NEW j \in 0..(round - 1)
          PROVE  labels'[j] = labels[j]
      <3>1. j \in 0..Rounds /\ j # round
        BY <2>1, Bounds
      <3> QED BY <1>1, <2>1, <3>1, AlightEffect DEF Ride
    <2>4. CASE UNCHANGED <<trip, board>>
      <3>1. ASSUME trip # Nil
            PROVE  /\ \E j \in 0..(round - 1) : /\ labels'[j][board] # Nil
                                                /\ labels'[j][board].time <= Dep(trip, board)
                   /\ \E p \in DOMAIN Rep(route).visits :
                        p < pos + 1 /\ Rep(route).visits[p].stop = board
        <4>1. PICK j \in 0..(round - 1) :
                labels[j][board] # Nil /\ labels[j][board].time <= Dep(trip, board)
          BY <2>1, <3>1 DEF Aboard
        <4>2. PICK p \in DOMAIN Rep(route).visits :
                p < pos /\ Rep(route).visits[p].stop = board
          BY <2>1, <3>1 DEF Aboard
        <4>3. p < pos + 1
          <5>1. p \in Nat
            BY RideStop, <1>1, PlannerAssumption DEF PlannerAssumption
          <5> QED BY <2>1, <4>2, <5>1
        <4> QED BY <2>3, <4>1, <4>2, <4>3
      <3> QED BY <2>1, <2>2, <2>4, <3>1 DEF Aboard, Dep, StopIdx, Serves
    <2>5. CASE \E i \in Boardable(s) : /\ tauPrev[s] < Infinity
                                       /\ trip' = order[route][i]
                                       /\ board' = s
      <3>1. PICK i \in Boardable(s) : /\ tauPrev[s] < Infinity
                                      /\ trip' = order[route][i]
                                      /\ board' = s
        BY <2>5
      <3>2. /\ trip' \in plan.trips[route] /\ trip'.id \notin plan.exclude
            /\ Serves(trip', s) /\ Dep(trip', s) >= tauPrev[s] /\ trip' \in Trips
        BY <2>1, <3>1 DEF Boardable, Catchable, Shape, TypeOK
      <3>3. PICK j \in 0..(round - 1) : At(j, s, tauPrev[s])
        <4>1. Past = round - 1
          BY <2>1 DEF Past, Busy
        <4> QED BY <2>1, <3>1, <4>1 DEF Told, Prev
      <3>4. labels'[j][s] # Nil /\ labels'[j][s].time <= Dep(trip', s)
        BY <2>3, <3>2, <3>3 DEF At
      <3>5. pos < pos + 1
        BY <2>1
      <3> HIDE DEF s
      <3>6. Serves(trip, board)' /\ Dep(trip, board)' = Dep(trip', s)
        BY <3>1, <3>2 DEF Serves, Dep, StopIdx
      <3>7. Rep(route).visits[pos].stop = board'
        BY <3>1 DEF s
      <3> QED BY <2>1, <2>2, <3>1, <3>2, <3>4, <3>5, <3>6, <3>7 DEF Aboard
    <2> HIDE DEF s
    <2>6. Board(s)
      BY <1>1 DEF Ride, s
    <2> QED BY <2>4, <2>5, <2>6 DEF Board
  <1>2. ASSUME NEW r \in Routes, StartScan(r)
        PROVE  Aboard'
    BY <1>2 DEF StartScan, Aboard
  <1>3. CASE UNCHANGED vars
    BY <1>3 DEF vars, tau, scan, Aboard, Rep, Dep, StopIdx, Serves
  <1>4. CASE \/ FirstWalksDone \/ Stop \/ Begin \/ EndScan \/ ScansDone \/ End
             \/ \E s \in Stops : FirstWalk(s) \/ Walk(s)
    <2>1. pc' # "ride"
      BY <1>4 DEF FirstWalksDone, Stop, Begin, EndScan, ScansDone, End, FirstWalk, Walk
    <2> QED BY <2>1 DEF Aboard
  <1> QED BY <1>1, <1>2, <1>3, <1>4 DEF Next

JourneyOK(k, s, l) == IF l.trip = Nil THEN WalkOK(k, s, l) ELSE RideOK(k, s, l)

\* Earlier labels at the stops where it starts keep a journey possible.
LEMMA JourneyKept ==
  ASSUME TypeOK, TypeOK', OnlyEarlier, plan' = plan,
         NEW k \in 0..Rounds, NEW s \in Stops, NEW CONSTANT l \in Label,
         JourneyOK(k, s, l)
  PROVE  JourneyOK(k, s, l)'
  <1>1. ASSUME NEW j \in 0..Rounds, NEW u \in Stops, labels[j][u] # Nil
        PROVE  /\ labels'[j][u] # Nil /\ labels'[j][u].time <= labels[j][u].time
               /\ labels'[j][u].time \in Nat /\ labels[j][u].time \in Nat
    BY <1>1 DEF OnlyEarlier, TypeOK, Label
  <1>2. l.time \in Nat /\ l.from \in Stops \cup {Origin}
    BY DEF Label
  <1>3. CASE l.trip = Nil
    <2>1. WalkOK(k, s, l)
      BY <1>3 DEF JourneyOK
    <2>2. CASE l.from = Origin
      BY <1>3, <2>1, <2>2 DEF JourneyOK, WalkOK, AccessTime
    <2>3. CASE l.from # Origin
      <3>1. /\ l.from \in Stops /\ labels[k][l.from] # Nil
            /\ labels[k][l.from].time + plan.foot[l.from][s] <= l.time
        BY <1>2, <2>1, <2>3 DEF WalkOK
      <3>2. plan.foot[l.from][s] \in Nat
        BY <3>1, PlanParts DEF TypeOK
      <3>3. /\ labels'[k][l.from] # Nil
            /\ labels'[k][l.from].time + plan.foot[l.from][s] <= l.time
        <4> DEFINE a == labels'[k][l.from].time
                   b == labels[k][l.from].time
                   f == plan.foot[l.from][s]
        <4>1. /\ labels'[k][l.from] # Nil /\ a <= b /\ a \in Nat /\ b \in Nat
              /\ f \in Nat /\ b + f <= l.time
          BY <1>1, <3>1, <3>2
        <4> HIDE DEF a, b, f
        <4>2. a + f <= l.time
          BY <1>2, <4>1
        <4> QED BY <4>1, <4>2 DEF a, f
      <3> QED BY <1>3, <2>3, <3>3 DEF JourneyOK, WalkOK
    <2> QED BY <2>2, <2>3
  <1>4. CASE l.trip # Nil
    <2>1. RideOK(k, s, l)
      BY <1>4 DEF JourneyOK
    <2>2. l.trip \in Trips /\ Serves(l.trip, l.from)
      BY <1>4, <2>1 DEF Label, RideOK
    <2>3. PICK j \in 0..(k - 1) :
            labels[j][l.from] # Nil /\ labels[j][l.from].time <= Dep(l.trip, l.from)
      BY <2>1 DEF RideOK
    <2>4. l.from \in Stops
      <3>1. PICK i \in DOMAIN l.trip.visits : l.trip.visits[i].stop = l.from
        BY <2>2 DEF Serves
      <3>2. l.trip.visits \in Seq(Visit)
        BY <2>2, PlannerAssumption DEF PlannerAssumption
      <3>3. l.trip.visits[i] \in Visit
        BY <3>1, <3>2
      <3> QED BY <3>1, <3>3 DEF Visit
    <2>5. Dep(l.trip, l.from) \in Nat
      BY <2>2, VisitTimes
    <2>6. j \in 0..Rounds
      BY Bounds
    <2>7. /\ labels'[j][l.from] # Nil
          /\ labels'[j][l.from].time <= Dep(l.trip, l.from)
      <3>1. /\ labels'[j][l.from] # Nil
            /\ labels'[j][l.from].time <= labels[j][l.from].time
            /\ labels'[j][l.from].time \in Nat /\ labels[j][l.from].time \in Nat
        BY <1>1, <2>3, <2>4, <2>6
      <3> QED BY <2>3, <2>5, <3>1
    <2>8. RideOK(k, s, l)'
      BY <2>1, <2>7 DEF RideOK, Serves, StopIdx, Arr, Dep
    <2> QED BY <1>4, <2>8 DEF JourneyOK
  <1> QED BY <1>3, <1>4

\* A step that gives s in round k a label gives it a journey.
LEMMA NewWalk ==
  ASSUME TypeOK', OnlyEarlier, plan' = plan, TypeOK,
         NEW k \in 0..Rounds, NEW s \in Stops, NEW u \in Stops, NEW t \in Nat,
         At(k, s, t), labels'[k][u] = Walked(s, t + plan.foot[s][u])
  PROVE  JourneyOK(k, u, labels[k][u])'
  <1>1. plan.foot[s][u] \in Nat
    BY PlanParts DEF TypeOK
  <1>2. /\ labels'[k][u].trip = Nil /\ labels'[k][u].from = s
        /\ labels'[k][u].time = t + plan.foot[s][u] /\ s # Origin
    BY <1>1, WalkedLabel, Bounds
  <1>3. /\ labels'[k][s] # Nil /\ labels'[k][s].time <= t
        /\ labels'[k][s].time \in Nat
    BY DEF At, OnlyEarlier, TypeOK, Label
  <1>4. labels'[k][s].time + plan.foot[s][u] <= t + plan.foot[s][u]
    BY <1>1, <1>3
  <1> QED BY <1>2, <1>3, <1>4 DEF JourneyOK, WalkOK

LEMMA StepJourneys ==
  ASSUME TypeOK, TypeOK', Shape, Told, Told', OnlyEarlier, Aboard,
         LabelsAreJourneys, [Next]_vars
  PROVE  LabelsAreJourneys'
  <1>1. plan' = plan
    BY DEF Next, FirstWalksDone, Stop, Begin, EndScan, ScansDone, End, FirstWalk,
           Walk, StartScan, Ride, vars
  <1>2. SUFFICES ASSUME Straight(plan), NEW k \in 0..Rounds, NEW s \in Stops,
                        labels'[k][s] # Nil
                 PROVE  JourneyOK(k, s, labels[k][s])'
    BY <1>1 DEF LabelsAreJourneys, JourneyOK, Straight, Serves, StopIdx
  <1>3. CASE labels'[k][s] = labels[k][s]
    <2>1. PICK l \in Label : l = labels[k][s]
      BY <1>2, <1>3 DEF TypeOK
    <2>2. JourneyOK(k, s, l)
      BY <1>2, <1>3, <2>1 DEF LabelsAreJourneys, JourneyOK
    <2>3. JourneyOK(k, s, l)'
      BY <1>1, <2>2, JourneyKept
    <2> QED BY <1>3, <2>1, <2>3
  <1>4. ASSUME NEW u \in Stops, FirstWalk(u)
        PROVE  JourneyOK(k, s, labels[k][s])'
    <2>1. CASE k = 0
      <3>1. CASE labels'[0][s] = Walked(u, Reached(tauPrev, u, s))
        <4>1. u \in marked /\ u \in todo /\ pc = "foot"
          BY <1>4 DEF FirstWalk, Told, OnFoot
        <4>2. At(0, u, tauPrev[u])
          BY <4>1 DEF Told, OnFoot
        <4>3. tauPrev[u] \in Nat
          BY Bounds DEF TypeOK, Times
        <4> QED BY <1>1, <2>1, <3>1, <4>2, <4>3, NewWalk DEF Reached
      <3> QED BY <1>3, <1>4, <2>1, <3>1, FirstWalkEffect
    <2>2. CASE k # 0
      BY <1>3, <1>4, <2>2 DEF FirstWalk, TypeOK
    <2> QED BY <2>1, <2>2
  <1>5. ASSUME NEW u \in Stops, Walk(u)
        PROVE  JourneyOK(k, s, labels[k][s])'
    <2>1. CASE k = round
      <3>1. CASE labels'[round][s] = Walked(u, Reached(tauCurr, u, s))
        <4>1. u \in fresh /\ pc = "walk"
          BY <1>5 DEF Walk, Told, InRound, Busy
        <4>2. At(round, u, tauCurr[u])
          BY <4>1 DEF Told, InRound, Busy, At
        <4>3. tauCurr[u] \in Nat
          BY Bounds DEF TypeOK, Times
        <4> QED BY <1>1, <2>1, <3>1, <4>2, <4>3, NewWalk DEF Reached
      <3> QED BY <1>3, <1>5, <2>1, <3>1, WalkEffect
    <2>2. CASE k # round
      BY <1>3, <1>5, <2>2 DEF Walk, TypeOK
    <2> QED BY <2>1, <2>2
  <1>6. CASE Ride
    <2> DEFINE at == Rep(route).visits[pos].stop
    <2>1. /\ at \in Stops /\ pos \in DOMAIN Rep(route).visits /\ pc = "ride"
          /\ Rep(route) \in plan.trips[route] /\ Rep(route) \in Trips
      BY <1>6, RideStop DEF Ride
    <2>2. Alight(at)
      BY <1>6 DEF Ride
    <2>3. CASE k # round
      BY <1>3, <2>1, <2>2, <2>3, AlightEffect
    <2>4. CASE /\ k = round /\ s = at /\ trip \in Trips /\ Serves(trip, s)
               /\ route \in Routes /\ board \in Stops /\ Arr(trip, s) \in Nat
               /\ labels'[round][s] = Rode(route, trip, board, Arr(trip, s))
      <3>1. /\ trip \in plan.trips[route] /\ trip.id \notin plan.exclude
            /\ Serves(trip, board)
        BY <2>1, <2>4, Bounds DEF Aboard
      <3>2. PICK j \in 0..(round - 1) :
              labels[j][board] # Nil /\ labels[j][board].time <= Dep(trip, board)
        BY <2>1, <2>4, Bounds DEF Aboard
      <3>3. PICK p \in DOMAIN Rep(route).visits :
              p < pos /\ Rep(route).visits[p].stop = board
        BY <2>1, <2>4, Bounds DEF Aboard
      <3>4. StopIdx(trip, board) < StopIdx(trip, s)
        BY <1>2, <2>1, <2>4, <3>1, <3>3 DEF Straight
      <3>5. /\ labels'[j][board] # Nil
            /\ labels'[j][board].time <= Dep(trip, board)
        <4>1. j \in 0..Rounds /\ j # round
          BY <2>4, Bounds
        <4>2. labels'[j] = labels[j]
          BY <2>1, <2>2, <4>1, AlightEffect
        <4> QED BY <3>2, <4>2
      <3>6. /\ labels'[k][s].trip = trip /\ labels'[k][s].from = board
            /\ labels'[k][s].route = route /\ labels'[k][s].time = Arr(trip, s)
            /\ trip # Nil
        BY <2>4, RodeLabel, Bounds
      <3> HIDE DEF at
      <3>7. PICK l \in Label : l = labels'[k][s]
        BY <1>2, SMTT(20) DEF TypeOK
      <3>8. RideOK(k, s, l)'
        <4>1. /\ l.trip = trip /\ l.from = board /\ l.route = route
              /\ l.time = Arr(trip, s)
          BY <3>6, <3>7
        <4>2. /\ l.trip \in plan'.trips[l.route] /\ l.trip.id \notin plan'.exclude
              /\ Serves(l.trip, l.from) /\ Serves(l.trip, s)
              /\ StopIdx(l.trip, l.from) < StopIdx(l.trip, s)
              /\ l.time = Arr(l.trip, s)
          BY <1>1, <2>4, <3>1, <3>4, <4>1
        <4>3. /\ labels'[j][l.from] # Nil
              /\ labels'[j][l.from].time <= Dep(l.trip, l.from)
              /\ j \in 0..(k - 1)
          BY <2>4, <3>5, <4>1
        <4> QED BY <4>2, <4>3 DEF RideOK
      <3> QED BY <3>6, <3>7, <3>8 DEF JourneyOK
    <2> HIDE DEF at
    <2> QED BY <1>3, <2>1, <2>2, <2>3, <2>4, AlightEffect
  <1>7. CASE UNCHANGED labels
    BY <1>3, <1>7
  <1> QED
    BY <1>4, <1>5, <1>6, <1>7 DEF Next, FirstWalksDone, Stop, Begin, EndScan,
       ScansDone, End, StartScan, vars, tau

-----------------------------------------------------------------------------
(* The theorems.                                                           *)

IInv == TypeOK /\ Shape /\ Told /\ Aboard /\ LabelsAreJourneys

LEMMA InitJourneys == Init => Aboard /\ LabelsAreJourneys
  <1> SUFFICES ASSUME Init PROVE Aboard /\ LabelsAreJourneys
    OBVIOUS
  <1>1. Aboard
    BY DEF Init, Aboard
  <1>2. ASSUME NEW k \in 0..Rounds, NEW s \in Stops, labels[k][s] # Nil
        PROVE  labels[k][s].trip = Nil /\ WalkOK(k, s, labels[k][s])
    <2>1. k = 0 /\ labels[k][s] = Walked(Origin, AccessTime(s))
      BY <1>2 DEF Init
    <2>2. AccessTime(s) \in Nat
      BY PlanParts DEF Init
    <2> QED BY <2>1, <2>2, WalkedLabel DEF WalkOK
  <1> QED BY <1>1, <1>2 DEF LabelsAreJourneys

\* The inductive invariant: types, what labels say of times, who is aboard.
THEOREM Invariance == Spec => []IInv
  <1>1. Init => IInv
    BY InitTypes, InitTold, InitJourneys DEF IInv
  <1>2. IInv /\ [Next]_vars => IInv'
    BY StepTypes, StepTold, StepAboard, StepJourneys DEF IInv
  <1> QED BY <1>1, <1>2, PTL DEF Spec

\* The planner's arrays, labels and loops hold what they are declared to hold.
THEOREM TypeCorrect == Spec => []TypeOK
  <1>1. IInv => TypeOK
    BY DEF IInv
  <1> QED BY <1>1, Invariance, PTL

\* On a timetable without loops every label of every round tells a ride or a
\* walk that can be made from where an earlier label is, in any order of the
\* routes and stops that Go's maps may give.
THEOREM LabelsTellJourneys == Spec => []LabelsAreJourneys
  <1>1. IInv => LabelsAreJourneys
    BY DEF IInv
  <1> QED BY <1>1, Invariance, PTL

-----------------------------------------------------------------------------
(* No ride is missed: the invariant.                                       *)

\* The trips of each route stay in the order of their departures.
Ordered == \A r \in Routes : order[r] \in Sorted(plan.trips[r])

\* What the arrays hold of each other: a stop is marked when it was reached.
Arrays ==
  /\ ~Busy => tauStar = tauPrev
  /\ Busy => /\ tauStar = tauCurr
             /\ \A s \in Stops : tauCurr[s] <= tauPrev[s]
             /\ \A s \in Stops \ fresh : tauCurr[s] = tauPrev[s]
  /\ pc = "foot" => /\ \A s \in Stops : tauPrev[s] <= AccessTime(s)
                    /\ \A s \in Stops \ marked : tauPrev[s] = Infinity

\* Whoever is at visit i of t in time is at its later visits when t is.
Carried(from, to, t, i) ==
  from[t.visits[i].stop] <= t.visits[i].dep =>
    \A j \in DOMAIN t.visits : i < j => to[t.visits[j].stop] <= t.visits[j].arr

RouteDone(r) ==
  \A t \in Runs(plan, r) : \A i \in DOMAIN t.visits : Carried(tauPrev, tauCurr, t, i)

\* From stops that are not marked there is nothing more to ride.
Exhausted ==
  pc # "foot" =>
    \A r \in Routes : \A t \in Runs(plan, r) : \A i \in DOMAIN t.visits :
      t.visits[i].stop \notin marked => Carried(tauPrev, tauPrev, t, i)

\* Of the routes that the round has left behind every trip is used.
Scanned ==
  /\ pc \in {"scan", "ride"} =>
       \A r \in Routes : r \in todo \/ (pc = "ride" /\ r = route) \/ RouteDone(r)
  /\ pc = "walk" => \A r \in Routes : RouteDone(r)

NotAfter(b, t) ==
  \A i \in DOMAIN b.visits : /\ b.visits[i].dep <= t.visits[i].dep
                             /\ b.visits[i].arr <= t.visits[i].arr

\* A trip that could be boarded behind the scan has nothing to give at the
\* stops it has passed, and is not ahead of the trip it is on.
Caught(t, i) ==
  /\ \A j \in DOMAIN t.visits : i < j /\ j < pos => tauCurr[t.visits[j].stop] <= t.visits[j].arr
  /\ \/ \A j \in DOMAIN t.visits : i < j => tauCurr[t.visits[j].stop] <= t.visits[j].arr
     \/ trip # Nil /\ NotAfter(trip, t)

Riding ==
  pc = "ride" =>
    \A t \in Runs(plan, route) : \A i \in DOMAIN t.visits :
      i < pos /\ tauPrev[t.visits[i].stop] <= t.visits[i].dep => Caught(t, i)

Stopped == pc = "done" => round = Rounds \/ marked = {}

EarlyInv ==
  /\ Ordered /\ Arrays /\ Stopped
  /\ Straight(plan) /\ Fifo(plan) => Exhausted /\ Scanned /\ Riding

-----------------------------------------------------------------------------
(* No ride is missed: what it rests on.                                    *)

\* A set of times has a first.
LEMMA MinOf ==
  ASSUME NEW S \in SUBSET Nat, S # {}
  PROVE  Min(S) \in S /\ \A x \in S : Min(S) <= x
  <1> DEFINE less == {p \in Nat \X Nat : p[1] < p[2]}
  <1>1. PICK m \in S : \A x \in S : ~ (<<x, m>> \in less)
    <2>1. less = OpToRel(<, Nat)
      BY DEF OpToRel
    <2>2. IsWellFoundedOn(less, Nat)
      BY <2>1, NatLessThanWellFounded
    <2> HIDE DEF less
    <2> QED BY <2>2, WFMin
  <1>2. ASSUME NEW x \in S PROVE m <= x
    <2>1. x \in Nat /\ m \in Nat
      OBVIOUS
    <2>2. ~ (x < m)
      BY <1>1, <2>1
    <2> QED BY <2>1, <2>2
  <1> QED BY <1>1, <1>2 DEF Min

LEMMA VisitParts ==
  ASSUME NEW t \in Trips
  PROVE  /\ t.visits \in Seq(Visit) /\ DOMAIN t.visits \subseteq Nat \ {0}
         /\ 1 \in DOMAIN t.visits /\ DOMAIN t.visits = 1..Len(t.visits)
         /\ Len(t.visits) \in Nat
         /\ \A i \in DOMAIN t.visits :
              /\ t.visits[i].stop \in Stops
              /\ t.visits[i].arr \in Nat /\ t.visits[i].arr < Infinity
              /\ t.visits[i].dep \in Nat /\ t.visits[i].dep < Infinity
  <1>1. t.visits \in Seq(Visit) /\ t.visits # <<>>
    BY PlannerAssumption DEF PlannerAssumption
  <1>2. /\ DOMAIN t.visits = 1..Len(t.visits) /\ Len(t.visits) \in Nat
        /\ Len(t.visits) # 0
    BY <1>1
  <1>3. ASSUME NEW i \in DOMAIN t.visits
        PROVE  /\ t.visits[i].stop \in Stops
               /\ t.visits[i].arr \in Nat /\ t.visits[i].arr < Infinity
               /\ t.visits[i].dep \in Nat /\ t.visits[i].dep < Infinity
    <2>1. t.visits[i] \in Visit
      BY <1>1
    <2>2. t.visits[i].arr < Infinity /\ t.visits[i].dep < Infinity
      BY PlannerAssumption DEF PlannerAssumption
    <2> QED BY <2>1, <2>2 DEF Visit
  <1> QED BY <1>1, <1>2, <1>3

-----------------------------------------------------------------------------
(* No ride is missed: the timetable.                                       *)

LEMMA PlanIsAsked ==
  ASSUME TypeOK
  PROVE  /\ plan \in PlanType
         /\ \A r \in Routes : /\ plan.trips[r] \in SUBSET Trips
                              /\ Runs(plan, r) \subseteq plan.trips[r]
                              /\ Runs(plan, r) \subseteq Trips
  BY PlannerAssumption DEF TypeOK, PlannerAssumption, PlanType, Runs

\* A trip without a loop is at each of its stops once.
LEMMA OneVisit ==
  ASSUME TypeOK, Straight(plan), NEW r \in Routes, NEW t \in plan.trips[r],
         NEW i \in DOMAIN t.visits
  PROVE  /\ Serves(t, t.visits[i].stop)
         /\ StopIdx(t, t.visits[i].stop) = i
         /\ Arr(t, t.visits[i].stop) = t.visits[i].arr
         /\ Dep(t, t.visits[i].stop) = t.visits[i].dep
  <1> DEFINE s == t.visits[i].stop
             n == StopIdx(t, s)
  <1>1. t \in Trips
    BY PlanIsAsked
  <1>2. Serves(t, s)
    BY DEF Serves
  <1>3. n \in DOMAIN t.visits /\ t.visits[n].stop = s
    BY <1>1, <1>2, LastVisit
  <1>4. DOMAIN t.visits \subseteq Nat
    BY <1>1, VisitParts
  <1> HIDE DEF n
  <1>5. n \in Nat /\ i \in Nat
    BY <1>3, <1>4
  <1>6. StopIdx(t, s) \in Nat
    BY <1>5 DEF n
  <1>7. ~ (i < n)
    BY <1>2, <1>3, <1>6 DEF Straight
  <1>8. ~ (n < i)
    BY <1>2, <1>3, <1>6 DEF Straight
  <1>9. n = i
    BY <1>5, <1>7, <1>8
  <1> QED BY <1>2, <1>9 DEF n, Arr, Dep

\* Trips of a direction that no trip overtakes have its stops.
LEMMA SameStops ==
  ASSUME Fifo(plan), NEW r \in Routes, NEW t \in plan.trips[r], NEW u \in plan.trips[r]
  PROVE  /\ DOMAIN t.visits = DOMAIN u.visits
         /\ \A i \in DOMAIN t.visits : t.visits[i].stop = u.visits[i].stop
  <1> DEFINE a == [i \in DOMAIN t.visits |-> t.visits[i].stop]
             b == [i \in DOMAIN u.visits |-> u.visits[i].stop]
  <1>1. a = b
    BY DEF Fifo
  <1>2. DOMAIN a = DOMAIN t.visits /\ DOMAIN b = DOMAIN u.visits
    OBVIOUS
  <1>3. DOMAIN a = DOMAIN b
    BY <1>1
  <1>4. ASSUME NEW i \in DOMAIN t.visits PROVE a[i] = b[i]
    BY <1>1
  <1> QED BY <1>2, <1>3, <1>4

\* Who departs no later anywhere is nowhere later.
LEMMA NoOvertaking ==
  ASSUME Fifo(plan), NEW r \in Routes, NEW t \in plan.trips[r], NEW u \in plan.trips[r],
         NEW i \in DOMAIN t.visits, t.visits[i].dep <= u.visits[i].dep
  PROVE  NotAfter(t, u)
  BY DEF Fifo, NotAfter

LEMMA NotAfterTransitive ==
  ASSUME Fifo(plan), TypeOK, NEW r \in Routes, NEW a \in plan.trips[r],
         NEW b \in plan.trips[r], NEW c \in plan.trips[r], NotAfter(a, b), NotAfter(b, c)
  PROVE  NotAfter(a, c)
  <1>1. a \in Trips /\ b \in Trips /\ c \in Trips
    BY PlanIsAsked
  <1>2. DOMAIN a.visits = DOMAIN b.visits /\ DOMAIN a.visits = DOMAIN c.visits
    BY SameStops
  <1>3. ASSUME NEW i \in DOMAIN a.visits
        PROVE  /\ a.visits[i].dep <= c.visits[i].dep
               /\ a.visits[i].arr <= c.visits[i].arr
    <2>1. /\ a.visits[i].dep <= b.visits[i].dep /\ b.visits[i].dep <= c.visits[i].dep
          /\ a.visits[i].arr <= b.visits[i].arr /\ b.visits[i].arr <= c.visits[i].arr
      BY <1>2 DEF NotAfter
    <2>2. /\ a.visits[i].dep \in Nat /\ a.visits[i].arr \in Nat
          /\ b.visits[i].dep \in Nat /\ b.visits[i].arr \in Nat
          /\ c.visits[i].dep \in Nat /\ c.visits[i].arr \in Nat
      BY <1>1, <1>2, VisitParts
    <2> QED BY <2>1, <2>2
  <1> QED BY <1>3 DEF NotAfter

\* A route's list has each of its trips, in the order of their departures.
LEMMA ListedTrips ==
  ASSUME TypeOK, Ordered, NEW r \in Routes
  PROVE  /\ DOMAIN order[r] \subseteq Nat
         /\ \A i \in DOMAIN order[r] : order[r][i] \in plan.trips[r]
         /\ \A t \in plan.trips[r] : \E i \in DOMAIN order[r] : order[r][i] = t
         /\ \A i, j \in DOMAIN order[r] :
              i < j => order[r][i].visits[1].dep <= order[r][j].visits[1].dep
         /\ plan.trips[r] # {} => order[r] # <<>>
         /\ order[r] # <<>> => Rep(r) \in plan.trips[r]
  <1>1. order[r] \in Sorted(plan.trips[r]) /\ plan.trips[r] \in SUBSET Trips
    BY PlanIsAsked DEF Ordered
  <1>2. order[r] \in Seq(Trips) /\ \A i \in DOMAIN order[r] : order[r][i] \in plan.trips[r]
    BY <1>1, SortedTrips
  <1>3. /\ \A t \in plan.trips[r] : \E i \in DOMAIN order[r] : order[r][i] = t
        /\ \A i, j \in DOMAIN order[r] :
             i < j => order[r][i].visits[1].dep <= order[r][j].visits[1].dep
    BY <1>1 DEF Sorted
  <1>4. DOMAIN order[r] \subseteq Nat
    BY <1>2
  <1>5. plan.trips[r] # {} => order[r] # <<>>
    BY <1>3
  <1>6. order[r] # <<>> => 1 \in DOMAIN order[r]
    BY <1>2
  <1> QED BY <1>2, <1>3, <1>4, <1>5, <1>6 DEF Rep

\* The trip that is found at s is not after any trip that can be boarded there.
LEMMA FoundFirst ==
  ASSUME TypeOK, Ordered, Straight(plan), Fifo(plan), NEW r \in Routes,
         NEW t \in Runs(plan, r), NEW i \in DOMAIN t.visits, NEW time \in Nat,
         time <= t.visits[i].dep
  PROVE  /\ Catchable(r, t.visits[i].stop, time) # {}
         /\ \A n \in Catchable(r, t.visits[i].stop, time) :
              (\A m \in Catchable(r, t.visits[i].stop, time) : n <= m)
                => NotAfter(order[r][n], t)
  <1> DEFINE s == t.visits[i].stop
             C == Catchable(r, s, time)
  <1>1. t \in plan.trips[r] /\ t \in Trips /\ t.id \notin plan.exclude
    BY PlanIsAsked DEF Runs
  <1>2. PICK m \in DOMAIN order[r] : order[r][m] = t
    BY <1>1, ListedTrips
  <1>3. m \in C
    <2>1. Serves(t, s) /\ Dep(t, s) = t.visits[i].dep /\ t.visits[i].dep \in Nat
      BY <1>1, OneVisit, VisitParts
    <2>2. Dep(t, s) >= time
      BY <2>1
    <2> HIDE DEF s
    <2> QED BY <1>1, <1>2, <2>1, <2>2 DEF Catchable
  <1>4. ASSUME NEW n \in C, \A k \in C : n <= k
        PROVE  NotAfter(order[r][n], t)
    <2>1. n \in DOMAIN order[r] /\ m \in DOMAIN order[r]
      BY <1>2 DEF Catchable
    <2>2. order[r][n] \in plan.trips[r] /\ n \in Nat /\ m \in Nat
      BY <2>1, ListedTrips
    <2>3. n <= m
      BY <1>3, <1>4
    <2>4. order[r][n].visits[1].dep <= t.visits[1].dep
      <3>1. CASE n = m
        <4>1. t.visits[1].dep \in Nat
          BY <1>1, VisitParts
        <4> QED BY <1>2, <3>1, <4>1
      <3>2. CASE n # m
        <4>1. n < m
          BY <2>2, <2>3, <3>2
        <4> QED BY <1>2, <2>1, <4>1, ListedTrips
      <3> QED BY <3>1, <3>2
    <2>5. 1 \in DOMAIN order[r][n].visits
      BY <2>2, PlanIsAsked, VisitParts
    <2> QED BY <1>1, <2>2, <2>4, <2>5, NoOvertaking
  <1> QED BY <1>3, <1>4

-----------------------------------------------------------------------------
(* No ride is missed: what the steps do.                                   *)

LEMMA SamePlan ==
  ASSUME [Next]_vars
  PROVE  plan' = plan /\ order' = order
  BY DEF Next, FirstWalksDone, Stop, Begin, EndScan, ScansDone, End, FirstWalk,
         Walk, StartScan, Ride, vars

\* Times fall to what a first walk reaches, and no further.
LEMMA FirstWalkTimes ==
  ASSUME TypeOK, Arrays, NEW s \in Stops, FirstWalk(s)
  PROVE  /\ tauStar' = tauPrev'
         /\ \A u \in Stops :
              /\ tauPrev'[u] <= tauPrev[u]
              /\ tauPrev'[u] <= tauPrev[s] + plan.foot[s][u]
              /\ \/ tauPrev'[u] = tauPrev[u]
                 \/ tauPrev'[u] = tauPrev[s] + plan.foot[s][u]
              /\ u \notin marked' => tauPrev'[u] = tauPrev[u] /\ u \notin marked
              /\ u \notin todo' => u = s \/ u \notin todo
         /\ tauPrev'[s] = tauPrev[s]
  <1> DEFINE better == {u \in Stops : Reached(tauPrev, s, u) < tauPrev[u]}
  <1>1. /\ tauPrev' = [u \in Stops |-> IF u \in better THEN Reached(tauPrev, s, u)
                                                       ELSE tauPrev[u]]
        /\ tauStar' = [u \in Stops |-> IF u \in better THEN Reached(tauPrev, s, u)
                                                       ELSE tauStar[u]]
        /\ marked' = marked \cup better
        /\ \E seen \in SUBSET (better \ marked) : todo' = (todo \ {s}) \cup seen
        /\ pc = "foot"
    BY DEF FirstWalk
  <1>2. tauStar = tauPrev
    BY <1>1 DEF Arrays, Busy
  <1>3. ASSUME NEW u \in Stops
        PROVE  /\ Reached(tauPrev, s, u) = tauPrev[s] + plan.foot[s][u]
               /\ tauPrev[s] \in Nat /\ tauPrev[u] \in Nat /\ plan.foot[s][u] \in Nat
    BY PlanParts, Bounds DEF TypeOK, Times, Reached
  <1>4. ASSUME NEW u \in Stops
        PROVE  /\ u \in better <=> tauPrev[s] + plan.foot[s][u] < tauPrev[u]
               /\ tauPrev'[u] = IF u \in better THEN tauPrev[s] + plan.foot[s][u]
                                                ELSE tauPrev[u]
               /\ u \notin todo' => u = s \/ u \notin todo
    BY <1>1, <1>3
  <1>5. tauStar' = tauPrev'
    BY <1>1, <1>2
  <1>6. \A u \in Stops : u \notin marked' => u \notin better /\ u \notin marked
    BY <1>1
  <1> HIDE DEF better
  <1>7. \A u \in Stops :
              /\ tauPrev'[u] <= tauPrev[u]
              /\ tauPrev'[u] <= tauPrev[s] + plan.foot[s][u]
              /\ \/ tauPrev'[u] = tauPrev[u]
                 \/ tauPrev'[u] = tauPrev[s] + plan.foot[s][u]
    BY <1>3, <1>4
  <1>8. tauPrev'[s] = tauPrev[s]
    <2>1. ~ (tauPrev[s] + plan.foot[s][s] < tauPrev[s])
      BY <1>3
    <2> QED BY <1>4, <2>1
  <1> QED BY <1>4, <1>5, <1>6, <1>7, <1>8

\* The same of a walk.
LEMMA LaterWalkTimes ==
  ASSUME TypeOK, Arrays, NEW s \in Stops, Walk(s)
  PROVE  /\ tauStar' = tauCurr'
         /\ \A u \in Stops :
              /\ tauCurr'[u] <= tauCurr[u]
              /\ tauCurr'[u] <= tauCurr[s] + plan.foot[s][u]
              /\ \/ tauCurr'[u] = tauCurr[u]
                 \/ tauCurr'[u] = tauCurr[s] + plan.foot[s][u]
              /\ u \notin fresh' => tauCurr'[u] = tauCurr[u] /\ u \notin fresh
              /\ u \notin todo' => u = s \/ u \notin todo
         /\ tauCurr'[s] = tauCurr[s]
  <1> DEFINE better == {u \in Stops : /\ Reached(tauCurr, s, u) < tauCurr[u]
                                      /\ Reached(tauCurr, s, u) < tauStar[u]}
  <1>1. /\ tauCurr' = [u \in Stops |-> IF u \in better THEN Reached(tauCurr, s, u)
                                                       ELSE tauCurr[u]]
        /\ tauStar' = [u \in Stops |-> IF u \in better THEN Reached(tauCurr, s, u)
                                                       ELSE tauStar[u]]
        /\ fresh' = fresh \cup better
        /\ todo' = todo \ {s}
        /\ pc = "walk"
    BY DEF Walk
  <1>2. tauStar = tauCurr
    BY <1>1 DEF Arrays, Busy
  <1>3. ASSUME NEW u \in Stops
        PROVE  /\ Reached(tauCurr, s, u) = tauCurr[s] + plan.foot[s][u]
               /\ tauCurr[s] \in Nat /\ tauCurr[u] \in Nat /\ plan.foot[s][u] \in Nat
    BY PlanParts, Bounds DEF TypeOK, Times, Reached
  <1>4. ASSUME NEW u \in Stops
        PROVE  /\ u \in better <=> tauCurr[s] + plan.foot[s][u] < tauCurr[u]
               /\ tauCurr'[u] = IF u \in better THEN tauCurr[s] + plan.foot[s][u]
                                                ELSE tauCurr[u]
               /\ u \notin todo' => u = s \/ u \notin todo
    BY <1>1, <1>2, <1>3
  <1>5. tauStar' = tauCurr'
    BY <1>1, <1>2
  <1>6. \A u \in Stops : u \notin fresh' => u \notin better /\ u \notin fresh
    BY <1>1
  <1> HIDE DEF better
  <1>7. \A u \in Stops :
              /\ tauCurr'[u] <= tauCurr[u]
              /\ tauCurr'[u] <= tauCurr[s] + plan.foot[s][u]
              /\ \/ tauCurr'[u] = tauCurr[u]
                 \/ tauCurr'[u] = tauCurr[s] + plan.foot[s][u]
    BY <1>3, <1>4
  <1>8. tauCurr'[s] = tauCurr[s]
    <2>1. ~ (tauCurr[s] + plan.foot[s][s] < tauCurr[s])
      BY <1>3
    <2> QED BY <1>4, <2>1
  <1> QED BY <1>4, <1>5, <1>6, <1>7, <1>8

\* Times fall to the arrival of the trip, and no further.
LEMMA RideStepTimes ==
  ASSUME TypeOK, Shape, Arrays, Ride
  PROVE  /\ tauStar' = tauCurr'
         /\ \A u \in Stops :
              /\ tauCurr'[u] <= tauCurr[u]
              /\ u \notin fresh' => tauCurr'[u] = tauCurr[u] /\ u \notin fresh
         /\ LET s == Rep(route).visits[pos].stop
            IN trip # Nil /\ Serves(trip, s) => tauCurr'[s] <= Arr(trip, s)
  <1> DEFINE s == Rep(route).visits[pos].stop
  <1>1. s \in Stops /\ pc = "ride" /\ Alight(s)
    BY RideStop DEF Ride
  <1> HIDE DEF s
  <1>2. tauStar = tauCurr
    BY <1>1 DEF Arrays, Busy
  <1>3. \A u \in Stops : tauCurr[u] \in Nat
    BY Bounds DEF TypeOK, Times
  <1>4. ASSUME trip # Nil, Serves(trip, s)
        PROVE  Arr(trip, s) \in Nat
    BY <1>4, VisitTimes DEF TypeOK
  <1>5. CASE Improves(s)
    <2>1. /\ tauCurr' = [tauCurr EXCEPT ![s] = Arr(trip, s)]
          /\ tauStar' = [tauStar EXCEPT ![s] = Arr(trip, s)]
          /\ fresh' = fresh \cup {s}
          /\ trip # Nil /\ Serves(trip, s) /\ Arr(trip, s) < tauCurr[s]
      BY <1>1, <1>5 DEF Alight, Improves
    <2>2. tauCurr \in [Stops -> Times]
      BY DEF TypeOK
    <2>3. tauCurr'[s] = Arr(trip, s) /\ \A u \in Stops : u # s => tauCurr'[u] = tauCurr[u]
      BY <1>1, <2>1, <2>2
    <2> QED BY <1>1, <1>2, <1>3, <1>4, <2>1, <2>3 DEF s
  <1>6. CASE ~Improves(s)
    <2>1. UNCHANGED <<tauCurr, tauStar, fresh>>
      BY <1>1, <1>6 DEF Alight
    <2>2. ASSUME trip # Nil, Serves(trip, s)
          PROVE  tauCurr'[s] <= Arr(trip, s)
      BY <1>1, <1>2, <1>3, <1>4, <1>6, <2>1, <2>2 DEF Improves
    <2> QED BY <1>2, <1>3, <2>1, <2>2 DEF s
  <1> QED BY <1>5, <1>6

LEMMA InitArrays == Init => Ordered /\ Arrays /\ Stopped
  <1> SUFFICES ASSUME Init PROVE Ordered /\ Arrays /\ Stopped
    OBVIOUS
  <1>1. Ordered /\ Stopped
    BY DEF Init, Ordered, Stopped
  <1>2. plan \in Plans /\ pc = "foot" /\ marked = Near /\ tauStar = tauPrev
    BY DEF Init
  <1>3. ASSUME NEW s \in Stops
        PROVE  /\ tauPrev[s] <= AccessTime(s)
               /\ s \notin marked => tauPrev[s] = Infinity
    <2>1. AccessTime(s) \in Nat
      BY <1>2, PlanParts
    <2>2. tauPrev[s] = IF s \in Near THEN AccessTime(s) ELSE Infinity
      BY DEF Init
    <2>3. s \notin Near => Infinity <= AccessTime(s)
      BY <2>1, Bounds DEF Near
    <2> QED BY <1>2, <2>1, <2>2, <2>3
  <1> QED BY <1>1, <1>2, <1>3 DEF Arrays, Busy

LEMMA StepArrays ==
  ASSUME TypeOK, Shape, Ordered, Arrays, Stopped, [Next]_vars
  PROVE  Ordered' /\ Arrays' /\ Stopped'
  <1>1. Ordered'
    BY SamePlan DEF Ordered
  <1>2. Stopped'
    BY DEF Stopped, Next, FirstWalksDone, Stop, Begin, EndScan, ScansDone, End,
           FirstWalk, Walk, StartScan, Ride, vars
  <1> SUFFICES Arrays'
    BY <1>1, <1>2
  <1>3. \A s \in Stops : /\ tauPrev[s] \in Nat /\ tauCurr[s] \in Nat
                         /\ AccessTime(s) \in Nat
    BY PlanParts, Bounds DEF TypeOK, Times
  <1>4. ASSUME NEW s \in Stops, FirstWalk(s)
        PROVE  Arrays'
    <2>1. TypeOK'
      BY StepTypes
    <2>2. pc = "foot" /\ pc' = "foot"
      BY <1>4 DEF FirstWalk
    <2>3. ASSUME NEW u \in Stops
          PROVE  /\ tauPrev'[u] <= AccessTime(u)'
                 /\ u \notin marked' => tauPrev'[u] = Infinity
      <3>1. AccessTime(u)' = AccessTime(u)
        BY SamePlan DEF AccessTime
      <3>2. tauPrev[u] <= AccessTime(u) /\ (u \notin marked => tauPrev[u] = Infinity)
        BY <2>2 DEF Arrays
      <3>3. tauPrev'[u] \in Nat
        BY <2>1, Bounds DEF TypeOK, Times
      <3> QED BY <1>3, <1>4, <3>1, <3>2, <3>3, FirstWalkTimes
    <2> QED BY <1>4, <2>2, <2>3, FirstWalkTimes DEF Arrays, Busy
  <1>5. ASSUME NEW s \in Stops, Walk(s)
        PROVE  Arrays'
    <2>1. TypeOK'
      BY StepTypes
    <2>2. pc = "walk" /\ pc' = "walk" /\ tauPrev' = tauPrev
      BY <1>5 DEF Walk
    <2>3. ASSUME NEW u \in Stops
          PROVE  /\ tauCurr'[u] <= tauPrev[u]
                 /\ u \notin fresh' => tauCurr'[u] = tauPrev[u]
      <3>1. tauCurr[u] <= tauPrev[u] /\ (u \notin fresh => tauCurr[u] = tauPrev[u])
        BY <2>2 DEF Arrays, Busy
      <3>2. tauCurr'[u] \in Nat
        BY <2>1, Bounds DEF TypeOK, Times
      <3> QED BY <1>3, <1>5, <3>1, <3>2, LaterWalkTimes
    <2> QED BY <1>5, <2>2, <2>3, LaterWalkTimes DEF Arrays, Busy
  <1>6. CASE Ride
    <2>1. pc = "ride" /\ pc' = "ride" /\ tauPrev' = tauPrev
      BY <1>6 DEF Ride
    <2>2. TypeOK'
      BY StepTypes
    <2>3. ASSUME NEW u \in Stops
          PROVE  /\ tauCurr'[u] <= tauPrev[u]
                 /\ u \notin fresh' => tauCurr'[u] = tauPrev[u]
      <3>1. tauCurr[u] <= tauPrev[u] /\ (u \notin fresh => tauCurr[u] = tauPrev[u])
        BY <2>1 DEF Arrays, Busy
      <3>2. tauCurr'[u] \in Nat
        BY <2>2, Bounds DEF TypeOK, Times
      <3> QED BY <1>3, <1>6, <3>1, <3>2, RideStepTimes
    <2> QED BY <1>6, <2>1, <2>3, RideStepTimes DEF Arrays, Busy
  <1>7. CASE Begin
    BY <1>3, <1>7 DEF Begin, Arrays, Busy
  <1>8. CASE End
    BY <1>8 DEF End, Arrays, Busy
  <1>9. CASE FirstWalksDone \/ Stop \/ EndScan \/ ScansDone
    BY <1>9 DEF FirstWalksDone, Stop, EndScan, ScansDone, tau, Arrays, Busy
  <1>10. ASSUME NEW r \in Routes, StartScan(r)
         PROVE  Arrays'
    BY <1>10 DEF StartScan, tau, Arrays, Busy
  <1>11. CASE UNCHANGED vars
    BY <1>11 DEF vars, tau, scan, Arrays, Busy, AccessTime
  <1> QED BY <1>4, <1>5, <1>6, <1>7, <1>8, <1>9, <1>10, <1>11 DEF Next

LEMMA ArrayTimes ==
  /\ Times \subseteq Nat
  /\ TypeOK => tauPrev \in [Stops -> Nat] /\ tauCurr \in [Stops -> Nat]
  <1>1. Times \subseteq Nat
    BY Bounds DEF Times
  <1> QED BY <1>1 DEF TypeOK

-----------------------------------------------------------------------------
(* No ride is missed: rides.                                               *)

LEMMA RunParts ==
  ASSUME TypeOK, NEW r \in Routes, NEW t \in Runs(plan, r), NEW i \in DOMAIN t.visits
  PROVE  /\ t \in plan.trips[r] /\ t \in Trips /\ i \in Nat \ {0}
         /\ t.visits[i].stop \in Stops
         /\ t.visits[i].arr \in Nat /\ t.visits[i].dep \in Nat
         /\ t.visits[i].dep < Infinity
         /\ tauPrev[t.visits[i].stop] \in Nat /\ tauCurr[t.visits[i].stop] \in Nat
  BY PlanIsAsked, VisitParts, ArrayTimes

\* Earlier times at the end keep a ride taken.
LEMMA CarriedKept ==
  ASSUME TypeOK, NEW r \in Routes, NEW t \in Runs(plan, r), NEW i \in DOMAIN t.visits,
         NEW from, NEW to \in [Stops -> Nat], NEW earlier \in [Stops -> Nat],
         \A s \in Stops : earlier[s] <= to[s], Carried(from, to, t, i)
  PROVE  Carried(from, earlier, t, i)
  <1> SUFFICES ASSUME from[t.visits[i].stop] <= t.visits[i].dep,
                      NEW j \in DOMAIN t.visits, i < j
               PROVE  earlier[t.visits[j].stop] <= t.visits[j].arr
    BY DEF Carried
  <1>1. to[t.visits[j].stop] <= t.visits[j].arr
    BY DEF Carried
  <1>2. t.visits[j].stop \in Stops /\ t.visits[j].arr \in Nat
    BY RunParts
  <1> DEFINE u == t.visits[j].stop
  <1>3. earlier[u] <= to[u] /\ earlier[u] \in Nat /\ to[u] \in Nat
    BY <1>2
  <1> HIDE DEF u
  <1>4. earlier[u] <= t.visits[j].arr
    BY <1>1, <1>2, <1>3 DEF u
  <1> QED BY <1>4 DEF u

\* When the first walks are done nothing but marked stops is reached.
LEMMA StepExhausted ==
  ASSUME TypeOK, Shape, Arrays, Exhausted, Scanned, [Next]_vars
  PROVE  Exhausted'
  <1>1. plan' = plan /\ \A r \in Routes : Runs(plan, r)' = Runs(plan, r)
    BY SamePlan DEF Runs
  <1>2. CASE FirstWalksDone
    <2>1. pc = "foot" /\ UNCHANGED <<tauPrev, marked>>
      BY <1>2 DEF FirstWalksDone, tau
    <2>2. ASSUME NEW r \in Routes, NEW t \in Runs(plan, r), NEW i \in DOMAIN t.visits,
                 t.visits[i].stop \notin marked
          PROVE  Carried(tauPrev, tauPrev, t, i)
      <3>1. t.visits[i].stop \in Stops /\ t.visits[i].dep < Infinity /\ t.visits[i].dep \in Nat
        BY RunParts
      <3>2. tauPrev[t.visits[i].stop] = Infinity
        BY <2>1, <2>2, <3>1 DEF Arrays
      <3> QED BY <3>1, <3>2, Bounds DEF Carried
    <2> QED BY <1>1, <2>1, <2>2 DEF Exhausted, Carried
  <1>3. CASE End
    <2>1. /\ pc = "walk" /\ tauPrev' = tauCurr /\ marked' = fresh
      BY <1>3 DEF End
    <2>2. ASSUME NEW r \in Routes, NEW t \in Runs(plan, r), NEW i \in DOMAIN t.visits,
                 t.visits[i].stop \notin fresh
          PROVE  Carried(tauCurr, tauCurr, t, i)
      <3>1. t.visits[i].stop \in Stops
        BY RunParts
      <3>2. tauPrev[t.visits[i].stop] = tauCurr[t.visits[i].stop]
        BY <2>1, <2>2, <3>1 DEF Arrays, Busy
      <3>3. Carried(tauPrev, tauCurr, t, i)
        BY <2>1 DEF Scanned, RouteDone
      <3> QED BY <3>2, <3>3 DEF Carried
    <2> QED BY <1>1, <2>1, <2>2 DEF Exhausted, Carried
  <1>4. CASE \E s \in Stops : FirstWalk(s)
    BY <1>4 DEF FirstWalk, Exhausted
  <1>5. CASE \/ Stop \/ Begin \/ Ride \/ EndScan \/ ScansDone
             \/ \E s \in Stops : Walk(s)
             \/ \E r \in Routes : StartScan(r)
             \/ UNCHANGED vars
    <2>1. /\ pc = "foot" <=> pc' = "foot"
          /\ UNCHANGED <<tauPrev, marked>>
      BY <1>5 DEF Stop, Begin, Ride, EndScan, ScansDone, Walk, StartScan, vars, tau
    <2> QED BY <1>1, <2>1 DEF Exhausted, Carried
  <1> QED BY <1>2, <1>3, <1>4, <1>5 DEF Next

\* Before it starts, a route that no marked stop is on has been used.
LEMMA BeginScanned ==
  ASSUME TypeOK, Shape, Ordered, Straight(plan), Fifo(plan), Exhausted, Begin
  PROVE  Scanned'
  <1>1. plan' = plan /\ \A r \in Routes : Runs(plan, r)' = Runs(plan, r)
    BY SamePlan DEF Runs, Next
  <1>2. /\ pc = "round" /\ pc' = "scan" /\ UNCHANGED <<tauPrev, marked>>
        /\ tauCurr' = tauPrev
        /\ todo' = {r \in Routes : order[r] # <<>> /\ Starts(r) # {}}
    BY DEF Begin
  <1>3. ASSUME NEW r \in Routes, r \notin todo', NEW t \in Runs(plan, r),
               NEW i \in DOMAIN t.visits
        PROVE  Carried(tauPrev, tauPrev, t, i)
    <2>1. t \in plan.trips[r]
      BY RunParts
    <2>2. order[r] # <<>> /\ Rep(r) \in plan.trips[r]
      BY <2>1, ListedTrips
    <2>3. i \in DOMAIN Rep(r).visits /\ Rep(r).visits[i].stop = t.visits[i].stop
      BY <2>1, <2>2, SameStops
    <2>4. Serves(Rep(r), t.visits[i].stop)
      BY <2>3 DEF Serves
    <2>5. t.visits[i].stop \notin marked
      BY <1>2, <1>3, <2>2, <2>4 DEF Starts
    <2> QED BY <1>2, <2>5 DEF Exhausted
  <1> QED BY <1>1, <1>2, <1>3 DEF Scanned, RouteDone, Carried

\* A step that makes no stop later leaves used what was used.
LEMMA DoneKept ==
  ASSUME TypeOK, TypeOK', plan' = plan, tauPrev' = tauPrev,
         \A s \in Stops : tauCurr'[s] <= tauCurr[s], NEW r \in Routes, RouteDone(r)
  PROVE  RouteDone(r)'
  <1>1. Runs(plan, r)' = Runs(plan, r)
    BY DEF Runs
  <1>2. tauCurr \in [Stops -> Nat] /\ tauCurr' \in [Stops -> Nat]
    BY ArrayTimes DEF TypeOK
  <1>3. ASSUME NEW t \in Runs(plan, r), NEW i \in DOMAIN t.visits
        PROVE  Carried(tauPrev, tauCurr', t, i)
    BY <1>2, CarriedKept DEF RouteDone
  <1> QED BY <1>1, <1>3 DEF RouteDone, Carried

\* At its end the scan has used its route.
LEMMA ScanUses ==
  ASSUME TypeOK, Shape, Ordered, Fifo(plan), Riding, EndScan
  PROVE  RouteDone(route)
  <1>1. pc = "ride" /\ route \in Routes /\ pos > Len(Rep(route).visits)
    BY DEF EndScan, Shape
  <1>2. Rep(route) \in plan.trips[route] /\ Rep(route) \in Trips /\ pos \in Nat
    BY <1>1, ListedTrips, PlanIsAsked DEF Shape, TypeOK
  <1> SUFFICES ASSUME NEW t \in Runs(plan, route), NEW i \in DOMAIN t.visits,
                      tauPrev[t.visits[i].stop] <= t.visits[i].dep,
                      NEW j \in DOMAIN t.visits, i < j
               PROVE  tauCurr[t.visits[j].stop] <= t.visits[j].arr
    BY DEF RouteDone, Carried
  <1>3. DOMAIN t.visits = 1..Len(Rep(route).visits) /\ Len(Rep(route).visits) \in Nat
    BY <1>1, <1>2, RunParts, SameStops, VisitParts
  <1>4. i < pos /\ j < pos
    BY <1>1, <1>2, <1>3
  <1>5. Caught(t, i)
    BY <1>1, <1>4 DEF Riding
  <1> QED BY <1>4, <1>5 DEF Caught

LEMMA StepScanned ==
  ASSUME TypeOK, Shape, Ordered, Arrays, Straight(plan), Fifo(plan), Exhausted,
         Scanned, Riding, [Next]_vars
  PROVE  Scanned'
  <1>1. plan' = plan /\ TypeOK'
    BY SamePlan, StepTypes
  <1>2. CASE Begin
    BY <1>2, BeginScanned
  <1>3. ASSUME NEW r \in Routes, StartScan(r)
        PROVE  Scanned'
    <2>1. /\ pc = "scan" /\ pc' = "ride" /\ todo' = todo \ {r} /\ route' = r
          /\ UNCHANGED <<plan, tauPrev, tauCurr>>
      BY <1>3 DEF StartScan, tau
    <2> QED BY <2>1 DEF Scanned, RouteDone, Carried, Runs
  <1>4. CASE Ride
    <2>1. /\ pc = "ride" /\ pc' = "ride" /\ UNCHANGED <<tauPrev, todo, route>>
      BY <1>4 DEF Ride
    <2>2. \A r \in Routes : RouteDone(r) => RouteDone(r)'
      BY <1>1, <1>4, <2>1, RideStepTimes, DoneKept
    <2> QED BY <2>1, <2>2 DEF Scanned
  <1>5. CASE EndScan
    <2>1. /\ pc = "ride" /\ pc' = "scan" /\ UNCHANGED <<plan, tauPrev, tauCurr, todo>>
      BY <1>5 DEF EndScan, tau
    <2>2. RouteDone(route)
      BY <1>5, ScanUses
    <2>3. \A r \in Routes : r \in todo \/ RouteDone(r)
      BY <2>1, <2>2 DEF Scanned
    <2> QED BY <2>1, <2>3 DEF Scanned, RouteDone, Carried, Runs
  <1>6. CASE ScansDone
    <2>1. /\ pc = "scan" /\ pc' = "walk" /\ UNCHANGED <<plan, tauPrev, tauCurr>> /\ todo = {}
      BY <1>6 DEF ScansDone, tau
    <2> QED BY <2>1 DEF Scanned, RouteDone, Carried, Runs
  <1>7. ASSUME NEW s \in Stops, Walk(s)
        PROVE  Scanned'
    <2>1. pc = "walk" /\ pc' = "walk" /\ tauPrev' = tauPrev
      BY <1>7 DEF Walk
    <2>2. \A r \in Routes : RouteDone(r) => RouteDone(r)'
      BY <1>1, <1>7, <2>1, LaterWalkTimes, DoneKept
    <2> QED BY <2>1, <2>2 DEF Scanned
  <1>8. CASE FirstWalksDone \/ Stop \/ End \/ \E s \in Stops : FirstWalk(s)
    BY <1>8 DEF FirstWalksDone, Stop, End, FirstWalk, Scanned
  <1>9. CASE UNCHANGED vars
    BY <1>9 DEF vars, tau, scan, Scanned, RouteDone, Carried, Runs
  <1> QED BY <1>2, <1>3, <1>4, <1>5, <1>6, <1>7, <1>8, <1>9 DEF Next

\* A scan starts where nothing is to be caught.
LEMMA StartRiding ==
  ASSUME TypeOK, Shape, Ordered, Arrays, Straight(plan), Fifo(plan), Exhausted,
         NEW r \in Routes, StartScan(r)
  PROVE  Riding'
  <1>1. /\ pc = "scan" /\ UNCHANGED <<plan, tauPrev, tauCurr>> /\ route' = r
        /\ pos' \in Starts(r) /\ (\A q \in Starts(r) : pos' <= q)
        /\ r \in todo
    BY DEF StartScan, tau
  <1>2. order[r] # <<>> /\ Rep(r) \in plan.trips[r] /\ Rep(r) \in Trips
    BY <1>1, ListedTrips, PlanIsAsked DEF Shape
  <1>3. pos' \in Nat
    BY StepTypes DEF TypeOK, Next
  <1> SUFFICES ASSUME NEW t \in Runs(plan, r), NEW i \in DOMAIN t.visits, i < pos',
                      tauPrev[t.visits[i].stop] <= t.visits[i].dep,
                      NEW j \in DOMAIN t.visits, i < j
               PROVE  tauCurr[t.visits[j].stop] <= t.visits[j].arr
    BY <1>1 DEF Riding, Caught, Runs
  <1>4. /\ t \in plan.trips[r] /\ i \in Nat /\ t.visits[j].stop \in Stops
        /\ t.visits[j].arr \in Nat
    BY RunParts
  <1>5. /\ i \in DOMAIN Rep(r).visits /\ Rep(r).visits[i].stop = t.visits[i].stop
    BY <1>2, <1>4, SameStops
  <1>6. t.visits[i].stop \notin marked
    <2>1. /\ Serves(Rep(r), t.visits[i].stop)
          /\ StopIdx(Rep(r), t.visits[i].stop) = i
      BY <1>2, <1>5, OneVisit
    <2>2. t.visits[i].stop \in marked => i \in Starts(r)
      BY <2>1 DEF Starts
    <2> QED BY <1>1, <1>3, <1>4, <2>2
  <1>7. tauPrev[t.visits[j].stop] <= t.visits[j].arr
    BY <1>1, <1>6 DEF Exhausted, Carried
  <1>8. /\ tauCurr[t.visits[j].stop] <= tauPrev[t.visits[j].stop]
        /\ tauCurr[t.visits[j].stop] \in Nat /\ tauPrev[t.visits[j].stop] \in Nat
    BY <1>1, <1>4, RunParts DEF Arrays, Busy
  <1> QED BY <1>4, <1>7, <1>8

\* At each stop the scan is on a trip that is not after those it could board,
\* and not after the trip it was on.
LEMMA BoardsFirst ==
  ASSUME TypeOK, Shape, Ordered, Aboard, Straight(plan), Fifo(plan), Ride,
         NEW t \in Runs(plan, route)
  PROVE  /\ pos \in DOMAIN t.visits /\ tauPrev[t.visits[pos].stop] <= t.visits[pos].dep
              => trip' # Nil /\ NotAfter(trip', t)
         /\ trip # Nil /\ NotAfter(trip, t) => trip' # Nil /\ NotAfter(trip', t)
  <1> DEFINE s == Rep(route).visits[pos].stop
             C == Boardable(s)
  <1>1. pc = "ride" /\ route \in Routes /\ Board(s) /\ pos \in DOMAIN Rep(route).visits
    BY RideStop DEF Ride, Shape
  <1>2. /\ t \in plan.trips[route] /\ Rep(route) \in plan.trips[route]
        /\ trip # Nil => trip \in plan.trips[route]
    BY <1>1, RideStop DEF Aboard, Runs
  <1>3. /\ pos \in DOMAIN t.visits /\ t.visits[pos].stop = s
    BY <1>1, <1>2, SameStops
  <1>4. /\ tauPrev[s] \in Nat /\ t.visits[pos].dep \in Nat /\ t.visits[pos].dep < Infinity
    BY <1>1, <1>3, RunParts
  <1>5. \A n \in C : order[route][n] \in plan.trips[route] /\ order[route][n] # Nil
    BY <1>1, ListedTrips, PlanIsAsked, Bounds DEF Boardable, Catchable
  <1>6. ASSUME NEW n \in C
        PROVE  /\ Dep(order[route][n], s) = order[route][n].visits[pos].dep
               /\ pos \in DOMAIN order[route][n].visits
               /\ order[route][n].visits[pos].dep \in Nat
    <2>1. /\ order[route][n] \in plan.trips[route] /\ order[route][n] \in Trips
      BY <1>1, <1>5, PlanIsAsked
    <2>2. /\ pos \in DOMAIN order[route][n].visits
          /\ order[route][n].visits[pos].stop = s
      BY <1>1, <1>2, <2>1, SameStops
    <2> HIDE DEF s, C
    <2> QED BY <1>1, <2>1, <2>2, OneVisit, VisitParts
  <1>7. ASSUME trip # Nil
        PROVE  /\ trip \in plan.trips[route] /\ Serves(trip, s)
               /\ Dep(trip, s) = trip.visits[pos].dep /\ pos \in DOMAIN trip.visits
               /\ trip.visits[pos].dep \in Nat
    <2>1. trip \in plan.trips[route] /\ trip \in Trips
      BY <1>1, <1>2, <1>7, PlanIsAsked
    <2>2. pos \in DOMAIN trip.visits /\ trip.visits[pos].stop = s
      BY <1>1, <1>2, <2>1, SameStops
    <2> HIDE DEF s
    <2> QED BY <1>1, <2>1, <2>2, OneVisit, VisitParts
  <1> HIDE DEF s, C
  <1>8. ASSUME trip # Nil, NotAfter(trip, t)
        PROVE  trip' # Nil /\ NotAfter(trip', t)
    <2>1. CASE trip' = trip
      BY <1>8, <2>1
    <2>2. CASE trip' # trip
      <3>1. PICK n \in C : Sooner(order[route][n], s) /\ trip' = order[route][n]
        BY <1>1, <2>2 DEF Board, C
      <3>2. order[route][n].visits[pos].dep <= trip.visits[pos].dep
        BY <1>6, <1>7, <1>8, <3>1 DEF Sooner
      <3>3. NotAfter(order[route][n], trip)
        BY <1>1, <1>5, <1>6, <1>7, <1>8, <3>2, NoOvertaking
      <3> QED BY <1>1, <1>2, <1>5, <1>7, <1>8, <3>1, <3>3, NotAfterTransitive
    <2> QED BY <2>1, <2>2
  <1>9. ASSUME tauPrev[s] <= t.visits[pos].dep
        PROVE  trip' # Nil /\ NotAfter(trip', t)
    <2>1. tauPrev[s] < Infinity
      BY <1>4, <1>9, Bounds
    <2>2. /\ C # {}
          /\ \A n \in C : (\A m \in C : n <= m) => NotAfter(order[route][n], t)
      BY <1>1, <1>3, <1>4, <1>9, FoundFirst DEF C, Boardable
    <2>3. PICK n \in C : /\ \A m \in C : n <= m
                         /\ \/ UNCHANGED trip /\ ~Sooner(order[route][n], s)
                            \/ trip' = order[route][n]
      <3>1. tauPrev[s] \in Nat /\ Infinity \in Nat /\ ~ (tauPrev[s] >= Infinity)
        BY <1>4, <2>1, Bounds
      <3> QED BY <1>1, <2>2, <3>1 DEF Board, C
    <2>4. NotAfter(order[route][n], t)
      BY <2>2, <2>3
    <2>5. CASE trip' = order[route][n]
      BY <1>5, <2>4, <2>5
    <2>6. CASE UNCHANGED trip /\ ~Sooner(order[route][n], s)
      <3>1. trip # Nil
        BY <2>6 DEF Sooner
      <3>2. trip.visits[pos].dep <= order[route][n].visits[pos].dep
        BY <1>6, <1>7, <2>6, <3>1 DEF Sooner
      <3>3. NotAfter(trip, order[route][n])
        BY <1>1, <1>5, <1>7, <3>1, <3>2, NoOvertaking
      <3>4. NotAfter(trip, t)
        BY <1>1, <1>2, <1>5, <1>7, <2>4, <3>1, <3>3, NotAfterTransitive
      <3> QED BY <2>6, <3>1, <3>4
    <2> QED BY <2>3, <2>5, <2>6
  <1> QED BY <1>3, <1>8, <1>9

LEMMA RideRiding ==
  ASSUME TypeOK, Shape, Ordered, Arrays, Aboard, Straight(plan), Fifo(plan), Riding, Ride
  PROVE  Riding'
  <1> DEFINE s == Rep(route).visits[pos].stop
  <1>1. /\ pc = "ride" /\ UNCHANGED <<plan, tauPrev, route>> /\ pos' = pos + 1
        /\ route \in Routes /\ pos \in Nat /\ TypeOK'
        /\ pos \in DOMAIN Rep(route).visits /\ Rep(route) \in plan.trips[route]
    BY StepTypes, RideStop DEF Ride, Shape, TypeOK, Next
  <1>2. tauCurr \in [Stops -> Nat] /\ tauCurr' \in [Stops -> Nat]
    BY <1>1, ArrayTimes DEF TypeOK
  <1> SUFFICES ASSUME NEW t \in Runs(plan, route), NEW i \in DOMAIN t.visits, i < pos + 1,
                      tauPrev[t.visits[i].stop] <= t.visits[i].dep
               PROVE  Caught(t, i)'
    BY <1>1 DEF Riding, Runs
  <1>3. /\ t \in plan.trips[route] /\ i \in Nat
        /\ \A j \in DOMAIN t.visits : /\ j \in Nat /\ t.visits[j].stop \in Stops
                                      /\ t.visits[j].arr \in Nat
    BY <1>1, RunParts
  <1>4. pos \in DOMAIN t.visits /\ t.visits[pos].stop = s
    BY <1>1, <1>3, SameStops
  \* What the scan has passed stays as early.
  <1>5. ASSUME NEW j \in DOMAIN t.visits, tauCurr[t.visits[j].stop] <= t.visits[j].arr
        PROVE  tauCurr'[t.visits[j].stop] <= t.visits[j].arr
    <2>1. tauCurr'[t.visits[j].stop] <= tauCurr[t.visits[j].stop]
      BY <1>3, RideStepTimes
    <2> QED BY <1>2, <1>3, <1>5, <2>1
  \* It alights here, if it is on a trip, no later than t.
  <1>6. ASSUME trip # Nil, NotAfter(trip, t)
        PROVE  tauCurr'[t.visits[pos].stop] <= t.visits[pos].arr
    <2>1. trip \in plan.trips[route] /\ trip \in Trips
      BY <1>1, <1>6, PlanIsAsked DEF Aboard
    <2>2. pos \in DOMAIN trip.visits /\ trip.visits[pos].stop = s
      BY <1>1, <2>1, SameStops
    <2>3. Serves(trip, s) /\ Arr(trip, s) = trip.visits[pos].arr
      BY <1>1, <2>1, <2>2, OneVisit
    <2>4. trip.visits[pos].arr <= t.visits[pos].arr
      BY <1>6, <2>2 DEF NotAfter
    <2>5. trip.visits[pos].arr \in Nat
      BY <2>1, <2>2, VisitParts
    <2>6. tauCurr'[s] <= trip.visits[pos].arr
      BY <1>6, <2>3, RideStepTimes
    <2> HIDE DEF s
    <2>7. tauCurr'[s] \in Nat /\ t.visits[pos].arr \in Nat
      BY <1>2, <1>3, <1>4
    <2> QED BY <1>4, <2>4, <2>5, <2>6, <2>7
  <1>7. CASE i < pos
    <2>1. Caught(t, i)
      BY <1>1, <1>7 DEF Riding
    <2>2. \/ \A j \in DOMAIN t.visits : i < j => tauCurr'[t.visits[j].stop] <= t.visits[j].arr
          \/ trip # Nil /\ NotAfter(trip, t)
      BY <1>5, <2>1 DEF Caught
    <2>3. \/ \A j \in DOMAIN t.visits : i < j => tauCurr'[t.visits[j].stop] <= t.visits[j].arr
          \/ trip' # Nil /\ NotAfter(trip', t)
      BY <1>1, <2>2, BoardsFirst
    <2>4. ASSUME NEW j \in DOMAIN t.visits, i < j, j < pos + 1
          PROVE  tauCurr'[t.visits[j].stop] <= t.visits[j].arr
      <3>1. CASE j < pos
        BY <1>5, <2>1, <2>4, <3>1 DEF Caught
      <3>2. CASE j = pos
        BY <1>6, <2>2, <2>4, <3>2
      <3> QED BY <1>1, <1>3, <2>4, <3>1, <3>2
    <2> QED BY <1>1, <2>3, <2>4 DEF Caught, NotAfter
  <1>8. CASE i = pos
    <2>1. trip' # Nil /\ NotAfter(trip', t)
      BY <1>8, BoardsFirst
    <2>2. \A j \in DOMAIN t.visits : ~ (i < j /\ j < pos + 1)
      BY <1>1, <1>3, <1>8
    <2> QED BY <1>1, <2>1, <2>2 DEF Caught, NotAfter
  <1> QED BY <1>1, <1>3, <1>7, <1>8

LEMMA StepRiding ==
  ASSUME TypeOK, Shape, Ordered, Arrays, Aboard, Straight(plan), Fifo(plan), Exhausted,
         Riding, [Next]_vars
  PROVE  Riding'
  <1>1. ASSUME NEW r \in Routes, StartScan(r)
        PROVE  Riding'
    BY <1>1, StartRiding
  <1>2. CASE Ride
    BY <1>2, RideRiding
  <1>3. CASE \/ FirstWalksDone \/ Stop \/ Begin \/ EndScan \/ ScansDone \/ End
             \/ \E s \in Stops : FirstWalk(s) \/ Walk(s)
    BY <1>3 DEF FirstWalksDone, Stop, Begin, EndScan, ScansDone, End, FirstWalk, Walk, Riding
  <1>4. CASE UNCHANGED vars
    BY <1>4 DEF vars, tau, scan, Riding, Caught, Runs
  <1> QED BY <1>1, <1>2, <1>3, <1>4 DEF Next

LEMMA InitEarly == Init => EarlyInv
  <1> SUFFICES ASSUME Init PROVE EarlyInv
    OBVIOUS
  <1>1. pc = "foot"
    BY DEF Init
  <1>2. Exhausted /\ Scanned /\ Riding
    BY <1>1 DEF Exhausted, Scanned, Riding
  <1> QED BY <1>2, InitArrays DEF EarlyInv

LEMMA StepEarly ==
  ASSUME IInv, EarlyInv, [Next]_vars
  PROVE  EarlyInv'
  <1>1. TypeOK /\ Shape /\ Aboard
    BY DEF IInv
  <1>2. plan' = plan
    BY SamePlan
  <1>3. /\ Straight(plan)' <=> Straight(plan)
        /\ Fifo(plan)' <=> Fifo(plan)
    BY <1>2 DEF Straight, Fifo, Serves, StopIdx
  <1>4. Ordered' /\ Arrays' /\ Stopped'
    BY <1>1, StepArrays DEF EarlyInv
  <1>5. Straight(plan) /\ Fifo(plan) => Exhausted' /\ Scanned' /\ Riding'
    BY <1>1, StepExhausted, StepScanned, StepRiding DEF EarlyInv
  <1> QED BY <1>3, <1>4, <1>5 DEF EarlyInv

\* The inductive invariant: between two steps of a round, the rides and walks
\* that are left to be taken are those the loops have not come to.
THEOREM EarlyInvariance == Spec => [](IInv /\ EarlyInv)
  <1>1. Init => EarlyInv
    BY InitEarly
  <1>2. IInv /\ EarlyInv /\ [Next]_vars => EarlyInv'
    BY StepEarly
  <1> QED BY <1>1, <1>2, Invariance, PTL DEF Spec

-----------------------------------------------------------------------------
(* The way back from a label.                                              *)

RidesFollowOn ==
  \A k \in 0..Rounds, s \in Stops :
    LET l == labels[k][s] IN
      l # Nil /\ l.trip # Nil =>
        /\ k # 0
        /\ labels[k - 1][l.from] # Nil
        /\ labels[k - 1][l.from].time <= Dep(l.trip, l.from)

\* A marked stop has a label of the round before, and its time.
MarkedTold == pc # "foot" => \A s \in marked : At(Past, s, tauPrev[s])

\* Who boarded where nothing is marked has nothing to alight for.
BoardedMarked ==
  pc = "ride" /\ trip # Nil =>
    \/ board \in marked /\ tauPrev[board] <= Dep(trip, board)
    \/ \A j \in DOMAIN trip.visits :
         StopIdx(trip, board) < j => tauCurr[trip.visits[j].stop] <= trip.visits[j].arr

Afoot(k, s) == labels[k][s] # Nil /\ labels[k][s].trip = Nil

WalksAreTold ==
  \A k \in 0..Rounds, s \in Stops : Afoot(k, s) => WalkOK(k, s, labels[k][s])

WalksLeadBack ==
  \A k \in 0..Rounds : \A S \in SUBSET Stops :
    S # {} => \E s \in S : Afoot(k, s) => labels[k][s].from \notin S

WaysInv ==
  /\ MarkedTold /\ WalksAreTold /\ WalksLeadBack
  /\ Straight(plan) /\ Fifo(plan) => BoardedMarked /\ RidesFollowOn

LEMMA StepMarkedTold ==
  ASSUME TypeOK, Shape, Told, MarkedTold, [Next]_vars
  PROVE  MarkedTold'
  <1>1. CASE FirstWalksDone
    <2>1. /\ pc = "foot" /\ Past' = 0 /\ UNCHANGED <<tauPrev, labels, marked>>
      BY <1>1 DEF FirstWalksDone, tau, Shape, Past, Busy
    <2>2. \A s \in marked : At(0, s, tauPrev[s])
      BY <2>1 DEF Told, OnFoot, TypeOK
    <2> QED BY <2>1, <2>2 DEF MarkedTold, At
  <1>2. CASE End
    <2>1. /\ pc = "walk" /\ pc' = "round" /\ Past' = round
          /\ tauPrev' = tauCurr /\ marked' = fresh /\ labels' = labels
      BY <1>2 DEF End, Past, Busy
    <2>2. \A s \in fresh : At(round, s, tauCurr[s])
      BY <2>1 DEF Told, InRound, Busy, At, TypeOK
    <2> QED BY <2>1, <2>2 DEF MarkedTold, At
  <1>3. CASE Ride \/ \E s \in Stops : Walk(s)
    <2>1. /\ pc \in {"ride", "walk"} /\ pc' = pc /\ UNCHANGED <<round, tauPrev, marked>>
          /\ round \in 0..Rounds /\ round # 0 /\ Past = round - 1 /\ Past' = round - 1
          /\ labels'[round - 1] = labels[round - 1]
      <3>1. /\ pc \in {"ride", "walk"} /\ pc' = pc /\ UNCHANGED <<round, tauPrev, marked>>
            /\ round \in 0..Rounds /\ round # 0
        BY <1>3 DEF Ride, Walk, TypeOK, Shape
      <3>2. round - 1 \in 0..Rounds /\ round - 1 # round
        BY <3>1, Bounds
      <3>3. labels'[round - 1] = labels[round - 1]
        <4>1. CASE Ride
          BY <3>2, <4>1, RideStop, AlightEffect DEF Ride
        <4>2. ASSUME NEW s \in Stops, Walk(s) PROVE labels'[round - 1] = labels[round - 1]
          BY <3>2, <4>2 DEF Walk, TypeOK
        <4> QED BY <1>3, <4>1, <4>2
      <3> QED BY <3>1, <3>3 DEF Past, Busy
    <2> QED BY <2>1 DEF MarkedTold, At
  <1>4. CASE \E s \in Stops : FirstWalk(s)
    BY <1>4 DEF FirstWalk, MarkedTold
  <1>5. CASE \/ Stop \/ Begin \/ EndScan \/ ScansDone
             \/ \E r \in Routes : StartScan(r)
             \/ UNCHANGED vars
    <2>1. /\ pc' # "foot" => pc # "foot"
          /\ UNCHANGED <<tauPrev, labels, marked>> /\ Past' = Past
      BY <1>5 DEF Stop, Begin, EndScan, ScansDone, StartScan, vars, tau, Past, Busy, TypeOK
    <2> QED BY <2>1 DEF MarkedTold, At
  <1> QED BY <1>1, <1>2, <1>3, <1>4, <1>5 DEF Next

\* Where the scan is, its trip is too; it has left behind where it boarded.
LEMMA AboardHere ==
  ASSUME TypeOK, Shape, Aboard, Straight(plan), Fifo(plan), Ride, trip # Nil
  PROVE  LET s == Rep(route).visits[pos].stop
         IN /\ trip \in Runs(plan, route) /\ pos \in DOMAIN trip.visits
            /\ trip.visits[pos].stop = s /\ Arr(trip, s) = trip.visits[pos].arr
            /\ StopIdx(trip, board) < pos
  <1> DEFINE s == Rep(route).visits[pos].stop
  <1>1. /\ pc = "ride" /\ route \in Routes /\ pos \in DOMAIN Rep(route).visits
        /\ Rep(route) \in plan.trips[route] /\ Rep(route) \in Trips
    BY RideStop DEF Ride, Shape
  <1>2. trip \in plan.trips[route] /\ trip.id \notin plan.exclude
    BY <1>1 DEF Aboard
  <1>3. PICK p \in DOMAIN Rep(route).visits : p < pos /\ Rep(route).visits[p].stop = board
    BY <1>1 DEF Aboard
  <1>4. /\ pos \in DOMAIN trip.visits /\ trip.visits[pos].stop = s
        /\ p \in DOMAIN trip.visits /\ trip.visits[p].stop = board
    BY <1>1, <1>2, <1>3, SameStops
  <1>5. StopIdx(trip, board) = p /\ Arr(trip, s) = trip.visits[pos].arr
    <2> HIDE DEF s
    <2> QED BY <1>1, <1>2, <1>4, OneVisit
  <1> QED BY <1>2, <1>3, <1>4, <1>5 DEF Runs

LEMMA RideBoardedMarked ==
  ASSUME TypeOK, Shape, Ordered, Arrays, Aboard, Straight(plan), Fifo(plan), Exhausted,
         BoardedMarked, Ride
  PROVE  BoardedMarked'
  <1> DEFINE s == Rep(route).visits[pos].stop
  <1>1. /\ pc = "ride" /\ route \in Routes /\ s \in Stops /\ Board(s) /\ TypeOK'
        /\ UNCHANGED <<plan, marked, tauPrev>>
    BY RideStop, StepTypes DEF Ride, Shape, Next
  <1>2. /\ tauPrev \in [Stops -> Nat] /\ tauCurr \in [Stops -> Nat]
        /\ tauCurr' \in [Stops -> Nat]
        /\ \A u \in Stops : tauCurr'[u] <= tauCurr[u] /\ tauCurr[u] <= tauPrev[u]
    BY <1>1, ArrayTimes, RideStepTimes DEF TypeOK, Arrays, Busy
  <1> HIDE DEF s
  <1>3. CASE UNCHANGED <<trip, board>>
    <2>1. ASSUME trip # Nil, NEW j \in DOMAIN trip.visits,
                 tauCurr[trip.visits[j].stop] <= trip.visits[j].arr
          PROVE  tauCurr'[trip.visits[j].stop] <= trip.visits[j].arr
      <3>1. trip.visits[j].stop \in Stops /\ trip.visits[j].arr \in Nat
        BY <2>1, VisitParts DEF TypeOK
      <3> DEFINE u == trip.visits[j].stop
      <3>2. tauCurr'[u] <= tauCurr[u] /\ tauCurr'[u] \in Nat /\ tauCurr[u] \in Nat
        BY <1>2, <3>1
      <3>3. tauCurr[u] <= trip.visits[j].arr
        BY <2>1
      <3> HIDE DEF u
      <3>4. tauCurr'[u] <= trip.visits[j].arr
        BY <3>1, <3>2, <3>3
      <3> QED BY <3>4 DEF u
    <2> QED BY <1>1, <1>3, <2>1 DEF BoardedMarked, Dep, StopIdx
  <1>4. ASSUME NEW n \in Boardable(s), trip' = order[route][n], board' = s
        PROVE  BoardedMarked'
    <2> DEFINE t == order[route][n]
               i == StopIdx(t, s)
    <2>1. /\ t \in plan.trips[route] /\ t.id \notin plan.exclude /\ Serves(t, s)
          /\ Dep(t, s) >= tauPrev[s] /\ t \in Trips
      BY <1>1, ListedTrips, PlanIsAsked DEF Boardable, Catchable
    <2>2. tauPrev[s] <= Dep(t, s)
      BY <1>1, <1>2, <2>1, VisitTimes
    <2> HIDE DEF t
    <2>3. CASE s \in marked
      BY <1>1, <1>4, <2>2, <2>3 DEF BoardedMarked, t, Dep, StopIdx
    <2>4. CASE s \notin marked
      <3>1. t \in Runs(plan, route)
        BY <2>1 DEF Runs
      <3>2. i \in DOMAIN t.visits /\ t.visits[i].stop = s /\ Dep(t, s) = t.visits[i].dep
        BY <2>1, LastVisit DEF Dep
      <3> HIDE DEF i
      <3>3. \A j \in DOMAIN t.visits : i < j => tauPrev[t.visits[j].stop] <= t.visits[j].arr
        BY <1>1, <2>2, <2>4, <3>1, <3>2 DEF Exhausted, Carried
      <3>4. ASSUME NEW j \in DOMAIN t.visits, i < j
            PROVE  tauCurr'[t.visits[j].stop] <= t.visits[j].arr
        <4> DEFINE u == t.visits[j].stop
        <4>1. u \in Stops /\ t.visits[j].arr \in Nat
          BY <2>1, VisitParts
        <4>2. tauPrev[u] <= t.visits[j].arr
          BY <3>3, <3>4
        <4> HIDE DEF u
        <4>3. tauCurr'[u] <= t.visits[j].arr
          BY <1>2, <4>1, <4>2
        <4> QED BY <4>3 DEF u
      <3>5. trip' = t /\ StopIdx(trip, board)' = i
        BY <1>4 DEF t, i, StopIdx
      <3> QED BY <3>4, <3>5 DEF BoardedMarked
    <2> QED BY <2>3, <2>4
  <1> QED BY <1>1, <1>3, <1>4 DEF Board

LEMMA StepBoardedMarked ==
  ASSUME TypeOK, Shape, Ordered, Arrays, Aboard, Straight(plan), Fifo(plan), Exhausted,
         BoardedMarked, [Next]_vars
  PROVE  BoardedMarked'
  <1>1. CASE Ride
    BY <1>1, RideBoardedMarked
  <1>2. CASE \/ FirstWalksDone \/ Stop \/ Begin \/ EndScan \/ ScansDone \/ End
             \/ \E s \in Stops : FirstWalk(s) \/ Walk(s)
             \/ \E r \in Routes : StartScan(r)
    BY <1>2 DEF FirstWalksDone, Stop, Begin, EndScan, ScansDone, End, FirstWalk, Walk,
       StartScan, BoardedMarked
  <1>3. CASE UNCHANGED vars
    BY <1>3 DEF vars, tau, scan, BoardedMarked, Dep, StopIdx
  <1> QED BY <1>1, <1>2, <1>3 DEF Next

\* A step gives a stop a label of a ride, or none, or a walk's.
LEMMA StepRidesFollowOn ==
  ASSUME TypeOK, TypeOK', Shape, Told, OnlyEarlier, Aboard, Straight(plan), Fifo(plan),
         MarkedTold, BoardedMarked, RidesFollowOn, LabelsAreJourneys, [Next]_vars
  PROVE  RidesFollowOn'
  <1> SUFFICES ASSUME NEW k \in 0..Rounds, NEW s \in Stops, labels'[k][s] # Nil,
                      labels'[k][s].trip # Nil
               PROVE  /\ k # 0
                      /\ labels'[k - 1][labels'[k][s].from] # Nil
                      /\ labels'[k - 1][labels'[k][s].from].time
                           <= Dep(labels'[k][s].trip, labels'[k][s].from)
    BY DEF RidesFollowOn, Dep, StopIdx
  <1>1. ASSUME NEW u \in Stops, k # 0, labels[k - 1][u] # Nil, NEW d \in Nat,
               labels[k - 1][u].time <= d
        PROVE  labels'[k - 1][u] # Nil /\ labels'[k - 1][u].time <= d
    <2>1. k - 1 \in 0..Rounds
      BY <1>1, Bounds
    <2>2. /\ labels'[k - 1][u] # Nil
          /\ labels'[k - 1][u].time <= labels[k - 1][u].time
      BY <1>1, <2>1 DEF OnlyEarlier
    <2>3. labels[k - 1][u].time \in Nat /\ labels'[k - 1][u].time \in Nat
      BY <1>1, <2>1, <2>2 DEF TypeOK, Label
    <2> QED BY <1>1, <2>2, <2>3
  <1>2. CASE labels'[k][s] = labels[k][s]
    <2> DEFINE l == labels[k][s]
    <2>1. /\ k # 0 /\ l # Nil /\ l.trip # Nil /\ labels[k - 1][l.from] # Nil
          /\ labels[k - 1][l.from].time <= Dep(l.trip, l.from)
      BY <1>2 DEF RidesFollowOn
    <2>2. l.from \in Stops /\ Dep(l.trip, l.from) \in Nat
      <3>1. Serves(l.trip, l.from) /\ l.trip \in Trips
        BY <2>1 DEF LabelsAreJourneys, RideOK, TypeOK, Label
      <3>2. PICK i \in DOMAIN l.trip.visits : l.trip.visits[i].stop = l.from
        BY <3>1 DEF Serves
      <3> QED BY <3>1, <3>2, VisitTimes, VisitParts
    <2> QED BY <1>1, <1>2, <2>1, <2>2
  <1>3. CASE Ride /\ labels'[k][s] # labels[k][s]
    <2> DEFINE at == Rep(route).visits[pos].stop
    <2>1. /\ at \in Stops /\ pc = "ride" /\ Alight(at)
          /\ round \in 0..Rounds /\ round # 0
      BY <1>3, RideStop DEF Ride, TypeOK, Shape
    <2>2. /\ k = round /\ s = at /\ trip \in Trips /\ Serves(trip, s)
          /\ route \in Routes /\ board \in Stops /\ Arr(trip, s) \in Nat
          /\ Arr(trip, s) < tauCurr[s]
          /\ labels'[round][s] = Rode(route, trip, board, Arr(trip, s))
      BY <1>3, <2>1, AlightEffect
    <2>3. /\ labels'[k][s].trip = trip /\ labels'[k][s].from = board
      BY <2>2, RodeLabel
    <2>4. /\ pos \in DOMAIN trip.visits /\ trip.visits[pos].stop = s
          /\ Arr(trip, s) = trip.visits[pos].arr /\ StopIdx(trip, board) < pos
      BY <1>3, <2>2, Bounds, AboardHere
    <2>5. tauCurr[s] \in Nat
      BY ArrayTimes
    <2>6. board \in marked /\ tauPrev[board] <= Dep(trip, board)
      BY <2>1, <2>2, <2>4, <2>5, Bounds DEF BoardedMarked
    <2>7. At(round - 1, board, tauPrev[board])
      BY <2>1, <2>6 DEF MarkedTold, Past, Busy
    <2>8. Serves(trip, board)
      BY <2>1, <2>2, Bounds DEF Aboard
    <2>9. Dep(trip, board) \in Nat
      BY <2>2, <2>8, VisitTimes
    <2> HIDE DEF at
    <2> QED BY <1>1, <2>1, <2>2, <2>3, <2>6, <2>7, <2>9 DEF At
  <1>4. ASSUME NEW u \in Stops, FirstWalk(u) \/ Walk(u), labels'[k][s] # labels[k][s]
        PROVE  FALSE
    <2>1. \E v \in Stops, a \in Nat : labels'[k][s] = Walked(v, a)
      <3>1. CASE FirstWalk(u)
        <4>1. k = 0
          BY <1>4, <3>1 DEF FirstWalk, TypeOK
        <4> QED BY <1>4, <3>1, <4>1, FirstWalkEffect
      <3>2. CASE Walk(u)
        <4>1. k = round
          BY <1>4, <3>2 DEF Walk, TypeOK
        <4> QED BY <1>4, <3>2, <4>1, WalkEffect
      <3> QED BY <1>4, <3>1, <3>2
    <2> QED BY <2>1, WalkedLabel
  <1> QED BY <1>2, <1>3, <1>4 DEF Next, FirstWalksDone, Stop, Begin, EndScan, ScansDone,
          End, StartScan, vars, tau

\* What a step may do to the labels of a round: nothing, one ride, or walks
\* from one stop, each in the place of a later label.
OneRide(k) ==
  \A s \in Stops : labels'[k][s] = labels[k][s] \/ ~Afoot(k, s)'

WalksFrom(k, u, time) ==
  /\ At(k, u, time) /\ labels'[k][u] = labels[k][u]
  /\ \A s \in Stops :
       \/ labels'[k][s] = labels[k][s]
       \/ /\ labels'[k][s] = Walked(u, time + plan.foot[u][s])
          /\ labels[k][s] # Nil => time + plan.foot[u][s] < labels[k][s].time

LEMMA LabelSteps ==
  ASSUME TypeOK, Shape, Told, Arrays, [Next]_vars, NEW k \in 0..Rounds
  PROVE  OneRide(k) \/ \E u \in Stops : \E time \in Nat : WalksFrom(k, u, time)
  <1>1. ASSUME NEW u \in Stops, FirstWalk(u), k = 0
        PROVE  \E time \in Nat : WalksFrom(k, u, time)
    <2>1. pc = "foot" /\ u \in marked
      BY <1>1 DEF FirstWalk, Told, OnFoot
    <2>2. At(0, u, tauPrev[u]) /\ tauPrev[u] \in Nat
      BY <2>1, ArrayTimes DEF Told, OnFoot
    <2>3. ASSUME NEW s \in Stops
          PROVE  \/ labels'[0][s] = labels[0][s]
                 \/ /\ labels'[0][s] = Walked(u, tauPrev[u] + plan.foot[u][s])
                    /\ labels[0][s] # Nil => tauPrev[u] + plan.foot[u][s] < labels[0][s].time
                    /\ tauPrev[u] + plan.foot[u][s] < tauPrev[s]
      <3>1. labels[0][s] # Nil => labels[0][s].time = tauPrev[s]
        BY <2>1 DEF Told, OnFoot
      <3> QED BY <1>1, <3>1, FirstWalkEffect DEF Reached
    <2>4. labels'[0][u] = labels[0][u]
      <3>1. plan.foot[u][u] \in Nat
        BY PlanParts DEF TypeOK
      <3>2. ~ (tauPrev[u] + plan.foot[u][u] < tauPrev[u])
        BY <2>2, <3>1
      <3> QED BY <2>3, <3>2
    <2> QED BY <1>1, <2>2, <2>3, <2>4 DEF WalksFrom
  <1>2. ASSUME NEW u \in Stops, Walk(u), k = round
        PROVE  \E time \in Nat : WalksFrom(k, u, time)
    <2>1. pc = "walk" /\ u \in fresh
      BY <1>2 DEF Walk, Told, InRound, Busy
    <2>2. At(round, u, tauCurr[u]) /\ tauCurr[u] \in Nat
      BY <2>1, ArrayTimes DEF Told, InRound, Busy, At
    <2>3. ASSUME NEW s \in Stops
          PROVE  \/ labels'[round][s] = labels[round][s]
                 \/ /\ labels'[round][s] = Walked(u, tauCurr[u] + plan.foot[u][s])
                    /\ labels[round][s] # Nil =>
                         tauCurr[u] + plan.foot[u][s] < labels[round][s].time
                    /\ tauCurr[u] + plan.foot[u][s] < tauCurr[s]
      <3>1. labels[round][s] # Nil => labels[round][s].time = tauCurr[s]
        BY <2>1 DEF Told, InRound, Busy
      <3> QED BY <1>2, <3>1, WalkEffect DEF Reached
    <2>4. labels'[round][u] = labels[round][u]
      <3>1. plan.foot[u][u] \in Nat
        BY PlanParts DEF TypeOK
      <3>2. ~ (tauCurr[u] + plan.foot[u][u] < tauCurr[u])
        BY <2>2, <3>1
      <3> QED BY <2>3, <3>2
    <2> QED BY <1>2, <2>2, <2>3, <2>4 DEF WalksFrom
  <1>3. ASSUME NEW u \in Stops, \/ FirstWalk(u) /\ k # 0
                                \/ Walk(u) /\ k # round
        PROVE  OneRide(k)
    BY <1>3 DEF FirstWalk, Walk, TypeOK, OneRide
  <1>4. CASE Ride
    <2> DEFINE at == Rep(route).visits[pos].stop
    <2>1. at \in Stops /\ pc = "ride" /\ Alight(at)
      BY <1>4, RideStop DEF Ride
    <2>2. ASSUME NEW s \in Stops, labels'[k][s] # labels[k][s]
          PROVE  ~Afoot(k, s)'
      <3>1. /\ k = round /\ s = at /\ trip \in Trips
            /\ route \in Routes /\ board \in Stops /\ Arr(trip, s) \in Nat
            /\ labels'[round][s] = Rode(route, trip, board, Arr(trip, s))
        BY <2>1, <2>2, AlightEffect
      <3>2. labels'[k][s].trip = trip /\ trip # Nil
        BY <3>1, RodeLabel, Bounds
      <3> QED BY <3>2 DEF Afoot
    <2> QED BY <2>2 DEF OneRide
  <1>5. CASE UNCHANGED labels
    BY <1>5 DEF OneRide
  <1> QED BY <1>1, <1>2, <1>3, <1>4, <1>5 DEF Next, FirstWalksDone, Stop, Begin, EndScan,
          ScansDone, End, StartScan, vars, tau

LEMMA StepWalksAreTold ==
  ASSUME TypeOK, TypeOK', Shape, Told, Arrays, OnlyEarlier, WalksAreTold, [Next]_vars
  PROVE  WalksAreTold'
  <1>1. plan' = plan
    BY SamePlan
  <1> SUFFICES ASSUME NEW k \in 0..Rounds, NEW s \in Stops, Afoot(k, s)'
               PROVE  WalkOK(k, s, labels[k][s])'
    BY DEF WalksAreTold
  <1>2. CASE labels'[k][s] = labels[k][s]
    <2>1. Afoot(k, s)
      BY <1>2 DEF Afoot
    <2>2. PICK l \in Label : l = labels[k][s]
      BY <2>1 DEF TypeOK, Afoot
    <2>3. JourneyOK(k, s, l) /\ l.trip = Nil
      BY <2>1, <2>2 DEF JourneyOK, WalksAreTold, Afoot
    <2>4. JourneyOK(k, s, l)'
      BY <1>1, <2>3, JourneyKept
    <2> QED BY <1>2, <2>2, <2>3, <2>4 DEF JourneyOK
  <1>3. ASSUME NEW u \in Stops, NEW time \in Nat, WalksFrom(k, u, time),
               labels'[k][s] # labels[k][s]
        PROVE  WalkOK(k, s, labels[k][s])'
    <2>1. /\ At(k, u, time)
          /\ labels'[k][s] = Walked(u, time + plan.foot[u][s])
      BY <1>3 DEF WalksFrom
    <2>2. JourneyOK(k, s, labels[k][s])'
      BY <1>1, <2>1, NewWalk
    <2> QED BY <2>2 DEF JourneyOK, Afoot
  <1> QED BY <1>2, <1>3, LabelSteps DEF OneRide

\* Walks from one stop close no circle: around it nothing would be earlier.
LEMMA NoCircle ==
  ASSUME TypeOK, TypeOK', plan' = plan, WalksAreTold, WalksLeadBack, OnlyEarlier,
         NEW k \in 0..Rounds, NEW u \in Stops, NEW time \in Nat, WalksFrom(k, u, time),
         NEW S \in SUBSET Stops, S # {}
  PROVE  \E s \in S : Afoot(k, s)' => labels'[k][s].from \notin S
  <1> SUFFICES ASSUME \A s \in S : Afoot(k, s)' /\ labels'[k][s].from \in S
               PROVE  FALSE
    OBVIOUS
  <1> DEFINE T == {labels'[k][s].time : s \in S}
  <1>1. \A s \in S : labels'[k][s] \in Label /\ labels'[k][s].time \in Nat
    BY DEF TypeOK, Afoot, Label
  <1>2. T \in SUBSET Nat /\ T # {}
    BY <1>1
  <1>3. PICK least \in T : \A x \in T : least <= x
    BY <1>2, MinOf
  <1>4. least \in Nat /\ \A s \in S : least <= labels'[k][s].time
    BY <1>2, <1>3
  <1> DEFINE M == {s \in S : labels'[k][s].time = least}
             N == {s \in M : labels'[k][s] = labels[k][s]}
  <1>5. M # {}
    BY <1>3
  <1>6. ASSUME NEW s \in S, labels'[k][s] # labels[k][s]
        PROVE  /\ u \in S /\ labels'[k][s].time = time + plan.foot[u][s]
               /\ plan.foot[u][s] \in Nat
               /\ labels[k][s] # Nil => labels'[k][s].time < labels[k][s].time
    <2>1. plan.foot[u][s] \in Nat /\ time + plan.foot[u][s] \in Nat
      <3>1. plan \in Plans /\ s \in Stops
        BY DEF TypeOK
      <3>2. plan.foot[u][s] \in Nat
        BY <3>1, PlanParts
      <3> QED BY <3>2
    <2>2. labels'[k][s] = Walked(u, time + plan.foot[u][s])
      BY <1>6 DEF WalksFrom
    <2>3. labels'[k][s].from = u /\ labels'[k][s].time = time + plan.foot[u][s]
      BY <2>1, <2>2, WalkedLabel
    <2> QED BY <1>6, <2>1, <2>3 DEF WalksFrom
  <1>7. CASE N = {}
    <2>1. PICK s \in M : labels'[k][s] # labels[k][s]
      BY <1>5, <1>7
    <2>2. /\ u \in S /\ least = time + plan.foot[u][s] /\ plan.foot[u][s] \in Nat
      BY <1>6, <2>1
    <2>3. labels'[k][u] = labels[k][u] /\ labels'[k][u].time = time
      BY DEF WalksFrom, At
    <2>4. least = time
      BY <1>4, <2>2, <2>3
    <2> QED BY <1>7, <2>2, <2>3, <2>4
  <1>8. CASE N # {}
    <2>1. PICK s \in N : Afoot(k, s) => labels[k][s].from \notin N
      BY <1>8 DEF WalksLeadBack
    <2>2. /\ labels'[k][s] = labels[k][s] /\ labels[k][s].time = least /\ Afoot(k, s)
          /\ labels[k][s].from \in S /\ labels[k][s].from \notin N
      BY <2>1 DEF Afoot
    <2> DEFINE w == labels[k][s].from
    <2>3. /\ labels[k][w] # Nil /\ labels[k][w].time + plan.foot[w][s] <= least
          /\ plan.foot[w][s] \in Nat /\ w \in Stops
      <3>1. w \in Stops /\ w # Origin
        BY <2>2, Bounds
      <3>2. WalkOK(k, s, labels[k][s])
        BY <2>2 DEF WalksAreTold
      <3>3. plan.foot[w][s] \in Nat
        BY <3>1, PlanParts DEF TypeOK
      <3> QED BY <2>2, <3>1, <3>2, <3>3 DEF WalkOK
    <2>4. labels[k][w].time \in Nat /\ labels'[k][w].time <= labels[k][w].time
      BY <2>3 DEF OnlyEarlier, TypeOK, Label
    <2> HIDE DEF w
    <2>5. w \in S /\ w \notin N /\ labels'[k][w].time \in Nat /\ least <= labels'[k][w].time
      BY <1>1, <1>4, <2>2 DEF w
    <2>6. labels[k][w].time = least /\ labels'[k][w].time = least
      BY <1>4, <2>3, <2>4, <2>5
    <2>7. labels'[k][w] # labels[k][w]
      BY <2>5, <2>6
    <2> QED BY <1>4, <1>6, <2>3, <2>5, <2>6, <2>7
  <1> QED BY <1>7, <1>8

LEMMA StepWalksLeadBack ==
  ASSUME TypeOK, TypeOK', Shape, Told, Arrays, OnlyEarlier, WalksAreTold, WalksLeadBack,
         [Next]_vars
  PROVE  WalksLeadBack'
  <1>1. plan' = plan
    BY SamePlan
  <1> SUFFICES ASSUME NEW k \in 0..Rounds, NEW S \in SUBSET Stops, S # {}
               PROVE  \E s \in S : Afoot(k, s)' => labels'[k][s].from \notin S
    BY DEF WalksLeadBack
  <1>2. CASE OneRide(k)
    <2>1. PICK s \in S : Afoot(k, s) => labels[k][s].from \notin S
      BY DEF WalksLeadBack
    <2>2. CASE labels'[k][s] = labels[k][s]
      BY <2>1, <2>2 DEF Afoot
    <2>3. CASE ~Afoot(k, s)'
      BY <2>3
    <2> QED BY <1>2, <2>2, <2>3 DEF OneRide
  <1> QED BY <1>1, <1>2, LabelSteps, NoCircle

LEMMA InitWays == Init => WaysInv
  <1> SUFFICES ASSUME Init PROVE WaysInv
    OBVIOUS
  <1>1. TypeOK /\ pc = "foot" /\ plan \in Plans
    BY InitTypes DEF Init
  <1>2. ASSUME NEW k \in 0..Rounds, NEW s \in Stops, labels[k][s] # Nil
        PROVE  /\ labels[k][s].trip = Nil /\ labels[k][s].from = Origin
               /\ WalkOK(k, s, labels[k][s])
    <2>1. k = 0 /\ labels[k][s] = Walked(Origin, AccessTime(s))
      BY <1>2 DEF Init
    <2>2. AccessTime(s) \in Nat
      BY <1>1, PlanParts
    <2> QED BY <2>1, <2>2, WalkedLabel DEF WalkOK
  <1>3. MarkedTold /\ BoardedMarked
    BY <1>1 DEF MarkedTold, BoardedMarked
  <1>4. WalksAreTold /\ RidesFollowOn
    BY <1>2 DEF WalksAreTold, RidesFollowOn, Afoot
  <1>5. WalksLeadBack
    BY <1>2, Bounds DEF WalksLeadBack, Afoot
  <1> QED BY <1>3, <1>4, <1>5 DEF WaysInv

LEMMA StepWays ==
  ASSUME IInv, IInv', EarlyInv, WaysInv, [Next]_vars
  PROVE  WaysInv'
  <1>1. /\ TypeOK /\ TypeOK' /\ Shape /\ Told /\ Aboard /\ LabelsAreJourneys
        /\ Ordered /\ Arrays
    BY DEF IInv, EarlyInv
  <1>2. OnlyEarlier
    BY <1>1, StepTold
  <1>3. /\ Straight(plan)' <=> Straight(plan)
        /\ Fifo(plan)' <=> Fifo(plan)
    BY SamePlan DEF Straight, Fifo, Serves, StopIdx
  <1>4. MarkedTold'
    BY <1>1, StepMarkedTold DEF WaysInv
  <1>5. WalksAreTold'
    BY <1>1, <1>2, StepWalksAreTold DEF WaysInv
  <1>6. WalksLeadBack'
    BY <1>1, <1>2, StepWalksLeadBack DEF WaysInv
  <1>7. ASSUME Straight(plan), Fifo(plan)
        PROVE  BoardedMarked' /\ RidesFollowOn'
    <2>1. Exhausted /\ BoardedMarked /\ RidesFollowOn /\ MarkedTold
      BY <1>7 DEF EarlyInv, WaysInv
    <2>2. BoardedMarked'
      BY <1>1, <1>7, <2>1, StepBoardedMarked
    <2>3. RidesFollowOn'
      BY <1>1, <1>2, <1>7, <2>1, StepRidesFollowOn
    <2> QED BY <2>2, <2>3
  <1> QED BY <1>3, <1>4, <1>5, <1>6, <1>7 DEF WaysInv

-----------------------------------------------------------------------------
(* The way back from a label: what else labels tell.                       *)

\* Where a walk is from the origin, or a ride: near it, and by a route.
StartsNear ==
  \A k \in 0..Rounds, s \in Stops :
    Afoot(k, s) /\ labels[k][s].from = Origin => s \in Near

RidesNamed ==
  \A k \in 0..Rounds, s \in Stops :
    labels[k][s] # Nil /\ labels[k][s].trip # Nil => labels[k][s].route \in Routes

\* No walk that is too long to be taken has a label.
Timely ==
  \A k \in 0..Rounds, s \in Stops : labels[k][s] # Nil => labels[k][s].time < Infinity

LabelsInv == StartsNear /\ RidesNamed /\ Timely

\* A label that a step gives is a walk from a stop, or a ride, at a time.
LEMMA NewLabel ==
  ASSUME TypeOK, Shape, [Next]_vars, NEW k \in 0..Rounds, NEW s \in Stops,
         labels'[k][s] # labels[k][s]
  PROVE  /\ \/ \E u \in Stops, a \in Nat : labels'[k][s] = Walked(u, a)
            \/ \E r \in Routes, t \in Trips, u \in Stops, a \in Nat :
                 labels'[k][s] = Rode(r, t, u, a)
         /\ labels'[k][s].time < Infinity
  <1>1. \A u \in Stops : /\ tauPrev[u] \in Nat /\ tauPrev[u] <= Infinity
                         /\ tauCurr[u] \in Nat /\ tauCurr[u] <= Infinity
    BY Bounds DEF TypeOK, Times
  <1>2. ASSUME NEW u \in Stops, FirstWalk(u)
        PROVE  \E a \in Nat : labels'[k][s] = Walked(u, a) /\ labels'[k][s].time < Infinity
    <2>1. k = 0
      BY <1>2 DEF FirstWalk, TypeOK
    <2>2. PICK a \in Nat : labels'[k][s] = Walked(u, a) /\ a < tauPrev[s]
      BY <1>2, <2>1, FirstWalkEffect
    <2>3. labels'[k][s].time = a
      BY <2>2, WalkedLabel
    <2> QED BY <1>1, <2>2, <2>3, Bounds
  <1>3. ASSUME NEW u \in Stops, Walk(u)
        PROVE  \E a \in Nat : labels'[k][s] = Walked(u, a) /\ labels'[k][s].time < Infinity
    <2>1. k = round
      BY <1>3 DEF Walk, TypeOK
    <2>2. PICK a \in Nat : labels'[k][s] = Walked(u, a) /\ a < tauCurr[s]
      BY <1>3, <2>1, WalkEffect
    <2>3. labels'[k][s].time = a
      BY <2>2, WalkedLabel
    <2> QED BY <1>1, <2>2, <2>3, Bounds
  <1>4. CASE Ride
    <2> DEFINE at == Rep(route).visits[pos].stop
    <2>1. at \in Stops /\ pc = "ride" /\ Alight(at)
      BY <1>4, RideStop DEF Ride
    <2>2. /\ trip \in Trips /\ route \in Routes /\ board \in Stops
          /\ Arr(trip, at) \in Nat /\ Arr(trip, at) < tauCurr[s]
          /\ labels'[k][s] = Rode(route, trip, board, Arr(trip, at))
      BY <2>1, AlightEffect
    <2>3. labels'[k][s].time = Arr(trip, at)
      BY <2>2, RodeLabel
    <2> QED BY <1>1, <2>2, <2>3, Bounds
  <1>5. CASE UNCHANGED labels
    BY <1>5
  <1> QED BY <1>2, <1>3, <1>4, <1>5 DEF Next, FirstWalksDone, Stop, Begin, EndScan,
          ScansDone, End, StartScan, vars, tau

LEMMA InitLabels == Init => LabelsInv
  <1> SUFFICES ASSUME Init PROVE LabelsInv
    OBVIOUS
  <1>1. plan \in Plans
    BY DEF Init
  <1>2. ASSUME NEW k \in 0..Rounds, NEW s \in Stops, labels[k][s] # Nil
        PROVE  /\ k = 0 /\ s \in Near /\ labels[k][s].trip = Nil
               /\ labels[k][s].time < Infinity
    <2>1. k = 0 /\ s \in Near /\ labels[k][s] = Walked(Origin, AccessTime(s))
      BY <1>2 DEF Init
    <2>2. AccessTime(s) \in Nat
      BY <1>1, PlanParts
    <2> QED BY <2>1, <2>2, WalkedLabel DEF Near
  <1>3. StartsNear
    BY <1>2 DEF StartsNear, Afoot
  <1>4. RidesNamed
    BY <1>2 DEF RidesNamed
  <1> QED BY <1>2, <1>3, <1>4 DEF LabelsInv, Timely

LEMMA StepLabels ==
  ASSUME IInv, EarlyInv, LabelsInv, [Next]_vars
  PROVE  LabelsInv'
  <1>1. /\ TypeOK /\ Shape /\ Arrays /\ plan' = plan /\ Near' = Near
        /\ plan \in PlanType
    BY SamePlan, PlanIsAsked DEF IInv, EarlyInv, Near, AccessTime
  <1>2. ASSUME NEW k \in 0..Rounds, NEW s \in Stops
        PROVE  /\ (Afoot(k, s) /\ labels[k][s].from = Origin)' => s \in Near'
               /\ (labels[k][s] # Nil /\ labels[k][s].trip # Nil)' => labels'[k][s].route \in Routes
               /\ labels'[k][s] # Nil => labels'[k][s].time < Infinity
    <2>1. CASE labels'[k][s] = labels[k][s]
      BY <1>1, <2>1 DEF LabelsInv, StartsNear, RidesNamed, Timely, Afoot
    <2>2. ASSUME NEW u \in Stops, NEW a \in Nat, labels'[k][s] = Walked(u, a)
          PROVE  /\ labels'[k][s].from # Origin /\ labels'[k][s].trip = Nil
      BY <2>2, WalkedLabel, Bounds
    <2>3. ASSUME NEW r \in Routes, NEW t \in Trips, NEW u \in Stops, NEW a \in Nat,
                 labels'[k][s] = Rode(r, t, u, a)
          PROVE  /\ labels'[k][s].trip # Nil /\ labels'[k][s].route \in Routes
      BY <2>3, RodeLabel, Bounds
    <2>4. CASE labels'[k][s] # labels[k][s]
      <3>1. /\ \/ \E u \in Stops, a \in Nat : labels'[k][s] = Walked(u, a)
               \/ \E r \in Routes, t \in Trips, u \in Stops, a \in Nat :
                    labels'[k][s] = Rode(r, t, u, a)
            /\ labels'[k][s].time < Infinity
        BY <1>1, <2>4, NewLabel
      <3> QED BY <2>2, <2>3, <3>1 DEF Afoot
    <2> QED BY <2>1, <2>4
  <1>3. StartsNear' /\ RidesNamed' /\ Timely'
    BY <1>2 DEF StartsNear, RidesNamed, Timely
  <1> QED BY <1>3 DEF LabelsInv

\* The third inductive invariant: labels lead back to the origin.
THEOREM WaysInvariance == Spec => [](IInv /\ EarlyInv /\ WaysInv /\ LabelsInv)
  <1>1. Init => WaysInv /\ LabelsInv
    BY InitWays, InitLabels
  <1>2. /\ (IInv /\ EarlyInv) /\ (IInv /\ EarlyInv)' /\ WaysInv /\ LabelsInv
        /\ [Next]_vars
        => WaysInv' /\ LabelsInv'
    BY StepWays, StepLabels
  <1> QED BY <1>1, <1>2, EarlyInvariance, PTL DEF Spec

\* Whoever goes back from a label, as reconstructPath does, comes by rides that
\* board where the round before has a label in time, if the trips of a direction
\* have its stops, and by walks that never go round in a circle.
THEOREM LabelsLeadBack == Spec => []WaysLeadBack
  <1>1. WaysInv => WaysLeadBack
    <2>1. WalksLeadBack =>
            \A k \in 0..Rounds : \A S \in (SUBSET Stops) \ {{}} :
              \E s \in S : labels[k][s] # Nil /\ labels[k][s].trip = Nil
                             => labels[k][s].from \notin S
      BY DEF WalksLeadBack, Afoot
    <2> QED BY <2>1 DEF WaysInv, RidesFollowOn, WaysLeadBack
  <1> QED BY <1>1, WaysInvariance, PTL

-----------------------------------------------------------------------------
(* Walks: what the conversions do to them.                                 *)

LEMMA Factor ==
  ASSUME NEW d \in Nat \ {0}, NEW x \in Int, NEW y \in Int, d * x < d * y
  PROVE  x < y
  OBVIOUS

\* Rounding up is by less than one unit.
LEMMA CeilBounds ==
  ASSUME NEW n \in Nat, NEW d \in Nat \ {0}
  PROVE  /\ CeilDiv(n, d) \in Nat
         /\ n <= d * CeilDiv(n, d)
         /\ d * CeilDiv(n, d) < n + d
  BY DEF CeilDiv

LEMMA CeilLeast ==
  ASSUME NEW n \in Nat, NEW d \in Nat \ {0}, NEW c \in Nat, n <= d * c
  PROVE  CeilDiv(n, d) <= c
  <1> DEFINE x == CeilDiv(n, d)
  <1>1. x \in Nat /\ d * x < n + d
    BY CeilBounds
  <1> HIDE DEF x
  <1>2. d * x < d * (c + 1)
    BY <1>1
  <1>3. x < c + 1
    BY <1>1, <1>2, Factor
  <1> QED BY <1>1, <1>3 DEF x

LEMMA Units ==
  /\ Minute \in Nat \ {0} /\ Day \in Nat \ {0} /\ Metre \in Nat \ {0}
  /\ Pace \in Nat \ {0} /\ Saving \in Nat \ {0}
  /\ MaxWalk \in Nat /\ Least \in Nat /\ Metre <= 2 * Pace
  BY PlansAssumption DEF PlansAssumption

\* A detour is no faster than the walk straight on.
LEMMA Detour ==
  ASSUME NEW a \in Nat, NEW b \in Nat, NEW c \in Nat, a <= b + c
  PROVE  RealWalk(a) <= RealWalk(b) + RealWalk(c)
  <1> DEFINE x == RealWalk(b)
             y == RealWalk(c)
  <1>1. x \in Nat /\ y \in Nat /\ b <= Pace * x /\ c <= Pace * y
    BY Units, CeilBounds DEF RealWalk
  <1> HIDE DEF x, y
  <1>2. a <= Pace * (x + y)
    BY <1>1, Units
  <1>3. RealWalk(a) <= x + y
    BY <1>1, <1>2, Units, CeilLeast DEF RealWalk
  <1> QED BY <1>3 DEF x, y

LEMMA LongerTakesLonger ==
  ASSUME NEW a \in Nat, NEW b \in Nat, a <= b
  PROVE  RealWalk(a) \in Nat /\ RealWalk(b) \in Nat /\ RealWalk(a) <= RealWalk(b)
  <1> DEFINE x == RealWalk(b)
  <1>1. x \in Nat /\ b <= Pace * x /\ RealWalk(a) \in Nat
    BY Units, CeilBounds DEF RealWalk
  <1> HIDE DEF x
  <1>2. a <= Pace * x
    BY <1>1, Units
  <1>3. RealWalk(a) <= x
    BY <1>1, <1>2, Units, CeilLeast DEF RealWalk
  <1> QED BY <1>1, <1>3 DEF x

\* A distance is shown to within half a metre.
LEMMA ShownDistance ==
  ASSUME NEW n \in Nat
  PROVE  /\ InMetres(n) \in Nat
         /\ 2 * InMetres(n) <= 2 * n + Metre
         /\ 2 * n <= 2 * InMetres(n) + Metre
  <1> DEFINE m == 2 * Metre
             k == 2 * n + Metre
             h == k \div m
  <1>1. m \in Nat \ {0} /\ k \in Nat
    BY Units
  <1> HIDE DEF m, k
  <1>2. h \in Nat /\ m * h <= k /\ k < m * h + m
    BY <1>1
  <1>3. InMetres(n) = Metre * h
    BY DEF InMetres, m, k
  <1> HIDE DEF h
  <1>4. Metre * h \in Nat /\ 2 * (Metre * h) = m * h
    BY <1>2, Units DEF m
  <1> QED BY <1>2, <1>3, <1>4, Units DEF m, k

\* What is known of walks that follow each other and take time in all.
Taken(walk, time) ==
  /\ walk.legs \in Nat /\ walk.exact \in Nat /\ walk.shown \in Nat /\ time \in Nat
  /\ walk.exact <= Pace * time
  /\ Pace * time <= walk.exact + walk.legs * Pace
  /\ 2 * walk.shown <= 2 * walk.exact + walk.legs * Metre
  /\ 2 * walk.exact <= 2 * walk.shown + walk.legs * Metre
  /\ walk.legs = 0 => time = 0

LEMMA NoneTakenYet == Taken(NoWalk, 0)
  BY Units DEF Taken, NoWalk

LEMMA OneMoreTaken ==
  ASSUME NEW walk, NEW time, Taken(walk, time), NEW n \in Nat
  PROVE  /\ Taken(AndOn(walk, n), time + RealWalk(n))
         /\ AndOn(walk, n).legs = walk.legs + 1
  <1> DEFINE x == RealWalk(n)
             d == InMetres(n)
             more == AndOn(walk, n)
             l == walk.legs
             e == walk.exact
             w == walk.shown
  <1>1. x \in Nat /\ n <= Pace * x /\ Pace * x < n + Pace
    BY Units, CeilBounds DEF RealWalk
  <1>2. d \in Nat /\ 2 * d <= 2 * n + Metre /\ 2 * n <= 2 * d + Metre
    BY ShownDistance
  <1>3. more.legs = l + 1 /\ more.exact = e + n /\ more.shown = w + d
    BY DEF AndOn
  <1>4. /\ l \in Nat /\ e \in Nat /\ w \in Nat /\ time \in Nat
        /\ e <= Pace * time /\ Pace * time <= e + l * Pace
        /\ 2 * w <= 2 * e + l * Metre /\ 2 * e <= 2 * w + l * Metre
    BY DEF Taken
  <1> HIDE DEF x, d, more, l, e, w
  <1>5. /\ Pace * (time + x) = Pace * time + Pace * x
        /\ (l + 1) * Pace = l * Pace + Pace
        /\ (l + 1) * Metre = l * Metre + Metre
    BY <1>1, <1>4, Units
  <1>6. /\ Pace * time \in Nat /\ Pace * x \in Nat /\ l * Pace \in Nat /\ l * Metre \in Nat
    BY <1>1, <1>4, Units
  <1>7. /\ e + n <= Pace * (time + x)
        /\ Pace * (time + x) <= (e + n) + (l + 1) * Pace
        /\ 2 * (w + d) <= 2 * (e + n) + (l + 1) * Metre
        /\ 2 * (e + n) <= 2 * (w + d) + (l + 1) * Metre
    BY <1>1, <1>2, <1>4, <1>5, <1>6, Units
  <1>8. Taken(more, time + x)
    BY <1>1, <1>2, <1>3, <1>4, <1>7 DEF Taken
  <1> QED BY <1>3, <1>8 DEF more, x, l

\* The minutes that are shown of walks are those they take, but for a minute
\* and two units of time for each of them.
LEMMA ShownWalks ==
  ASSUME NEW walk, NEW time, Taken(walk, time), walk.legs # 0
  PROVE  /\ MergedMin(walk) \in Nat
         /\ Minute * MergedMin(walk) <= time + Minute + 2 * walk.legs
         /\ time <= Minute * MergedMin(walk) + 2 * walk.legs
  <1> DEFINE l == walk.legs
             n == IF l = 1 THEN walk.exact ELSE walk.shown
             d == Pace * Minute
             c == CeilDiv(n, d)
             m == MergedMin(walk)
  <1>1. /\ l \in Nat /\ time \in Nat /\ n \in Nat
        /\ 2 * n <= 2 * (Pace * time) + l * Metre
        /\ 2 * (Pace * time) <= 2 * n + 2 * (l * Pace) + l * Metre
    <2>1. l * Metre \in Nat /\ l * Pace \in Nat /\ Pace * time \in Nat
      BY Units DEF Taken
    <2> HIDE DEF l
    <2> QED BY <2>1, Units DEF Taken, l
  <1>2. d \in Nat \ {0}
    BY Units
  <1>3. m = Max({1, c})
    BY DEF MergedMin, WalkMin
  <1> HIDE DEF l, n, m
  <1>4. c \in Nat /\ n <= d * c /\ d * c < n + d
    BY <1>1, <1>2, CeilBounds
  <1> HIDE DEF c
  <1>5. m \in {1, c} /\ 1 <= m /\ c <= m
    <2> DEFINE S == {1, c}
    <2>1. S \subseteq Nat /\ \E x \in S : \A y \in S : x >= y
      BY <1>4
    <2> QED BY <1>3, <2>1 DEF Max
  <1>6. /\ d * c = Pace * (Minute * c) /\ Minute * c \in Nat
        /\ l * Metre <= 2 * (l * Pace) /\ l * Metre \in Nat /\ l * Pace \in Nat
        /\ Pace * time \in Nat
    BY <1>1, <1>4, Units DEF d
  <1>7. Pace * (Minute * c) < Pace * time + l * Pace + Pace * Minute
    BY <1>1, <1>4, <1>6, Units DEF d
  <1>8. Pace * time <= Pace * (Minute * c) + l * Pace + l * Pace
    BY <1>1, <1>4, <1>6, Units
  <1> DEFINE mc == Minute * c
  <1>9. mc \in Nat
    BY <1>6
  <1> HIDE DEF d, mc
  <1>10. Pace * mc < Pace * (time + l + Minute)
    BY <1>1, <1>7, <1>9, Units DEF mc
  <1>11. mc < time + l + Minute
    BY <1>1, <1>9, <1>10, Units, Factor
  <1>12. Pace * time < Pace * (mc + 2 * l + 1)
    BY <1>1, <1>8, <1>9, Units DEF mc
  <1>13. time < mc + 2 * l + 1
    BY <1>1, <1>9, <1>12, Units, Factor
  <1>14. CASE m = c
    BY <1>1, <1>4, <1>9, <1>11, <1>13, <1>14, Units DEF mc, m, l
  <1>15. CASE m = 1
    <2>1. mc <= Minute * m
      BY <1>4, <1>5, <1>15, Units DEF mc
    <2>2. Minute * m = Minute
      BY <1>15, Units
    <2> QED BY <1>1, <1>9, <1>13, <1>15, <2>1, <2>2, Units DEF m, l
  <1> QED BY <1>5, <1>14, <1>15

-----------------------------------------------------------------------------
(* Walks: where stops are.                                                 *)

LEMMA PlacesOf ==
  ASSUME NEW q \in Plans
  PROVE  /\ q \in PlanType
         /\ \A u, s \in Stops :
              /\ q.metres[u][s] \in Nat /\ q.foot[u][s] \in Nat
              /\ q.foot[u][s] < Infinity => q.foot[u][s] = RealWalk(q.metres[u][s])
              /\ \A x \in Stops : q.metres[u][s] <= q.metres[u][x] + q.metres[x][s]
         /\ \A s \in Stops :
              /\ q.last[s] \in Nat /\ q.egress[s] \in Nat
              /\ q.egress[s] < Infinity => q.egress[s] = RealWalk(q.last[s])
  <1>1. q \in PlanType
    BY PlannerAssumption DEF PlannerAssumption
  <1>2. Times \subseteq Nat
    BY Bounds DEF Times
  <1>3. /\ \A u, s \in Stops : q.metres[u][s] \in Nat /\ q.foot[u][s] \in Nat
        /\ \A s \in Stops : q.last[s] \in Nat /\ q.egress[s] \in Nat
    BY <1>1, <1>2 DEF PlanType
  <1>4. /\ \A s, u, x \in Stops : q.metres[s][u] <= q.metres[s][x] + q.metres[x][u]
        /\ q.foot = FootOf(q.metres)
        /\ \A s \in Stops : q.egress[s] < Infinity => q.egress[s] = RealWalk(q.last[s])
    BY PlacesAssumption DEF PlacesAssumption
  <1>5. ASSUME NEW u \in Stops, NEW s \in Stops, q.foot[u][s] < Infinity
        PROVE  q.foot[u][s] = RealWalk(q.metres[u][s])
    <2>1. q.foot[u][s] = IF u # s /\ q.metres[u][s] <= MaxWalk
                         THEN RealWalk(q.metres[u][s]) ELSE Infinity
      BY <1>4 DEF FootOf
    <2> QED BY <1>5, <2>1, Bounds
  <1> QED BY <1>1, <1>3, <1>4, <1>5

-----------------------------------------------------------------------------
(* The ways back: that they exist.                                         *)

Places == (0..Rounds) \X Stops

LabelAt(p) == labels[p[1]][p[2]]

\* Where a way back ends, and where it goes on.
Ended(p) == IF LabelAt(p) = Nil THEN TRUE ELSE LabelAt(p).from = Origin

Back(p) == <<IF LabelAt(p).trip = Nil THEN p[1] ELSE p[1] - 1, LabelAt(p).from>>

\* The leg to p, and the way to it, after a way to the place before.
LegTo(p, before) ==
  [from |-> LabelAt(p).from, to |-> p[2], trip |-> LabelAt(p).trip,
   route |-> LabelAt(p).route, ready |-> before.at]

Longer(p, before) ==
  [start |-> before.start,
   legs  |-> Append(before.legs, LegTo(p, before)),
   rides |-> IF LabelAt(p).trip = Nil THEN before.rides
                                     ELSE Append(before.rides, LegTo(p, before)),
   walk  |-> IF LabelAt(p).trip = Nil
             THEN AndOn(before.walk, plan.metres[LabelAt(p).from][p[2]]) ELSE NoWalk,
   at    |-> IF LabelAt(p).trip = Nil THEN before.at + plan.foot[LabelAt(p).from][p[2]]
                                     ELSE Arr(LabelAt(p).trip, p[2])]

WayAfter(p, before) ==
  IF Ended(p)
  THEN [start |-> p[2], legs |-> <<>>, rides |-> <<>>, walk |-> NoWalk,
        at |-> AccessTime(p[2])]
  ELSE Longer(p, before)

\* On such a day every way back leads on to a label, and to an end.
WaysAreSound ==
  IInv /\ WaysInv /\ LabelsInv /\ Straight(plan) /\ Fifo(plan)

LEMMA WhereBack ==
  ASSUME NEW p
  PROVE  /\ LabelAt(p).trip = Nil => Back(p) = <<p[1], LabelAt(p).from>>
         /\ LabelAt(p).trip # Nil => Back(p) = <<p[1] - 1, LabelAt(p).from>>
  <1>1. CASE LabelAt(p).trip = Nil
    BY <1>1 DEF Back
  <1>2. CASE LabelAt(p).trip # Nil
    BY <1>2 DEF Back
  <1> QED BY <1>1, <1>2

\* The label before one that does not end the way back.
LEMMA PlaceBefore ==
  ASSUME WaysAreSound, NEW p \in Places, ~Ended(p)
  PROVE  /\ Back(p) \in Places /\ LabelAt(p) # Nil /\ LabelAt(Back(p)) # Nil
         /\ LabelAt(p).from \in Stops
         /\ LabelAt(p).trip = Nil =>
              /\ Back(p) = <<p[1], LabelAt(p).from>>
              /\ LabelAt(Back(p)).time + plan.foot[LabelAt(p).from][p[2]] <= LabelAt(p).time
              /\ plan.foot[LabelAt(p).from][p[2]]
                   = RealWalk(plan.metres[LabelAt(p).from][p[2]])
         /\ LabelAt(p).trip # Nil =>
              /\ p[1] # 0 /\ Back(p) = <<p[1] - 1, LabelAt(p).from>>
              /\ LabelAt(Back(p)).time <= Dep(LabelAt(p).trip, LabelAt(p).from)
              /\ RideOK(p[1], p[2], LabelAt(p))
              /\ LabelAt(p).trip \in Trips
  <1> DEFINE k == p[1]
             s == p[2]
             l == LabelAt(p)
  <1>1. k \in 0..Rounds /\ s \in Stops /\ l = labels[k][s]
    BY DEF Places, LabelAt
  <1>2. l # Nil /\ l.from # Origin
    BY DEF Ended
  <1>3. TypeOK /\ LabelsAreJourneys /\ WalksAreTold /\ RidesFollowOn
    BY DEF WaysAreSound, IInv, WaysInv
  <1>4. l \in Label
    BY <1>1, <1>2, <1>3 DEF TypeOK
  <1>5. CASE l.trip = Nil
    <2>1. WalkOK(k, s, l)
      BY <1>1, <1>2, <1>3, <1>5 DEF WalksAreTold, Afoot
    <2>2. l.from \in Stops
      BY <1>2, <1>4 DEF Label
    <2>3. Back(p) = <<k, l.from>>
      BY <1>5, WhereBack
    <2>4. /\ labels[k][l.from] # Nil
          /\ labels[k][l.from].time + plan.foot[l.from][s] <= l.time
      BY <1>2, <2>1 DEF WalkOK
    <2> HIDE DEF l
    <2>5. LabelAt(Back(p)) = labels[k][l.from] /\ Back(p) \in Places
      BY <1>1, <2>2, <2>3 DEF LabelAt, Places
    <2> DEFINE foot == plan.foot[l.from][s]
               before == labels[k][l.from]
    <2>6. before \in Label /\ l.time \in Nat /\ l.time < Infinity /\ foot \in Nat
      <3>1. before \in Label
        BY <1>1, <1>3, <2>2, <2>4 DEF TypeOK
      <3>2. l.time < Infinity
        BY <1>1, <1>2 DEF WaysAreSound, LabelsInv, Timely
      <3>3. foot \in Nat
        BY <1>1, <1>3, <2>2, PlanParts DEF TypeOK
      <3>4. l.time \in Nat
        BY <1>4 DEF Label
      <3> QED BY <3>1, <3>2, <3>3, <3>4
    <2>7. foot < Infinity
      <3>1. before.time \in Nat /\ before.time + foot <= l.time
        BY <2>4, <2>6 DEF Label
      <3> HIDE DEF foot, before
      <3> QED BY <2>6, <3>1, Bounds
    <2>8. foot = RealWalk(plan.metres[l.from][s])
      BY <1>1, <1>3, <2>2, <2>7, PlacesOf DEF TypeOK
    <2> QED BY <1>1, <1>2, <1>5, <2>2, <2>3, <2>4, <2>5, <2>8 DEF l
  <1>6. CASE l.trip # Nil
    <2>1. RideOK(k, s, l)
      BY <1>1, <1>2, <1>3, <1>6 DEF LabelsAreJourneys, WaysAreSound
    <2>2. l.trip \in Trips /\ Serves(l.trip, l.from)
      BY <1>4, <1>6, <2>1 DEF RideOK, Label
    <2>3. l.from \in Stops
      BY <1>2, <1>4 DEF Label
    <2>4. /\ k # 0 /\ labels[k - 1][l.from] # Nil
          /\ labels[k - 1][l.from].time <= Dep(l.trip, l.from)
      BY <1>1, <1>2, <1>3, <1>6 DEF RidesFollowOn
    <2>5. Back(p) = <<k - 1, l.from>>
      BY <1>6, WhereBack
    <2>6. k - 1 \in 0..Rounds
      BY <1>1, <2>4, Bounds
    <2> HIDE DEF l
    <2>7. LabelAt(Back(p)) = labels[k - 1][l.from] /\ Back(p) \in Places
      BY <2>3, <2>5, <2>6 DEF LabelAt, Places
    <2> QED BY <1>1, <1>2, <1>6, <2>1, <2>2, <2>3, <2>4, <2>5, <2>7 DEF l
  <1> QED BY <1>5, <1>6

\* Of any places one is left for good, by the way back from it.
LEMMA SomeEnds ==
  ASSUME WaysAreSound, NEW S \in SUBSET Places, S # {}
  PROVE  \E p \in S : Ended(p) \/ Back(p) \notin S
  <1> DEFINE ks == {p[1] : p \in S}
  <1>1. ks \in SUBSET Nat /\ ks # {}
    BY Bounds DEF Places
  <1> HIDE DEF ks
  <1>2. PICK k \in ks : \A j \in ks : k <= j
    BY <1>1, MinOf
  <1> DEFINE T == {s \in Stops : <<k, s>> \in S}
  <1>3. T \in SUBSET Stops /\ T # {} /\ k \in 0..Rounds
    BY <1>2 DEF ks, Places
  <1> HIDE DEF T
  <1>4. PICK s \in T : Afoot(k, s) => labels[k][s].from \notin T
    BY <1>3 DEF WaysAreSound, WaysInv, WalksLeadBack
  <1> DEFINE p == <<k, s>>
  <1>5. p \in S /\ p \in Places /\ LabelAt(p) = labels[k][s] /\ p[1] = k
    BY DEF T, LabelAt
  <1>6. CASE Ended(p)
    BY <1>5, <1>6
  <1>7. CASE ~Ended(p) /\ LabelAt(p).trip = Nil
    <2> HIDE DEF p
    <2>1. /\ LabelAt(p) # Nil /\ Back(p) = <<k, LabelAt(p).from>>
          /\ LabelAt(p).from \in Stops
      BY <1>5, <1>7, PlaceBefore
    <2>2. LabelAt(p).from \notin T
      BY <1>4, <1>5, <1>7, <2>1 DEF Afoot
    <2> QED BY <1>5, <2>1, <2>2 DEF T
  <1>8. CASE ~Ended(p) /\ LabelAt(p).trip # Nil
    <2> HIDE DEF p
    <2>1. Back(p)[1] = k - 1
      BY <1>5, <1>8, PlaceBefore
    <2>2. Back(p) \notin S
      <3>1. ASSUME Back(p) \in S PROVE k - 1 \in ks
        BY <2>1, <3>1 DEF ks
      <3> QED BY <1>1, <1>2, <3>1
    <2> QED BY <1>5, <2>2
  <1> QED BY <1>6, <1>7, <1>8

\* The function that Way names exists: what it is on the places from which it
\* does, it is one of.
LEMMA WayExists ==
  ASSUME WaysAreSound
  PROVE  \E g : g = [p \in Places |-> WayAfter(p, g[Back(p)])]
  <1> DEFINE Solves(D, w) ==
               /\ D \in SUBSET Places
               /\ \A p \in D : /\ ~Ended(p) => Back(p) \in D
                               /\ w[p] = WayAfter(p, w[Back(p)])
             U == {p \in Places : \E D, w : Solves(D, w) /\ p \in D}
             val == [p \in Places |->
                       CHOOSE x : \E D, w : Solves(D, w) /\ p \in D /\ x = w[p]]
  <1>1. ASSUME NEW p, Ended(p), NEW x, NEW y
        PROVE  WayAfter(p, x) = WayAfter(p, y)
    BY <1>1 DEF WayAfter
  <1>2. ASSUME NEW D, NEW w, Solves(D, w), NEW E, NEW v, Solves(E, v), NEW q \in D \cap E
        PROVE  w[q] = v[q]
    <2> DEFINE S == {p \in D \cap E : w[p] # v[p]}
    <2>1. SUFFICES ASSUME S # {} PROVE FALSE
      OBVIOUS
    <2>2. S \in SUBSET Places
      BY <1>2
    <2>3. PICK p \in S : Ended(p) \/ Back(p) \notin S
      BY <2>1, <2>2, SomeEnds
    <2>4. w[p] = WayAfter(p, w[Back(p)]) /\ v[p] = WayAfter(p, v[Back(p)])
      BY <1>2
    <2>5. CASE Ended(p)
      BY <1>1, <2>4, <2>5
    <2>6. CASE ~Ended(p)
      <3>1. Back(p) \in D \cap E
        BY <1>2, <2>6
      <3>2. w[Back(p)] = v[Back(p)]
        BY <2>3, <2>6, <3>1
      <3> QED BY <2>4, <3>2
    <2> QED BY <2>5, <2>6
  <1>3. ASSUME NEW D, NEW w, Solves(D, w), NEW p \in D
        PROVE  val[p] = w[p]
    <2>1. p \in Places
      BY <1>3
    <2>2. \E x : \E E, v : Solves(E, v) /\ p \in E /\ x = v[p]
      BY <1>3
    <2>3. val[p] = CHOOSE x : \E E, v : Solves(E, v) /\ p \in E /\ x = v[p]
      BY <2>1
    <2> HIDE DEF Solves, val
    <2>4. \E E, v : Solves(E, v) /\ p \in E /\ val[p] = v[p]
      BY <2>2, <2>3
    <2>5. PICK E, v : Solves(E, v) /\ p \in E /\ val[p] = v[p]
      BY <2>4
    <2> QED BY <1>2, <1>3, <2>5
  <1>4. Solves(U, val)
    <2>1. ASSUME NEW p \in U
          PROVE  (~Ended(p) => Back(p) \in U) /\ val[p] = WayAfter(p, val[Back(p)])
      <3>1. PICK D, w : Solves(D, w) /\ p \in D
        OBVIOUS
      <3>2. val[p] = w[p]
        BY <1>3, <3>1
      <3>3. w[p] = WayAfter(p, w[Back(p)])
        BY <3>1
      <3>4. CASE Ended(p)
        <4> HIDE DEF U, val, Solves
        <4> QED BY <1>1, <3>2, <3>3, <3>4
      <3>5. CASE ~Ended(p)
        <4>1. Back(p) \in D /\ Back(p) \in Places
          BY <3>1, <3>5
        <4>2. val[Back(p)] = w[Back(p)]
          BY <1>3, <3>1, <4>1
        <4>3. Back(p) \in U
          BY <3>1, <4>1
        <4> QED BY <3>2, <3>3, <4>2, <4>3
      <3> QED BY <3>4, <3>5
    <2> HIDE DEF val
    <2> QED BY <2>1
  <1>5. U = Places
    <2> DEFINE S == Places \ U
    <2>1. SUFFICES ASSUME S # {} PROVE FALSE
      OBVIOUS
    <2>2. PICK p \in S : Ended(p) \/ Back(p) \notin S
      BY <2>1, SomeEnds
    <2>3. ~Ended(p) => Back(p) \in U
      BY <2>2, PlaceBefore
    <2> DEFINE V == U \cup {p}
               v == [q \in V |-> IF q = p THEN WayAfter(p, val[Back(p)]) ELSE val[q]]
    <2>4. ASSUME NEW q \in U
          PROVE  (~Ended(q) => Back(q) \in U) /\ val[q] = WayAfter(q, val[Back(q)])
      BY <1>4
    <2>5. p \notin U /\ p \in Places /\ U \subseteq Places
      OBVIOUS
    <2> HIDE DEF U, val
    <2>6. ASSUME NEW q \in V
          PROVE  (~Ended(q) => Back(q) \in V) /\ v[q] = WayAfter(q, v[Back(q)])
      <3>1. ~Ended(q) => Back(q) \in U
        BY <2>3, <2>4
      <3>2. ~Ended(q) => v[Back(q)] = val[Back(q)]
        BY <2>5, <3>1
      <3>3. v[q] = WayAfter(q, val[Back(q)])
        BY <2>4
      <3> QED BY <1>1, <3>1, <3>2, <3>3
    <2>7. Solves(V, v)
      BY <2>5, <2>6
    <2>8. p \in U
      <3> HIDE DEF Solves, v, V
      <3>1. p \in V
        BY DEF V
      <3> QED BY <2>5, <2>7, <3>1 DEF U
    <2> QED BY <2>5, <2>8
  <1>6. \A p \in Places : val[p] = WayAfter(p, val[Back(p)])
    <2> HIDE DEF U, val
    <2> QED BY <1>4, <1>5
  <1>7. val = [p \in Places |-> WayAfter(p, val[Back(p)])]
    <2> DEFINE f == [p \in Places |-> WayAfter(p, val[Back(p)])]
    <2>1. \A p \in Places : val[p] = f[p]
      <3> HIDE DEF val
      <3> QED BY <1>6
    <2>2. val = [p \in Places |-> val[p]]
      OBVIOUS
    <2> HIDE DEF val
    <2>3. f = [p \in Places |-> f[p]]
      OBVIOUS
    <2> HIDE DEF f
    <2>4. val = f
      BY <2>1, <2>2, <2>3
    <2> QED BY <2>4 DEF f
  <1> QED BY <1>7

LEMMA WayIs ==
  ASSUME WaysAreSound
  PROVE  \A p \in Places : Way[p] = WayAfter(p, Way[Back(p)])
  <1> DEFINE body(g, p) ==
               LET s      == p[2]
                   l      == labels[p[1]][s]
                   afoot  == l.trip = Nil
                   before == g[<<IF afoot THEN p[1] ELSE p[1] - 1, l.from>>]
                   leg    == [from |-> l.from, to |-> s, trip |-> l.trip,
                              route |-> l.route, ready |-> before.at]
               IN IF IF l = Nil THEN TRUE ELSE l.from = Origin
                  THEN [start |-> s, legs |-> <<>>, rides |-> <<>>, walk |-> NoWalk,
                        at |-> AccessTime(s)]
                  ELSE [start |-> before.start,
                        legs  |-> Append(before.legs, leg),
                        rides |-> IF afoot THEN before.rides ELSE Append(before.rides, leg),
                        walk  |-> IF afoot THEN AndOn(before.walk, plan.metres[l.from][s])
                                           ELSE NoWalk,
                        at    |-> IF afoot THEN before.at + plan.foot[l.from][s]
                                           ELSE Arr(l.trip, s)]
  <1>1. ASSUME NEW g, NEW p \in Places
        PROVE  body(g, p) = WayAfter(p, g[Back(p)])
    BY Zenon DEF WayAfter, Longer, LegTo, Ended, LabelAt, Back
  <1>2. Way = CHOOSE g : g = [p \in Places |-> body(g, p)]
    BY DEF Way, Places
  <1> HIDE DEF body
  <1>3. PICK g : g = [p \in Places |-> WayAfter(p, g[Back(p)])]
    BY WayExists
  <1>4. g = [p \in Places |-> body(g, p)]
    BY <1>1, <1>3
  <1>5. Way = [p \in Places |-> body(Way, p)]
    BY <1>2, <1>4
  <1> QED BY <1>1, <1>5

-----------------------------------------------------------------------------
(* The ways back: that they can be gone.                                   *)

Leg == [from : Stops, to : Stops, trip : Trips \cup {Nil}, route : Routes \cup {Nil},
        ready : Nat]

\* Who is at the stop when the leg is ready catches its trip, and alights later.
Ridable(leg) ==
  /\ leg.trip.id \notin plan.exclude
  /\ leg.ready <= Dep(leg.trip, leg.from)
  /\ StopIdx(leg.trip, leg.from) < StopIdx(leg.trip, leg.to)

Joined(w) ==
  \A n \in DOMAIN w.legs :
    /\ w.legs[n].from = IF n = 1 THEN w.start ELSE w.legs[n - 1].to
    /\ w.legs[n].trip # Nil => Ridable(w.legs[n])

EndsAt(w, s) == IF w.legs = <<>> THEN w.start = s ELSE w.legs[Len(w.legs)].to = s

\* The last ride and the walks after it are at the stop when the way is.
LastRide(w) ==
  LET last == w.rides[Len(w.rides)] IN
    w.rides # <<>> =>
      /\ w.legs # <<>>
      /\ Arr(last.trip, last.to) \in Nat
      /\ Taken(w.walk, w.at - Arr(last.trip, last.to))

\* A way to p: from near the origin, leg by leg, with a ride of each round, and
\* no later than the label tells.
SoundWay(p, w) ==
  /\ w.start \in Near
  /\ w.legs \in Seq(Leg) /\ w.rides \in Seq(Leg)
  /\ w.at \in Nat /\ w.at <= LabelAt(p).time
  /\ Joined(w) /\ EndsAt(w, p[2]) /\ LastRide(w)
  /\ Len(w.rides) = p[1]

LEMMA LongerWay ==
  ASSUME NEW w, w.legs \in Seq(Leg), Joined(w), NEW leg \in Leg, EndsAt(w, leg.from),
         leg.trip # Nil => Ridable(leg),
         NEW v, v.legs = Append(w.legs, leg), v.start = w.start
  PROVE  v.legs \in Seq(Leg) /\ v.legs # <<>> /\ Joined(v) /\ EndsAt(v, leg.to)
  <1> DEFINE m == Len(w.legs)
  <1>1. /\ m \in Nat /\ v.legs \in Seq(Leg) /\ Len(v.legs) = m + 1 /\ v.legs[m + 1] = leg
        /\ DOMAIN w.legs = 1..m /\ DOMAIN v.legs = 1..(m + 1)
        /\ \A n \in 1..m : v.legs[n] = w.legs[n]
    OBVIOUS
  <1>2. w.legs = <<>> <=> m = 0
    OBVIOUS
  <1> HIDE DEF m
  <1>3. v.legs # <<>>
    BY <1>1
  <1>4. EndsAt(v, leg.to)
    BY <1>1, <1>3 DEF EndsAt
  <1>5. ASSUME NEW n \in DOMAIN v.legs
        PROVE  /\ v.legs[n].from = IF n = 1 THEN v.start ELSE v.legs[n - 1].to
               /\ v.legs[n].trip # Nil => Ridable(v.legs[n])
    <2>1. CASE n \in 1..m
      <3>1. n # 1 => n - 1 \in 1..m
        BY <1>1, <2>1
      <3> QED BY <1>1, <2>1, <3>1 DEF Joined
    <2>2. CASE n = m + 1
      <3>1. v.legs[n] = leg
        BY <1>1, <2>2
      <3>2. CASE m = 0
        BY <1>2, <2>2, <3>1, <3>2 DEF EndsAt
      <3>3. CASE m # 0
        <4>1. n # 1 /\ n - 1 = m /\ m \in 1..m
          BY <1>1, <2>2, <3>3
        <4>2. w.legs[m].to = leg.from
          BY <1>2, <3>3 DEF EndsAt, m
        <4> QED BY <1>1, <3>1, <4>1, <4>2
      <3> QED BY <3>2, <3>3
    <2> QED BY <1>1, <1>5, <2>1, <2>2
  <1> QED BY <1>1, <1>3, <1>4, <1>5 DEF Joined

\* One leg more than a sound way is a sound way.
LEMMA SoundLonger ==
  ASSUME WaysAreSound, NEW p \in Places, ~Ended(p), NEW w, SoundWay(Back(p), w)
  PROVE  SoundWay(p, Longer(p, w))
  <1> DEFINE l   == LabelAt(p)
             leg == LegTo(p, w)
             v   == Longer(p, w)
  <1>1. /\ w.start \in Near /\ w.legs \in Seq(Leg) /\ w.rides \in Seq(Leg)
        /\ w.at \in Nat /\ w.at <= LabelAt(Back(p)).time
        /\ Joined(w) /\ EndsAt(w, Back(p)[2]) /\ LastRide(w)
        /\ Len(w.rides) = Back(p)[1]
    BY DEF SoundWay
  <1>2. p[1] \in 0..Rounds /\ p[2] \in Stops /\ TypeOK /\ plan \in Plans
    BY DEF Places, WaysAreSound, IInv, TypeOK
  <1>3. /\ Back(p) \in Places /\ l # Nil /\ LabelAt(Back(p)) # Nil /\ l.from \in Stops
        /\ l \in Label /\ LabelAt(Back(p)) \in Label
    <2>1. /\ Back(p) \in Places /\ l # Nil /\ LabelAt(Back(p)) # Nil /\ l.from \in Stops
      BY PlaceBefore
    <2> HIDE DEF l
    <2>2. \A q \in Places : LabelAt(q) # Nil => LabelAt(q) \in Label
      BY <1>2 DEF Places, LabelAt, TypeOK
    <2> QED BY <2>1, <2>2 DEF l
  <1>4. l.time \in Nat /\ LabelAt(Back(p)).time \in Nat /\ l.trip \in Trips \cup {Nil}
    BY <1>3 DEF Label
  <1>5. leg \in Leg /\ leg.from = l.from /\ leg.to = p[2] /\ leg.trip = l.trip
        /\ leg.ready = w.at
    BY <1>1, <1>2, <1>3 DEF LegTo, Leg, Label
  <1>6. v.start = w.start /\ v.legs = Append(w.legs, leg)
    BY DEF Longer
  <1>7. CASE l.trip = Nil
    <2> DEFINE far == plan.metres[l.from][p[2]]
    <2>1. /\ Back(p) = <<p[1], l.from>>
          /\ LabelAt(Back(p)).time + plan.foot[l.from][p[2]] <= l.time
          /\ plan.foot[l.from][p[2]] = RealWalk(far)
      BY <1>7, PlaceBefore
    <2>2. /\ v.rides = w.rides /\ v.at = w.at + plan.foot[l.from][p[2]]
          /\ v.walk = AndOn(w.walk, far)
      BY <1>7 DEF Longer
    <2>3. plan.foot[l.from][p[2]] \in Nat /\ far \in Nat
      BY <1>2, <1>3, PlanParts
    <2> HIDE DEF l, leg, v, far
    <2>4. EndsAt(w, leg.from) /\ Len(w.rides) = p[1]
      BY <1>1, <1>5, <2>1
    <2>5. v.legs \in Seq(Leg) /\ v.legs # <<>> /\ Joined(v) /\ EndsAt(v, p[2])
      BY <1>1, <1>5, <1>6, <1>7, <2>4, LongerWay
    <2>6. v.at \in Nat /\ v.at <= l.time
      BY <1>1, <1>4, <2>1, <2>2, <2>3
    <2>7. LastRide(v)
      <3> DEFINE last == w.rides[Len(w.rides)]
                 a == Arr(last.trip, last.to)
      <3>1. SUFFICES ASSUME w.rides # <<>>
                     PROVE  a \in Nat /\ Taken(v.walk, v.at - a)
        BY <2>2, <2>5 DEF LastRide
      <3>2. a \in Nat /\ Taken(w.walk, w.at - a)
        BY <1>1, <3>1 DEF LastRide
      <3> HIDE DEF last, a
      <3>3. Taken(v.walk, (w.at - a) + RealWalk(far))
        BY <2>2, <2>3, <3>2, OneMoreTaken
      <3>4. v.at - a = (w.at - a) + RealWalk(far)
        BY <1>1, <2>1, <2>2, <2>3, <3>2
      <3> QED BY <3>2, <3>3, <3>4
    <2> QED BY <1>1, <1>6, <2>2, <2>4, <2>5, <2>6, <2>7 DEF SoundWay, l, v
  <1>8. CASE l.trip # Nil
    <2>1. /\ p[1] # 0 /\ Back(p) = <<p[1] - 1, l.from>>
          /\ LabelAt(Back(p)).time <= Dep(l.trip, l.from)
          /\ RideOK(p[1], p[2], l) /\ l.trip \in Trips
      BY <1>8, PlaceBefore
    <2>2. v.rides = Append(w.rides, leg) /\ v.at = Arr(l.trip, p[2]) /\ v.walk = NoWalk
      BY <1>8 DEF Longer
    <2> HIDE DEF l, leg, v
    <2>3. /\ Serves(l.trip, l.from) /\ Serves(l.trip, p[2]) /\ l.time = Arr(l.trip, p[2])
          /\ l.trip.id \notin plan.exclude
          /\ StopIdx(l.trip, l.from) < StopIdx(l.trip, p[2])
      BY <2>1 DEF RideOK
    <2>4. Arr(l.trip, p[2]) \in Nat /\ Dep(l.trip, l.from) \in Nat
      BY <2>1, <2>3, VisitTimes
    <2>5. w.at <= Dep(l.trip, l.from)
      BY <1>1, <1>4, <2>1, <2>4
    <2>6. Ridable(leg)
      BY <1>5, <2>3, <2>5 DEF Ridable
    <2>7. EndsAt(w, leg.from) /\ Len(w.rides) = p[1] - 1
      BY <1>1, <1>5, <2>1
    <2>8. v.legs \in Seq(Leg) /\ v.legs # <<>> /\ Joined(v) /\ EndsAt(v, p[2])
      BY <1>1, <1>5, <1>6, <2>6, <2>7, LongerWay
    <2>9. v.at \in Nat /\ v.at <= l.time
      BY <2>2, <2>3, <2>4
    <2>10. v.rides \in Seq(Leg) /\ Len(v.rides) = p[1] /\ v.rides[Len(v.rides)] = leg
      BY <1>1, <1>2, <1>5, <2>2, <2>7, Bounds
    <2>11. LastRide(v)
      <3>1. v.at - v.at = 0
        BY <2>9
      <3> QED BY <1>5, <2>2, <2>4, <2>8, <2>10, <3>1, NoneTakenYet DEF LastRide
    <2> QED BY <1>1, <1>6, <2>8, <2>9, <2>10, <2>11 DEF SoundWay, l, v
  <1> QED BY <1>7, <1>8

\* A way back that ends starts on foot, at the origin.
LEMMA EndsAfoot ==
  ASSUME WaysAreSound, NEW p \in Places, LabelAt(p) # Nil, Ended(p)
  PROVE  /\ p[1] = 0 /\ LabelAt(p).trip = Nil /\ LabelAt(p).from = Origin
         /\ LabelAt(p).time = AccessTime(p[2])
  <1> DEFINE k == p[1]
             s == p[2]
             l == LabelAt(p)
  <1>1. /\ k \in 0..Rounds /\ s \in Stops /\ l = labels[k][s] /\ l.from = Origin
        /\ TypeOK /\ WalksAreTold /\ LabelsAreJourneys
    BY DEF Places, LabelAt, Ended, WaysAreSound, IInv, WaysInv
  <1>2. l \in Label
    BY <1>1 DEF TypeOK
  <1>3. l.trip = Nil
    <2>1. SUFFICES ASSUME l.trip # Nil PROVE FALSE
      OBVIOUS
    <2>2. RideOK(k, s, l)
      BY <1>1, <2>1 DEF LabelsAreJourneys, WaysAreSound
    <2>3. l.trip \in Trips /\ Serves(l.trip, Origin)
      BY <1>1, <1>2, <2>1, <2>2 DEF RideOK, Label
    <2>4. PICK i \in DOMAIN l.trip.visits : l.trip.visits[i].stop = Origin
      BY <2>3 DEF Serves
    <2>5. l.trip.visits[i].stop \in Stops
      BY <2>3, VisitParts
    <2> QED BY <2>4, <2>5, Bounds
  <1>4. WalkOK(k, s, l)
    BY <1>1, <1>3 DEF WalksAreTold, Afoot
  <1> QED BY <1>1, <1>3, <1>4 DEF WalkOK

\* The way back from every label can be gone.
LEMMA WaysCanBeGone ==
  ASSUME WaysAreSound
  PROVE  \A p \in Places : LabelAt(p) # Nil => SoundWay(p, Way[p])
  <1> DEFINE S == {p \in Places : LabelAt(p) # Nil /\ ~SoundWay(p, Way[p])}
  <1>1. SUFFICES ASSUME S # {} PROVE FALSE
    OBVIOUS
  <1>2. PICK p \in S : Ended(p) \/ Back(p) \notin S
    BY <1>1, SomeEnds
  <1>3. p \in Places /\ LabelAt(p) # Nil /\ ~SoundWay(p, Way[p])
    OBVIOUS
  <1>4. Way[p] = WayAfter(p, Way[Back(p)])
    BY <1>3, WayIs
  <1>5. CASE Ended(p)
    <2> DEFINE s == p[2]
               w == [start |-> s, legs |-> <<>>, rides |-> <<>>, walk |-> NoWalk,
                     at |-> AccessTime(s)]
    <2>1. /\ p[1] = 0 /\ LabelAt(p).trip = Nil /\ LabelAt(p).from = Origin
          /\ LabelAt(p).time = AccessTime(s)
      BY <1>3, <1>5, EndsAfoot
    <2>2. s \in Stops /\ 0 \in 0..Rounds /\ LabelAt(p) = labels[0][s] /\ TypeOK
      BY <1>3, <2>1, Bounds DEF Places, LabelAt, WaysAreSound, IInv
    <2>3. s \in Near /\ AccessTime(s) \in Nat
      BY <1>3, <2>1, <2>2, PlanParts
         DEF WaysAreSound, LabelsInv, StartsNear, Afoot, TypeOK
    <2>4. Way[p] = w
      BY <1>4, <1>5 DEF WayAfter
    <2>5. w.start = s /\ w.legs = <<>> /\ w.rides = <<>> /\ w.at = AccessTime(s)
      OBVIOUS
    <2>6. <<>> \in Seq(Leg) /\ DOMAIN <<>> = {} /\ Len(<<>>) = 0
      OBVIOUS
    <2> HIDE DEF w
    <2>7. Joined(w) /\ EndsAt(w, s) /\ LastRide(w)
      BY <2>5, <2>6 DEF Joined, EndsAt, LastRide
    <2>8. SoundWay(p, w)
      BY <2>1, <2>3, <2>5, <2>6, <2>7 DEF SoundWay
    <2> QED BY <1>3, <2>4, <2>8
  <1>6. CASE ~Ended(p)
    <2>1. Back(p) \in Places /\ LabelAt(Back(p)) # Nil
      BY <1>3, <1>6, PlaceBefore
    <2>2. SoundWay(Back(p), Way[Back(p)])
      BY <1>2, <1>6, <2>1
    <2>3. SoundWay(p, Longer(p, Way[Back(p)]))
      BY <1>3, <1>6, <2>2, SoundLonger
    <2> QED BY <1>3, <1>4, <1>6, <2>3 DEF WayAfter
  <1> QED BY <1>5, <1>6

-----------------------------------------------------------------------------
(* The itineraries.                                                        *)

LEMMA BestEndIs ==
  ASSUME TypeOK, NEW k \in Found
  PROVE  /\ k \in 1..Rounds /\ BestEnd(k) \in Ends(k) /\ BestEnd(k) \in Stops
         /\ plan.pinned \in Ends(k) => BestEnd(k) = plan.pinned
         /\ plan.pinned \notin Ends(k) =>
              \A u \in Ends(k) : ArrivalAt(k, BestEnd(k)) <= ArrivalAt(k, u)
         /\ \A u \in Ends(k) : ArrivalAt(k, u) \in Nat /\ labels[k][u].time \in Nat
                                /\ plan.egress[u] \in Nat
  <1>1. k \in 1..Rounds /\ k \in 0..Rounds /\ Ends(k) # {} /\ Ends(k) \subseteq Stops
    BY Bounds DEF Found, Ends
  <1>2. plan.egress \in [Stops -> Times] /\ Times \subseteq Nat
    BY PlanIsAsked, ArrayTimes DEF PlanType
  <1>3. ASSUME NEW u \in Ends(k)
        PROVE  labels[k][u].time \in Nat /\ plan.egress[u] \in Nat /\ ArrivalAt(k, u) \in Nat
    <2>1. u \in Stops /\ labels[k][u] # Nil
      BY <1>1 DEF Ends
    <2>2. labels[k][u].time \in Nat /\ plan.egress[u] \in Nat
      BY <1>1, <1>2, <2>1 DEF TypeOK, Label
    <2> QED BY <2>2 DEF ArrivalAt
  <1>4. CASE plan.pinned \in Ends(k)
    BY <1>1, <1>3, <1>4 DEF BestEnd
  <1>5. CASE plan.pinned \notin Ends(k)
    <2> DEFINE A == {ArrivalAt(k, u) : u \in Ends(k)}
    <2>1. A \in SUBSET Nat /\ A # {}
      BY <1>1, <1>3
    <2> HIDE DEF A
    <2>2. PICK a \in A : \A b \in A : a <= b
      BY <2>1, MinOf
    <2>3. \E s \in Ends(k) : \A u \in Ends(k) : ArrivalAt(k, s) <= ArrivalAt(k, u)
      BY <2>2 DEF A
    <2>4. BestEnd(k) = CHOOSE s \in Ends(k) : \A u \in Ends(k) : ArrivalAt(k, s) <= ArrivalAt(k, u)
      BY <1>5 DEF BestEnd
    <2>5. BestEnd(k) \in Ends(k) /\ \A u \in Ends(k) : ArrivalAt(k, BestEnd(k)) <= ArrivalAt(k, u)
      BY <2>3, <2>4
    <2> QED BY <1>1, <1>3, <1>5, <2>5
  <1> QED BY <1>4, <1>5

\* The minute of a time is less than a minute before it, on one day.
LEMMA ShownTime ==
  ASSUME NEW a \in Nat
  PROVE  /\ Shown(a) \in Nat
         /\ a < Day => Shown(a) <= a /\ a < Shown(a) + Minute
  <1> DEFINE d == a % Day
             m == d % Minute
  <1>1. d \in Nat /\ (a < Day => d = a)
    BY Units
  <1>2. Shown(a) = d - m
    BY DEF Shown
  <1>3. m \in 0..(Minute - 1) /\ m <= d
    <2> HIDE DEF d
    <2> QED BY <1>1, Units
  <1> HIDE DEF d, m
  <1> QED BY <1>1, <1>2, <1>3, Units

LEMMA WholeMinutes ==
  ASSUME NEW n \in Int
  PROVE  InMinutes(n) \in Int
  BY Units DEF InMinutes, Quotient

\* The minutes that are shown of the walks after the last ride are those they
\* take, but for a minute and the slack.
LEMMA ShownLastWalk ==
  ASSUME plan \in Plans, NEW walk, NEW time, Taken(walk, time),
         NEW s \in Stops, plan.egress[s] < Infinity
  PROVE  LET m == MergedMin(LastWalk(walk, s))
             t == time + plan.egress[s]
         IN /\ m \in Nat /\ Minute * m \in Nat /\ Slack(walk) \in Nat
            /\ Minute * m <= t + Minute + Slack(walk)
            /\ t <= Minute * m + Slack(walk)
  <1> DEFINE x == plan.last[s]
             e == plan.egress[s]
             l == walk.legs
             r == RealWalk(Least)
             slack == Slack(walk)
             m == MergedMin(LastWalk(walk, s))
             n == Minute * m
  <1>1. x \in Nat /\ e \in Nat /\ e = RealWalk(x) /\ l \in Nat /\ time \in Nat
    BY PlacesOf DEF Taken
  <1>2. r \in Nat /\ slack = 2 * (l + 1) + r
    BY Units, LongerTakesLonger DEF Slack
  <1>3. CASE x > Least
    <2> DEFINE more == AndOn(walk, x)
    <2>1. LastWalk(walk, s) = more
      BY <1>3 DEF LastWalk
    <2>2. Taken(more, time + e) /\ more.legs = l + 1
      BY <1>1, OneMoreTaken
    <2> HIDE DEF x, e, l, r, slack, more
    <2>3. more.legs # 0
      BY <1>1, <2>2
    <2>4. /\ MergedMin(more) \in Nat
          /\ Minute * MergedMin(more) <= (time + e) + Minute + 2 * more.legs
          /\ time + e <= Minute * MergedMin(more) + 2 * more.legs
      BY <2>2, <2>3, ShownWalks
    <2>5. m \in Nat /\ n <= (time + e) + Minute + 2 * (l + 1) /\ time + e <= n + 2 * (l + 1)
      BY <2>1, <2>2, <2>4
    <2>6. n \in Nat
      BY <2>5, Units
    <2> HIDE DEF m, n
    <2>7. n <= (time + e) + Minute + slack /\ time + e <= n + slack /\ slack \in Nat
      BY <1>1, <1>2, <2>5, <2>6, Units
    <2> QED BY <2>5, <2>6, <2>7 DEF m, n, e, slack
  <1>4. CASE ~ (x > Least)
    <2>1. LastWalk(walk, s) = walk
      BY <1>4 DEF LastWalk
    <2>2. e <= r
      BY <1>1, <1>4, Units, LongerTakesLonger
    <2>3. m \in Nat /\ n \in Nat /\ n <= time + Minute + 2 * l /\ time <= n + 2 * l
      <3>1. CASE l = 0
        <4>1. m = 0 /\ time = 0
          BY <2>1, <3>1 DEF MergedMin, Taken
        <4>2. n = 0
          BY <4>1, Units
        <4> HIDE DEF m, n, l
        <4> QED BY <1>1, <3>1, <4>1, <4>2, Units
      <3>2. CASE l # 0
        <4>1. m \in Nat /\ n <= time + Minute + 2 * l /\ time <= n + 2 * l
          BY <2>1, <3>2, ShownWalks
        <4>2. n \in Nat
          BY <4>1, Units
        <4> QED BY <4>1, <4>2
      <3> QED BY <3>1, <3>2
    <2> HIDE DEF x, e, l, r, slack, m, n
    <2>4. n <= (time + e) + Minute + slack /\ time + e <= n + slack /\ slack \in Nat
      BY <1>1, <1>2, <2>2, <2>3, Units
    <2> QED BY <2>3, <2>4 DEF m, n, e, slack
  <1> QED BY <1>3, <1>4

\* An itinerary is a way that can be gone, with a ride of each round, and says
\* when it is there.
LEMMA ItineraryIs ==
  ASSUME WaysAreSound, NEW k \in Found, NEW s \in Ends(k)
  PROVE  LET w     == Way[<<k, s>>]
             i     == Itinerary(k, s)
             there == w.at + plan.egress[s]
             off   == Minute + Slack(w.walk)
         IN /\ SoundWay(<<k, s>>, w)
            /\ i.start = w.start /\ i.legs = w.legs /\ i.stop = s /\ i.legs # <<>>
            /\ i.transfers = k - 1 /\ DOMAIN i.routes = 1..k /\ i.minutes \in Int
            /\ labels[k][s].time < Day =>
                 \E time \in (there - off)..(there + off) :
                   /\ i.arrival = Shown(time)
                   /\ i.minutes = InMinutes(time - plan.depart)
  <1> DEFINE p == <<k, s>>
             w == Way[p]
             i == Itinerary(k, s)
             last == w.rides[Len(w.rides)]
             a == Arr(last.trip, last.to)
             n == Minute * MergedMin(LastWalk(w.walk, s))
             total == Shown(a) + n
             e == plan.egress[s]
             slack == Slack(w.walk)
             off == Minute + slack
  <1>1. TypeOK /\ plan \in Plans /\ plan.depart \in Nat
    BY PlanIsAsked DEF WaysAreSound, IInv, TypeOK, PlanType
  <1>2. /\ k \in 1..Rounds /\ s \in Stops /\ labels[k][s] # Nil /\ e < Infinity
        /\ labels[k][s].time \in Nat /\ e \in Nat
    BY <1>1, BestEndIs DEF Ends
  <1>3. p \in Places /\ LabelAt(p) = labels[k][s] /\ p[1] = k /\ p[2] = s
    BY <1>2, Bounds DEF Places, LabelAt
  <1>4. SoundWay(p, w)
    BY <1>2, <1>3, WaysCanBeGone
  <1>5. /\ i.start = w.start /\ i.legs = w.legs /\ i.stop = s
        /\ i.arrival = Shown(total) /\ i.minutes = InMinutes(total - plan.depart)
        /\ i.transfers = Len(w.rides) - 1 /\ DOMAIN i.routes = DOMAIN w.rides
    BY DEF Itinerary
  <1> HIDE DEF p, w, i, last
  <1>6. /\ w.rides \in Seq(Leg) /\ Len(w.rides) = k /\ LastRide(w)
        /\ w.at \in Nat /\ w.at <= labels[k][s].time
    BY <1>3, <1>4 DEF SoundWay
  <1>7. w.rides # <<>> /\ DOMAIN w.rides = 1..k
    BY <1>2, <1>6
  <1>8. w.legs # <<>> /\ a \in Nat /\ Taken(w.walk, w.at - a)
    BY <1>6, <1>7 DEF LastRide, last
  <1> HIDE DEF a
  <1> DEFINE t == (w.at - a) + e
  <1>9. n \in Nat /\ slack \in Nat /\ n <= t + Minute + slack /\ t <= n + slack
    BY <1>1, <1>2, <1>8, ShownLastWalk
  <1>10. w.at - a \in Nat
    BY <1>8 DEF Taken
  <1>11. Shown(a) \in Nat /\ (a < Day => Shown(a) <= a /\ a < Shown(a) + Minute)
    BY <1>8, ShownTime
  <1> HIDE DEF n, slack
  <1>12. total \in Nat /\ i.minutes \in Int
    <2> DEFINE d == total - plan.depart
    <2>1. total \in Nat
      BY <1>9, <1>11
    <2>2. d \in Int /\ i.minutes = InMinutes(d)
      BY <1>1, <1>5, <2>1
    <2> HIDE DEF d, total
    <2> QED BY <2>1, <2>2, WholeMinutes
  <1>13. ASSUME labels[k][s].time < Day
         PROVE  total \in ((w.at + e) - off)..((w.at + e) + off)
    <2>1. a < Day
      BY <1>2, <1>6, <1>8, <1>10, <1>13, Units
    <2> DEFINE sh == Shown(a)
               at == w.at
    <2>2. /\ sh \in Nat /\ sh <= a /\ a < sh + Minute /\ a \in Nat
          /\ at \in Nat /\ at - a \in Nat /\ e \in Nat /\ Minute \in Nat
          /\ n \in Nat /\ slack \in Nat
          /\ n <= (at - a) + e + Minute + slack /\ (at - a) + e <= n + slack
      BY <1>2, <1>6, <1>8, <1>9, <1>10, <1>11, <2>1, Units
    <2> HIDE DEF sh, at, e
    <2>3. /\ sh + n \in Nat
          /\ (at + e) - (Minute + slack) <= sh + n
          /\ sh + n <= (at + e) + (Minute + slack)
      BY <2>2
    <2>4. sh + n \in ((at + e) - (Minute + slack))..((at + e) + (Minute + slack))
      BY <2>2, <2>3
    <2> QED BY <2>4 DEF sh, at
  <1> HIDE DEF total, off
  <1>14. labels[k][s].time < Day =>
           \E time \in ((w.at + e) - off)..((w.at + e) + off) :
             /\ i.arrival = Shown(time)
             /\ i.minutes = InMinutes(time - plan.depart)
    BY <1>5, <1>13
  <1>15. i.legs # <<>> /\ i.transfers = k - 1 /\ DOMAIN i.routes = 1..k
    BY <1>5, <1>6, <1>7, <1>8
  <1> QED BY <1>4, <1>5, <1>12, <1>14, <1>15 DEF p, w, i, off, slack

LEMMA KeptAreFound == Kept \subseteq Distinct /\ Distinct \subseteq Found
  BY DEF Kept, Distinct, Preferred, Clean, Pareto

LEMMA Ridden ==
  ASSUME IInv, WaysInv, LabelsInv
  PROVE  ItinerariesAreRidable
  <1> DEFINE goes(i) ==
        /\ i.start \in Near
        /\ i.legs # <<>>
        /\ \A n \in DOMAIN i.legs :
             /\ i.legs[n].from = IF n = 1 THEN i.start ELSE i.legs[n - 1].to
             /\ i.legs[n].trip # Nil =>
                  /\ i.legs[n].trip.id \notin plan.exclude
                  /\ i.legs[n].ready <= Dep(i.legs[n].trip, i.legs[n].from)
                  /\ StopIdx(i.legs[n].trip, i.legs[n].from)
                       < StopIdx(i.legs[n].trip, i.legs[n].to)
        /\ i.legs[Len(i.legs)].to = i.stop
             tells(i, k) ==
        LET way   == Way[<<k, i.stop>>]
            there == way.at + plan.egress[i.stop]
            off   == Minute + Slack(way.walk)
        IN /\ way.legs = i.legs
           /\ \E time \in (there - off)..(there + off) :
                /\ i.arrival = Shown(time)
                /\ i.minutes = InMinutes(time - plan.depart)
  <1> SUFFICES ASSUME Straight(plan), Fifo(plan), SameDay, NEW i \in Itineraries
               PROVE  goes(i) /\ \E k \in 1..Rounds : tells(i, k)
    BY DEF ItinerariesAreRidable
  <1>1. PICK k \in Kept : i = ItineraryOf(k)
    BY DEF Itineraries
  <1> DEFINE s == BestEnd(k)
             w == Way[<<k, s>>]
             there == w.at + plan.egress[s]
             off == Minute + Slack(w.walk)
  <1>2. k \in Found /\ k \in 1..Rounds /\ s \in Ends(k)
    BY KeptAreFound, BestEndIs DEF IInv
  <1>3. i = Itinerary(k, s)
    BY <1>1 DEF ItineraryOf
  <1>4. WaysAreSound /\ labels[k][s].time < Day
    BY <1>2 DEF WaysAreSound, SameDay
  <1>5. /\ SoundWay(<<k, s>>, w)
        /\ i.start = w.start /\ i.legs = w.legs /\ i.stop = s /\ i.legs # <<>>
        /\ \E time \in (there - off)..(there + off) :
             /\ i.arrival = Shown(time)
             /\ i.minutes = InMinutes(time - plan.depart)
    BY <1>2, <1>3, <1>4, ItineraryIs
  <1>6. tells(i, k)
    BY <1>5
  <1> HIDE DEF s, w, tells
  <1>7. w.start \in Near /\ Joined(w) /\ EndsAt(w, s)
    BY <1>5 DEF SoundWay
  <1>8. i.legs[Len(i.legs)].to = i.stop
    BY <1>5, <1>7 DEF EndsAt
  <1>9. ASSUME NEW n \in DOMAIN i.legs
        PROVE  /\ i.legs[n].from = IF n = 1 THEN i.start ELSE i.legs[n - 1].to
               /\ i.legs[n].trip # Nil =>
                    /\ i.legs[n].trip.id \notin plan.exclude
                    /\ i.legs[n].ready <= Dep(i.legs[n].trip, i.legs[n].from)
                    /\ StopIdx(i.legs[n].trip, i.legs[n].from)
                         < StopIdx(i.legs[n].trip, i.legs[n].to)
    BY <1>5, <1>7 DEF Joined, Ridable
  <1>10. goes(i)
    BY <1>5, <1>7, <1>8, <1>9
  <1> QED BY <1>2, <1>6, <1>10

\* Whoever leaves when asked can follow every itinerary to its end, and is there
\* within a minute, and the slack of its walks, of the time of which it shows
\* the minute and the duration, on a day whose trips of a direction have the
\* same stops and do not overtake, if no way ends on the next day.
THEOREM ItinerariesRidable == Spec => []ItinerariesAreRidable
  <1>1. IInv /\ WaysInv /\ LabelsInv => ItinerariesAreRidable
    BY Ridden
  <1> QED BY <1>1, WaysInvariance, PTL

-----------------------------------------------------------------------------
(* No journey is earlier: the reference.                                   *)

\* Arrivals are times.
LEMMA ArrivalTimes ==
  ASSUME NEW q \in PlanType, NEW best, NEW s
  PROVE  Arrivals(q, best, s) \subseteq Nat
  <1>1. SUFFICES ASSUME NEW a \in Arrivals(q, best, s) PROVE a \in Nat
    OBVIOUS
  <1>2. PICK r \in Routes : \E t \in Runs(q, r) : \E j \in DOMAIN t.visits :
          a = t.visits[j].arr
    BY DEF Arrivals
  <1>3. PICK t \in Runs(q, r) : \E j \in DOMAIN t.visits : a = t.visits[j].arr
    BY <1>2
  <1>4. t \in Trips
    BY DEF Runs, PlanType
  <1> QED BY <1>3, <1>4, VisitParts

\* The reference takes one ride, or one walk, from times to times.
LEMMA RideTimes ==
  ASSUME NEW q \in PlanType, NEW best \in [Stops -> Nat]
  PROVE  /\ AndRide(q, best) \in [Stops -> Nat]
         /\ \A s \in Stops : AndRide(q, best)[s] \in {best[s]} \cup Arrivals(q, best, s)
  <1>1. ASSUME NEW s \in Stops
        PROVE  /\ AndRide(q, best)[s] \in Nat
               /\ AndRide(q, best)[s] \in {best[s]} \cup Arrivals(q, best, s)
    <2> DEFINE S == {best[s]} \cup Arrivals(q, best, s)
    <2>2. S \in SUBSET Nat /\ S # {}
      BY ArrivalTimes
    <2>3. AndRide(q, best)[s] = Min(S)
      BY DEF AndRide
    <2> HIDE DEF S
    <2>4. AndRide(q, best)[s] \in S
      BY <2>2, <2>3, MinOf
    <2> QED BY <2>2, <2>4 DEF S
  <1>2. AndRide(q, best) = [s \in Stops |-> AndRide(q, best)[s]]
    BY DEF AndRide
  <1> QED BY <1>1, <1>2

LEMMA WalkTimes ==
  ASSUME NEW q \in PlanType, NEW best \in [Stops -> Nat]
  PROVE  /\ AndWalk(q, best) \in [Stops -> Nat]
         /\ \A s \in Stops :
              AndWalk(q, best)[s] \in
                {Infinity, best[s]} \cup {best[u] + q.foot[u][s] : u \in Stops}
  <1>1. ASSUME NEW s \in Stops
        PROVE  /\ AndWalk(q, best)[s] \in Nat
               /\ AndWalk(q, best)[s] \in
                    {Infinity, best[s]} \cup {best[u] + q.foot[u][s] : u \in Stops}
    <2> DEFINE S == {Infinity, best[s]} \cup {best[u] + q.foot[u][s] : u \in Stops}
    <2>1. ASSUME NEW u \in Stops PROVE best[u] + q.foot[u][s] \in Nat
      <3>1. q.foot[u][s] \in Nat
        BY Bounds DEF PlanType, Times
      <3> QED BY <3>1
    <2>2. S \in SUBSET Nat /\ S # {}
      BY <2>1, Bounds
    <2>3. AndWalk(q, best)[s] = Min(S)
      BY DEF AndWalk
    <2> HIDE DEF S
    <2>4. AndWalk(q, best)[s] \in S
      BY <2>2, <2>3, MinOf
    <2> QED BY <2>2, <2>4 DEF S
  <1>2. AndWalk(q, best) = [s \in Stops |-> AndWalk(q, best)[s]]
    BY DEF AndWalk
  <1> QED BY <1>1, <1>2

\* A ride of the reference is no later than what it takes the first of.
LEMMA RideFalls ==
  ASSUME NEW q \in PlanType, NEW best \in [Stops -> Nat], NEW s \in Stops
  PROVE  /\ AndRide(q, best)[s] <= best[s]
         /\ \A a \in Arrivals(q, best, s) : AndRide(q, best)[s] <= a
  <1> DEFINE S == {best[s]} \cup Arrivals(q, best, s)
  <1>2. S \in SUBSET Nat /\ S # {} /\ best[s] \in S /\ Arrivals(q, best, s) \subseteq S
    BY ArrivalTimes
  <1>3. AndRide(q, best)[s] = Min(S)
    BY DEF AndRide
  <1> HIDE DEF S
  <1>4. \A x \in S : AndRide(q, best)[s] <= x
    BY <1>2, <1>3, MinOf
  <1> QED BY <1>2, <1>4

LEMMA FirstTimes ==
  ASSUME NEW q \in PlanType
  PROVE  AccessTimes(q) \in [Stops -> Nat]
  <1>1. q.access \in [Stops -> Nat] /\ q.depart \in Nat
    BY Bounds DEF PlanType, Times
  <1>2. ASSUME NEW s \in Stops PROVE q.depart + q.access[s] \in Nat
    <2>1. q.access[s] \in Nat
      BY <1>1
    <2> QED BY <1>1, <2>1
  <1> QED BY <1>2 DEF AccessTimes

LEMMA CrossTimes ==
  ASSUME NEW q \in Plans, NEW best \in [Stops -> Nat]
  PROVE  /\ AndCross(q, best) \in [Stops -> Nat]
         /\ \A s \in Stops :
              /\ AndCross(q, best)[s] \in
                   {Infinity, best[s]} \cup {best[u] + RealWalk(q.metres[u][s]) : u \in Stops}
              /\ AndCross(q, best)[s] <= best[s] /\ AndCross(q, best)[s] <= Infinity
              /\ \A u \in Stops : AndCross(q, best)[s] <= best[u] + RealWalk(q.metres[u][s])
  <1>1. ASSUME NEW s \in Stops
        PROVE  /\ AndCross(q, best)[s] \in Nat
               /\ AndCross(q, best)[s] \in
                    {Infinity, best[s]} \cup {best[u] + RealWalk(q.metres[u][s]) : u \in Stops}
               /\ AndCross(q, best)[s] <= best[s] /\ AndCross(q, best)[s] <= Infinity
               /\ \A u \in Stops : AndCross(q, best)[s] <= best[u] + RealWalk(q.metres[u][s])
    <2> DEFINE S == {Infinity, best[s]} \cup {best[u] + RealWalk(q.metres[u][s]) : u \in Stops}
    <2>1. ASSUME NEW u \in Stops PROVE best[u] + RealWalk(q.metres[u][s]) \in Nat
      <3>1. q.metres[u][s] \in Nat
        BY PlacesOf
      <3>2. RealWalk(q.metres[u][s]) \in Nat
        BY <3>1, LongerTakesLonger
      <3> QED BY <3>2
    <2>2. /\ S \in SUBSET Nat /\ S # {} /\ best[s] \in S /\ Infinity \in S
          /\ \A u \in Stops : best[u] + RealWalk(q.metres[u][s]) \in S
      BY <2>1, Bounds
    <2>3. AndCross(q, best)[s] = Min(S)
      BY DEF AndCross
    <2> HIDE DEF S
    <2>4. AndCross(q, best)[s] \in S /\ \A x \in S : AndCross(q, best)[s] <= x
      BY <2>2, <2>3, MinOf
    <2>5. AndCross(q, best)[s] \in Nat
      BY <2>2, <2>4
    <2> QED BY <2>2, <2>4, <2>5 DEF S
  <1>2. AndCross(q, best) = [s \in Stops |-> AndCross(q, best)[s]]
    BY DEF AndCross
  <1> QED BY <1>1, <1>2

\* Who walks straight to where they go has no walk to add.
LEMMA CrossCloses ==
  ASSUME NEW q \in Plans, NEW best \in [Stops -> Nat], NEW u \in Stops, NEW s \in Stops
  PROVE  AndCross(q, best)[s] <= AndCross(q, best)[u] + RealWalk(q.metres[u][s])
  <1> DEFINE to == AndCross(q, best)
             us == RealWalk(q.metres[u][s])
  <1>1. \A x, y \in Stops : q.metres[x][y] \in Nat /\ RealWalk(q.metres[x][y]) \in Nat
    BY PlacesOf, LongerTakesLonger
  <1>2. /\ to \in [Stops -> Nat]
        /\ to[u] \in {Infinity, best[u]} \cup {best[x] + RealWalk(q.metres[x][u]) : x \in Stops}
        /\ to[s] <= best[s] /\ to[s] <= Infinity
        /\ \A x \in Stops : to[s] <= best[x] + RealWalk(q.metres[x][s])
    BY CrossTimes
  <1> HIDE DEF to
  <1>3. to[s] \in Nat /\ to[u] \in Nat /\ us \in Nat /\ Infinity \in Nat
    BY <1>1, <1>2, Bounds
  <1>4. to[u] = Infinity => to[s] <= to[u] + us
    <2> HIDE DEF us
    <2> QED BY <1>2, <1>3
  <1>5. to[u] = best[u] => to[s] <= to[u] + us
    BY <1>2
  <1>6. ASSUME NEW x \in Stops, to[u] = best[x] + RealWalk(q.metres[x][u])
        PROVE  to[s] <= to[u] + us
    <2> DEFINE xu == RealWalk(q.metres[x][u])
               xs == RealWalk(q.metres[x][s])
    <2>1. xs <= xu + us
      BY <1>1, PlacesOf, Detour
    <2>2. best[x] \in Nat /\ xu \in Nat /\ xs \in Nat /\ to[s] <= best[x] + xs
      BY <1>1, <1>2
    <2>3. to[u] = best[x] + xu
      BY <1>6
    <2> HIDE DEF us, xu, xs
    <2> QED BY <1>3, <2>1, <2>2, <2>3
  <1>7. to[s] <= to[u] + us
    BY <1>2, <1>4, <1>5, <1>6
  <1> QED BY <1>7 DEF to, us

LEMMA OnwardTimes ==
  ASSUME NEW q \in Plans, NEW ride \in [Stops -> Nat], NEW free
  PROVE  /\ AndOnward(q, ride, free) \in [Stops -> Nat]
         /\ \A s \in Stops :
              \/ AndOnward(q, ride, free)[s] = ride[s]
              \/ \E u \in Stops : /\ ride[u] < free[u]
                                  /\ AndOnward(q, ride, free)[s] = ride[u] + q.foot[u][s]
  <1>1. ASSUME NEW s \in Stops
        PROVE  /\ AndOnward(q, ride, free)[s] \in Nat
               /\ \/ AndOnward(q, ride, free)[s] = ride[s]
                  \/ \E u \in Stops : /\ ride[u] < free[u]
                                      /\ AndOnward(q, ride, free)[s] = ride[u] + q.foot[u][s]
    <2> DEFINE U == {u \in Stops : q.foot[u][s] < Infinity /\ ride[u] < free[u]}
               S == {ride[s]} \cup {ride[u] + q.foot[u][s] : u \in U}
    <2>1. ASSUME NEW u \in Stops PROVE ride[u] + q.foot[u][s] \in Nat
      <3>1. q.foot[u][s] \in Nat
        BY PlacesOf
      <3> QED BY <3>1
    <2>2. S \in SUBSET Nat /\ S # {}
      BY <2>1
    <2>3. AndOnward(q, ride, free)[s] = Min(S)
      BY DEF AndOnward
    <2> HIDE DEF S
    <2>4. AndOnward(q, ride, free)[s] \in S
      BY <2>2, <2>3, MinOf
    <2>5. AndOnward(q, ride, free)[s] \in Nat
      BY <2>2, <2>4
    <2> QED BY <2>4, <2>5 DEF S
  <1>2. AndOnward(q, ride, free) = [s \in Stops |-> AndOnward(q, ride, free)[s]]
    BY DEF AndOnward
  <1> QED BY <1>1, <1>2

\* What is so of no rides, and of a number of rides when of one less, is always.
LEMMA NoRoundIsWrong ==
  ASSUME NEW wrong \in SUBSET (0..Rounds), 0 \notin wrong,
         \A k \in 1..Rounds : k \in wrong => k - 1 \in wrong
  PROVE  wrong = {}
  <1> SUFFICES ASSUME wrong # {} PROVE FALSE
    OBVIOUS
  <1>1. wrong \in SUBSET Nat
    BY Bounds
  <1>2. PICK k \in wrong : \A j \in wrong : k <= j
    BY <1>1, MinOf
  <1>3. k \in 1..Rounds /\ ~ (k <= k - 1)
    BY Bounds
  <1> QED BY <1>2, <1>3

\* What is taken from one round to the next, and the rounds that this makes.
StepsOn(T) == [1..Rounds -> [T -> T]]

AreRounds(g, T, first, F) ==
  /\ g \in [0..Rounds -> T]
  /\ g[0] = first
  /\ \A k \in 1..Rounds : g[k] = F[k][g[k - 1]]

LEMMA RoundsExist ==
  ASSUME NEW T, NEW first \in T, NEW F \in StepsOn(T)
  PROVE  \E g : AreRounds(g, T, first, F)
  <1> DEFINE upTo(n, g) == /\ g \in [0..n -> T]
                           /\ g[0] = first
                           /\ \A k \in 1..n : g[k] = F[k][g[k - 1]]
             wrong == {n \in 0..Rounds : ~ \E g : upTo(n, g)}
  <1> USE DEF StepsOn
  <1>1. 0 \notin wrong
    <2> DEFINE g == [k \in 0..0 |-> first]
    <2>1. g \in [0..0 -> T] /\ g[0] = first
      OBVIOUS
    <2> HIDE DEF g
    <2>2. upTo(0, g)
      BY <2>1
    <2> QED BY <2>2
  <1>2. ASSUME NEW n \in 1..Rounds, n - 1 \notin wrong
        PROVE  n \notin wrong
    <2>1. n - 1 \in 0..Rounds /\ n \in Nat /\ Rounds \in Nat
      BY Bounds
    <2>2. PICK h : upTo(n - 1, h)
      BY <1>2, <2>1
    <2> DEFINE g == [k \in 0..n |-> IF k = n THEN F[n][h[n - 1]] ELSE h[k]]
    <2>3. ASSUME NEW k \in 0..n
          PROVE  /\ g[k] \in T
                 /\ k # n => k \in 0..(n - 1) /\ g[k] = h[k]
                 /\ k = n => g[k] = F[n][h[n - 1]]
      <3>1. CASE k = n
        <4>1. h[n - 1] \in T
          BY <2>1, <2>2
        <4> QED BY <3>1, <4>1
      <3>2. CASE k # n
        <4>1. k \in 0..(n - 1)
          BY <2>1, <3>2
        <4> QED BY <2>2, <3>2, <4>1
      <3> QED BY <3>1, <3>2
    <2>4. g \in [0..n -> T]
      BY <2>3
    <2> HIDE DEF g
    <2>5. g[0] = first
      BY <2>1, <2>2, <2>3
    <2>6. ASSUME NEW k \in 1..n PROVE g[k] = F[k][g[k - 1]]
      <3>1. k \in 0..n /\ k - 1 \in 0..n /\ k - 1 # n
        BY <2>1
      <3>2. g[k - 1] = h[k - 1]
        BY <2>3, <3>1
      <3>3. CASE k = n
        BY <2>3, <3>1, <3>2, <3>3
      <3>4. CASE k # n
        <4>1. k \in 1..(n - 1) /\ g[k] = h[k]
          BY <2>1, <2>3, <3>1, <3>4
        <4> QED BY <2>2, <3>2, <4>1
      <3> QED BY <3>3, <3>4
    <2>7. upTo(n, g)
      BY <2>4, <2>5, <2>6
    <2> QED BY <2>7
  <1> HIDE DEF upTo
  <1>3. wrong = {}
    <2>1. wrong \in SUBSET (0..Rounds)
      OBVIOUS
    <2> HIDE DEF wrong
    <2> QED BY <1>1, <1>2, <2>1, NoRoundIsWrong
  <1>4. Rounds \in 0..Rounds
    BY Bounds
  <1>5. \E g : upTo(Rounds, g)
    BY <1>3, <1>4
  <1>6. PICK g : upTo(Rounds, g)
    BY <1>5
  <1> QED BY <1>6 DEF upTo, AreRounds

\* The rounds of the walker whom no distance is too long.
LEMMA FreeRounds ==
  ASSUME NEW q \in Plans
  PROVE  /\ Free(q)[0] = AndCross(q, AccessTimes(q))
         /\ \A k \in 1..Rounds : Free(q)[k] = AndCross(q, AndRide(q, Free(q)[k - 1]))
         /\ \A k \in 0..Rounds : Free(q)[k] \in [Stops -> Nat]
  <1> DEFINE T == [Stops -> Nat]
             first == AndCross(q, AccessTimes(q))
             F == [k \in 1..Rounds |-> [best \in T |-> AndCross(q, AndRide(q, best))]]
             by(g, k) == AndCross(q, IF k = 0 THEN AccessTimes(q) ELSE AndRide(q, g[k - 1]))
             E == Free(q)
  <1>1. q \in PlanType /\ AccessTimes(q) \in T
    BY PlacesOf, FirstTimes
  <1>2. first \in T /\ \A best \in T : AndCross(q, AndRide(q, best)) \in T
    BY <1>1, RideTimes, CrossTimes
  <1>3. F \in StepsOn(T)
    BY <1>2 DEF StepsOn
  <1>4. 0 \in 0..Rounds /\ 1..Rounds \subseteq 0..Rounds /\ 0 \notin 1..Rounds
        /\ \A k \in 0..Rounds : k # 0 => k \in 1..Rounds /\ k - 1 \in 0..Rounds
    BY Bounds
  <1>5. \E g : g = [k \in 0..Rounds |-> by(g, k)]
    <2>0. \A k \in 1..Rounds : \A best \in T : F[k][best] = AndCross(q, AndRide(q, best))
      OBVIOUS
    <2> HIDE DEF T, first, F
    <2>1. PICK g : AreRounds(g, T, first, F)
      BY <1>2, <1>3, RoundsExist
    <2>2. ASSUME NEW k \in 0..Rounds PROVE g[k] = by(g, k)
      <3>1. CASE k = 0
        BY <2>1, <3>1 DEF first, AreRounds
      <3>2. CASE k # 0
        <4>1. k \in 1..Rounds /\ g[k - 1] \in T
          BY <1>4, <2>1, <3>2 DEF AreRounds
        <4> QED BY <2>0, <2>1, <3>2, <4>1 DEF AreRounds
      <3> QED BY <3>1, <3>2
    <2>3. g = [k \in 0..Rounds |-> g[k]]
      BY <2>1 DEF AreRounds
    <2> HIDE DEF by
    <2> QED BY <2>2, <2>3
  <1>6. E = [k \in 0..Rounds |-> by(E, k)]
    <2>1. E = CHOOSE g : g = [k \in 0..Rounds |-> by(g, k)]
      BY DEF Free
    <2> HIDE DEF E, by
    <2> QED BY <1>5, <2>1
  <1> HIDE DEF E, F
  <1>7. E[0] = first
    BY <1>4, <1>6
  <1>8. ASSUME NEW k \in 1..Rounds PROVE E[k] = AndCross(q, AndRide(q, E[k - 1]))
    BY <1>4, <1>6
  <1> DEFINE wrong == {k \in 0..Rounds : E[k] \notin T}
  <1>9. wrong = {}
    <2>1. 0 \notin wrong
      BY <1>2, <1>7
    <2>2. ASSUME NEW k \in 1..Rounds, k - 1 \notin wrong PROVE k \notin wrong
      <3>1. E[k - 1] \in T
        BY <1>4, <2>2
      <3> QED BY <1>2, <1>8, <3>1
    <2>3. wrong \in SUBSET (0..Rounds)
      OBVIOUS
    <2> HIDE DEF wrong
    <2> QED BY <2>1, <2>2, <2>3, NoRoundIsWrong
  <1> QED BY <1>7, <1>8, <1>9 DEF E

\* And those of the reference.
LEMMA SoonestRounds ==
  ASSUME NEW q \in Plans
  PROVE  /\ Soonest(q)[0] = AndWalk(q, AccessTimes(q))
         /\ \A k \in 1..Rounds :
              Soonest(q)[k] = AndOnward(q, AndRide(q, Soonest(q)[k - 1]), Free(q)[k - 1])
         /\ \A k \in 0..Rounds : Soonest(q)[k] \in [Stops -> Nat]
  <1> DEFINE T == [Stops -> Nat]
             free == Free(q)
             first == AndWalk(q, AccessTimes(q))
             F == [k \in 1..Rounds |->
                     [best \in T |-> AndOnward(q, AndRide(q, best), free[k - 1])]]
             by(g, k) == IF k = 0 THEN AndWalk(q, AccessTimes(q))
                                  ELSE AndOnward(q, AndRide(q, g[k - 1]), free[k - 1])
             E == Soonest(q)
  <1>1. q \in PlanType /\ AccessTimes(q) \in T
    BY PlacesOf, FirstTimes
  <1>2. /\ first \in T
        /\ \A best \in T, k \in 1..Rounds : AndOnward(q, AndRide(q, best), free[k - 1]) \in T
    BY <1>1, RideTimes, WalkTimes, OnwardTimes
  <1>3. F \in StepsOn(T)
    BY <1>2 DEF StepsOn
  <1>4. 0 \in 0..Rounds /\ 1..Rounds \subseteq 0..Rounds /\ 0 \notin 1..Rounds
        /\ \A k \in 0..Rounds : k # 0 => k \in 1..Rounds /\ k - 1 \in 0..Rounds
    BY Bounds
  <1>5. \E g : g = [k \in 0..Rounds |-> by(g, k)]
    <2>0. \A k \in 1..Rounds : \A best \in T : F[k][best] = AndOnward(q, AndRide(q, best), free[k - 1])
      OBVIOUS
    <2> HIDE DEF T, first, free, F
    <2>1. PICK g : AreRounds(g, T, first, F)
      BY <1>2, <1>3, RoundsExist
    <2>2. ASSUME NEW k \in 0..Rounds PROVE g[k] = by(g, k)
      <3>1. CASE k = 0
        BY <2>1, <3>1 DEF first, AreRounds
      <3>2. CASE k # 0
        <4>1. k \in 1..Rounds /\ g[k - 1] \in T
          BY <1>4, <2>1, <3>2 DEF AreRounds
        <4> QED BY <2>0, <2>1, <3>2, <4>1 DEF AreRounds
      <3> QED BY <3>1, <3>2
    <2>3. g = [k \in 0..Rounds |-> g[k]]
      BY <2>1 DEF AreRounds
    <2> HIDE DEF by
    <2> QED BY <2>2, <2>3
  <1>6. E = [k \in 0..Rounds |-> by(E, k)]
    <2>1. E = CHOOSE g : g = [k \in 0..Rounds |-> by(g, k)]
      BY DEF Soonest
    <2> HIDE DEF E, by
    <2> QED BY <1>5, <2>1
  <1> HIDE DEF E, F, free
  <1>7. E[0] = first
    BY <1>4, <1>6
  <1>8. ASSUME NEW k \in 1..Rounds
        PROVE  E[k] = AndOnward(q, AndRide(q, E[k - 1]), free[k - 1])
    BY <1>4, <1>6
  <1> DEFINE wrong == {k \in 0..Rounds : E[k] \notin T}
  <1>9. wrong = {}
    <2>1. 0 \notin wrong
      BY <1>2, <1>7
    <2>2. ASSUME NEW k \in 1..Rounds, k - 1 \notin wrong PROVE k \notin wrong
      <3>1. E[k - 1] \in T
        BY <1>4, <2>2
      <3> QED BY <1>2, <1>8, <3>1
    <2>3. wrong \in SUBSET (0..Rounds)
      OBVIOUS
    <2> HIDE DEF wrong
    <2> QED BY <2>1, <2>2, <2>3, NoRoundIsWrong
  <1> QED BY <1>7, <1>8, <1>9 DEF E, free

\* Such a walker is nowhere later by a walk or a ride.
LEMMA FreeFalls ==
  ASSUME NEW q \in Plans, NEW k \in 0..Rounds
  PROVE  /\ \A u, s \in Stops : Free(q)[k][s] <= Free(q)[k][u] + RealWalk(q.metres[u][s])
         /\ \A s \in Stops : Free(q)[k][s] <= Infinity
         /\ k = 0 => \A s \in Stops : Free(q)[0][s] <= AccessTimes(q)[s]
         /\ k # 0 => \A s \in Stops :
              /\ Free(q)[k][s] <= Free(q)[k - 1][s]
              /\ \A a \in Arrivals(q, Free(q)[k - 1], s) : Free(q)[k][s] <= a
  <1> DEFINE E == Free(q)
  <1>1. /\ q \in PlanType
        /\ E[0] = AndCross(q, AccessTimes(q))
        /\ \A j \in 1..Rounds : E[j] = AndCross(q, AndRide(q, E[j - 1]))
        /\ \A j \in 0..Rounds : E[j] \in [Stops -> Nat]
    BY PlacesOf, FreeRounds
  <1> HIDE DEF E
  <1>2. CASE k = 0
    <2> DEFINE best == AccessTimes(q)
    <2>1. best \in [Stops -> Nat] /\ E[0] = AndCross(q, best)
      BY <1>1, FirstTimes
    <2> HIDE DEF best
    <2>2. /\ \A u, s \in Stops : E[0][s] <= E[0][u] + RealWalk(q.metres[u][s])
          /\ \A s \in Stops : E[0][s] <= best[s] /\ E[0][s] <= Infinity
      BY <2>1, CrossCloses, CrossTimes
    <2> QED BY <1>2, <2>2 DEF best, E
  <1>3. CASE k # 0
    <2>1. k \in 1..Rounds /\ k - 1 \in 0..Rounds
      BY <1>3, Bounds
    <2> DEFINE before == E[k - 1]
               ride == AndRide(q, before)
    <2>2. before \in [Stops -> Nat] /\ E[k] = AndCross(q, ride) /\ E[k] \in [Stops -> Nat]
      BY <1>1, <2>1
    <2> HIDE DEF before
    <2>3. /\ ride \in [Stops -> Nat]
          /\ \A s \in Stops : /\ ride[s] <= before[s]
                              /\ \A a \in Arrivals(q, before, s) : ride[s] <= a
      BY <1>1, <2>2, RideTimes, RideFalls
    <2>4. \A s \in Stops : Arrivals(q, before, s) \subseteq Nat
      BY <1>1, ArrivalTimes
    <2> HIDE DEF ride
    <2>5. /\ \A u, s \in Stops : E[k][s] <= E[k][u] + RealWalk(q.metres[u][s])
          /\ \A s \in Stops : E[k][s] <= ride[s] /\ E[k][s] <= Infinity
      BY <2>2, <2>3, CrossCloses, CrossTimes
    <2>6. ASSUME NEW s \in Stops
          PROVE  /\ E[k][s] <= before[s]
                 /\ \A a \in Arrivals(q, before, s) : E[k][s] <= a
      <3>1. E[k][s] \in Nat /\ ride[s] \in Nat /\ before[s] \in Nat
        BY <2>2, <2>3
      <3> QED BY <2>3, <2>4, <2>5, <3>1
    <2> QED BY <1>3, <2>5, <2>6 DEF before, E
  <1> QED BY <1>2, <1>3

\* The journeys of fewer rides are among those of more.
LEMMA FreeOrder ==
  ASSUME NEW q \in Plans, NEW i \in 0..Rounds, NEW j \in 0..Rounds, i <= j,
         NEW s \in Stops
  PROVE  Free(q)[j][s] <= Free(q)[i][s]
  <1> DEFINE E == Free(q)
             wrong == {k \in 0..Rounds : i <= k /\ ~ (E[k][s] <= E[i][s])}
  <1>1. /\ \A k \in 0..Rounds : E[k][s] \in Nat
        /\ \A k \in 1..Rounds : E[k][s] <= E[k - 1][s]
    BY FreeRounds, FreeFalls, Bounds
  <1> HIDE DEF E
  <1>2. wrong = {}
    <2>1. 0 \notin wrong
      BY <1>1, Bounds
    <2>2. ASSUME NEW k \in 1..Rounds, k \in wrong PROVE k - 1 \in wrong
      <3>1. k \in 0..Rounds /\ k - 1 \in 0..Rounds /\ i <= k /\ ~ (E[k][s] <= E[i][s])
        BY <2>2, Bounds
      <3>2. E[k][s] \in Nat /\ E[k - 1][s] \in Nat /\ E[i][s] \in Nat /\ E[k][s] <= E[k - 1][s]
        BY <1>1, <3>1
      <3>3. i # k
        BY <3>1, <3>2
      <3>4. i <= k - 1
        BY <3>1, <3>3
      <3> QED BY <3>1, <3>2, <3>4
    <2>3. wrong \in SUBSET (0..Rounds)
      OBVIOUS
    <2> HIDE DEF wrong
    <2> QED BY <2>1, <2>2, <2>3, NoRoundIsWrong
  <1>3. j \notin wrong
    BY <1>2
  <1> QED BY <1>3 DEF E

-----------------------------------------------------------------------------
(* No journey is earlier: who walks any distance is nowhere later.         *)

\* No label tells a time before such a walker of its rides is there.
LEMMA NotAhead ==
  ASSUME WaysAreSound
  PROVE  \A p \in Places :
           LabelAt(p) # Nil => Free(plan)[p[1]][p[2]] <= LabelAt(p).time
  <1> DEFINE E == Free(plan)
             S == {p \in Places : LabelAt(p) # Nil /\ ~ (E[p[1]][p[2]] <= LabelAt(p).time)}
  <1>1. SUFFICES ASSUME S # {} PROVE FALSE
    OBVIOUS
  <1>2. PICK p \in S : Ended(p) \/ Back(p) \notin S
    BY <1>1, SomeEnds
  <1>3. p \in Places /\ LabelAt(p) # Nil /\ ~ (E[p[1]][p[2]] <= LabelAt(p).time)
    OBVIOUS
  <1> DEFINE k == p[1]
             s == p[2]
             l == LabelAt(p)
  <1>4. k \in 0..Rounds /\ s \in Stops /\ TypeOK /\ plan \in Plans /\ l = labels[k][s]
    BY <1>3 DEF Places, WaysAreSound, IInv, LabelAt, TypeOK
  <1>5. /\ \A j \in 0..Rounds : E[j] \in [Stops -> Nat]
        /\ \A q \in Places : LabelAt(q) # Nil => LabelAt(q).time \in Nat
    BY <1>4, FreeRounds DEF Places, LabelAt, TypeOK, Label
  <1>6. CASE Ended(p)
    <2>1. k = 0 /\ l.time = AccessTime(s)
      BY <1>3, <1>6, EndsAfoot
    <2>2. E[0][s] <= AccessTimes(plan)[s]
      BY <1>4, <2>1, FreeFalls
    <2>3. AccessTimes(plan)[s] = AccessTime(s)
      BY <1>4 DEF AccessTimes, AccessTime
    <2> QED BY <1>3, <2>1, <2>2, <2>3
  <1>7. CASE ~Ended(p)
    <2> DEFINE u == l.from
    <2>1. Back(p) \in Places /\ LabelAt(Back(p)) # Nil /\ u \in Stops
      BY <1>3, <1>7, PlaceBefore
    <2>2. E[Back(p)[1]][Back(p)[2]] <= LabelAt(Back(p)).time
      BY <1>2, <1>7, <2>1
    <2>3. l.time \in Nat /\ LabelAt(Back(p)).time \in Nat
      BY <1>3, <1>5, <2>1
    <2>4. CASE l.trip = Nil
      <3> DEFINE foot == plan.foot[u][s]
      <3>1. /\ Back(p) = <<k, u>>
            /\ LabelAt(Back(p)).time + foot <= l.time
            /\ foot = RealWalk(plan.metres[u][s])
        BY <1>3, <1>7, <2>4, PlaceBefore
      <3>2. E[k][s] <= E[k][u] + RealWalk(plan.metres[u][s])
        BY <1>4, <2>1, FreeFalls
      <3>3. E[k][s] \in Nat /\ E[k][u] \in Nat /\ foot \in Nat
        BY <1>4, <1>5, <2>1, PlacesOf
      <3>4. E[k][u] <= LabelAt(Back(p)).time
        BY <2>2, <3>1
      <3>5. E[k][s] <= E[k][u] + foot
        BY <3>1, <3>2
      <3> HIDE DEF E, k, s, l, u, foot
      <3>6. E[k][s] <= l.time
        BY <2>3, <3>1, <3>3, <3>4, <3>5
      <3> QED BY <1>3, <3>6 DEF k, s, l
    <2>5. CASE l.trip # Nil
      <3>1. /\ k # 0 /\ Back(p) = <<k - 1, u>>
            /\ LabelAt(Back(p)).time <= Dep(l.trip, u)
            /\ RideOK(k, s, l) /\ l.trip \in Trips
        BY <1>3, <1>7, <2>5, PlaceBefore
      <3>2. /\ l.trip \in plan.trips[l.route] /\ l.trip.id \notin plan.exclude
            /\ Serves(l.trip, u) /\ Serves(l.trip, s)
            /\ StopIdx(l.trip, u) < StopIdx(l.trip, s) /\ l.time = Arr(l.trip, s)
        BY <3>1 DEF RideOK
      <3>3. l.route \in Routes
        BY <1>3, <1>4, <2>5 DEF RidesNamed, WaysAreSound, LabelsInv
      <3>4. E[k - 1][u] <= LabelAt(Back(p)).time /\ k - 1 \in 0..Rounds /\ k \in 1..Rounds
        BY <1>4, <2>2, <3>1, Bounds
      <3> DEFINE t == l.trip
                 i == StopIdx(t, u)
                 j == StopIdx(t, s)
                 best == E[k - 1]
      <3>5. /\ i \in DOMAIN t.visits /\ t.visits[i].stop = u /\ Dep(t, u) = t.visits[i].dep
            /\ j \in DOMAIN t.visits /\ t.visits[j].stop = s /\ Arr(t, s) = t.visits[j].arr
        BY <3>1, <3>2, LastVisit DEF Dep, Arr
      <3>6. i \in Nat \ {0} /\ j \in Nat \ {0} /\ Dep(t, u) \in Nat
        BY <3>1, <3>2, VisitTimes
      <3>7. best[u] \in Nat
        BY <1>5, <2>1, <3>4
      <3>8. best[t.visits[i].stop] <= t.visits[i].dep
        <4> HIDE DEF E, k, s, l, u, t, i, j
        <4>1. best[u] <= Dep(t, u)
          BY <2>3, <3>1, <3>4, <3>6, <3>7 DEF t
        <4> QED BY <3>5, <4>1
      <3>9. i \in 1..(j - 1)
        BY <3>2, <3>6
      <3>10. t \in Runs(plan, l.route)
        BY <3>2 DEF Runs
      <3> HIDE DEF E, k, s, l, u, t, i, j, best
      <3>11. t.visits[j].arr \in Arrivals(plan, best, s)
        <4>1. j \in {n \in DOMAIN t.visits :
                      /\ t.visits[n].stop = s
                      /\ \E m \in 1..(n - 1) : best[t.visits[m].stop] <= t.visits[m].dep}
          BY <3>5, <3>8, <3>9
        <4>2. t \in UNION {Runs(plan, r) : r \in Routes}
          BY <3>3, <3>10
        <4> QED BY <4>1, <4>2 DEF Arrivals
      <3>12. E[k][s] <= t.visits[j].arr
        BY <1>4, <3>1, <3>11, FreeFalls DEF best, E
      <3> QED BY <1>3, <3>2, <3>5, <3>12 DEF k, s, l, t
    <2> QED BY <2>4, <2>5
  <1> QED BY <1>6, <1>7

LEMMA NotAheadAt ==
  ASSUME WaysAreSound, NEW k \in 0..Rounds, NEW s \in Stops, labels[k][s] # Nil
  PROVE  Free(plan)[k][s] <= labels[k][s].time
  <1> DEFINE p == <<k, s>>
  <1>1. p \in Places /\ LabelAt(p) = labels[k][s] /\ p[1] = k /\ p[2] = s
    BY DEF Places, LabelAt
  <1> HIDE DEF p
  <1> QED BY <1>1, NotAhead

\* Nor do the times that a round starts from.
LEMMA FreePrev ==
  ASSUME WaysAreSound, NEW s \in Stops
  PROVE  /\ Past \in 0..Rounds
         /\ Free(plan)[Past][s] \in Nat /\ Free(plan)[Past][s] <= tauPrev[s]
  <1>1. TypeOK /\ Shape /\ Prev /\ plan \in Plans /\ Rounds \in Nat
    BY Bounds DEF WaysAreSound, IInv, Told, TypeOK
  <1>2. Past \in 0..Rounds
    BY <1>1 DEF Past, Busy, Shape, TypeOK
  <1>3. /\ \A j \in 0..Rounds : Free(plan)[j][s] \in Nat
        /\ Free(plan)[Past][s] <= Infinity
        /\ tauPrev[s] \in Nat /\ tauPrev[s] <= Infinity /\ Infinity \in Nat
    BY <1>1, <1>2, FreeRounds, FreeFalls, Bounds DEF TypeOK, Times
  <1>4. CASE tauPrev[s] = Infinity
    BY <1>2, <1>3, <1>4
  <1>5. CASE tauPrev[s] < Infinity
    <2>1. PICK j \in 0..Past : At(j, s, tauPrev[s])
      BY <1>1, <1>5 DEF Prev
    <2>2. j \in 0..Rounds /\ j <= Past
      BY <1>1, <1>2
    <2>3. Free(plan)[j][s] <= tauPrev[s]
      BY <2>1, <2>2, NotAheadAt DEF At
    <2>4. Free(plan)[Past][s] <= Free(plan)[j][s]
      BY <1>1, <1>2, <2>2, FreeOrder
    <2>5. Free(plan)[j][s] \in Nat /\ Free(plan)[Past][s] \in Nat
      BY <1>2, <1>3, <2>2
    <2> DEFINE a == Free(plan)[j][s]
               b == Free(plan)[Past][s]
    <2> HIDE DEF a, b
    <2>6. b <= tauPrev[s]
      BY <1>3, <2>3, <2>4, <2>5 DEF a, b
    <2> QED BY <1>2, <2>5, <2>6 DEF b
  <1>6. tauPrev[s] = Infinity \/ tauPrev[s] < Infinity
    BY <1>3
  <1> QED BY <1>4, <1>5, <1>6

\* Times from which every ride is taken are no later than the reference's.
LEMMA TakenRides ==
  ASSUME TypeOK, NEW before \in [Stops -> Nat], NEW from \in [Stops -> Nat],
         NEW to \in [Stops -> Nat],
         \A s \in Stops : from[s] <= before[s] /\ to[s] <= from[s],
         \A r \in Routes : \A t \in Runs(plan, r) : \A i \in DOMAIN t.visits :
           Carried(from, to, t, i),
         NEW s \in Stops
  PROVE  to[s] <= AndRide(plan, before)[s]
  <1> DEFINE ridden == AndRide(plan, before)
  <1>1. plan \in PlanType
    BY PlanIsAsked
  <1>2. ridden[s] \in {before[s]} \cup Arrivals(plan, before, s)
    BY <1>1, RideTimes
  <1> HIDE DEF ridden
  <1>3. \A x \in Stops : /\ from[x] \in Nat /\ to[x] \in Nat /\ before[x] \in Nat
                         /\ from[x] <= before[x] /\ to[x] <= from[x]
    OBVIOUS
  <1>4. CASE ridden[s] = before[s]
    BY <1>3, <1>4 DEF ridden
  <1>5. CASE ridden[s] \in Arrivals(plan, before, s)
    <2>1. PICK r \in Routes : \E t \in Runs(plan, r) : \E j \in DOMAIN t.visits :
            /\ ridden[s] = t.visits[j].arr /\ t.visits[j].stop = s
            /\ \E i \in 1..(j - 1) : before[t.visits[i].stop] <= t.visits[i].dep
      BY <1>5 DEF Arrivals
    <2>2. PICK t \in Runs(plan, r) : \E j \in DOMAIN t.visits :
            /\ ridden[s] = t.visits[j].arr /\ t.visits[j].stop = s
            /\ \E i \in 1..(j - 1) : before[t.visits[i].stop] <= t.visits[i].dep
      BY <2>1
    <2>3. PICK j \in DOMAIN t.visits :
            /\ ridden[s] = t.visits[j].arr /\ t.visits[j].stop = s
            /\ \E i \in 1..(j - 1) : before[t.visits[i].stop] <= t.visits[i].dep
      BY <2>2
    <2>4. PICK i \in 1..(j - 1) : before[t.visits[i].stop] <= t.visits[i].dep
      BY <2>3
    <2>5. t \in Trips
      BY PlanIsAsked
    <2>6. j \in 1..Len(t.visits) /\ Len(t.visits) \in Nat
      BY <2>5, VisitParts
    <2>7. i \in DOMAIN t.visits /\ i < j
      BY <2>5, <2>6, VisitParts
    <2>8. t.visits[i].stop \in Stops /\ t.visits[i].dep \in Nat
      BY <2>5, <2>7, VisitParts
    <2>9. from[t.visits[i].stop] <= t.visits[i].dep
      BY <1>3, <2>4, <2>8
    <2>10. Carried(from, to, t, i)
      BY <2>7
    <2>11. to[s] <= ridden[s]
      BY <2>3, <2>7, <2>9, <2>10 DEF Carried
    <2> QED BY <2>11 DEF ridden
  <1> QED BY <1>2, <1>4, <1>5

-----------------------------------------------------------------------------
(* No journey is earlier: the invariant.                                   *)

\* Before its first walk is taken a stop near the origin waits for it.
Footed ==
  pc = "foot" =>
    \A u \in Near : u \in todo \/ \A s \in Stops : tauPrev[s] <= AccessTime(u) + plan.foot[u][s]

\* A round starts from times that no journey of fewer rides is before.
OnTime == pc # "foot" => \A s \in Stops : tauPrev[s] <= Soonest(plan)[Past][s]

\* The reference's times of a round when its rides are over.
RideOf(k) == AndRide(plan, Soonest(plan)[k - 1])

Pays(k, u) == RideOf(k)[u] < Free(plan)[k - 1][u]

WalkedOn ==
  pc = "walk" =>
    \A u \in Stops : Pays(round, u) =>
      u \in todo \/ \A s \in Stops : tauCurr[s] <= RideOf(round)[u] + plan.foot[u][s]

SoonInv ==
  /\ Footed
  /\ Straight(plan) /\ Fifo(plan) => OnTime /\ WalkedOn

-----------------------------------------------------------------------------
(* No journey is earlier: what the steps do.                               *)

LEMMA RideOfTimes ==
  ASSUME plan \in Plans, NEW k \in 1..Rounds
  PROVE  /\ RideOf(k) \in [Stops -> Nat] /\ Soonest(plan)[k - 1] \in [Stops -> Nat]
         /\ Soonest(plan)[k] = AndOnward(plan, RideOf(k), Free(plan)[k - 1])
         /\ Soonest(plan)[k] \in [Stops -> Nat]
  <1>1. k - 1 \in 0..Rounds /\ k \in 0..Rounds /\ plan \in PlanType
    BY PlacesOf, Bounds
  <1>2. Soonest(plan)[k - 1] \in [Stops -> Nat] /\ Soonest(plan)[k] \in [Stops -> Nat]
    BY <1>1, SoonestRounds
  <1>3. RideOf(k) \in [Stops -> Nat]
    BY <1>1, <1>2, RideTimes DEF RideOf
  <1>4. Soonest(plan)[k] = AndOnward(plan, RideOf(k), Free(plan)[k - 1])
    BY SoonestRounds DEF RideOf
  <1> QED BY <1>2, <1>3, <1>4

\* When all routes are scanned no ride of the reference is ahead.
LEMMA RidesOnTime ==
  ASSUME TypeOK, Shape, Arrays, OnTime, Busy, \A r \in Routes : RouteDone(r)
  PROVE  /\ round \in 1..Rounds
         /\ \A s \in Stops : tauCurr[s] <= RideOf(round)[s]
  <1>1. round \in 1..Rounds /\ Past = round - 1 /\ pc # "foot" /\ plan \in Plans
    BY Bounds DEF Busy, Past, Shape, TypeOK
  <1> DEFINE before == Soonest(plan)[round - 1]
  <1>2. before \in [Stops -> Nat] /\ tauPrev \in [Stops -> Nat] /\ tauCurr \in [Stops -> Nat]
    BY <1>1, RideOfTimes, ArrayTimes
  <1>3. \A s \in Stops : tauPrev[s] <= before[s] /\ tauCurr[s] <= tauPrev[s]
    BY <1>1 DEF OnTime, Arrays
  <1>4. \A r \in Routes : \A t \in Runs(plan, r) : \A i \in DOMAIN t.visits :
          Carried(tauPrev, tauCurr, t, i)
    BY DEF RouteDone
  <1> HIDE DEF before
  <1>5. \A s \in Stops : tauCurr[s] <= AndRide(plan, before)[s]
    BY <1>2, <1>3, <1>4, TakenRides
  <1> QED BY <1>1, <1>5 DEF RideOf, before

LEMMA InitSoon == Init => SoonInv
  BY DEF Init, SoonInv, Footed, OnTime, WalkedOn

LEMMA StepFooted ==
  ASSUME TypeOK, Arrays, Footed, [Next]_vars
  PROVE  Footed'
  <1>1. plan' = plan /\ Near' = Near /\ \A u \in Stops : AccessTime(u)' = AccessTime(u)
    BY SamePlan DEF Near, AccessTime
  <1>2. ASSUME NEW v \in Stops, FirstWalk(v)
        PROVE  Footed'
    <2>1. pc = "foot"
      BY <1>2 DEF FirstWalk
    <2>2. ASSUME NEW u \in Near, NEW s \in Stops, u \notin todo'
          PROVE  tauPrev'[s] <= AccessTime(u) + plan.foot[u][s]
      <3>1. /\ tauPrev'[s] <= tauPrev[s] /\ tauPrev'[s] <= tauPrev[v] + plan.foot[v][s]
            /\ u = v \/ u \notin todo
            /\ \/ tauPrev'[s] = tauPrev[s]
               \/ tauPrev'[s] = tauPrev[v] + plan.foot[v][s]
        BY <1>2, <2>2, FirstWalkTimes DEF Near
      <3>2. /\ tauPrev[s] \in Nat /\ tauPrev[v] \in Nat /\ AccessTime(u) \in Nat
            /\ plan.foot[u][s] \in Nat /\ plan.foot[v][s] \in Nat
        BY ArrayTimes, PlanParts DEF TypeOK, Near
      <3>3. tauPrev'[s] \in Nat
        BY <3>1, <3>2
      <3>4. CASE u = v
        <4>1. tauPrev[v] <= AccessTime(v)
          BY <2>1 DEF Arrays
        <4> QED BY <3>1, <3>2, <3>3, <3>4, <4>1
      <3>5. CASE u \notin todo
        <4>1. tauPrev[s] <= AccessTime(u) + plan.foot[u][s]
          BY <2>1, <3>5 DEF Footed
        <4> QED BY <3>1, <3>2, <3>3, <4>1
      <3> QED BY <3>1, <3>4, <3>5
    <2>3. \A u \in Near : u \in Stops
      BY DEF Near
    <2> QED BY <1>1, <2>2, <2>3 DEF Footed
  <1>3. CASE UNCHANGED vars
    BY <1>3 DEF vars, tau, Footed, Near, AccessTime
  <1>4. CASE \/ FirstWalksDone \/ Stop \/ Begin \/ Ride \/ EndScan \/ ScansDone \/ End
             \/ \E s \in Stops : Walk(s)
             \/ \E r \in Routes : StartScan(r)
    BY <1>4 DEF FirstWalksDone, Stop, Begin, Ride, EndScan, ScansDone, End, Walk,
           StartScan, Footed
  <1> QED BY <1>2, <1>3, <1>4 DEF Next

LEMMA StepOnTime ==
  ASSUME TypeOK, Shape, Arrays, Footed, OnTime, WalkedOn, Scanned, [Next]_vars
  PROVE  OnTime'
  <1>1. plan' = plan /\ plan \in Plans /\ round \in Nat
    BY SamePlan DEF TypeOK
  <1>2. CASE FirstWalksDone
    <2>1. /\ pc = "foot" /\ todo = {} /\ tauPrev' = tauPrev /\ Past' = 0
      BY <1>2 DEF FirstWalksDone, tau, Shape, Past, Busy
    <2> DEFINE first == AccessTimes(plan)
    <2>2. first \in [Stops -> Nat] /\ \A s \in Stops : first[s] = AccessTime(s)
      BY <1>1, PlacesOf, FirstTimes DEF AccessTimes, AccessTime
    <2> HIDE DEF first
    <2>3. ASSUME NEW s \in Stops
          PROVE  tauPrev[s] <= AndWalk(plan, first)[s]
      <3>1. AndWalk(plan, first)[s] \in
              {Infinity, first[s]} \cup {first[u] + plan.foot[u][s] : u \in Stops}
        BY <1>1, <2>2, PlacesOf, WalkTimes
      <3>2. tauPrev[s] <= Infinity /\ tauPrev[s] <= first[s] /\ tauPrev[s] \in Nat
        BY <2>1, <2>2, Bounds DEF TypeOK, Times, Arrays
      <3>3. ASSUME NEW u \in Stops
            PROVE  tauPrev[s] <= first[u] + plan.foot[u][s]
        <4>1. plan.foot[u][s] \in Nat /\ first[u] \in Nat /\ first[u] = AccessTime(u)
          BY <1>1, <2>2, PlacesOf
        <4>2. CASE u \in Near
          BY <2>1, <4>1, <4>2 DEF Footed
        <4>3. CASE u \notin Near
          <5>1. Infinity <= first[u]
            BY <4>1, <4>3, Bounds DEF Near
          <5> QED BY <3>2, <4>1, <5>1, Bounds
        <4> QED BY <4>2, <4>3
      <3> QED BY <3>1, <3>2, <3>3
    <2>4. Soonest(plan)[0] = AndWalk(plan, first)
      BY <1>1, SoonestRounds DEF first
    <2>5. \A s \in Stops : tauPrev[s] <= Soonest(plan)[0][s]
      BY <2>3, <2>4
    <2> QED BY <1>1, <2>1, <2>5 DEF OnTime
  <1>3. CASE End
    <2>1. /\ pc = "walk" /\ Busy /\ todo = {} /\ tauPrev' = tauCurr /\ Past' = round
      BY <1>3 DEF End, Past, Busy
    <2>2. /\ round \in 1..Rounds
          /\ \A s \in Stops : tauCurr[s] <= RideOf(round)[s]
      BY <2>1, RidesOnTime DEF Scanned
    <2> DEFINE ride == RideOf(round)
               free == Free(plan)[round - 1]
    <2>3. ride \in [Stops -> Nat] /\ Soonest(plan)[round] = AndOnward(plan, ride, free)
      BY <1>1, <2>2, RideOfTimes
    <2>4. ASSUME NEW u \in Stops, ride[u] < free[u], NEW s \in Stops
          PROVE  tauCurr[s] <= ride[u] + plan.foot[u][s]
      BY <2>1, <2>4 DEF WalkedOn, Pays
    <2>5. \A s \in Stops : tauCurr[s] <= ride[s]
      BY <2>2
    <2> HIDE DEF ride, free
    <2>6. ASSUME NEW s \in Stops
          PROVE  tauCurr[s] <= AndOnward(plan, ride, free)[s]
      <3>1. \/ AndOnward(plan, ride, free)[s] = ride[s]
            \/ \E u \in Stops : /\ ride[u] < free[u]
                                /\ AndOnward(plan, ride, free)[s] = ride[u] + plan.foot[u][s]
        BY <1>1, <2>3, OnwardTimes
      <3> QED BY <2>4, <2>5, <3>1
    <2>7. \A s \in Stops : tauCurr[s] <= Soonest(plan)[round][s]
      BY <2>3, <2>6
    <2> QED BY <1>1, <2>1, <2>7 DEF OnTime
  <1>4. CASE Begin
    <2>1. /\ pc # "foot" /\ tauPrev' = tauPrev /\ Past = round /\ Past' = round
      BY <1>1, <1>4 DEF Begin, Past, Busy
    <2> QED BY <1>1, <2>1 DEF OnTime
  <1>5. CASE \E s \in Stops : FirstWalk(s)
    BY <1>5 DEF FirstWalk, OnTime
  <1>6. CASE \/ Stop \/ Ride \/ EndScan \/ ScansDone
             \/ \E s \in Stops : Walk(s)
             \/ \E r \in Routes : StartScan(r)
             \/ UNCHANGED vars
    <2>1. /\ pc' # "foot" => pc # "foot"
          /\ tauPrev' = tauPrev /\ Past' = Past
      BY <1>6 DEF Stop, Ride, EndScan, ScansDone, Walk, StartScan, vars, tau, Past, Busy
    <2> QED BY <1>1, <2>1 DEF OnTime
  <1> QED BY <1>2, <1>3, <1>4, <1>5, <1>6 DEF Next

LEMMA StepWalkedOn ==
  ASSUME WaysAreSound, Arrays, OnTime, WalkedOn, Scanned, [Next]_vars
  PROVE  WalkedOn'
  <1>1. plan' = plan /\ plan \in Plans /\ TypeOK /\ Shape
    BY SamePlan DEF WaysAreSound, IInv, TypeOK
  <1>2. CASE ScansDone
    <2>1. /\ pc = "scan" /\ Busy /\ todo = {} /\ todo' = fresh /\ Past = round - 1
          /\ UNCHANGED <<round, tauPrev, tauCurr>>
      BY <1>2 DEF ScansDone, tau, Busy, Past
    <2>2. /\ round \in 1..Rounds
          /\ \A s \in Stops : tauCurr[s] <= RideOf(round)[s]
      <3>1. \A r \in Routes : RouteDone(r)
        BY <2>1 DEF Scanned
      <3> QED BY <1>1, <2>1, <3>1, RidesOnTime
    <2>3. ASSUME NEW u \in Stops, Pays(round, u)
          PROVE  u \in fresh
      <3> DEFINE ride == RideOf(round)[u]
                 free == Free(plan)[round - 1][u]
      <3>1. ride \in Nat
        BY <1>1, <2>2, RideOfTimes
      <3>2. free \in Nat /\ free <= tauPrev[u]
        BY <2>1, FreePrev
      <3>3. ride < free /\ tauCurr[u] <= ride
        BY <2>2, <2>3 DEF Pays
      <3>4. tauCurr[u] \in Nat /\ tauPrev[u] \in Nat
        BY <1>1, ArrayTimes
      <3> HIDE DEF ride, free
      <3>5. tauCurr[u] # tauPrev[u]
        BY <3>1, <3>2, <3>3, <3>4
      <3> QED BY <2>1, <3>5 DEF Arrays
    <2>4. \A u \in Stops : Pays(round, u)' <=> Pays(round, u)
      BY <1>1, <2>1 DEF Pays, RideOf
    <2> QED BY <2>1, <2>3, <2>4 DEF WalkedOn
  <1>3. ASSUME NEW v \in Stops, Walk(v)
        PROVE  WalkedOn'
    <2>1. pc = "walk" /\ Busy /\ round' = round
      BY <1>3 DEF Walk, Busy
    <2>2. /\ round \in 1..Rounds
          /\ \A s \in Stops : tauCurr[s] <= RideOf(round)[s]
      <3>1. \A r \in Routes : RouteDone(r)
        BY <2>1 DEF Scanned
      <3> QED BY <1>1, <2>1, <3>1, RidesOnTime
    <2>3. ASSUME NEW u \in Stops, Pays(round, u), u \notin todo', NEW s \in Stops
          PROVE  tauCurr'[s] <= RideOf(round)[u] + plan.foot[u][s]
      <3> DEFINE ride == RideOf(round)[u]
      <3>1. /\ tauCurr'[s] <= tauCurr[s] /\ tauCurr'[s] <= tauCurr[v] + plan.foot[v][s]
            /\ u = v \/ u \notin todo
            /\ \/ tauCurr'[s] = tauCurr[s]
               \/ tauCurr'[s] = tauCurr[v] + plan.foot[v][s]
        BY <1>1, <1>3, <2>3, LaterWalkTimes
      <3>2. /\ tauCurr[s] \in Nat /\ tauCurr[v] \in Nat
            /\ plan.foot[u][s] \in Nat /\ plan.foot[v][s] \in Nat
        BY <1>1, ArrayTimes, PlacesOf
      <3>3. tauCurr'[s] \in Nat /\ ride \in Nat /\ tauCurr[u] <= ride
        BY <1>1, <2>2, <3>1, <3>2, RideOfTimes
      <3>4. u \notin todo => tauCurr[s] <= ride + plan.foot[u][s]
        BY <2>1, <2>3 DEF WalkedOn
      <3> HIDE DEF ride
      <3>5. u = v => tauCurr'[s] <= ride + plan.foot[u][s]
        BY <3>1, <3>2, <3>3
      <3>6. u \notin todo => tauCurr'[s] <= ride + plan.foot[u][s]
        BY <3>1, <3>2, <3>3, <3>4
      <3> QED BY <3>1, <3>5, <3>6 DEF ride
    <2>4. \A u \in Stops : /\ Pays(round, u)' <=> Pays(round, u)
                           /\ RideOf(round)' = RideOf(round)
      BY <1>1, <2>1 DEF Pays, RideOf
    <2> QED BY <1>1, <2>1, <2>3, <2>4 DEF WalkedOn
  <1>4. CASE \/ FirstWalksDone \/ Stop \/ Begin \/ Ride \/ EndScan \/ End
             \/ \E s \in Stops : FirstWalk(s)
             \/ \E r \in Routes : StartScan(r)
    BY <1>4 DEF FirstWalksDone, Stop, Begin, Ride, EndScan, End, FirstWalk, StartScan,
           WalkedOn
  <1>5. CASE UNCHANGED vars
    BY <1>1, <1>5 DEF vars, tau, WalkedOn, Pays, RideOf
  <1> QED BY <1>2, <1>3, <1>4, <1>5 DEF Next

LEMMA StepSoon ==
  ASSUME IInv, EarlyInv, WaysInv, LabelsInv, SoonInv, [Next]_vars
  PROVE  SoonInv'
  <1>1. TypeOK /\ Shape /\ Arrays
    BY DEF IInv, EarlyInv
  <1>2. /\ Straight(plan)' <=> Straight(plan)
        /\ Fifo(plan)' <=> Fifo(plan)
    BY SamePlan DEF Straight, Fifo, Serves, StopIdx
  <1>3. Footed'
    BY <1>1, StepFooted DEF SoonInv
  <1>4. ASSUME Straight(plan), Fifo(plan) PROVE OnTime' /\ WalkedOn'
    <2>1. WaysAreSound /\ Scanned /\ Footed /\ OnTime /\ WalkedOn
      BY <1>4 DEF WaysAreSound, EarlyInv, SoonInv
    <2> QED BY <1>1, <2>1, StepOnTime, StepWalkedOn
  <1> QED BY <1>2, <1>3, <1>4 DEF SoonInv

-----------------------------------------------------------------------------
(* No journey is earlier: the theorems.                                    *)

\* The fourth inductive invariant: what the reference takes in a round is taken,
\* or is what the loops have not come to.
THEOREM SoonInvariance == Spec => [](IInv /\ EarlyInv /\ WaysInv /\ LabelsInv /\ SoonInv)
  <1>1. Init => SoonInv
    BY InitSoon
  <1>2. (IInv /\ EarlyInv /\ WaysInv /\ LabelsInv) /\ SoonInv /\ [Next]_vars => SoonInv'
    BY StepSoon
  <1> QED BY <1>1, <1>2, WaysInvariance, PTL DEF Spec

\* Once no stop is marked, more rides are of no use.
LEMMA NothingLeft ==
  ASSUME WaysAreSound, EarlyInv, OnTime, pc = "done", marked = {}, NEW s \in Stops
  PROVE  tauPrev[s] <= Soonest(plan)[Rounds][s]
  <1>1. /\ TypeOK /\ Arrays /\ Exhausted /\ plan \in Plans /\ Past = round
        /\ round \in 0..Rounds /\ Rounds \in Nat /\ tauPrev \in [Stops -> Nat]
    BY ArrayTimes, Bounds DEF WaysAreSound, IInv, EarlyInv, TypeOK, Past, Busy
  <1> DEFINE onTime(k) == \A x \in Stops : tauPrev[x] <= Soonest(plan)[k][x]
             wrong == {k \in 0..Rounds : round <= k /\ ~onTime(k)}
  <1>2. onTime(round)
    BY <1>1 DEF OnTime
  <1>3. ASSUME NEW k \in 1..Rounds, round <= k - 1, onTime(k - 1)
        PROVE  onTime(k)
    <2> DEFINE before == Soonest(plan)[k - 1]
               ride == RideOf(k)
               free == Free(plan)[k - 1]
    <2>1. /\ before \in [Stops -> Nat] /\ ride \in [Stops -> Nat]
          /\ Soonest(plan)[k] = AndOnward(plan, ride, free)
      BY <1>1, RideOfTimes
    <2>2. ASSUME NEW x \in Stops PROVE tauPrev[x] <= ride[x]
      <3>1. \A r \in Routes : \A t \in Runs(plan, r) : \A i \in DOMAIN t.visits :
              Carried(tauPrev, tauPrev, t, i)
        BY <1>1 DEF Exhausted
      <3>2. \A y \in Stops : tauPrev[y] <= before[y] /\ tauPrev[y] <= tauPrev[y]
        BY <1>1, <1>3
      <3> HIDE DEF before
      <3>3. tauPrev[x] <= AndRide(plan, before)[x]
        BY <1>1, <2>1, <3>1, <3>2, TakenRides
      <3> QED BY <3>3 DEF RideOf, before
    <2>3. ASSUME NEW u \in Stops PROVE ~ (ride[u] < free[u])
      <3>1. k - 1 \in 0..Rounds
        BY <1>1
      <3>2. free[u] <= Free(plan)[round][u]
        BY <1>1, <1>3, <3>1, FreeOrder
      <3>3. Free(plan)[round][u] \in Nat /\ Free(plan)[round][u] <= tauPrev[u]
        BY <1>1, FreePrev
      <3>4. free[u] \in Nat
        BY <1>1, <3>1, FreeRounds
      <3>5. ride[u] \in Nat /\ tauPrev[u] \in Nat /\ tauPrev[u] <= ride[u]
        BY <1>1, <2>1, <2>2
      <3> DEFINE a == free[u]
                 b == Free(plan)[round][u]
                 c == ride[u]
      <3>6. a \in Nat /\ b \in Nat /\ c \in Nat /\ a <= b /\ b <= tauPrev[u]
            /\ tauPrev[u] <= c /\ tauPrev[u] \in Nat
        BY <3>2, <3>3, <3>4, <3>5
      <3> HIDE DEF a, b, c
      <3>7. ~ (c < a)
        BY <3>6
      <3> QED BY <3>7 DEF a, c
    <2> HIDE DEF ride, free
    <2>4. \A x \in Stops : AndOnward(plan, ride, free)[x] = ride[x]
      BY <1>1, <2>1, <2>3, OnwardTimes
    <2> QED BY <2>1, <2>2, <2>4
  <1> HIDE DEF onTime
  <1>4. wrong = {}
    <2>1. 0 \notin wrong
      BY <1>1, <1>2
    <2>2. ASSUME NEW k \in 1..Rounds, k \in wrong PROVE k - 1 \in wrong
      <3>1. k \in Nat /\ round \in Nat /\ round <= k /\ ~onTime(k)
        BY <1>1, <2>2
      <3>2. round # k
        BY <1>2, <3>1
      <3>3. round <= k - 1 /\ k - 1 \in 0..Rounds
        BY <1>1, <3>1, <3>2
      <3> QED BY <1>3, <3>1, <3>3
    <2>3. wrong \in SUBSET (0..Rounds)
      OBVIOUS
    <2> HIDE DEF wrong
    <2> QED BY <2>1, <2>2, <2>3, NoRoundIsWrong
  <1>5. onTime(Rounds)
    <2>1. Rounds \in 0..Rounds /\ Rounds \notin wrong /\ round <= Rounds
      BY <1>1, <1>4
    <2> QED BY <2>1
  <1> QED BY <1>5 DEF onTime

LEMMA SoonEnough ==
  ASSUME IInv, EarlyInv, WaysInv, LabelsInv, SoonInv
  PROVE  NoneEarlier
  <1> SUFFICES ASSUME pc = "done", Straight(plan), Fifo(plan), NEW s \in Stops
               PROVE  tauStar[s] <= Soonest(plan)[Rounds][s]
    BY DEF NoneEarlier
  <1>1. /\ WaysAreSound /\ OnTime /\ Arrays
        /\ round = Rounds \/ marked = {}
    BY DEF WaysAreSound, EarlyInv, SoonInv, Stopped
  <1>2. tauPrev[s] <= Soonest(plan)[Rounds][s]
    <2>1. CASE round = Rounds
      BY <1>1, <2>1 DEF OnTime, Past, Busy
    <2>2. CASE marked = {}
      BY <1>1, <2>2, NothingLeft
    <2> QED BY <1>1, <2>1, <2>2
  <1>3. tauStar = tauPrev
    BY <1>1 DEF Arrays, Busy
  <1> QED BY <1>2, <1>3

\* On a day whose trips of a direction have the same stops and do not overtake,
\* no journey of up to Rounds rides, with a walk to the first and a walk on from
\* each ride that is ahead of whoever walks any distance and rides once less, is
\* at a stop before the planner, in whatever order it ranges over its maps.
THEOREM NoJourneyIsEarlier == Spec => []NoneEarlier
  <1>1. IInv /\ EarlyInv /\ WaysInv /\ LabelsInv /\ SoonInv => NoneEarlier
    BY SoonEnough
  <1> QED BY <1>1, SoonInvariance, PTL

-----------------------------------------------------------------------------
(* The itineraries: what is offered.                                       *)

\* A stop where a ride is ahead of all who walk has a round that is there first.
LEMMA ReachedFirst ==
  ASSUME IInv, EarlyInv, WaysInv, LabelsInv, SoonInv, pc = "done", Straight(plan),
         Fifo(plan), NEW s \in Stops, plan.egress[s] < Infinity,
         Soonest(plan)[Rounds][s] < Free(plan)[0][s]
  PROVE  /\ Soonest(plan)[Rounds][s] \in Nat /\ plan.egress[s] \in Nat
         /\ \E j \in Found : /\ s \in Ends(j)
                             /\ ArrivalAt(j, s) <= Soonest(plan)[Rounds][s] + plan.egress[s]
  <1> DEFINE soonest == Soonest(plan)[Rounds][s]
             free == Free(plan)[0][s]
             e == plan.egress[s]
  <1>1. /\ WaysAreSound /\ TypeOK /\ Told /\ Arrays /\ plan \in Plans /\ 0 \in 0..Rounds
        /\ Rounds \in 0..Rounds /\ round \in 0..Rounds
    BY Bounds DEF WaysAreSound, IInv, EarlyInv, TypeOK
  <1>2. soonest \in Nat /\ free \in Nat /\ free <= Infinity /\ e \in Nat
    BY <1>1, FreeRounds, FreeFalls, SoonestRounds, PlacesOf
  <1>3. tauPrev[s] = tauStar[s] /\ tauPrev[s] \in Nat
    BY <1>1, ArrayTimes DEF Arrays, Busy
  <1>4. tauStar[s] <= soonest
    BY SoonEnough DEF NoneEarlier
  <1>5. soonest < free
    OBVIOUS
  <1> HIDE DEF soonest, free
  <1>6. tauPrev[s] < Infinity /\ tauPrev[s] < free /\ tauPrev[s] <= soonest
    BY <1>2, <1>3, <1>4, <1>5, Bounds
  <1>7. PICK j \in 0..round : At(j, s, tauPrev[s])
    BY <1>1, <1>6 DEF Told, Prev, Past, Busy
  <1>8. j \in 0..Rounds /\ labels[j][s] # Nil /\ labels[j][s].time = tauPrev[s]
    BY <1>1, <1>7, Bounds DEF At
  <1>9. j # 0
    <2>1. Free(plan)[j][s] <= tauPrev[s]
      BY <1>1, <1>8, NotAheadAt
    <2> QED BY <1>2, <1>3, <1>6, <2>1 DEF free
  <1>10. j \in 1..Rounds /\ s \in Ends(j) /\ j \in Found
    BY <1>8, <1>9, Bounds DEF Ends, Found
  <1>11. ArrivalAt(j, s) <= soonest + e
    BY <1>2, <1>3, <1>6, <1>8 DEF ArrivalAt
  <1> QED BY <1>2, <1>10, <1>11 DEF soonest

\* A round is there as early as any journey to a goal.
LEMMA RoundIsEarly ==
  ASSUME IInv, EarlyInv, WaysInv, LabelsInv, SoonInv, pc = "done", Straight(plan),
         Fifo(plan), NEW s \in Goals
  PROVE  /\ Soonest(plan)[Rounds][s] \in Nat /\ plan.egress[s] \in Nat
         /\ \E j \in Found :
              ArrivalAt(j, BestEnd(j)) <= Soonest(plan)[Rounds][s] + plan.egress[s]
  <1>1. /\ s \in Stops /\ plan.egress[s] < Infinity /\ plan.pinned \in {s, Nil}
        /\ Soonest(plan)[Rounds][s] < Free(plan)[0][s] /\ TypeOK
    BY DEF Goals, IInv
  <1>2. /\ Soonest(plan)[Rounds][s] \in Nat /\ plan.egress[s] \in Nat
        /\ \E j \in Found : /\ s \in Ends(j)
                            /\ ArrivalAt(j, s) <= Soonest(plan)[Rounds][s] + plan.egress[s]
    BY <1>1, ReachedFirst
  <1>3. PICK j \in Found : /\ s \in Ends(j)
                           /\ ArrivalAt(j, s) <= Soonest(plan)[Rounds][s] + plan.egress[s]
    BY <1>2
  <1>4. CASE plan.pinned = s
    <2>1. BestEnd(j) = s
      BY <1>1, <1>3, <1>4, BestEndIs
    <2> QED BY <1>2, <1>3, <2>1
  <1>5. CASE plan.pinned = Nil
    <2>1. plan.pinned \notin Ends(j)
      BY <1>5, Bounds DEF Ends
    <2> DEFINE a == ArrivalAt(j, BestEnd(j))
               b == ArrivalAt(j, s)
               c == Soonest(plan)[Rounds][s] + plan.egress[s]
    <2>2. a <= b /\ a \in Nat /\ b \in Nat /\ b <= c /\ c \in Nat
      BY <1>1, <1>2, <1>3, <2>1, BestEndIs
    <2> HIDE DEF a, b, c
    <2>3. a <= c
      BY <2>2
    <2> QED BY <1>2, <2>3 DEF a, c
  <1> QED BY <1>1, <1>4, <1>5

LEMMA FoundTimes ==
  ASSUME TypeOK, NEW k \in Found
  PROVE  ArrivalAt(k, BestEnd(k)) \in Nat
  BY BestEndIs

\* The first of the rounds that are there first is not dropped for another.
LEMMA ParetoFirst ==
  ASSUME TypeOK, NEW j \in Found
  PROVE  \E k \in Pareto : ArrivalAt(k, BestEnd(k)) <= ArrivalAt(j, BestEnd(j))
  <1> DEFINE val(k) == ArrivalAt(k, BestEnd(k))
             vals   == {val(k) : k \in Found}
  <1>1. \A k \in Found : val(k) \in Nat /\ k \in Nat
    BY FoundTimes, BestEndIs
  <1> HIDE DEF val
  <1>2. vals \in SUBSET Nat /\ vals # {}
    BY <1>1
  <1>3. PICK m \in vals : \A v \in vals : m <= v
    BY <1>2, MinOf
  <1> DEFINE first == {k \in Found : val(k) = m}
  <1>4. first \in SUBSET Nat /\ first # {}
    BY <1>1, <1>3
  <1>5. PICK k \in first : \A i \in first : k <= i
    BY <1>4, MinOf
  <1>6. ASSUME NEW i \in Found, i < k PROVE val(i) > val(k)
    <2>1. i \notin first
      BY <1>1, <1>5, <1>6
    <2>2. val(i) # m /\ m <= val(i) /\ val(i) \in Nat /\ m \in Nat
      BY <1>1, <1>2, <1>3, <2>1
    <2>3. val(k) = m
      OBVIOUS
    <2> QED BY <2>2, <2>3
  <1>7. k \in Pareto
    BY <1>6 DEF Pareto, val
  <1>8. val(k) <= val(j)
    BY <1>3
  <1> QED BY <1>7, <1>8 DEF val

LEMMA RoundsOffered ==
  ASSUME WaysAreSound, NEW k \in Found
  PROVE  /\ k \in Nat /\ ItineraryOf(k).transfers = k - 1
         /\ DOMAIN ItineraryOf(k).routes = 1..k
         /\ ItineraryOf(k).minutes \in Int
  <1>1. k \in Nat /\ BestEnd(k) \in Ends(k)
    BY BestEndIs, Bounds DEF WaysAreSound, IInv
  <1>2. /\ Itinerary(k, BestEnd(k)).transfers = k - 1
        /\ DOMAIN Itinerary(k, BestEnd(k)).routes = 1..k
        /\ Itinerary(k, BestEnd(k)).minutes \in Int
    BY <1>1, ItineraryIs
  <1> QED BY <1>1, <1>2 DEF ItineraryOf

\* The first of the list is the round with the fewest rides.
LEMMA FirstIs ==
  ASSUME WaysAreSound, Distinct # {}
  PROVE  First \in Distinct
  <1>1. Distinct \subseteq Found
    BY KeptAreFound
  <1>2. \A k \in Distinct : /\ k \in Nat /\ ItineraryOf(k).transfers = k - 1
                             /\ DurationOf(k) \in Int
    BY <1>1, RoundsOffered DEF DurationOf
  <1>3. Distinct \in SUBSET Nat
    BY <1>2
  <1>4. PICK k \in Distinct : \A j \in Distinct : k <= j
    BY <1>3, MinOf
  <1>5. ASSUME NEW j \in Distinct PROVE ~Before(j, k)
    <2>1. /\ j \in Nat /\ k \in Nat /\ k <= j /\ ItineraryOf(j).transfers = j - 1
          /\ ItineraryOf(k).transfers = k - 1 /\ DurationOf(k) \in Int
      BY <1>2, <1>4
    <2>2. CASE j = k
      BY <2>1, <2>2 DEF Before
    <2>3. CASE j # k
      BY <2>1, <2>3 DEF Before
    <2> QED BY <2>2, <2>3
  <1> QED BY <1>4, <1>5 DEF First

\* No two rounds take the same rides, so none is taken for another.
LEMMA NoneTaken ==
  ASSUME WaysAreSound
  PROVE  Distinct = Preferred
  <1>1. Preferred \subseteq Found
    BY DEF Preferred, Clean, Pareto
  <1>2. ASSUME NEW j \in Preferred, NEW k \in Preferred, j < k
        PROVE  ItineraryOf(j).routes # ItineraryOf(k).routes
    <2>1. /\ j \in Nat /\ DOMAIN ItineraryOf(j).routes = 1..j
          /\ k \in Nat /\ DOMAIN ItineraryOf(k).routes = 1..k
      BY <1>1, RoundsOffered
    <2>2. k \in 1..k /\ k \notin 1..j
      BY <1>2, <2>1
    <2> QED BY <2>1, <2>2
  <1> QED BY <1>2 DEF Distinct

LEMMA Offered ==
  ASSUME IInv, EarlyInv, WaysInv, LabelsInv, SoonInv
  PROVE  GoodWayIsOffered
  <1> DEFINE soonest == Soonest(plan)[Rounds]
             offered == {i.minutes : i \in Itineraries}
             near(k) == \E m \in offered : m < ItineraryOf(k).minutes + Saving
  <1> SUFFICES ASSUME pc = "done", Straight(plan), Fifo(plan), NEW s \in Goals
               PROVE  \E k \in Pareto :
                        /\ ArrivalAt(k, BestEnd(k)) <= soonest[s] + plan.egress[s]
                        /\ k \in Preferred => near(k)
    BY DEF GoodWayIsOffered
  <1>1. WaysAreSound /\ TypeOK
    BY DEF WaysAreSound, IInv
  <1>2. PICK j \in Found : ArrivalAt(j, BestEnd(j)) <= soonest[s] + plan.egress[s]
    BY RoundIsEarly
  <1>3. PICK k \in Pareto : ArrivalAt(k, BestEnd(k)) <= ArrivalAt(j, BestEnd(j))
    BY <1>1, ParetoFirst
  <1>4. k \in Found
    BY DEF Pareto
  <1>5. ArrivalAt(k, BestEnd(k)) <= soonest[s] + plan.egress[s]
    <2> DEFINE a == ArrivalAt(k, BestEnd(k))
               b == ArrivalAt(j, BestEnd(j))
               c == soonest[s] + plan.egress[s]
    <2>1. a \in Nat /\ b \in Nat /\ c \in Nat /\ a <= b /\ b <= c
      BY <1>1, <1>2, <1>3, <1>4, FoundTimes, RoundIsEarly
    <2> HIDE DEF a, b, c
    <2>2. a <= c
      BY <2>1
    <2> QED BY <2>2 DEF a, c
  <1>6. ASSUME k \in Preferred PROVE near(k)
    <2>1. k \in Distinct /\ First \in Distinct /\ First \in Found
      BY <1>1, <1>6, NoneTaken, FirstIs, KeptAreFound
    <2>2. First \in Kept
      BY <2>1 DEF Kept
    <2> DEFINE mine == ItineraryOf(k).minutes
               first == ItineraryOf(First).minutes
    <2>3. mine \in Int /\ first \in Int /\ Saving \in Nat \ {0}
      BY <1>1, <1>4, <2>1, RoundsOffered, PlansAssumption DEF PlansAssumption
    <2>4. k \notin Kept => ~ (first - mine >= Saving)
      BY <2>1 DEF Kept, DurationOf
    <2>5. first \in offered /\ (k \in Kept => mine \in offered)
      BY <2>2 DEF Itineraries
    <2> HIDE DEF mine, first, offered
    <2>6. \/ mine \in offered /\ mine < mine + Saving
          \/ first \in offered /\ first < mine + Saving
      BY <2>3, <2>4, <2>5
    <2> QED BY <2>6 DEF mine
  <1> QED BY <1>5, <1>6

\* Where a ride gets there before all who walk, a round that no round of fewer
\* rides is as good as is there as early as any journey of the reference; and
\* if its itinerary is not dropped for a route that is left and taken again, no
\* dropping of options, for the round, for the route or for the minutes it
\* saves, leaves a rider with a way that is shown Saving minutes longer.
THEOREM GoodWaysOffered == Spec => []GoodWayIsOffered
  <1>1. IInv /\ EarlyInv /\ WaysInv /\ LabelsInv /\ SoonInv => GoodWayIsOffered
    BY Offered
  <1> QED BY <1>1, SoonInvariance, PTL

=============================================================================
