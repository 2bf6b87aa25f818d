----------------------------- MODULE TripPlans ------------------------------
(***************************************************************************)
(* The itineraries that the trip planner makes of its labels: extractResults *)
(* and reconstructPath in internal/transit/raptor.go, and the reference    *)
(* that the labels are checked against.                                    *)
(*                                                                         *)
(* There is at most one itinerary of each round, so a list of itineraries  *)
(* is a set of rounds.  Of the walks from the origin and to the            *)
(* destination an itinerary has here what its times show of them.          *)
(***************************************************************************)
EXTENDS TripPlanner, FiniteSetsExt

CONSTANTS
  Base,     \* Base[r]: the route of a direction
  Minute,   \* units of time in a minute
  Day,      \* and in a day
  Metre,    \* units of distance in a metre
  Pace,     \* units of distance that are walked in a unit of time
  MaxWalk,  \* maxWalkToStopM
  Least,    \* the longest last walk that is not shown
  Saving    \* minutes that a transfer must save

ASSUME PlansAssumption ==
  /\ DOMAIN Base = Routes
  /\ {Minute, Day, Metre, Pace, Saving} \subseteq Nat \ {0}
  /\ {MaxWalk, Least} \subseteq Nat
  /\ Metre <= 2 * Pace

-----------------------------------------------------------------------------
(* Walks.                                                                  *)

CeilDiv(n, d) == (n + d - 1) \div d

\* realWalkSec: the time of a walk.
RealWalk(distance) == CeilDiv(distance, Pace)

\* The walks between stops that BuildTimetable keeps.
FootOf(metres) ==
  [s \in Stops |-> [u \in Stops |->
     IF s # u /\ metres[s][u] <= MaxWalk THEN RealWalk(metres[s][u]) ELSE Infinity]]

\* Stops have a place, and who is asked for a stop is walked to no further.
ASSUME PlacesAssumption ==
  \A q \in Plans :
    /\ \A s, u, x \in Stops : q.metres[s][u] <= q.metres[s][x] + q.metres[x][u]
    /\ q.foot = FootOf(q.metres)
    /\ \A s \in Stops : q.egress[s] < Infinity => q.egress[s] = RealWalk(q.last[s])

\* walkMin: the minutes that are shown of a walk.
WalkMin(distance) == Max({1, CeilDiv(distance, Pace * Minute)})

\* The distance that is shown: whole metres.
InMetres(distance) == Metre * ((2 * distance + Metre) \div (2 * Metre))

\* Walks that follow each other: how many, how far, and how far as it is shown.
NoWalk == [legs |-> 0, exact |-> 0, shown |-> 0]

AndOn(walk, distance) ==
  [legs  |-> walk.legs + 1,
   exact |-> walk.exact + distance,
   shown |-> walk.shown + InMetres(distance)]

\* mergeWalkLegs: a merged walk takes the minutes of the distances shown.
MergedMin(walk) ==
  IF walk.legs = 0 THEN 0 ELSE WalkMin(IF walk.legs = 1 THEN walk.exact ELSE walk.shown)

-----------------------------------------------------------------------------
(* One itinerary.                                                          *)

\* The way to stop p[2] in round p[1]: the stop where it starts, its legs, those
\* that are rides, the walks after them, and when it is there.  A label that is
\* missing ends the way back as the origin does.
Way[p \in (0..Rounds) \X Stops] ==
  LET s      == p[2]
      l      == labels[p[1]][s]
      afoot  == l.trip = Nil
      before == Way[<<IF afoot THEN p[1] ELSE p[1] - 1, l.from>>]
      leg    == [from |-> l.from, to |-> s, trip |-> l.trip, route |-> l.route,
                 ready |-> before.at]
  IN IF IF l = Nil THEN TRUE ELSE l.from = Origin
     THEN [start |-> s, legs |-> <<>>, rides |-> <<>>, walk |-> NoWalk, at |-> AccessTime(s)]
     ELSE [start |-> before.start,
           legs  |-> Append(before.legs, leg),
           rides |-> IF afoot THEN before.rides ELSE Append(before.rides, leg),
           walk  |-> IF afoot THEN AndOn(before.walk, plan.metres[l.from][s]) ELSE NoWalk,
           at    |-> IF afoot THEN before.at + plan.foot[l.from][s] ELSE Arr(l.trip, s)]

\* fmtTime: the minute of a time, and a time of the next day as one of today.
Shown(time) == LET today == time % Day IN today - (today % Minute)

\* Division as Go does it, towards zero.
Quotient(n, d) == IF n >= 0 THEN n \div d ELSE -((-n) \div d)

\* The minutes that are shown of a time.
InMinutes(time) == Quotient(time + Minute - 1, Minute)

\* The walk after the last ride, on to the destination.
LastWalk(walk, s) == IF plan.last[s] > Least THEN AndOn(walk, plan.last[s]) ELSE walk

Itinerary(k, s) ==
  LET way   == Way[<<k, s>>]
      rides == way.rides
      last  == rides[Len(rides)]
      total == Shown(Arr(last.trip, last.to)) + Minute * MergedMin(LastWalk(way.walk, s))
  IN [start |-> way.start,
      legs |-> way.legs,
      stop |-> s,
      arrival |-> Shown(total),
      minutes |-> InMinutes(total - plan.depart),
      transfers |-> Len(rides) - 1,
      routes |-> [i \in DOMAIN rides |-> Base[rides[i].route]]]

-----------------------------------------------------------------------------
(* The list.                                                               *)

Ends(k) == {s \in Stops : plan.egress[s] < Infinity /\ labels[k][s] # Nil}

ArrivalAt(k, s) == labels[k][s].time + plan.egress[s]

\* roundBest: the stop that was asked for, else the one of the first arrival.
BestEnd(k) ==
  IF plan.pinned \in Ends(k) THEN plan.pinned
  ELSE CHOOSE s \in Ends(k) : \A u \in Ends(k) : ArrivalAt(k, s) <= ArrivalAt(k, u)

Found == {k \in 1..Rounds : Ends(k) # {}}

\* Rounds that no earlier round is as good as.
Pareto ==
  {k \in Found : \A j \in Found : j < k => ArrivalAt(j, BestEnd(j)) > ArrivalAt(k, BestEnd(k))}

ItineraryOf(k) == Itinerary(k, BestEnd(k))

\* Is a route left and taken again?
SameRouteTransfer(i) == \E n \in 1..(Len(i.routes) - 1) : i.routes[n] = i.routes[n + 1]

Clean == {k \in Pareto : ~SameRouteTransfer(ItineraryOf(k))}

\* Those with such a transfer are the fallback.
Preferred == IF Clean = {} THEN Pareto ELSE Clean

\* Of itineraries by the same routes the first is kept.
Distinct ==
  {k \in Preferred : \A j \in Preferred : j < k => ItineraryOf(j).routes # ItineraryOf(k).routes}

DurationOf(k) == ItineraryOf(k).minutes

Before(j, k) ==
  \/ ItineraryOf(j).transfers < ItineraryOf(k).transfers
  \/ ItineraryOf(j).transfers = ItineraryOf(k).transfers /\ DurationOf(j) < DurationOf(k)

\* The itineraries with the fewest transfers come first, then the fastest.
First == CHOOSE k \in Distinct : \A j \in Distinct : ~Before(j, k)

\* Mutant: the time saved is measured the wrong way round.
KeptLater ==
  {k \in Distinct : \/ k = First
                    \/ ItineraryOf(k).transfers <= ItineraryOf(First).transfers
                    \/ DurationOf(k) - DurationOf(First) >= Saving}

\* Those with more transfers than the first must save time.
Kept ==
  {k \in Distinct : \/ k = First
                    \/ ItineraryOf(k).transfers <= ItineraryOf(First).transfers
                    \/ DurationOf(First) - DurationOf(k) >= Saving}

Itineraries == {ItineraryOf(k) : k \in Kept}

-----------------------------------------------------------------------------
(* The reference: all journeys that a question q leaves.                   *)

\* Trips of direction r that run.
Runs(q, r) == {t \in q.trips[r] : t.id \notin q.exclude}

\* Arrivals at s on a trip that is boarded at a stop after its time in best.
Arrivals(q, best, s) ==
  UNION {{t.visits[j].arr : j \in {j \in DOMAIN t.visits :
            /\ t.visits[j].stop = s
            /\ \E i \in 1..(j - 1) : best[t.visits[i].stop] <= t.visits[i].dep}} :
           t \in UNION {Runs(q, r) : r \in Routes}}

\* The first times at each stop with one ride more, and with a walk from one
\* stop to another.
AndRide(q, best) == [s \in Stops |-> Min({best[s]} \cup Arrivals(q, best, s))]

AndWalk(q, best) ==
  [s \in Stops |-> Min({Infinity, best[s]} \cup {best[u] + q.foot[u][s] : u \in Stops})]

\* The same of walks of any length, straight to the stop.
AndCross(q, best) ==
  [s \in Stops |->
     Min({Infinity, best[s]} \cup {best[u] + RealWalk(q.metres[u][s]) : u \in Stops})]

\* And of walks only from where a ride is before the times in free.
AndOnward(q, ride, free) ==
  [s \in Stops |->
     Min({ride[s]} \cup
         {ride[u] + q.foot[u][s] :
            u \in {u \in Stops : q.foot[u][s] < Infinity /\ ride[u] < free[u]}})]

AccessTimes(q) == [s \in Stops |-> q.depart + q.access[s]]

\* The first arrival by at most k rides of trips that run, for a walker whom no
\* distance is too long.
Free(q) ==
  LET by[k \in 0..Rounds] ==
        AndCross(q, IF k = 0 THEN AccessTimes(q) ELSE AndRide(q, by[k - 1]))
  IN by

\* The first arrival by at most k rides of trips that run, with a walk of 400 m
\* or less to the first, and from a ride to the next or to the end where the
\* ride is ahead of such a walker who rides once less.
Soonest(q) ==
  LET free == Free(q)
      by[k \in 0..Rounds] ==
        IF k = 0 THEN AndWalk(q, AccessTimes(q))
                 ELSE AndOnward(q, AndRide(q, by[k - 1]), free[k - 1])
  IN by

\* All trips of a direction have its stops, and none catches up with another.
Fifo(q) ==
  \A r \in Routes : \A t, u \in q.trips[r] :
    /\ [i \in DOMAIN t.visits |-> t.visits[i].stop]
         = [i \in DOMAIN u.visits |-> u.visits[i].stop]
    /\ \A i, j \in DOMAIN t.visits :
         t.visits[i].dep <= u.visits[i].dep =>
           t.visits[j].dep <= u.visits[j].dep /\ t.visits[j].arr <= u.visits[j].arr

-----------------------------------------------------------------------------
(* Properties.                                                             *)

\* Does a ride from the origin to the destination end on the day it is asked?
SameDay == \A k \in Found : \A s \in Ends(k) : labels[k][s].time < Day

\* The way back from a label ends where a walk from the origin does: a ride
\* boards where the round before has a label, in time, when the trips of a
\* direction have its stops, and the walks of a round do not go in a circle
\* (raptor.go:757, 778, 811).
WaysLeadBack ==
  /\ Straight(plan) /\ Fifo(plan) =>
       \A k \in 0..Rounds, s \in Stops :
         LET l == labels[k][s] IN
           l # Nil /\ l.trip # Nil =>
             /\ k # 0
             /\ labels[k - 1][l.from] # Nil
             /\ labels[k - 1][l.from].time <= Dep(l.trip, l.from)
  /\ \A k \in 0..Rounds : \A S \in (SUBSET Stops) \ {{}} :
       \E s \in S : labels[k][s] # Nil /\ labels[k][s].trip = Nil => labels[k][s].from \notin S

\* The units of time by which walks that follow each other may be off when they
\* are merged and shown, and a last walk that is too short to be shown.
Slack(walk) == 2 * (walk.legs + 1) + RealWalk(Least)

\* A rider who leaves when asked can follow the legs of each itinerary: every
\* ride is on a trip that runs, is there in time, and goes forward; and what is
\* shown, seconds dropped and walks merged, is of a time that is less than a
\* minute and the slack of its walks from when the rider is at the destination
\* (raptor.go:750, 877, 923).
ItinerariesAreRidable ==
  pc = "done" /\ Straight(plan) /\ Fifo(plan) /\ SameDay =>
    \A i \in Itineraries :
      /\ i.start \in Near
      /\ i.legs # <<>>
      /\ \A n \in DOMAIN i.legs :
           /\ i.legs[n].from = IF n = 1 THEN i.start ELSE i.legs[n - 1].to
           /\ i.legs[n].trip # Nil =>
                /\ i.legs[n].trip.id \notin plan.exclude
                /\ i.legs[n].ready <= Dep(i.legs[n].trip, i.legs[n].from)
                /\ StopIdx(i.legs[n].trip, i.legs[n].from)
                     < StopIdx(i.legs[n].trip, i.legs[n].to)
      /\ i.legs[Len(i.legs)].to = i.stop
      /\ \E k \in 1..Rounds :
           LET way   == Way[<<k, i.stop>>]
               there == way.at + plan.egress[i.stop]
               off   == Minute + Slack(way.walk)
           IN /\ way.legs = i.legs
              /\ \E time \in (there - off)..(there + off) :
                   /\ i.arrival = Shown(time)
                   /\ i.minutes = InMinutes(time - plan.depart)

\* No journey of up to Rounds rides is at a stop before the planner is, in
\* whichever order it ranges over its maps, when no trip is overtaken or makes
\* a loop, and the journey walks on only from rides that are ahead of who rides
\* once less (raptor.go:433, 484, 533).
NoneEarlier ==
  pc = "done" /\ Straight(plan) /\ Fifo(plan) =>
    LET soonest == Soonest(plan)[Rounds] IN \A s \in Stops : tauStar[s] <= soonest[s]

\* The stops of the destination, or the one that was asked for, where a ride is
\* ahead of all who walk.
Goals ==
  LET soonest == Soonest(plan)[Rounds]
      free    == Free(plan)[0]
  IN {s \in Stops : /\ plan.egress[s] < Infinity
                    /\ soonest[s] < free[s]
                    /\ plan.pinned \in {s, Nil}}

\* When a ride gets there first, a round that no other beats is there as early
\* as any journey; and if its itinerary is not dropped for taking a route
\* again, one that is offered is shown to last less than Saving minutes longer,
\* though options are dropped one after the other (raptor.go:597, 617, 655, 681).
GoodWayIsOffered ==
  pc = "done" /\ Straight(plan) /\ Fifo(plan) =>
    LET soonest == Soonest(plan)[Rounds]
        offered == {i.minutes : i \in Itineraries}
    IN \A s \in Goals : \E k \in Pareto :
         /\ ArrivalAt(k, BestEnd(k)) <= soonest[s] + plan.egress[s]
         /\ k \in Preferred => \E m \in offered : m < ItineraryOf(k).minutes + Saving
=============================================================================
