--------------------------- MODULE MCVisitTracker ---------------------------
(***************************************************************************)
(* Small worlds for VisitTracker: one road with fixes 1, 2, 3 and the stop *)
(* at 2, so that a bus can come, dwell, leave, turn back, or drive by      *)
(* between two polls (1 to 3).  Fix 0 is the feed's "no position".         *)
(***************************************************************************)
EXTENDS VisitTracker

CONSTANTS b1, t1

MCPlaces == 0..3
MCNear == {<<2, s>> : s \in Stops}
MCGrazing == {<<a, b, s>> \in MCPlaces \X MCPlaces \X Stops :
                (a <= 2 /\ 2 <= b) \/ (b <= 2 /\ 2 <= a)}
MCCrossing == {m \in MCGrazing : m[1] # m[2]}
MCRouteStops == Routes \X Stops

OnTrip == [veh : Vehicles, trip : Trips, route : Routes, at : 1..3]

\* Two buses that share a trip; one may lose its route, so that a poll is
\* not empty and yet says nothing of the visit.
SharedTripFeed ==
  OnTrip \cup {[veh |-> b1, trip |-> t, route |-> Nil, at |-> 1] : t \in Trips}

\* One bus that changes trips, loses its trip or its position, and a
\* position with no vehicle id.
OddFeed ==
  [veh : Vehicles, trip : Trips, route : Routes, at : {1, 2}]
    \cup {[veh |-> v, trip |-> Nil, route |-> Nil, at |-> 2] : v \in Vehicles}
    \cup {[veh |-> v, trip |-> t1, route |-> r, at |-> 0] :
            v \in Vehicles, r \in Routes}
    \cup {[veh |-> Nil, trip |-> Nil, route |-> Nil, at |-> 2]}
=============================================================================
