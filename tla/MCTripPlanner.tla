--------------------------- MODULE MCTripPlanner ----------------------------
(***************************************************************************)
(* A small town along a road for TLC.  East runs home - centre - mall,     *)
(* south mall - centre - lake, and west lake - mall - home.                *)
(***************************************************************************)
EXTENDS TripPlans

CONSTANTS home, centre, mall, lake, East, West, South

MCStops == {home, centre, mall, lake}

\* Times are counted from the start of the day, and those of trips from Dawn.
Dawn == 4

Stopping(s, t) == [stop |-> s, arr |-> Dawn + t, dep |-> Dawn + t]

\* Trips that leave home, the centre or the lake at t.
EastTrip(t, centreAt, mallAt) ==
  [id |-> <<"east", t>>,
   visits |-> <<Stopping(home, t), Stopping(centre, centreAt), Stopping(mall, mallAt)>>]
SouthTrip(t) ==
  [id |-> <<"south", t>>,
   visits |-> <<Stopping(mall, t - 2), Stopping(centre, t), Stopping(lake, t + 3)>>]
WestTrip(t) ==
  [id |-> <<"west", t>>,
   visits |-> <<Stopping(lake, t), Stopping(mall, t + 2), Stopping(home, t + 4)>>]
Inbound(t) == [id |-> <<"in", t>>, visits |-> <<Stopping(home, t), Stopping(centre, t + 2)>>]
Loop == [id |-> <<"loop", 3>>,
         visits |-> <<Stopping(home, 3), Stopping(centre, 5), Stopping(home, 7),
                      Stopping(mall, 9)>>]

EastDays == {{EastTrip(3, 5, 15)},
             {EastTrip(3, 6, 9), EastTrip(5, 8, 11)},
             {EastTrip(3, 9, 15), EastTrip(5, 7, 9)},  \* one overtakes
             {EastTrip(3, 7, 9), Inbound(5)},          \* not all go on to the mall
             {Inbound(3), Inbound(6)},                 \* none does
             {Loop}}
SouthDays == {{SouthTrip(7)}, {SouthTrip(6), SouthTrip(12)}}
WestDays == {{}, {WestTrip(10)}, {WestTrip(9), WestTrip(13)}}

MCTrips == UNION (EastDays \cup SouthDays \cup WestDays)

\* Towns, with where their stops are along the road (walks are of 8 and less),
\* places to leave from and go to, and the stop that is asked for there, or Nil.
Along(h, c, m, l) == [s \in MCStops |-> CASE s = home -> h [] s = centre -> c
                                        [] s = mall -> m [] s = lake -> l]

Towns ==
  {[at |-> Along(0, 30, 60, 90), from |-> {<<1, Nil>>}, to |-> {<<62, Nil>>}],
   [at |-> Along(11, 41, 0, 71), from |-> {<<7, Nil>>, <<13, Nil>>},
    to |-> {<<71, lake>>, <<2, Nil>>}],
   [at |-> Along(0, 30, 37, 44), from |-> {<<2, Nil>>}, to |-> {<<44, lake>>, <<42, Nil>>}],
   [at |-> Along(11, 18, 0, 60), from |-> {<<7, Nil>>, <<11, home>>}, to |-> {<<65, Nil>>, <<2, Nil>>}]}

Gap(a, b) == IF a <= b THEN b - a ELSE a - b

MCPlan(e, s, w, at, from, to, exclude) ==
  LET walks(place) ==
        [x \in MCStops |-> IF Gap(at[x], place[1]) <= MaxWalk THEN RealWalk(Gap(at[x], place[1]))
                           ELSE Infinity]
      metres == [x \in MCStops |-> [y \in MCStops |-> Gap(at[x], at[y])]]
  IN [trips |-> [r \in {East, West, South} |-> CASE r = East -> e [] r = West -> w
                                                 [] r = South -> s],
      metres |-> metres,
      foot |-> FootOf(metres),
      access |-> [x \in MCStops |-> IF from[2] \in {x, Nil} THEN walks(from)[x] ELSE Infinity],
      egress |-> walks(to),
      last |-> [x \in MCStops |-> Gap(at[x], to[1])],
      pinned |-> to[2],
      depart |-> Dawn + 1,
      exclude |-> exclude]

MCPlans ==
  UNION {{MCPlan(e, s, w, town.at, from, to, exclude) :
            e \in EastDays, s \in SouthDays, w \in WestDays,
            from \in town.from, to \in town.to, exclude \in {{}, {<<"east", 3>>}}} :
           town \in Towns}

MCBase == [r \in {East, West, South} |-> IF r = East THEN "east" ELSE "south"]
=============================================================================
