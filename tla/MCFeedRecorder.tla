-------------------------- MODULE MCFeedRecorder ---------------------------
(***************************************************************************)
(* A trip that the catalog knows from the first version on and one that it *)
(* knows in the second, an alert; the trip feed has three timestamps, of   *)
(* which the third is more than three intervals after both others.  A feed *)
(* updates the bus twice with one delay each, or once with none.           *)
(***************************************************************************)
EXTENDS FeedRecorder

CONSTANTS bus, extra, detour

Entity(i, is, a, d) == [item |-> i, is |-> is, arrival |-> a, departure |-> d]

MCStamps == [f \in Feeds |-> IF f = "trips" THEN {1, 3, 7} ELSE {1}]

MCContents ==
  [f \in Feeds |->
     CASE f = "trips" ->
            {{Entity(bus, "update", TRUE, FALSE),
              Entity(bus, "update", FALSE, TRUE),
              Entity(extra, "canceled", TRUE, FALSE)},
             {Entity(bus, "update", FALSE, FALSE),
              Entity(extra, "update", FALSE, TRUE),
              Entity(extra, "unread", TRUE, FALSE)}}
       [] f = "alerts"   -> {{Entity(detour, "alert", FALSE, FALSE)}}
       [] f = "vehicles" -> {{}}]

MCCatalog ==
  [v \in 0..2 |-> CASE v = 0 -> {} [] v = 1 -> {bus} [] v = 2 -> {bus, extra}]

\* Every fault happens, those of a scenario together; all three loops run in
\* the last one.
MCScenarios ==
  {[feeds |-> {"trips"}, faults |-> {"older"}, versions |-> 1],
   [feeds |-> {"trips"}, faults |-> {"gap", "state", "rows"}, versions |-> 1],
   [feeds |-> {"trips"}, faults |-> {"fetch", "notices"}, versions |-> 1],
   [feeds |-> {"trips"}, faults |-> {"reload"}, versions |-> 2],
   [feeds |-> {"alerts"}, faults |-> {"fetch", "notices"}, versions |-> 0],
   [feeds |-> {"alerts", "vehicles"}, faults |-> {}, versions |-> 0]}
=============================================================================
