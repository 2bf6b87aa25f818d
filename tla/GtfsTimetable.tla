--------------------------- MODULE GtfsTimetable ---------------------------
(***************************************************************************)
(* What the static GTFS loader promises the rest of the application: the   *)
(* entity tables move from one whole bundle to a newer one in one step,    *)
(* and what the recorder holds in memory is an earlier or the current      *)
(* state of them, never older than what it held before, until the process  *)
(* ends.  Downloads, files, staging tables and signals are below this      *)
(* level: GtfsReload implements it.                                        *)
(***************************************************************************)
EXTENDS Naturals

CONSTANT MaxVersion \* bundles the city publishes, numbered as they appear

VARIABLES
  tier, \* the bundle the entity tables were derived from; 0: none
  held  \* the bundle whose trips the recorder holds; 0: none

Init == tier = 0 /\ held = 0

Load ==
  /\ \E v \in 1..MaxVersion : v > tier /\ tier' = v
  /\ UNCHANGED held

Read ==
  /\ held' \in held..tier
  /\ UNCHANGED tier

Exit ==
  /\ held' = 0
  /\ UNCHANGED tier

Next == Load \/ Read \/ Exit

Spec == Init /\ [][Next]_<<tier, held>>
=============================================================================
