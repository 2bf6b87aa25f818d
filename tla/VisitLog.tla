------------------------------ MODULE VisitLog ------------------------------
(***************************************************************************)
(* What transit.stop_visit promises its readers (headway, EWT and the      *)
(* audit page): one row per trip and stop, written at most twice.  The     *)
(* first sighting opens the row and fixes who was seen and when; a later   *)
(* write may add the exit time, once; nothing ever removes or rewrites.    *)
(* Vehicles, feeds, memory and crashes are below this level: VisitTracker  *)
(* implements it.                                                          *)
(***************************************************************************)
EXTENDS Naturals

CONSTANTS
  Keys,     \* the primary keys of the table: pairs of a trip and a stop
  Sighting, \* what the first sighting of a bus at a stop records
  Time,     \* timestamps
  Nil       \* no row, or no exit yet

VARIABLE rows \* rows[k]: the row of key k, or Nil

Row == [seen : Sighting, exited : Time \cup {Nil}]

TypeOK == rows \in [Keys -> Row \cup {Nil}]

Init == rows = [k \in Keys |-> Nil]

IsOpen(k) == rows[k] # Nil /\ rows[k].exited = Nil

\* One batch of first sightings: rows that exist are left as they are.
Open ==
  \E new \in [Keys -> Sighting \cup {Nil}] :
    rows' = [k \in Keys |->
               IF rows[k] = Nil /\ new[k] # Nil
               THEN [seen |-> new[k], exited |-> Nil]
               ELSE rows[k]]

\* One batch of exits: only rows that are open take their exit time.
Close ==
  \E out \in [Keys -> Time \cup {Nil}] :
    rows' = [k \in Keys |->
               IF IsOpen(k) /\ out[k] # Nil
               THEN [rows[k] EXCEPT !.exited = out[k]]
               ELSE rows[k]]

Next == Open \/ Close

Spec == Init /\ [][Next]_rows
=============================================================================
