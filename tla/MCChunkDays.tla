---------------------------- MODULE MCChunkDays ----------------------------
(***************************************************************************)
(* Two service dates and a route in two bands.  Delays are observed in the *)
(* morning only; the evening gets a row once the morning has a delay.  The *)
(* second bundle starts with the second date.                              *)
(***************************************************************************)
EXTENDS ChunkDays

CONSTANTS morning, evening, line

MCUnits       == {morning, evening}
MCRouteOf     == [u \in MCUnits |-> line]
MCPlace       == [u \in MCUnits |-> IF u = morning THEN 1 ELSE 2]
MCCalendars   == <<Days \X {line}, {<<2, line>>}>>
MCMaxObserved == [u \in MCUnits |-> IF u = morning THEN 1 ELSE 0]
=============================================================================
