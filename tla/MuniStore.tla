------------------------------ MODULE MuniStore ------------------------------
(***************************************************************************)
(* What data_patch_log promises of the datasets it lists: each entry was   *)
(* written together with the rows it stands for, a dataset is not loaded   *)
(* twice in a row with one checksum, and no entry is ever taken back.      *)
(* Downloads, reboots, packs and failures are below this level: MuniApply  *)
(* implements it.                                                          *)
(***************************************************************************)
EXTENDS Sequences

CONSTANTS
  Files,    \* the datasets
  Upserted, \* those whose rows are upserted by a key
  Contents, \* what a dataset file may hold; the checksum stands for it
  Ids,      \* row keys
  Nil       \* no row

VARIABLES
  log,  \* log[f]: the checksums applied for dataset f, oldest first
  store \* store[f][i]: row i of dataset f, or Nil, for the upserted ones

Init ==
  /\ log = [f \in Files |-> <<>>]
  /\ store = [f \in Upserted |-> [i \in Ids |-> Nil]]

IsLatest(f, c) == log[f] # <<>> /\ log[f][Len(log[f])] = c

\* Rows of the new content win; rows it does not name stay.
Merged(old, c) == [i \in Ids |-> IF c[i] # Nil THEN c[i] ELSE old[i]]

Load(f, c) ==
  /\ ~IsLatest(f, c)
  /\ log' = [log EXCEPT ![f] = Append(@, c)]
  /\ store' = [g \in Upserted |-> IF g = f THEN Merged(store[g], c)
                                          ELSE store[g]]

Next == \E f \in Files, c \in Contents : Load(f, c)

Spec == Init /\ [][Next]_<<log, store>>
=============================================================================
