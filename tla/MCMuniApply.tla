---------------------------- MODULE MCMuniApply ----------------------------
(***************************************************************************)
(* Three bundles of four datasets: the council's meetings, motions and     *)
(* votes, one pack, and the accounts, in no pack, as the first layout of   *)
(* BOD.tsv allows.  Bundle 2 corrects values, adds a row and names a       *)
(* motion whose meeting is missing; bundle 3 brings the meeting.           *)
(***************************************************************************)
EXTENDS MuniApply

CONSTANTS meetings, motions, votes, accounts, council

MCFiles == {meetings, motions, votes, accounts}
MCOrder == <<meetings, motions, votes, accounts>>
MCParent == [f \in MCFiles |-> CASE f = motions -> meetings
                                 [] f = votes -> motions
                                 [] OTHER -> Nil]
MCPackOf == [f \in MCFiles |-> IF f = accounts THEN Nil ELSE council]

Old == <<1, Nil>>
New == <<2, 1>>
First    == [f \in MCFiles |-> Old]
Orphaned == [f \in MCFiles |-> IF f = meetings THEN Old ELSE New]
Whole    == [f \in MCFiles |-> IF f = meetings THEN <<1, 1>> ELSE New]

\* On a development machine a dataset fails only when a reference is missing.
DevFaults == {"gate", "load", "packs", "mark", "crash"}
MCFaults  == [dev \in BOOLEAN |-> DevFaults \cup (IF dev THEN {} ELSE {"dataset"})]
MCLost    == [dev \in BOOLEAN |-> {"dataset"}]

MCContent == <<First, Orphaned, Whole>>
MCOne     == <<First>>
=============================================================================
