-------------------------- MODULE MCCouncilArchive --------------------------
(***************************************************************************)
(* A meeting whose minutes have two motions of one agenda item, and one    *)
(* more before them once corrected; a meeting of the same date; a meeting  *)
(* before the term.                                                        *)
(***************************************************************************)
EXTENDS CouncilArchive

CONSTANTS regular, special, former, opening, budget, amendment

MCItemOf == [t \in Texts |-> IF t = opening THEN "1" ELSE "2"]

MCMinutes ==
  [m \in Meetings |->
     CASE m = regular -> <<<<budget, amendment>>, <<opening, budget, amendment>>>>
       [] m = special -> <<<<opening>>>>
       [] m = former  -> <<<<budget>>>>]

MCFileOf == [m \in Meetings |-> IF m = former THEN "2021" ELSE "2024"]

\* Every fault and tool happens, those of a scenario together.
MCScenarios ==
  {[held |-> {regular}, fetches |-> 3,
    may |-> {"remove", "crash", "download", "extract", "save"}],
   [held |-> {regular}, fetches |-> 2,
    may |-> {"remove", "summarize", "force", "empty", "tag"}],
   [held |-> {regular}, fetches |-> 2,
    may |-> {"summarize", "llm", "dump", "rebuild", "apply"}],
   [held |-> {regular}, fetches |-> 2,
    may |-> {"summarize", "tag", "dump", "import", "crash"}],
   [held |-> {regular, special, former}, fetches |-> 2, may |-> {"remove"}]}
=============================================================================
