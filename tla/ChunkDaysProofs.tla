-------------------------- MODULE ChunkDaysProofs --------------------------
(***************************************************************************)
(* Proofs about ChunkDays, for every number of dates, routes and bands,    *)
(* all calendars, every window and number of delays, and every choice of   *)
(* faults: in particular for selects that cover dates in between and for   *)
(* backfills of several dates, which two dates do not show.                *)
(***************************************************************************)
EXTENDS ChunkDays, TLAPS

\* What most steps need of the assumptions.
LEMMA Apart ==
  /\ Units # {}
  /\ LastDay \in Nat \ {0}
  /\ Window \in Nat
  /\ Nil \notin Units \cup Int
  /\ Nil \notin Builds
  BY ChunkAssumption DEF ChunkAssumption

USE Apart DEF events, excuses

-----------------------------------------------------------------------------
(* Type correctness.                                                       *)

LEMMA BuildType ==
  ASSUME NEW d \in Days
  PROVE  /\ Build(d) \in Builds \cup {Nil}
         /\ Build(d) # Nil =>
              Build(d).date = d /\ Build(d).left = Listed(d) /\ Build(d).unit = Nil
         /\ Listed(d) # {} => Build(d) # Nil
  <1>1. CASE Listed(d) = {}
    BY <1>1 DEF Build
  <1>2. CASE Listed(d) # {}
    <2>1. Listed(d) \in (SUBSET Units) \ {{}}
      BY <1>2 DEF Listed
    <2>2. Build(d) = [date |-> d, left |-> Listed(d), unit |-> Nil, seen |-> Nil]
      BY <1>2 DEF Build
    <2>3. Nil \in Values /\ Nil \in Units \cup {Nil}
      BY DEF Values
    <2>4. Build(d) \in Builds
      BY <2>1, <2>2, <2>3 DEF Builds
    <2> QED BY <2>2, <2>4
  <1> QED BY <1>1, <1>2

LEMMA ReadingType ==
  ASSUME NEW b \in Builds, NEW u \in b.left,
         observed \in [Days -> [Units -> Counts]]
  PROVE  /\ Reading(b, u) \in Builds /\ Reading(b, u) # Nil
         /\ Reading(b, u).date = b.date /\ Reading(b, u).left = b.left
         /\ Reading(b, u).unit = u /\ u # Nil /\ u \in Units
         /\ Reading(b, u).seen # Nil => Reading(b, u).seen = observed[b.date][u]
         /\ RouteSeen(b.date, u) => Reading(b, u).seen # Nil
  <1> DEFINE here == RouteSeen(b.date, u) \/ <<b.date, u>> \in Cancelled
             n    == IF here THEN observed[b.date][u] ELSE Nil
  <1>1. b.left \subseteq Units /\ b.date \in Days /\ u \in Units
    BY DEF Builds
  <1>2. observed[b.date][u] \in Counts
    BY <1>1
  <1>3. /\ n \in Values
        /\ n # Nil => n = observed[b.date][u]
        /\ RouteSeen(b.date, u) => n # Nil
    BY <1>2 DEF Values, Counts
  <1>4. Reading(b, u) = [b EXCEPT !.unit = u, !.seen = n]
    BY DEF Reading
  <1> HIDE DEF n
  <1>5. /\ Reading(b, u) \in Builds
        /\ Reading(b, u).date = b.date /\ Reading(b, u).left = b.left
        /\ Reading(b, u).unit = u /\ Reading(b, u).seen = n
    BY <1>1, <1>3, <1>4 DEF Builds
  <1> QED BY <1>1, <1>3, <1>5

LEMMA WrittenType ==
  ASSUME NEW b \in Builds, b.unit # Nil
  PROVE  /\ Written(b) \in Builds \cup {Nil}
         /\ Written(b) # Nil => /\ b.left # {b.unit}
                                /\ Written(b).date = b.date
                                /\ Written(b).left = b.left \ {b.unit}
                                /\ Written(b).unit = Nil
         /\ b.left # {b.unit} => Written(b) # Nil
  <1>1. CASE b.left = {b.unit}
    BY <1>1 DEF Written
  <1>2. CASE b.left # {b.unit}
    <2>1. Written(b) = [date |-> b.date, left |-> b.left \ {b.unit}, unit |-> Nil,
                        seen |-> Nil]
      BY <1>2 DEF Written, Builds
    <2>2. b.left \ {b.unit} \in (SUBSET Units) \ {{}}
      BY <1>2 DEF Builds
    <2>3. Nil \in Values /\ b.date \in Days /\ Nil \in Units \cup {Nil}
      BY DEF Values, Builds
    <2>4. Written(b) \in Builds
      BY <2>1, <2>2, <2>3 DEF Builds
    <2>5. /\ Written(b) # Nil /\ Written(b).date = b.date
          /\ Written(b).left = b.left \ {b.unit} /\ Written(b).unit = Nil
      BY <2>1, <2>4
    <2> QED BY <1>2, <2>4, <2>5
  <1> QED BY <1>1, <1>2

LEMMA UpsertType ==
  ASSUME NEW b \in Builds, b.unit # Nil, Upsert(b),
         rows \in [Days -> [Units -> Values]]
  PROVE  /\ rows' \in [Days -> [Units -> Values]]
         /\ \A d \in Days, u \in Units :
              d # b.date \/ u # b.unit => rows'[d][u] = rows[d][u]
         /\ b.seen = Nil => rows'[b.date][b.unit] = rows[b.date][b.unit]
         /\ b.seen # Nil => rows'[b.date][b.unit] = b.seen
  BY DEF Upsert, Builds, Values, Counts

LEMMA StoredType ==
  ASSUME NEW cells, rows \in [Days -> [Units -> Values]],
         shown \in [Days -> [Units -> Values]]
  PROVE  Stored(cells) \in [Days -> [Units -> Values]]
  BY DEF Stored

LEMMA StepType ==
  ASSUME TypeOK, [Next]_vars
  PROVE  TypeOK'
  <1> USE DEF TypeOK
  <1>1. CASE Start \/ ScanFails
    BY <1>1 DEF Start, ScanFails, cache
  <1>2. CASE Scan
    BY <1>2 DEF Scan, BackfillWindow, Days, cache
  <1>3. ASSUME NEW d \in Days, Backfill(d)
        PROVE  TypeOK'
    BY <1>3, BuildType DEF Backfill, Overlap, Days, cache
  <1>4. CASE RebuildToday
    BY <1>4, BuildType DEF RebuildToday, Backfilled, Overlap, cache
  <1>5. ASSUME NEW u \in Units, ReadUnit(u)
        PROVE  TypeOK'
    <2>1. job \in Builds
      BY <1>5 DEF ReadUnit, IsNext
    <2> QED BY <1>5, <2>1, ReadingType DEF ReadUnit, IsNext, cache
  <1>6. CASE WriteUnit
    <2>1. rows' \in [Days -> [Units -> Values]]
      BY <1>6, UpsertType DEF WriteUnit
    <2>2. dirty' \subseteq loaded'
      BY <1>6 DEF WriteUnit, Unread, cache
    <2>3. /\ job' \in Builds \cup {Nil}
          /\ job' # Nil => job'.date = job.date /\ job'.unit = Nil
      BY <1>6, WrittenType DEF WriteUnit
    <2> QED BY <1>6, <2>1, <2>2, <2>3 DEF WriteUnit, AfterBuild, cache
  <1>7. CASE BuildFails
    <2>1. job.date \in Days
      BY <1>7 DEF BuildFails, Builds
    <2> QED BY <1>7, <2>1 DEF BuildFails, AfterBuild, cache
  <1>8. ASSUME NEW d \in Days, ToolStarts(d)
        PROVE  TypeOK'
    BY <1>8, BuildType DEF ToolStarts, Overlap, cache, rollup
  <1>9. ASSUME NEW u \in Units, ToolReads(u)
        PROVE  TypeOK'
    <2>1. tool \in Builds
      BY <1>9 DEF ToolReads, IsNext
    <2> QED BY <1>9, <2>1, ReadingType DEF ToolReads, IsNext, cache, rollup
  <1>10. CASE ToolWrites
    <2>1. rows' \in [Days -> [Units -> Values]]
      BY <1>10, UpsertType DEF ToolWrites
    <2>2. dirty' \subseteq loaded'
      BY <1>10 DEF ToolWrites, Unread, cache
    <2>3. /\ tool' \in Builds \cup {Nil}
          /\ tool' # Nil => tool'.unit = Nil
      BY <1>10, WrittenType DEF ToolWrites
    <2> QED BY <1>10, <2>1, <2>2, <2>3 DEF ToolWrites, cache, rollup
  <1>11. CASE ToolEnds
    BY <1>11 DEF ToolEnds, cache, rollup
  <1>12. ASSUME NEW from \in Days, NEW to \in Days, Ask(from, to)
         PROVE  TypeOK'
    <2>1. fill' \subseteq Days
      BY <1>12 DEF Ask, Days
    <2> QED BY <1>12, <2>1 DEF Ask, rollup
  <1>13. CASE Fill
    <2>1. fill \subseteq Days
      BY <1>13 DEF Fill
    <2> QED BY <1>13, <2>1, StoredType DEF Fill, rollup
  <1>14. CASE FillFails
    BY <1>14, StoredType DEF FillFails, rollup
  <1>15. ASSUME NEW d \in Days, Age(d)
         PROVE  TypeOK'
    BY <1>15 DEF Age, rollup
  <1>16. ASSUME NEW d \in Days, NEW u \in Units, Observe(d, u)
         PROVE  TypeOK'
    <2>1. observed[d][u] + 1 \in Counts
      BY <1>16 DEF Observe, Counts
    <2> QED BY <1>16, <2>1 DEF Observe, rollup, cache
  <1>17. CASE Rollover
    <2>1. today' \in Days /\ 1..(today - 1) \subseteq 1..(today' - 1)
      BY <1>17 DEF Rollover, Days
    <2>2. job # Nil /\ job.date < today => job.date < today'
      BY <1>17 DEF Rollover, Days, Builds
    <2> QED BY <1>17, <2>1, <2>2 DEF Rollover, rollup
  <1>18. CASE Exit
    <2>1. NoRows \in [Days -> [Units -> Values]]
      BY DEF NoRows, Values
    <2> QED BY <1>18, <2>1 DEF Exit
  <1>19. CASE Derive
    BY <1>19 DEF Derive, rollup, cache
  <1>20. CASE UNCHANGED vars
    BY <1>20 DEF vars, rollup, cache
  <1> QED BY <1>1, <1>2, <1>3, <1>4, <1>5, <1>6, <1>7, <1>8, <1>9, <1>10, <1>11,
             <1>12, <1>13, <1>14, <1>15, <1>16, <1>17, <1>18, <1>19,
             <1>20
          DEF Next, Rollup, Tool, Fails

LEMMA InitType ==
  Init => TypeOK
  <1>1. 1 \in DOMAIN Calendars
    BY ChunkAssumption DEF ChunkAssumption
  <1> QED BY <1>1 DEF Init, TypeOK, NoRows, Values, Counts, Days

\* Every variable keeps its type, and the rollup works on dates that are over
\* until it turns to today.
THEOREM TypeCorrect == Spec => []TypeOK
  <1>1. Init => TypeOK
    BY InitType
  <1>2. TypeOK /\ [Next]_vars => TypeOK'
    BY StepType
  <1> QED BY <1>1, <1>2, PTL DEF Spec
-----------------------------------------------------------------------------
(* What every step does to the table.                                      *)

\* Who may write rows, and that a row is never deleted.
LEMMA RowsStep ==
  ASSUME TypeOK, [Next]_vars
  PROVE  \/ UNCHANGED rows
         \/ WriteUnit /\ job \in Builds /\ job.unit \in Units
         \/ ToolWrites /\ tool \in Builds /\ tool.unit \in Units
  <1>1. CASE WriteUnit
    BY <1>1 DEF WriteUnit, TypeOK, Builds
  <1>2. CASE ToolWrites
    BY <1>2 DEF ToolWrites, TypeOK, Builds
  <1>3. CASE UNCHANGED rows
    BY <1>3
  <1> QED BY <1>1, <1>2, <1>3
          DEF Next, Rollup, Tool, Fails, Start, Scan, ScanFails, Backfill,
              RebuildToday, ReadUnit, BuildFails, ToolStarts, ToolReads, ToolEnds,
              Ask, Fill, FillFails, Age, Observe, Rollover, Derive, Exit, vars

LEMMA RowsStay ==
  ASSUME TypeOK, [Next]_vars, NEW d \in Days, NEW u \in Units, rows[d][u] # Nil
  PROVE  rows'[d][u] # Nil
  <1>1. ASSUME NEW b \in Builds, b.unit \in Units, Upsert(b)
        PROVE  rows'[d][u] # Nil
    <2>1. b.unit # Nil
      BY <1>1
    <2>2. /\ d # b.date \/ u # b.unit => rows'[d][u] = rows[d][u]
          /\ b.seen = Nil => rows'[b.date][b.unit] = rows[b.date][b.unit]
          /\ b.seen # Nil => rows'[b.date][b.unit] = b.seen
      BY <1>1, <2>1, UpsertType DEF TypeOK
    <2> QED BY <2>2
  <1> QED BY <1>1, RowsStep DEF WriteUnit, ToolWrites

LEMMA HasRowStays ==
  ASSUME TypeOK, [Next]_vars, NEW d \in Days, HasRow(d)
  PROVE  HasRow(d)'
  BY RowsStay DEF HasRow

LEMMA ObservedStep ==
  ASSUME TypeOK, [Next]_vars, NEW d \in Days, NEW u \in Units
  PROVE  /\ observed[d][u] \in Nat /\ observed'[d][u] \in Nat
         /\ observed[d][u] <= observed'[d][u]
  <1>1. observed[d][u] \in Nat
    BY DEF TypeOK, Counts
  <1>2. ASSUME NEW e \in Days, NEW v \in Units, Observe(e, v)
        PROVE  observed'[d][u] \in {observed[d][u], observed[d][u] + 1}
    <2>1. observed' = [observed EXCEPT ![e][v] = @ + 1]
      BY <1>2 DEF Observe
    <2> QED BY <2>1 DEF TypeOK
  <1>3. CASE UNCHANGED observed
    BY <1>1, <1>3
  <1> QED BY <1>1, <1>2, <1>3
          DEF Next, Rollup, Tool, Fails, Start, Scan, ScanFails, Backfill,
              RebuildToday, ReadUnit, WriteUnit, BuildFails, ToolStarts, ToolReads,
              ToolWrites, ToolEnds, Ask, Fill, FillFails, Age, Rollover, Derive, Exit, vars

-----------------------------------------------------------------------------
(* The backfill.                                                           *)

\* The build of the date will write a row: a unit of a route that was observed
\* is still to be read, or was read with its observations.
Building(d) ==
  /\ job # Nil
  /\ job.date = d
  /\ \E u \in job.left : RouteSeen(d, u) /\ (job.unit = u => job.seen # Nil)

\* Every date that the backfill owes waits for its turn, is built, or is done.
BackfillInv ==
  /\ pc # "backfill" => owed = {}
  /\ pc = "backfill" =>
       \A d \in owed : \/ d \in missing
                      \/ HasRow(d) \/ d \in failed \/ d \in unlisted
                      \/ Building(d)

LEMMA SeenStays ==
  ASSUME TypeOK, [Next]_vars, NEW d \in Days, NEW u \in Units, RouteSeen(d, u)
  PROVE  RouteSeen(d, u)'
  <1>1. PICK v \in Units : RouteOf[v] = RouteOf[u] /\ observed[d][v] > 0
    BY DEF RouteSeen
  <1>2. observed'[d][v] > 0
    BY <1>1, ObservedStep
  <1> QED BY <1>1, <1>2 DEF RouteSeen

\* A build that would write a row still would, or has, as long as it stays.
LEMMA BuildingStays ==
  ASSUME TypeOK, [Next]_vars, NEW d \in Days, Building(d),
         job' = job \/ (\E u \in Units : ReadUnit(u)) \/ WriteUnit
  PROVE  Building(d)' \/ HasRow(d)'
  <1>1. job \in Builds /\ job.left \subseteq Units /\ job.date = d
    BY DEF Building, TypeOK, Builds
  <1>2. PICK u \in job.left : RouteSeen(d, u) /\ (job.unit = u => job.seen # Nil)
    BY DEF Building
  <1>3. RouteSeen(d, u)'
    BY <1>1, <1>2, SeenStays
  <1>4. CASE job' = job
    BY <1>1, <1>2, <1>3, <1>4 DEF Building
  <1>5. ASSUME NEW v \in Units, ReadUnit(v)
        PROVE  Building(d)'
    <2>1. job' = Reading(job, v) /\ v \in job.left
      BY <1>5 DEF ReadUnit, IsNext
    <2>2. /\ job' # Nil /\ job'.date = d /\ job'.left = job.left
          /\ job'.unit = v /\ (RouteSeen(d, v) => job'.seen # Nil)
      BY <1>1, <2>1, ReadingType DEF TypeOK
    <2>3. job'.unit = u => job'.seen # Nil
      BY <1>2, <2>2
    <2> QED BY <1>2, <1>3, <2>2, <2>3 DEF Building
  <1>6. CASE WriteUnit
    <2>1. job.unit # Nil /\ Upsert(job) /\ job' = Written(job)
      BY <1>6 DEF WriteUnit
    <2>2. CASE job.unit = u
      <3>1. job.seen # Nil
        BY <1>2, <2>2
      <3>2. rows'[d][u] = job.seen
        BY <1>1, <2>1, <2>2, <3>1, UpsertType DEF TypeOK
      <3> QED BY <1>1, <1>2, <3>1, <3>2 DEF HasRow
    <2>3. CASE job.unit # u
      <3>1. job.left # {job.unit} /\ u \in job.left \ {job.unit}
        BY <1>2, <2>3
      <3>2. /\ job' # Nil /\ job'.date = d /\ job'.unit = Nil
            /\ job'.left = job.left \ {job.unit}
        BY <1>1, <2>1, <3>1, WrittenType
      <3>3. u # Nil
        BY <1>1, <1>2
      <3> QED BY <1>3, <3>1, <3>2, <3>3 DEF Building
    <2> QED BY <2>2, <2>3
  <1> QED BY <1>4, <1>5, <1>6

LEMMA StepBackfill ==
  ASSUME TypeOK, BackfillInv, [Next]_vars
  PROVE  BackfillInv'
  <1>1. owed \subseteq Days
    BY DEF TypeOK
  <1>2. CASE Scan
    <2>1. /\ pc' = "backfill"
          /\ owed' = {d \in Days : /\ today - Window <= d /\ d < today
                                   /\ HasObservations(d)}
          /\ missing' = {d \in BackfillWindow : HasObservations(d) /\ ~HasRow(d)}
          /\ UNCHANGED rows
      BY <1>2 DEF Scan
    <2>2. \A d \in owed' : d \in missing' \/ HasRow(d)'
      BY <2>1 DEF BackfillWindow, HasRow
    <2> QED BY <2>1, <2>2 DEF BackfillInv
  <1>3. CASE owed' = {}
    BY <1>3 DEF BackfillInv
  <1>4. CASE /\ owed' = owed
             /\ pc' = "backfill" => pc = "backfill"
             /\ pc = "backfill" => pc' = "backfill"
             /\ missing' = missing
             /\ failed \subseteq failed' /\ unlisted \subseteq unlisted'
             /\ job' = job \/ (\E u \in Units : ReadUnit(u)) \/ WriteUnit
    BY <1>1, <1>4, HasRowStays, BuildingStays DEF BackfillInv
  <1>5. ASSUME NEW d \in Days, Backfill(d)
        PROVE  BackfillInv'
    <2>1. /\ pc = "backfill" /\ pc' = pc /\ owed' = owed /\ failed' = failed
          /\ missing' = missing \ {d} /\ job = Nil /\ job' = Build(d)
          /\ unlisted' = IF \E u \in Listed(d) : RouteSeen(d, u) THEN unlisted
                                                                 ELSE unlisted \cup {d}
          /\ UNCHANGED <<bundle, observed, rows>>
      BY <1>5 DEF Backfill, events
    <2>2. CASE \E u \in Listed(d) : RouteSeen(d, u)
      <3>1. PICK u \in Listed(d) : RouteSeen(d, u)
        BY <2>2
      <3>2. RouteSeen(d, u)'
        BY <2>1, <3>1 DEF RouteSeen
      <3>3. job' # Nil /\ job'.date = d /\ job'.left = Listed(d) /\ job'.unit = Nil
        BY <2>1, <3>1, BuildType
      <3>4. u # Nil
        BY <3>1 DEF Listed
      <3>5. Building(d)'
        BY <3>1, <3>2, <3>3, <3>4 DEF Building
      <3> QED BY <2>1, <2>2, <3>5 DEF BackfillInv, Building, HasRow
    <2>3. CASE ~\E u \in Listed(d) : RouteSeen(d, u)
      BY <2>1, <2>3 DEF BackfillInv, Building, HasRow
    <2> QED BY <2>2, <2>3
  <1>6. CASE BuildFails
    <2>1. \A d \in owed : HasRow(d) => HasRow(d)'
      BY <1>6 DEF BuildFails, HasRow
    <2>2. pc = "backfill" =>
            /\ pc' = "backfill"
            /\ \A d \in owed : Building(d) => d \in failed'
      BY <1>6 DEF BuildFails, AfterBuild, Building
    <2>3. /\ owed' = owed /\ missing' = missing /\ failed \subseteq failed'
          /\ unlisted' = unlisted
          /\ pc # "backfill" => pc' # "backfill"
      BY <1>6 DEF BuildFails, AfterBuild
    <2> QED BY <2>1, <2>2, <2>3 DEF BackfillInv
  <1>7. CASE ScanFails
    BY <1>7 DEF ScanFails, BackfillInv
  <1>8. CASE Start
    BY <1>8 DEF Start, BackfillInv
  <1> QED BY <1>2, <1>3, <1>4, <1>5, <1>6, <1>7, <1>8
          DEF Next, Rollup, Tool, Fails, RebuildToday, ReadUnit, WriteUnit,
              AfterBuild, ToolStarts, ToolReads, ToolWrites, ToolEnds, Ask, Fill,
              FillFails, Age, Observe, Rollover, Derive, Exit, vars, rollup

\* When the rollup turns to today, every date with delays in the window has
\* chunks, its build failed, or the calendar had none of the routes observed.
THEOREM BackfillComplete == Spec => BackfillLeavesNone
  <1>1. Init => TypeOK /\ BackfillInv
    BY InitType DEF Init, BackfillInv
  <1>2. TypeOK /\ BackfillInv /\ [Next]_vars => TypeOK' /\ BackfillInv'
    BY StepType, StepBackfill
  <1>3. ASSUME TypeOK, BackfillInv, [Next]_vars,
               pc = "backfill", pc' \in {"today", "wait"}
        PROVE  \A d \in owed : HasRow(d) \/ d \in failed \/ d \in unlisted
    <2>1. Backfilled
      BY <1>3 DEF Next, Rollup, Tool, Fails, Start, Scan, ScanFails, Backfill,
                  RebuildToday, ReadUnit, WriteUnit, AfterBuild, BuildFails,
                  ToolStarts, ToolReads, ToolWrites, ToolEnds, Ask, Fill, FillFails,
                  Age, Observe, Rollover, Derive, Exit, vars, rollup
    <2> QED BY <1>3, <2>1 DEF Backfilled, BackfillInv, Building
  <1>4. TypeOK /\ BackfillInv /\ [Next]_vars =>
          [pc = "backfill" /\ pc' \in {"today", "wait"} =>
             \A d \in owed : HasRow(d) \/ d \in failed \/ d \in unlisted]_vars
    BY <1>3
  <1> QED BY <1>1, <1>2, <1>4, PTL DEF Spec, BackfillLeavesNone
-----------------------------------------------------------------------------
(* The cache.                                                              *)

ShownHasRow ==
  \A d \in Days, u \in Units : shown[d][u] # Nil => rows[d][u] # Nil

CacheInv == ShownHasRow /\ CacheIsTable

\* What a select stores in a cell.
LEMMA StoredCell ==
  ASSUME NEW cells, NEW d \in Days, NEW u \in Units
  PROVE  Stored(cells)[d][u] =
           IF <<d, u>> \in cells /\ rows[d][u] # Nil THEN rows[d][u] ELSE shown[d][u]
  BY DEF Stored

LEMMA StoredOld ==
  ASSUME NEW cells, NEW d \in Days, NEW u \in Units, shown' = Stored(cells)
  PROVE  shown'[d][u] = shown[d][u] \/ shown'[d][u] = rows[d][u]
  <1>1. CASE <<d, u>> \in cells /\ rows[d][u] # Nil
    BY <1>1, StoredCell
  <1>2. CASE ~(<<d, u>> \in cells /\ rows[d][u] # Nil)
    BY <1>2, StoredCell
  <1> QED BY <1>1, <1>2

LEMMA SameCells ==
  ASSUME TypeOK', NEW d \in Days, \A u \in Units : shown'[d][u] = rows'[d][u]
  PROVE  shown'[d] = rows'[d]
  <1>1. shown'[d] \in [Units -> Values] /\ rows'[d] \in [Units -> Values]
    BY DEF TypeOK
  <1> QED BY <1>1

LEMMA StepCache ==
  ASSUME TypeOK, TypeOK', CacheInv, [Next]_vars
  PROVE  CacheInv'
  <1> USE DEF CacheInv
  <1>1. ASSUME NEW b \in Builds, b.unit \in Units, Upsert(b), Unread(b),
               UNCHANGED <<loaded, shown>>
        PROVE  CacheInv'
    <2>1. ShownHasRow'
      BY <1>1, RowsStay DEF ShownHasRow
    <2>2. ASSUME NEW d \in loaded' \ dirty'
          PROVE  shown'[d] = rows'[d]
      <3>1. d \in loaded \ dirty /\ d # b.date /\ d \in Days
        BY <1>1, <2>2 DEF Unread, TypeOK
      <3>2. b.unit # Nil
        BY <1>1
      <3>3. \A u \in Units : rows'[d][u] = rows[d][u]
        <4>1. rows \in [Days -> [Units -> Values]]
          BY DEF TypeOK
        <4>2. \A e \in Days, u \in Units :
                e # b.date \/ u # b.unit => rows'[e][u] = rows[e][u]
          BY <1>1, <3>2, <4>1, UpsertType
        <4> QED BY <3>1, <4>2
      <3>4. \A u \in Units : shown'[d][u] = rows'[d][u]
        BY <1>1, <3>1, <3>3 DEF CacheIsTable
      <3> QED BY <3>1, <3>4, SameCells
    <2> QED BY <2>1, <2>2 DEF CacheIsTable
  <1>2. CASE WriteUnit
    <2>1. job \in Builds /\ job.unit \in Units
      BY <1>2 DEF WriteUnit, TypeOK, Builds
    <2> QED BY <1>1, <1>2, <2>1 DEF WriteUnit, cache
  <1>3. CASE ToolWrites
    <2>1. tool \in Builds /\ tool.unit \in Units
      BY <1>3 DEF ToolWrites, TypeOK, Builds
    <2> QED BY <1>1, <1>3, <2>1 DEF ToolWrites, cache
  <1>4. ASSUME NEW cells, shown' = Stored(cells), UNCHANGED rows,
               \A d \in Days : d \in loaded' \ dirty' =>
                 d \in loaded \ dirty \/ (\A u \in Units : <<d, u>> \in cells)
        PROVE  CacheInv'
    <2>1. ASSUME NEW d \in Days, NEW u \in Units, shown'[d][u] # Nil
          PROVE  rows'[d][u] # Nil
      <3>1. shown'[d][u] = IF <<d, u>> \in cells /\ rows[d][u] # Nil
                           THEN rows[d][u] ELSE shown[d][u]
        BY <1>4, StoredCell
      <3> QED BY <1>4, <2>1, <3>1 DEF ShownHasRow
    <2>2. ASSUME NEW d \in loaded' \ dirty'
          PROVE  shown'[d] = rows'[d]
      <3>1. d \in Days
        BY <2>2 DEF TypeOK
      <3>2. ASSUME NEW u \in Units
            PROVE  shown'[d][u] = rows'[d][u]
        <4>1. shown'[d][u] = IF <<d, u>> \in cells /\ rows[d][u] # Nil
                             THEN rows[d][u] ELSE shown[d][u]
          BY <1>4, <3>1, StoredCell
        <4>2. shown[d][u] # Nil => rows[d][u] # Nil
          BY <3>1 DEF ShownHasRow
        <4>3. d \in loaded \ dirty => shown[d][u] = rows[d][u]
          BY DEF CacheIsTable
        <4> QED BY <1>4, <2>2, <3>1, <4>1, <4>2, <4>3
      <3> QED BY <3>1, <3>2, SameCells
    <2> QED BY <2>1, <2>2 DEF ShownHasRow, CacheIsTable
  <1>5. CASE Fill
    <2>1. fill \subseteq Selected
      <3>1. fill \subseteq Days
        BY <1>5 DEF Fill, TypeOK
      <3>2. \A d \in Days : d <= d
        BY DEF Days
      <3> QED BY <3>1, <3>2 DEF Selected
    <2>2. \A d \in Days : d \in loaded' \ dirty' =>
            d \in loaded \ dirty \/ (\A u \in Units : <<d, u>> \in Selected \X Units)
      BY <1>5, <2>1 DEF Fill
    <2> QED BY <1>4, <1>5, <2>2 DEF Fill
  <1>6. CASE FillFails
    BY <1>4, <1>6 DEF FillFails
  <1>7. CASE Exit
    BY <1>7 DEF Exit, NoRows, ShownHasRow, CacheIsTable
  <1>8. CASE UNCHANGED <<rows, loaded, shown, dirty>>
    BY <1>8 DEF ShownHasRow, CacheIsTable
  <1> QED BY <1>2, <1>3, <1>5, <1>6, <1>7, <1>8
          DEF Next, Rollup, Tool, Fails, Start, Scan, ScanFails, Backfill,
              RebuildToday, ReadUnit, BuildFails, ToolStarts, ToolReads, ToolEnds,
              Ask, Age, Observe, Rollover, Derive, vars, cache

\* The cache has the rows of every loaded date that was not written since.
THEOREM CacheCorrect == Spec => []CacheIsTable
  <1>1. Init => TypeOK /\ CacheInv
    BY InitType DEF Init, CacheInv, ShownHasRow, CacheIsTable, NoRows
  <1>2. TypeOK /\ CacheInv /\ [Next]_vars => TypeOK' /\ CacheInv'
    BY StepType, StepCache
  <1>3. CacheInv => CacheIsTable
    BY DEF CacheInv
  <1> QED BY <1>1, <1>2, <1>3, PTL DEF Spec
-----------------------------------------------------------------------------
(* Rows and what is shown of them only grow.                               *)

\* A build that holds what it read holds as much as there is in the row, as
\* long as no other build of the date overlapped it.
Held(b) ==
  b # Nil /\ b.unit # Nil /\ b.seen # Nil =>
    /\ b.seen <= observed[b.date][b.unit]
    /\ b.date \notin shared => Older(rows[b.date][b.unit], b.seen)

GrowInv ==
  /\ \A d \in Days, u \in Units : rows[d][u] # Nil => rows[d][u] <= observed[d][u]
  /\ \A d \in Days \ shared, u \in Units : Older(shown[d][u], rows[d][u])
  /\ job # Nil /\ tool # Nil => job.date # tool.date \/ job.date \in shared
  /\ Held(job)
  /\ Held(tool)

\* Rows of dates without overlapping builds, from one step to the next.
RowsGrow == \A d \in Days \ shared', u \in Units : Older(rows[d][u], rows'[d][u])

LEMMA OlderOrder ==
  ASSUME NEW a \in Values, NEW b \in Values, NEW c \in Values
  PROVE  /\ Older(a, a) /\ Older(Nil, a)
         /\ Older(a, b) /\ Older(b, c) => Older(a, c)
  BY DEF Older, Values, Counts

LEMMA CellTypes ==
  ASSUME TypeOK, NEW d \in Days, NEW u \in Units
  PROVE  rows[d][u] \in Values /\ shown[d][u] \in Values /\ observed[d][u] \in Counts
  BY DEF TypeOK

LEMMA SharedStep ==
  ASSUME [Next]_vars
  PROVE  shared \subseteq shared'
  BY DEF Next, Rollup, Tool, Fails, Start, Scan, ScanFails, Backfill, RebuildToday,
         ReadUnit, WriteUnit, BuildFails, ToolStarts, ToolReads, ToolWrites, ToolEnds,
         Ask, Fill, FillFails, Age, Observe, Rollover, Derive, Exit, Overlap, vars

\* A write by a build that overlaps no other.
LEMMA WriteGrows ==
  ASSUME TypeOK, [Next]_vars, NEW b \in Builds, b.unit \in Units, Held(b), Upsert(b),
         UNCHANGED <<observed, shared>>,
         \A d \in Days, u \in Units : rows[d][u] # Nil => rows[d][u] <= observed[d][u]
  PROVE  /\ RowsGrow
         /\ \A d \in Days, u \in Units :
              rows'[d][u] # Nil => rows'[d][u] <= observed'[d][u]
         /\ \A d \in Days, u \in Units : d # b.date => rows'[d][u] = rows[d][u]
  <1>1. /\ b # Nil /\ b.unit # Nil /\ b.date \in Days
        /\ b.seen # Nil => b.seen \in Counts
    BY DEF Builds, Values
  <1>2. rows \in [Days -> [Units -> Values]]
    BY DEF TypeOK
  <1>3. /\ \A d \in Days, u \in Units :
             d # b.date \/ u # b.unit => rows'[d][u] = rows[d][u]
        /\ \/ rows'[b.date][b.unit] = rows[b.date][b.unit]
           \/ b.seen # Nil /\ rows'[b.date][b.unit] = b.seen
    BY <1>1, <1>2, UpsertType
  <1>4. b.seen # Nil =>
          /\ b.seen <= observed[b.date][b.unit]
          /\ b.date \notin shared => Older(rows[b.date][b.unit], b.seen)
    BY <1>1 DEF Held
  <1>5. ASSUME NEW d \in Days, NEW u \in Units
        PROVE  /\ d \notin shared => Older(rows[d][u], rows'[d][u])
               /\ rows'[d][u] # Nil => rows'[d][u] <= observed'[d][u]
    <2>1. CASE rows'[d][u] = rows[d][u]
      BY <2>1, CellTypes, OlderOrder
    <2>2. CASE d = b.date /\ u = b.unit /\ b.seen # Nil /\ rows'[d][u] = b.seen
      BY <1>4, <2>2
    <2> QED BY <1>3, <2>1, <2>2
  <1> QED BY <1>3, <1>5 DEF RowsGrow

LEMMA RowsGrowStep ==
  ASSUME TypeOK, GrowInv, [Next]_vars
  PROVE  RowsGrow
  <1>1. CASE UNCHANGED rows
    BY <1>1, CellTypes, OlderOrder DEF RowsGrow
  <1>2. CASE WriteUnit /\ job \in Builds /\ job.unit \in Units
    BY <1>2, WriteGrows DEF WriteUnit, GrowInv
  <1>3. CASE ToolWrites /\ tool \in Builds /\ tool.unit \in Units
    BY <1>3, WriteGrows DEF ToolWrites, GrowInv
  <1> QED BY <1>1, <1>2, <1>3, RowsStep
\* A build that another one leaves alone still holds what it read.
LEMMA HeldStays ==
  ASSUME TypeOK, [Next]_vars, NEW b \in Builds, Held(b), RowsGrow,
         \A d \in Days, u \in Units : d = b.date /\ d \notin shared => rows'[d][u] = rows[d][u]
  PROVE  /\ b # Nil /\ b.unit # Nil /\ b.seen # Nil =>
              /\ b.seen <= observed'[b.date][b.unit]
              /\ b.date \notin shared' => Older(rows'[b.date][b.unit], b.seen)
  <1> SUFFICES ASSUME b # Nil, b.unit # Nil, b.seen # Nil
               PROVE  /\ b.seen <= observed'[b.date][b.unit]
                      /\ b.date \notin shared' => Older(rows'[b.date][b.unit], b.seen)
    OBVIOUS
  <1>1. b.date \in Days /\ b.unit \in Units /\ b.seen \in Nat
    BY DEF Builds, Values, Counts
  <1>2. b.seen <= observed'[b.date][b.unit]
    <2>1. b.seen <= observed[b.date][b.unit]
      BY DEF Held
    <2> QED BY <1>1, <2>1, ObservedStep
  <1>3. ASSUME b.date \notin shared'
        PROVE  Older(rows'[b.date][b.unit], b.seen)
    BY <1>1, <1>3, SharedStep DEF Held
  <1> QED BY <1>2, <1>3

LEMMA StepGrow ==
  ASSUME TypeOK, TypeOK', GrowInv, [Next]_vars
  PROVE  GrowInv'
  <1> DEFINE Known == \A d \in Days, u \in Units :
                        rows[d][u] # Nil => rows[d][u] <= observed[d][u]
             Seen  == \A d \in Days \ shared, u \in Units :
                        Older(shown[d][u], rows[d][u])
             Separate == job # Nil /\ tool # Nil =>
                        job.date # tool.date \/ job.date \in shared
  <1>1. RowsGrow /\ shared \subseteq shared'
    BY RowsGrowStep, SharedStep
  <1>2. Known'
    <2>1. ASSUME UNCHANGED rows, NEW d \in Days, NEW u \in Units, rows'[d][u] # Nil
          PROVE  rows'[d][u] <= observed'[d][u]
      <3>1. rows[d][u] # Nil /\ rows[d][u] <= observed[d][u]
        BY <2>1 DEF GrowInv
      <3>2. rows[d][u] \in Nat
        BY <3>1, CellTypes DEF Values, Counts
      <3> QED BY <2>1, <3>1, <3>2, ObservedStep
    <2>2. CASE WriteUnit /\ job \in Builds /\ job.unit \in Units
      BY <2>2, WriteGrows DEF WriteUnit, GrowInv
    <2>3. CASE ToolWrites /\ tool \in Builds /\ tool.unit \in Units
      BY <2>3, WriteGrows DEF ToolWrites, GrowInv
    <2> QED BY <2>1, <2>2, <2>3, RowsStep
  <1>3. Seen'
    <2> SUFFICES ASSUME NEW d \in Days, d \notin shared', NEW u \in Units
                 PROVE  Older(shown'[d][u], rows'[d][u])
      OBVIOUS
    <2>1. /\ Older(shown[d][u], rows[d][u]) /\ Older(rows[d][u], rows'[d][u])
          /\ shown[d][u] \in Values /\ rows[d][u] \in Values /\ rows'[d][u] \in Values
      BY <1>1, CellTypes DEF GrowInv, RowsGrow, TypeOK
    <2>2. CASE shown'[d][u] \in {shown[d][u], rows[d][u], Nil}
      BY <2>1, <2>2, OlderOrder
    <2>3. ASSUME NEW cells, shown' = Stored(cells)
          PROVE  shown'[d][u] \in {shown[d][u], rows[d][u], Nil}
      BY <2>3, StoredOld
    <2>4. CASE Exit
      BY <2>2, <2>4 DEF Exit, NoRows
    <2>5. CASE UNCHANGED shown
      BY <2>2, <2>5
    <2>6. CASE Fill \/ FillFails
      BY <2>2, <2>3, <2>6 DEF Fill, FillFails
    <2> QED BY <2>4, <2>5, <2>6
            DEF Next, Rollup, Tool, Fails, Start, Scan, ScanFails, Backfill,
                RebuildToday, ReadUnit, WriteUnit, BuildFails, ToolStarts, ToolReads,
                ToolWrites, ToolEnds, Ask, Age, Observe, Rollover, Derive, vars, cache
  <1>4. /\ job # Nil => job \in Builds
        /\ tool # Nil => tool \in Builds
    BY DEF TypeOK
  \* The builds that a step leaves alone.
  <1>5. ASSUME UNCHANGED job, job = Nil \/ UNCHANGED rows \/ ToolWrites
        PROVE  Held(job)'
    <2>1. CASE job = Nil
      BY <1>5, <2>1 DEF Held
    <2>2. CASE job # Nil
      <3>1. \A d \in Days, u \in Units :
              d = job.date /\ d \notin shared => rows'[d][u] = rows[d][u]
        <4>1. CASE UNCHANGED rows
          BY <4>1
        <4>2. CASE ToolWrites
          <5>1. tool \in Builds /\ tool # Nil /\ tool.unit \in Units
            BY <1>4, <4>2 DEF ToolWrites, Builds
          <5>2. \A d \in Days, u \in Units : d # tool.date => rows'[d][u] = rows[d][u]
            BY <4>2, <5>1, WriteGrows DEF ToolWrites, GrowInv
          <5> QED BY <2>2, <5>1, <5>2 DEF GrowInv
        <4> QED BY <1>5, <2>2, <4>1, <4>2
      <3> QED BY <1>1, <1>4, <1>5, <2>2, <3>1, HeldStays DEF Held, GrowInv
    <2> QED BY <2>1, <2>2
  <1>6. ASSUME UNCHANGED tool, tool = Nil \/ UNCHANGED rows \/ WriteUnit
        PROVE  Held(tool)'
    <2>1. CASE tool = Nil
      BY <1>6, <2>1 DEF Held
    <2>2. CASE tool # Nil
      <3>1. \A d \in Days, u \in Units :
              d = tool.date /\ d \notin shared => rows'[d][u] = rows[d][u]
        <4>1. CASE UNCHANGED rows
          BY <4>1
        <4>2. CASE WriteUnit
          <5>1. job \in Builds /\ job # Nil /\ job.unit \in Units
            BY <1>4, <4>2 DEF WriteUnit, Builds
          <5>2. \A d \in Days, u \in Units : d # job.date => rows'[d][u] = rows[d][u]
            BY <4>2, <5>1, WriteGrows DEF WriteUnit, GrowInv
          <5> QED BY <2>2, <5>1, <5>2 DEF GrowInv
        <4> QED BY <1>6, <2>2, <4>1, <4>2
      <3> QED BY <1>1, <1>4, <1>6, <2>2, <3>1, HeldStays DEF Held, GrowInv
    <2> QED BY <2>1, <2>2
  <1>7. ASSUME NEW u \in Units, ReadUnit(u)
        PROVE  GrowInv'
    <2>1. /\ job \in Builds /\ u \in job.left /\ job' = Reading(job, u)
          /\ UNCHANGED <<observed, rows, tool, shared>>
      BY <1>4, <1>7 DEF ReadUnit, IsNext
    <2>2. /\ job'.date = job.date /\ job'.unit = u /\ job.date \in Days
          /\ job'.seen # Nil => job'.seen = observed[job.date][u]
      <3>1. observed \in [Days -> [Units -> Counts]]
        BY DEF TypeOK
      <3>2. job.date \in Days
        BY <2>1 DEF Builds
      <3> QED BY <2>1, <3>1, <3>2, ReadingType
    <2>3. rows[job.date][u] \in Values /\ observed[job.date][u] \in Counts
      BY <2>2, CellTypes
    <2>4. Older(rows[job.date][u], observed[job.date][u])
      BY <2>2, <2>3 DEF Older, GrowInv, Counts
    <2>5. Held(job)'
      BY <2>1, <2>2, <2>3, <2>4 DEF Held, Counts
    <2>6. Held(tool)' /\ Separate'
      BY <1>6, <1>7, <2>1, <2>2 DEF GrowInv, ReadUnit
    <2> QED BY <1>2, <1>3, <2>5, <2>6 DEF GrowInv
  <1>8. ASSUME NEW u \in Units, ToolReads(u)
        PROVE  GrowInv'
    <2>1. /\ tool \in Builds /\ u \in tool.left /\ tool' = Reading(tool, u)
          /\ UNCHANGED <<observed, rows, job, shared>>
      BY <1>4, <1>8 DEF ToolReads, IsNext, rollup
    <2>2. /\ tool'.date = tool.date /\ tool'.unit = u /\ tool.date \in Days
          /\ tool'.seen # Nil => tool'.seen = observed[tool.date][u]
      <3>1. observed \in [Days -> [Units -> Counts]]
        BY DEF TypeOK
      <3>2. tool.date \in Days
        BY <2>1 DEF Builds
      <3> QED BY <2>1, <3>1, <3>2, ReadingType
    <2>3. rows[tool.date][u] \in Values /\ observed[tool.date][u] \in Counts
      BY <2>2, CellTypes
    <2>4. Older(rows[tool.date][u], observed[tool.date][u])
      BY <2>2, <2>3 DEF Older, GrowInv, Counts
    <2>5. Held(tool)'
      BY <2>1, <2>2, <2>3, <2>4 DEF Held, Counts
    <2>6. Held(job)' /\ Separate'
      BY <1>5, <1>8, <2>1, <2>2 DEF GrowInv, ToolReads
    <2> QED BY <1>2, <1>3, <2>5, <2>6 DEF GrowInv
  <1>9. CASE WriteUnit
    <2>1. /\ job \in Builds /\ job.unit # Nil /\ job' = Written(job)
          /\ UNCHANGED <<tool, shared>>
      BY <1>4, <1>9 DEF WriteUnit
    <2>2. job' # Nil => job'.date = job.date /\ job'.unit = Nil
      BY <2>1, WrittenType
    <2>3. Held(job)' /\ Separate'
      BY <1>9, <2>1, <2>2 DEF Held, GrowInv, WriteUnit
    <2> QED BY <1>2, <1>3, <1>6, <1>9, <2>1, <2>3 DEF GrowInv
  <1>10. CASE ToolWrites
    <2>1. /\ tool \in Builds /\ tool.unit # Nil /\ tool' = Written(tool)
          /\ UNCHANGED <<job, shared>>
      BY <1>4, <1>10 DEF ToolWrites, rollup
    <2>2. tool' # Nil => tool'.date = tool.date /\ tool'.unit = Nil
      BY <2>1, WrittenType
    <2>3. Held(tool)' /\ Separate'
      BY <1>10, <2>1, <2>2 DEF Held, GrowInv, ToolWrites
    <2> QED BY <1>2, <1>3, <1>5, <1>10, <2>1, <2>3 DEF GrowInv
  <1>11. ASSUME NEW d \in Days, job' = Build(d), Overlap(d, tool),
                UNCHANGED <<rows, tool>>
         PROVE  GrowInv'
    <2>1. job' # Nil => job'.date = d /\ job'.unit = Nil
      BY <1>11, BuildType
    <2>2. Held(job)' /\ Separate'
      BY <1>11, <2>1 DEF Held, Overlap
    <2> QED BY <1>2, <1>3, <1>6, <1>11, <2>2 DEF GrowInv
  <1>12. ASSUME NEW d \in Days, ToolStarts(d)
         PROVE  GrowInv'
    <2>1. /\ tool' # Nil => tool'.date = d /\ tool'.unit = Nil
          /\ UNCHANGED <<rows, job>>
      BY <1>12, BuildType DEF ToolStarts, rollup
    <2>2. Held(tool)' /\ Separate'
      BY <1>12, <2>1 DEF Held, Overlap, ToolStarts
    <2> QED BY <1>2, <1>3, <1>5, <2>1, <2>2 DEF GrowInv
  <1>13. CASE UNCHANGED <<rows, tool, shared>> /\ (UNCHANGED job \/ job' = Nil)
    <2>1. Held(job)'
      BY <1>5, <1>13 DEF Held
    <2>2. Separate'
      BY <1>13 DEF GrowInv
    <2> QED BY <1>2, <1>3, <1>6, <1>13, <2>1, <2>2 DEF GrowInv
  <1>14. CASE ToolEnds
    <2>1. Held(tool)' /\ Separate'
      BY <1>14 DEF ToolEnds, Held
    <2> QED BY <1>2, <1>3, <1>5, <1>14, <2>1 DEF GrowInv, ToolEnds, rollup
  <1>15. ASSUME NEW d \in Days, Backfill(d)
         PROVE  GrowInv'
    BY <1>11, <1>15 DEF Backfill
  <1>16. CASE RebuildToday
    BY <1>11, <1>16 DEF RebuildToday, TypeOK
  <1> QED BY <1>7, <1>8, <1>9, <1>10, <1>12, <1>13, <1>14, <1>15, <1>16
          DEF Next, Rollup, Tool, Fails, Start, Scan, ScanFails, BuildFails, Ask,
              Fill, FillFails, Age, Observe, Rollover, Derive, Exit, vars, rollup

\* Neither a row nor what is shown of it is replaced by an older one, unless
\* builds of its date overlapped.
THEOREM NeverBack == Spec => NeverGoesBack
  <1>1. Init => TypeOK /\ GrowInv
    BY InitType DEF Init, GrowInv, Held, NoRows, Older
  <1>2. TypeOK /\ GrowInv /\ [Next]_vars => TypeOK' /\ GrowInv'
    BY StepType, StepGrow
  <1>3. ASSUME TypeOK, GrowInv, [Next]_vars, NEW d \in Days \ shared', NEW u \in Units
        PROVE  /\ Older(rows[d][u], rows'[d][u])
               /\ pc' # "down" => Older(shown[d][u], shown'[d][u])
    <2>1. Older(rows[d][u], rows'[d][u])
      BY <1>3, RowsGrowStep DEF RowsGrow
    <2>2. /\ Older(shown[d][u], rows[d][u]) /\ Older(shown[d][u], shown[d][u])
      BY <1>3, SharedStep, CellTypes, OlderOrder DEF GrowInv
    <2>3. CASE UNCHANGED shown
      BY <2>1, <2>2, <2>3
    <2>4. CASE Fill \/ FillFails
      <3>1. PICK cells : shown' = Stored(cells)
        BY <2>4 DEF Fill, FillFails
      <3> QED BY <2>1, <2>2, <3>1, StoredOld
    <2>5. CASE Exit
      BY <2>1, <2>5 DEF Exit
    <2> QED BY <1>3, <2>3, <2>4, <2>5
            DEF Next, Rollup, Tool, Fails, Start, Scan, ScanFails, Backfill,
                RebuildToday, ReadUnit, WriteUnit, BuildFails, ToolStarts, ToolReads,
                ToolWrites, ToolEnds, Ask, Age, Observe, Rollover, Derive, vars, cache
  <1>4. TypeOK /\ GrowInv /\ [Next]_vars =>
          [\A d \in Days \ shared', u \in Units :
             /\ Older(rows[d][u], rows'[d][u])
             /\ pc' # "down" => Older(shown[d][u], shown'[d][u])]_vars
    BY <1>3
  <1> QED BY <1>1, <1>2, <1>4, PTL DEF Spec, NeverGoesBack
=============================================================================
