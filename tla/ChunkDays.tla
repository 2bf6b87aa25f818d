------------------------------ MODULE ChunkDays ------------------------------
(***************************************************************************)
(* The metrics of a service day on their way from the recorder to a page:  *)
(* ChunkRollup in internal/transit/chunk_rollup.go, BuildChunksForDate in  *)
(* chunk.go, the fetcher's chunks command, and ChunkCache in               *)
(* chunk_cache.go.                                                         *)
(*                                                                         *)
(*   stop_delay --(rollup: backfill once, then today, again and again;     *)
(*                 fetcher: any date)--> route_band_chunk                  *)
(*   route_band_chunk --(a day at a time, on demand)--> cache              *)
(*                                                                         *)
(* A builder reads the observations of one route and band and then writes  *)
(* its row, a unit at a time, and may fail or time out at any unit.  The   *)
(* service date may change between any two steps, and a new GTFS bundle     *)
(* replaces the calendar by which a build lists its routes.  The contents  *)
(* of a row are modelled by the number of delays that it was built from.   *)
(***************************************************************************)
EXTENDS Integers, Sequences, FiniteSets

CONSTANTS
  Units,       \* a route in a band: one row of route_band_chunk per date
  RouteOf,     \* RouteOf[u]: its route
  Place,       \* Place[u]: where it comes in a build
  LastDay,     \* bound: service dates
  Calendars,   \* Calendars[n]: <<date, route>> with service within three days,
               \* in the calendar of GTFS bundle n
  Cancelled,   \* <<date, unit>> with cancellations, so that a row is written
               \* even without delays
  Window,      \* backfillDays
  MaxObserved, \* bound: MaxObserved[u]: delays of a unit on a date
  Asked,       \* bound: the dates that the operator asks to build
  Faults,      \* bound: the kinds of fault that may happen
  Nil          \* no row, no unit, no build, no select

Days   == 1..LastDay
Routes == {RouteOf[u] : u \in Units}
Counts == Nat
Values == Counts \cup {Nil}
Builds == [date : Days, left : (SUBSET Units) \ {{}}, unit : Units \cup {Nil},
           seen : Values]

ASSUME ChunkAssumption ==
  /\ Units # {}
  /\ DOMAIN RouteOf = Units
  /\ Place \in [Units -> Nat]
  /\ LastDay \in Nat \ {0}
  /\ Calendars \in Seq(SUBSET (Days \X Routes))
  /\ Calendars # <<>>
  /\ Cancelled \subseteq Days \X Units
  /\ Window \in Nat
  /\ Asked \subseteq Days
  /\ MaxObserved \in [Units -> Nat]
  /\ Nil \notin Units \cup Int
  /\ Nil \notin Builds

VARIABLES
  today,    \* ServiceDate
  bundle,   \* the GTFS bundle that service_calendar is derived from
  observed, \* observed[d][u]: rows of stop_delay
  rows,     \* rows[d][u]: what the chunk was built from, or Nil
  \* the rollup
  pc,       \* where its goroutine is
  missing,  \* dates that the backfill has still to build
  job,      \* its build of a date, or Nil
  owed,     \* history: dates with observations when this backfill looked
  failed,   \* history: those whose build failed
  unlisted, \* history: those whose build was given none of the routes observed
  \* the operator
  tool,     \* the fetcher's build of a date, or Nil
  shared,   \* history: dates that were built twice at the same time
  \* the cache
  fill,     \* the dates that a request under the lock selects, or Nil
  loaded,   \* dates marked as loaded
  fresh,    \* those marked within the last 30 seconds (not of days that are over)
  shown,    \* shown[d][u]: the cached row, or Nil
  dirty     \* history: loaded dates with rows written after they were read

excuses == <<failed, unlisted>>
rollup  == <<pc, missing, job, owed, excuses>>
cache   == <<fill, loaded, fresh, shown>>
events  == <<bundle, observed>>
vars    == <<today, events, rows, rollup, tool, shared, cache, dirty>>

NoRows == [d \in Days |-> [u \in Units |-> Nil]]

Init ==
  /\ today = 1
  /\ bundle = 1
  /\ observed = [d \in Days |-> [u \in Units |-> 0]]
  /\ rows = NoRows
  /\ pc = "down"
  /\ missing = {}
  /\ job = Nil
  /\ owed = {}
  /\ failed = {}
  /\ unlisted = {}
  /\ tool = Nil
  /\ shared = {}
  /\ fill = Nil
  /\ loaded = {}
  /\ fresh = {}
  /\ shown = NoRows
  /\ dirty = {}

-----------------------------------------------------------------------------
(* BuildChunksForDate: one build, by the rollup or by the fetcher.         *)

\* AllRouteMeta: the routes of the calendar, of which a bundle has no more than
\* it was published with: a past date may have none.
Listed(d) == {u \in Units : <<d, RouteOf[u]>> \in Calendars[bundle]}

\* With no route there is nothing to build, and no error.
Build(d) ==
  IF Listed(d) = {} THEN Nil
  ELSE [date |-> d, left |-> Listed(d), unit |-> Nil, seen |-> Nil]

\* Has the route a delay on the date, in whatever band?  The service kind, and
\* with it the scheduled trips of the unit, are known from a delay only.
RouteSeen(d, u) == \E v \in Units : RouteOf[v] = RouteOf[u] /\ observed[d][v] > 0

\* Mutant: the recipes read the current date's.
ReadingToday(b, u) == [b EXCEPT !.unit = u, !.seen = observed[today][u]]

\* The recipes read the delays of the unit on the date.  A unit without
\* cancellations, of a route without delays, has no chunk.
Reading(b, u) ==
  [b EXCEPT !.unit = u,
            !.seen = IF RouteSeen(b.date, u) \/ <<b.date, u>> \in Cancelled
                     THEN observed[b.date][u] ELSE Nil]

\* The routes in their order, and each route's bands in theirs.
IsNext(b, u) == u \in b.left /\ \A v \in b.left : Place[u] <= Place[v]

\* The build ends with its last unit.
Written(b) ==
  IF b.left = {b.unit} THEN Nil
  ELSE [b EXCEPT !.left = @ \ {b.unit}, !.unit = Nil, !.seen = Nil]

\* The upsert overwrites the row with what was read.
Upsert(b) ==
  rows' = IF b.seen = Nil THEN rows ELSE [rows EXCEPT ![b.date][b.unit] = b.seen]

Unread(b) == dirty' = dirty \cup ({b.date} \cap loaded)

Overlap(d, other) ==
  shared' = shared \cup (IF other # Nil /\ other.date = d THEN {d} ELSE {})

-----------------------------------------------------------------------------
(* ChunkRollup.run.                                                        *)

Start ==
  /\ pc = "down"
  /\ pc' = "scan"
  /\ UNCHANGED <<today, events, rows, missing, job, owed, excuses, tool, shared,
                 cache, dirty>>

HasObservations(d) == \E u \in Units : observed[d][u] > 0

HasRow(d) == \E u \in Units : rows[d][u] # Nil

\* Mutant: the window ends with today, which rebuildToday owns.
WindowWithToday == {d \in Days : today - Window <= d /\ d <= today}

\* Mutant: yesterday is left to rebuildToday as well.
WindowToYesterday == {d \in Days : today - Window <= d /\ d < today - 1}

BackfillWindow == {d \in Days : today - Window <= d /\ d < today}

\* findMissingDates: the dates with observations and without a single row.  What
\* is owed is spelled out apart from the code's window.
Scan ==
  /\ pc = "scan"
  /\ pc' = "backfill"
  /\ missing' = {d \in BackfillWindow : HasObservations(d) /\ ~HasRow(d)}
  /\ owed' = {d \in Days : today - Window <= d /\ d < today /\ HasObservations(d)}
  /\ failed' = {}
  /\ unlisted' = {}
  /\ UNCHANGED <<today, events, rows, job, tool, shared, cache, dirty>>

\* A failed scan is logged; the rollup goes on with today.
ScanFails ==
  /\ pc = "scan"
  /\ "build" \in Faults
  /\ pc' = "backfill"
  /\ UNCHANGED <<today, events, rows, missing, job, owed, excuses, tool, shared,
                 cache, dirty>>

\* The missing dates, oldest first.
Backfill(d) ==
  /\ pc = "backfill"
  /\ job = Nil
  /\ d \in missing
  /\ \A e \in missing : d <= e
  /\ missing' = missing \ {d}
  /\ job' = Build(d)
  /\ unlisted' = IF \E u \in Listed(d) : RouteSeen(d, u) THEN unlisted
                                                        ELSE unlisted \cup {d}
  /\ Overlap(d, tool)
  /\ UNCHANGED <<today, events, rows, pc, owed, failed, tool, cache, dirty>>

Backfilled == pc = "backfill" /\ job = Nil /\ missing = {}

\* rebuildToday, right after the backfill and then with every tick.
RebuildToday ==
  /\ Backfilled \/ pc = "wait"
  /\ job' = Build(today)
  /\ pc' = IF job' = Nil THEN "wait" ELSE "today"
  /\ owed' = {}
  /\ failed' = {}
  /\ unlisted' = {}
  /\ Overlap(today, tool)
  /\ UNCHANGED <<today, events, rows, missing, tool, cache, dirty>>

AfterBuild == IF pc = "today" THEN "wait" ELSE pc

ReadUnit(u) ==
  /\ job # Nil
  /\ job.unit = Nil
  /\ IsNext(job, u)
  /\ job' = Reading(job, u)
  /\ UNCHANGED <<today, events, rows, pc, missing, owed, excuses, tool, shared,
                 cache, dirty>>

WriteUnit ==
  /\ job # Nil
  /\ job.unit # Nil
  /\ Upsert(job)
  /\ Unread(job)
  /\ job' = Written(job)
  /\ pc' = IF job' = Nil THEN AfterBuild ELSE pc
  /\ UNCHANGED <<today, events, missing, owed, excuses, tool, shared, cache>>

\* An error or the two minutes' limit: the rest of the date is given up.  (What
\* was read and not yet written is as if it had not been read.)
BuildFails ==
  /\ job # Nil
  /\ job.unit = Nil
  /\ "build" \in Faults
  /\ job' = Nil
  /\ pc' = AfterBuild
  /\ failed' = failed \cup (IF pc = "backfill" THEN {job.date} ELSE {})
  /\ UNCHANGED <<today, events, rows, missing, owed, unlisted, tool, shared, cache,
                 dirty>>

-----------------------------------------------------------------------------
(* The fetcher's chunks command, on a date of the operator's choice.       *)

ToolStarts(d) ==
  /\ "tool" \in Faults
  /\ d \in Asked
  /\ tool = Nil
  /\ tool' = Build(d)
  /\ Overlap(d, job)
  /\ UNCHANGED <<today, events, rows, rollup, cache, dirty>>

ToolReads(u) ==
  /\ tool # Nil
  /\ tool.unit = Nil
  /\ IsNext(tool, u)
  /\ tool' = Reading(tool, u)
  /\ UNCHANGED <<today, events, rows, rollup, shared, cache, dirty>>

ToolWrites ==
  /\ tool # Nil
  /\ tool.unit # Nil
  /\ Upsert(tool)
  /\ Unread(tool)
  /\ tool' = Written(tool)
  /\ UNCHANGED <<today, events, rollup, shared, cache>>

\* It fails or is interrupted.
ToolEnds ==
  /\ tool # Nil
  /\ tool' = Nil
  /\ UNCHANGED <<today, events, rows, rollup, shared, cache, dirty>>

-----------------------------------------------------------------------------
(* ChunkCache.                                                             *)

\* Mutant: what is loaded once is never selected again.
StaleNever(d) == FALSE

\* Today refreshes after 30 seconds, other dates never.
Stale(d) == d = today /\ d \notin fresh

\* fillLocked finds the dates to select; the request holds the lock.
Ask(from, to) ==
  /\ pc # "down"
  /\ fill = Nil
  /\ from <= to
  /\ fill' = {d \in from..to : d \notin loaded \/ Stale(d)}
  /\ fill' # {}
  /\ UNCHANGED <<today, events, rows, rollup, tool, shared, loaded, fresh, shown, dirty>>

\* Mutant: the last date is left out of the range.
SelectedBefore ==
  {d \in Days : (\E e \in fill : e <= d) /\ (\E e \in fill : d < e)}

\* One SELECT from the first missing date to the last.
Selected ==
  {d \in Days : (\E e \in fill : e <= d) /\ (\E e \in fill : d <= e)}

\* Rows are stored over the cached ones; a key without a row stays.
Stored(cells) ==
  [d \in Days |-> [u \in Units |-> IF <<d, u>> \in cells /\ rows[d][u] # Nil
                                   THEN rows[d][u] ELSE shown[d][u]]]

Fill ==
  /\ fill # Nil
  /\ shown' = Stored(Selected \X Units)
  /\ loaded' = loaded \cup fill
  /\ fresh' = fresh \cup {d \in fill : d >= today}
  /\ dirty' = dirty \ Selected
  /\ fill' = Nil
  /\ UNCHANGED <<today, events, rows, rollup, tool, shared>>

\* The rows that came before the error are stored, the dates not marked.
FillFails ==
  /\ fill # Nil
  /\ "read" \in Faults
  /\ \E cells \in SUBSET (Selected \X Units) : shown' = Stored(cells)
  /\ fill' = Nil
  /\ UNCHANGED <<today, events, rows, rollup, tool, shared, loaded, fresh,
                 dirty>>

Age(d) ==
  /\ d \in fresh
  /\ fresh' = fresh \ {d}
  /\ UNCHANGED <<today, events, rows, rollup, tool, shared, fill, loaded, shown, dirty>>

-----------------------------------------------------------------------------
(* The world.                                                              *)

\* The recorder's upsert of a delay, under the service date that it read
\* when it queued its batch: the day may be over when the batch runs.
Observe(d, u) ==
  /\ pc # "down"
  /\ d = today \/ d = today - 1
  /\ observed[d][u] < MaxObserved[u]
  /\ observed' = [observed EXCEPT ![d][u] = @ + 1]
  /\ UNCHANGED <<today, bundle, rows, rollup, tool, shared, cache, dirty>>

Rollover ==
  /\ today < LastDay
  /\ today' = today + 1
  /\ fresh' = fresh \ {today}
  /\ UNCHANGED <<events, rows, rollup, tool, shared, fill, loaded, shown, dirty>>

\* A new GTFS bundle: service_calendar is emptied and filled from it.
Derive ==
  /\ bundle < Len(Calendars)
  /\ bundle' = bundle + 1
  /\ UNCHANGED <<today, observed, rows, rollup, tool, shared, cache, dirty>>

\* The server stops or is killed; the tables and the fetcher stay.
Exit ==
  /\ pc # "down"
  /\ "exit" \in Faults
  /\ pc' = "down"
  /\ missing' = {}
  /\ job' = Nil
  /\ owed' = {}
  /\ failed' = {}
  /\ unlisted' = {}
  /\ fill' = Nil
  /\ loaded' = {}
  /\ fresh' = {}
  /\ shown' = NoRows
  /\ dirty' = {}
  /\ UNCHANGED <<today, events, rows, tool, shared>>

Rollup ==
  \/ Start
  \/ Scan
  \/ \E d \in Days : Backfill(d)
  \/ RebuildToday
  \/ \E u \in Units : ReadUnit(u)
  \/ WriteUnit

Tool ==
  \/ \E d \in Days : ToolStarts(d)
  \/ \E u \in Units : ToolReads(u)
  \/ ToolWrites
  \/ ToolEnds

Fails == ScanFails \/ BuildFails \/ FillFails \/ Exit

Next ==
  \/ Rollup
  \/ Tool
  \/ Fails
  \/ \E from, to \in Days : Ask(from, to)
  \/ Fill
  \/ \E d \in Days : Age(d)
  \/ \E d \in Days, u \in Units : Observe(d, u)
  \/ Rollover
  \/ Derive

Spec == Init /\ [][Next]_vars

-----------------------------------------------------------------------------
(* Properties.                                                             *)

TypeOK ==
  /\ today \in Days
  /\ bundle \in DOMAIN Calendars
  /\ observed \in [Days -> [Units -> Counts]]
  /\ rows \in [Days -> [Units -> Values]]
  /\ pc \in {"down", "scan", "backfill", "today", "wait"}
  /\ missing \subseteq 1..(today - 1)
  /\ job \in Builds \cup {Nil}
  /\ job # Nil => pc = "today" \/ (pc = "backfill" /\ job.date < today)
  /\ missing # {} => pc = "backfill"
  /\ job # Nil /\ job.unit # Nil => job.unit \in job.left
  /\ owed \subseteq Days
  /\ failed \subseteq Days
  /\ unlisted \subseteq Days
  /\ tool \in Builds \cup {Nil}
  /\ tool # Nil /\ tool.unit # Nil => tool.unit \in tool.left
  /\ shared \subseteq Days
  /\ fill \in (SUBSET Days) \cup {Nil}
  /\ loaded \subseteq Days
  /\ fresh \subseteq loaded
  /\ shown \in [Days -> [Units -> Values]]
  /\ dirty \subseteq loaded

\* When the rollup turns from the backfill to today, every date of the window
\* that had delays when it looked has chunks, unless its build failed or the
\* calendar of the day had none of the routes observed on it: though the dates
\* are built one after the other while the operator writes, the day may end and
\* the calendar be replaced (chunk_rollup.go:99, chunk.go:130).
BackfillLeavesNone ==
  [][pc = "backfill" /\ pc' \in {"today", "wait"} =>
       \A d \in owed : HasRow(d) \/ d \in failed \/ d \in unlisted]_vars

Older(a, b) == a = Nil \/ (b # Nil /\ a <= b)

\* Neither a chunk nor what a page shows of it is ever replaced by one built
\* from fewer observations, unless two builds of its date overlapped.  Only
\* the end of the process empties the cache.
NeverGoesBack ==
  [][\A d \in Days \ shared', u \in Units :
       /\ Older(rows[d][u], rows'[d][u])
       /\ pc' # "down" => Older(shown[d][u], shown'[d][u])]_vars

\* The cache has the rows of every date marked as loaded, as long as none of
\* them was written since: also when the select covered dates in between, or
\* broke off.
CacheIsTable ==
  \A d \in loaded \ dirty : shown[d] = rows[d]

-----------------------------------------------------------------------------
(* Liveness: the rollup's goroutine and ticker go on, pages of today are   *)
(* asked for again and again, and from some time on nothing fails.         *)

FairSpec ==
  /\ Spec
  /\ WF_vars(Rollup)
  /\ WF_vars(Fill)
  /\ WF_vars(Age(today))
  /\ SF_vars(Ask(today, today))
  /\ <>[][~Fails]_vars

\* What was observed on a day that goes on is shown in the end, of the routes
\* that the calendar has.
TodayIsShown ==
  \A d \in Days :
    <>[](today = d) =>
      <>[](\A u \in Listed(d) : observed[d][u] > 0 => shown[d][u] = observed[d][u])
=============================================================================
