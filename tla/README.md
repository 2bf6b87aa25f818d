# ThunderCitizen in TLA+

This directory keeps a formal model of ThunderCitizen beside its code: TLA+
modules translated from the Go source, TLC configurations that check them on
small instances, and proofs that TLAPS checks for every instance. Paths below
are relative to the repository.

    tlasany M.tla                        parse a module
    tlc -config X.cfg M                  run a check (the runs are listed below)
    tlapm MProofs.tla                    check the proofs of a module

## The system

ThunderCitizen is one Go process with a PostgreSQL database. It records Thunder
Bay's bus feeds and serves pages about transit, council votes and the budget.
Around it are operator commands that publish signed data and refresh files.

| Component | State it keeps | Operations | Talks to |
|---|---|---|---|
| Vehicle tracker (`internal/transit/vehicle_tracker.go`) | `activeVisits`, previous state of every bus, sweep counter, lazily loaded caches; tables `vehicle`, `vehicle_assignment`, `stop_visit` | one poll of the vehicle feed, every few seconds | called by the recorder; reads the derived route patterns |
| Feed recorder (`recorder.go`, `client.go`) | three poll loops, stats, its copy of the trips; tables `feed_state`, `feed_gap`, `stop_delay`, `cancellation`, alerts | poll vehicles, trips, alerts; reload trips | upstream GTFS-realtime; `TripCache`; signal from the refresher |
| GTFS refresher (`gtfs_loader.go`, `derive.go`, `trip_cache.go`, `fetchgtfs.go`) | `static/transit/gtfs` on disk, the `gtfs.*` staging tables, the `transit.*` entity tables, the stored hash | check every four hours: download, compare, extract, stage, derive, signal, save | the city's zip; the recorder; the `fetcher` command writes the same directory |
| Vehicle stream (`vehicle_stream.go`, `handler.go`) | `current`, `ts`, the subscribers' channels | poll, sleep and wake, broadcast; subscribe, forward, unsubscribe | upstream feed; browsers over SSE |
| Chunk rollup and caches (`chunk*.go`, `cache.go`, `repo_cache.go`) | table `route_band_chunk`; in-memory days and slots | backfill at start, rebuild today every ten minutes, lazy loads | event tables; the metric pages |
| Trip planner (`raptor.go`, `reporting.go`) | the day's timetable | plan, plan by arrival | entity tables |
| Chunk metrics (`chunk/`, `recipes/`) | none | KPI formulas over counts and sums | rollup, pages |
| Data packs (`internal/muni`, `cmd/muni`, `applyMuniBundle` in `cmd/server/main.go`) | `data_patch_log`, `muni_packs`, `muni_dev_cache`, the datasets' tables, a status | publish; once per boot: gate, load, verify, apply each dataset, register packs | object storage; `internal/munisign` |
| Signatures and trust (`internal/munisign`, `keys/`) | approved and revoked keys | hash a tree, sign, verify | the loader |
| Council archive (`internal/council`, `cmd/summarize`, `cmd/fetcher/votes.go`) | PDFs, meetings, motions, vote records, summaries file, `votes_2022.json` | list, download, parse, save, summarise, export, import, write the term's votes | eSCRIBE; an LLM; the operator's SQL |
| Budget ledger (`internal/budget`) | none | sums and checks over the ledger | pages |
| Request metrics, health (`internal/system`) | counters, histogram | observe, read | every request |
| Web shell and views | none | routing, caching headers, rendering | everything above |

### What is hard about it

* **Several writers of shared data.** The refresher and the `fetcher` command
  both write `static/transit/gtfs`; two buses reported on one trip share a visit
  (its key has no vehicle in it); a stream's payload is stored under one lock and
  sent under another.
* **Failures that are logged and survived.** A database batch of the tracker, a
  dataset of a bundle, a step of the GTFS check: the code goes on, and what it
  has half done must not be lost or shown as done.
* **Crashes.** Visits under way live in memory only, the GTFS hash is saved after
  the tables are committed, packs are registered after their datasets.
* **Time.** The service date changes at 4 AM in the middle of a poll, feeds go
  silent or back, the night pauses the stream, and a cached day is taken for final
  from the moment the date changes.
* **Signals that coalesce or come too early**, channels that drop when full.
* **Re-reading what was read before:** a bundle that comes back, a dataset whose
  checksum changed, a PDF parsed again.

`PROJECT.json` lists every such hazard with its line and the properties that
look for it; a hazard without a property says why none covers it.

### What makes each component correct

* Tracker: an open row is a visit the process still follows; a visit has its row,
  a row's bus its assignment; exits do not precede entries; a quiet visit is
  finalized. A row is written by its first sighting and closed once.
* Packs: what the log says was applied was loaded; a pack shown without an error
  has its datasets; a boot that skips has nothing to do; a bundle that stays
  published is applied in the end, if the server is restarted.
* GTFS: the entity tables hold one whole bundle whatever fails; a bundle taken
  for unchanged is the one loaded; the recorder's trips follow; the last bundle
  is reached.
* Stream: nobody is sent an older payload after a newer one; nobody who was not
  passed by is behind; the night is announced; a closed channel is never sent to.
* Chunks and caches: no recent day whose routes are listed is left without chunks; a chunk and its page
  never return to an older value; what is marked as loaded is what the table has;
  today's observations are shown in the end.
* Recorder: what `feed_state` claims is stored; the gaps are the holes; a delay
  has the context of a catalog that knew its trip, and never goes back.
* Archive: a meeting's rows are one reading of its minutes; a summary stays with
  its agenda item; what a person set stays; the file has what the table has.
* Planner: each label is a journey and leads back to the origin, each itinerary can
  be ridden, no journey is earlier, and a good way is offered. Trust: nothing signed by a revoked key verifies.

## Plan

| Order | Modules | State |
|---|---|---|
| 1 | `VisitTracker`, abstract `VisitLog`, `VisitTrackerProofs` | written, checked, proved |
| 2 | `MuniApply`, abstract `MuniStore`, `MuniApplyProofs` | written, checked, proved |
| 3 | `GtfsReload`, abstract `GtfsTimetable`, `GtfsReloadProofs` | written, checked, proved |
| 4 | `VehicleStream`, `VehicleStreamProofs` | written, checked, proved |
| 5 | `ChunkDays`, `ChunkDaysProofs`: rollup, backfill, operator's command and day cache together, one wall clock | written, checked, proved |
| 6 | `FeedRecorder`, `FeedRecorderProofs`: the three poll loops' bookkeeping: notices, delays, `feed_state`, gaps, stats | written, checked, proved |
| 7 | `CouncilArchive`, `CouncilArchiveProofs`: fetcher, summarizer, import and export over the motions' indexes | written, checked, proved |
| 8 | `TripPlanner`, `TripPlans`, `TripPlannerProofs`: the planner's rounds and its list of itineraries against a search of all journeys | written, checked, proved |

The generic caches, the publisher with its keys, the chunk metrics and the request
histogram were considered last and are left out, for the reasons under "What is not
modelled".

## The modules

Each module starts with a comment that draws its control flow; every action names
a branch of the code, and the `map` in `PROJECT.json` gives the lines.

### VisitTracker: `processPositions`

One poll is fetch, caches, vehicles, assignments, detection, inserts, updates,
sweep. `pc` walks through these steps; detection, done under the tracker's lock,
is one action; every database batch is an action that succeeds or fails, since the
code logs and goes on. `visits` is `activeVisits`, `prev` the last state of each
bus, `rows` the `stop_visit` table with its real primary key `(trip, stop)`, and
`Rollover` advances the service date between any two steps: the code reads it once
for the visits and again for the assignments. `Restart` drops the memory. The
geometry is three relations (a fix near a stop, a move that grazes the circle, a
move that crosses it), so the checks do not depend on a metric. The history
variables `abandoned` and `unrecorded` remember which rows a restart or a failed
batch cut off; properties excuse those and nothing else.

`VisitLog` is the promise of the table alone: a row is inserted by a first
sighting, gets one exit, and nothing is rewritten. `LogSpec` is its
specification under the mapping `rows <- rows`.

### MuniApply: `applyMuniBundle` and `Apply`

A boot passes a gate (production: checked less than a day ago; development: the
hash of `BOD.tsv`), loads a bundle, applies the datasets in BOD order, one
transaction each, then upserts the packs and marks the check. A checksum is the
content that it is the hash of. Upserts respect foreign keys: a row whose parent
row is missing fails its whole dataset. The vote plugin inserts by a join, which
drops such rows instead. The server may be stopped between any two steps, and the
publisher may put a newer bundle (versions only grow) at any time. In a
development boot (`localDev`, chosen at the start) the files are read one by one from
`data/muni` after `ParseBOD` has hashed them; that window is not distinguished. A commit whose
answer is lost is not modelled either. `applyMuniBundle` runs once in a process, so a step that
fails is tried again only after a restart. The test that the last entry of
a dataset in `data_patch_log` is an "apply" (`apply.go:79`) is left out: nothing writes any
other action.

`MuniStore` is the database as a reader of the audit log knows it: a log entry
and the rows that it stands for come together, and a checksum is not logged twice
in a row.

### GtfsReload: `CheckAndReload`

Three processes: the refresher (one check at boot, then one per tick), the
recorder's reload loop, and the operator's fetcher. Extraction writes file by
file, and a file is torn between its creation and its last byte. Staging and
derivation are two transactions, then the signal (a channel of one place), then
the saved hash. Each step may fail, and the server may exit at any of them. The
rows of a table are named by the bundle they came from. The history variables
`raced` and `tainted` remember whether the fetcher wrote into the running check,
and into the one that the entity tables came from.

`GtfsTimetable` is what the riders' pages may rely on: the entity tables hold one
whole bundle, then a newer one, and the recorder's copy never goes back.

### VehicleStream: `VehicleStream.Start` and `vehiclesSSE`

The poller's `current` and its broadcast are separate steps (`mu`, then `subMu`);
a handler writes `current`, then subscribes, then forwards. Channels hold
`Buffer` payloads and drop when full. Night and morning are the clock's. A
payload carries the number of its publication, so that "older" has a meaning.
Which vehicles are in a payload, the keep-alive comments, and the copy of the feed
for the predictions page (`currentRaw`, `RawFeed`) are left out.

### ChunkDays: `ChunkRollup`, `BuildChunksForDate`, `ChunkCache`

The rollup's goroutine (`pc`, `missing`, `job`), the operator's `chunks` command
(`tool`) and the cache (`fill`, `loaded`, `shown`) work on one table, `rows`. A
build reads the observations of one route and band and writes its row in a later
step; it ends with the last unit, or fails at any. A row is the number of
observations that it was built from; a recipe's arithmetic is left out. The cache's
lock is one `fill` at a time; its select reads the table at one instant, and one
that breaks off leaves some cells stored and nothing marked. A cache entry ages by
`Age`, a 30-second timer without a clock. `Rollover` may change the service date
between any two steps, and an observation queued before it may arrive after it.
`Calendars` is what each GTFS bundle lists for a date: `Derive` replaces the calendar by
the newest bundle's, a build takes its routes from it when it starts (`Listed`), and one
that finds none ends at once, without an error and without a row. A unit gets a row if
its route has a delay on the date, in whatever band, or the unit has cancellations: the
service kind, and with it the scheduled trips, are known from a delay only (`Reading`).
The operator may ask for any date. The history variables: `owed`, `failed` and `unlisted`
are what the backfill looked at, gave up, and was given no observed route for; `shared`
the dates on which two builds overlapped; `dirty` the loaded dates written since.
`EarliestDate` and the live `ChunkDetail` are not modelled.

### FeedRecorder: `Recorder`

Three poll loops (vehicles, trips, alerts) and the reload loop. A poll is fetch,
notices (cancellations or alerts), rows (delays, looked up one by one in a catalog
that may be replaced in between), gap check, state; any of them may fail. A failed
insert of notices ends the poll; failed delays, and a failed gap check, are logged and
the poll goes on. A stop update without an arrival and a departure delay is stored as a
row with two NULLs, as the client and the recorder do; entities without an id are passed
over; of two updates of one stop in a feed each delay that one of them has is stored, as
COALESCE does whichever comes last. A feed is a timestamp with what it says, and may be
served again or go back. The history variables `seen`, `unlogged`, `wentBack` and
`owed` remember what the state was, which gap checks failed, and what was served
last. The rows of vehicles are in `VisitTracker`; one service date and one stop per
trip are enough here, since a row's key is all that two entities share.

### CouncilArchive: `FetchVotes`, `Store`, `cmd/summarize`

The fetcher lists, downloads, reads and saves meetings, loads the summaries file and
writes `votes_2022.json`; the operator's summarizer asks and is answered minutes
later, tags rows, dumps the summaries, and rebuilds the database; the city corrects
minutes. A PDF is good, torn or missing; what the parser makes of one is one of the
`Readings` of the minutes, a sequence of motions. Rows are keyed by index, so a
new reading is laid over the old rows. `ExportVotes`, which writes the vote tables as TSV
and changes none of them, is left out. `shifted` remembers the meetings whose
rows were laid over other motions.

### TripPlanner and TripPlans: `Plan` and `extractResults`

`TripPlanner` is the loop: walks to the first stops, then rounds of scans and walks,
with `tauStar`, `tauPrev`, `tauCurr` and the labels. Where the code ranges over a map,
any order may happen. `TripPlans` is a function of the labels: the way back, its
legs, the five filters and what an itinerary shows.

Times and distances are whole numbers of a unit (the code's second and its metre, or
finer): `Minute` and `Day` units of time, `Metre` units of distance, `Pace` units of
distance walked in a unit of time. Walks between stops are those of `MaxWalk` or less
(400 m), timed by `realWalkSec` (`FootOf`). The conversions are those of the code: labels are
exact; an itinerary takes the last ride's arrival cut to the minute and of the day
(`fmtTime`), adds the minutes of the walk after it, merged from distances that were rounded
to metres one by one (`mergeWalkLegs`, `walkMin`), leaves out a last walk of 10 m or less, wraps
once more, and divides towards zero as Go does (`Itinerary`, `LastWalk`, `Shown`, `InMinutes`).

The reference is a function of the question alone, which knows nothing of routes, marks
or labels but boards every trip. `Free` is a walker whom no distance is too long, with at
most k rides. `Soonest` is the traveller: a walk of 400 m or less to the first ride, and
from a ride on, to the next or to the end, where that ride is ahead of such a walker with
one ride less. The planner is held to it on days on which no trip comes to a stop twice
(`Straight`) and the trips of a direction have the same stops and none overtakes another
(`Fifo`). What is assumed of places is that distances obey the triangle inequality, and
that a stop that was asked for is where the traveller goes (`PlacesAssumption`). The
journeys are of trips of one service day.

## The runs

"Violation" runs each show one disagreement between the code and what a comment
or doc of the repository says of it; `PROJECT.json` quotes the line.

| Run | Config | States | Shows |
|---|---|---|---|
| tracker | `VisitTracker.cfg` | 1.8 M | two buses on one trip, restarts, failed INSERT and UPDATE batches: types, tracked rows, ordered times, refinement of `VisitLog` |
| tracker_live | `VisitTrackerLive.cfg` | 0.2 M | one bus on two trips, lost trips, routes and fixes, failed caches, the date changing between any two steps: visits keep their rows and buses their assignments; a quiet visit is swept or resumed |
| muni | `MuniApply.cfg` | 61 k | three bundles and crashes, production with every fault and development: green packs, a skipped boot has nothing to do, refinement of `MuniStore`, convergence in production under an operator who keeps restarting |
| muni_lost_votes | `MuniLostVotes.cfg` | | violation: votes dropped by the join are logged as applied |
| gtfs | `GtfsReload.cfg` | 0.7 M | three bundles, each step failing, exits: one whole bundle, sound short-circuit, following cache, refinement of `GtfsTimetable`, the last bundle is reached |
| gtfs_tool | `GtfsTool.cfg` | 0.3 M | the fetcher beside the server: only a check into which it wrote leaves mixed tables |
| gtfs_dropped | `GtfsDropped.cfg` | | violation: a file that the new bundle lacks is staged again |
| stream | `VehicleStream.cfg` | 0.2 M | two browsers, slow and quick, night and day: nobody goes back, nobody is behind unless passed by, the night is shown |
| chunks | `ChunkDays.cfg` | 0.5 M | two dates, a route in two bands, a bundle that forgets the first date, a rollup, an operator, a cache, failures, restarts: the backfill leaves out no date whose routes are listed, nothing goes back unless builds overlapped, the cache is the table where it says so, today is shown |
| recorder | `FeedRecorder.cfg` | 0.8 M | three feeds, a changing catalog, every failure, a crash: state claims what is stored, gaps are the holes, rows have context and delays do not go back, what the feeds say is stored in the end |
| council | `CouncilArchive.cfg` | 0.7 M | corrected, torn and missing minutes, a summarizer that answers late, tags, files and a rebuilt database: rows are one reading, summaries keep to their item, curation stays, the file follows the table |
| planner | `TripPlanner.cfg` | 78 k | every day of four small towns, every order of the loops: labels are journeys and lead back to the origin, itineraries can be ridden and show when they end, no journey is earlier, a good way is offered |

### Other disagreements met while modelling

These have no run; each is a few lines of the code against a line of a doc or comment.

* The tracker returns on an empty feed before it counts towards the sweep
  (`vehicle_tracker.go:184`), so a feed that stays empty keeps quiet visits open,
  although the comment on `staleVisitTimeout` covers "feed dropped". `LiveSpec`
  therefore assumes a feed that is not empty for ever.
* A bus whose trip goes through nil keeps the visits of its old trip until the
  sweep: the change is seen from "" to the new trip, for which line 222 does nothing.
* An exit does not move `observed_at` to the midpoint as migration 4 says.
* `CouncilVotesPlugin.Apply` keeps a vote that a newer signed bundle corrects
  (`plugins.go:219`). A drifted checksum is applied again, not an error as
  `docs/development.md:81` says.
* `main.go:291` keeps the interval of the bundle check "short enough to pick up new
  publications within a day", but the check is made once per boot (`main.go:76`): a
  server that stays up never sees them. `Converges` therefore asks for restarts.
* A development boot in which a dataset failed keeps the `BOD.tsv` hash all the
  same, and later boots skip the dataset (`main.go:336`).
* If the tables are committed, `SetGTFSVersion` fails and the city then takes
  the bundle back, the stored hash matches and the newer tables stay
  (`gtfs_loader.go:513`). Theorems that need it assume `Forward`.
* After a race with the fetcher the server saves the hash of its own download,
  so mixed tables stay until the next bundle is loaded.
* The reload loop subscribes in its goroutine, so a reload during the first
  moments of the process is not heard (`recorder.go:180`); `CacheFollowsTier`
  excuses it by name.
* In the morning, while the feed still has the timestamp of the evening, polls
  return early and the map stays asleep (`vehicle_stream.go:231`).
* `chunk_cache.go:35` calls historical data immutable, but a day's last rebuild is up
  to ten minutes before its end, late observations come after it, and the backfill
  or the operator may write a past date that the cache keeps as it was read. The
  rollup itself never builds yesterday unless it restarts and finds no chunk.
* A date with a single chunk counts as present (`chunk_rollup.go:131`), so the rest of
  a date whose build was cut off is not back-filled; `BackfillLeavesNone` counts as
  the code does.
* `chunk.go:127` has `AllRouteMeta` return "every route that ran on that date", but it joins
  `service_calendar`, which each bundle empties and fills with its own services
  (`derive.go:37`): a past date may list no route or few, and the build then writes nothing
  and returns no error. `BackfillLeavesNone` excuses a date for which no observed route was listed.
* `recipes/service_kind.go:16` says that the orchestrator writes "a zero bottle" for a
  route without observations, so that the read path can tell it from one never
  computed; without cancellations `BuildChunk` returns nil (`chunk.go:63`) and there is no row.
* `EarliestDate` keeps an answer that failed, or came before the first chunk, for ever
  (`chunk_cache.go:139`).
* `cmd/fetcher/chunks.go:16` says that pages fall through to live builds for dates
  that are not rolled up; `chunk_cache.go:41` says that the cache does not build,
  and it does not.
* Two overlapping builds of a date may leave the older one's row (`chunk.go:145`),
  though `chunk_rollup.go:16` calls running them alongside safe; for today the
  next tick repairs it.

* A visit of a trip that ran on an earlier date gets no row: the INSERT conflicts on
  (trip, stop) (`vehicle_tracker.go:488`, the key of the table), while
  `docs/transit.md:310` gives the table the key "(date, trip_id, stop_id) PK".
* A browser that reads `Current` before the sleep is stored and subscribes after its
  broadcast, or whose channel is full, shows buses all night: `vehicle_stream.go:16`
  says that the sleep "is sent to SSE clients when service is not running".
* Recorder: a crash between gap and state leaves two overlapping gaps, (a, b) and
  (a, c); a failed gap check is logged and the poll goes on (`recorder.go:235`), so the
  state jumps over a gap that no row tells of.
* Council: `writeVotesJSON` slices the first four bytes of a term's label, which is
  empty for a meeting before the first term (`fetch.go:228`, `scrape.go:165`): a
  crash of the command after the database was written.
* `store.go:27` preserves a "manually set significance", but an answer to a row without a
  summary overwrites it, and so does a reading that moves the rows.
* `docs/council.md:44` keys summaries by meeting and agenda item; the rows are keyed
  by index, and several motions of one item share what the file says.
* A PDF that exists is never fetched again, torn or corrected (`scrape.go:135`); a
  reading that fails trims the meeting's motions; an empty answer is a summary.
* Planner: `fmtTime` wraps at midnight, and the duration, the ranking and the
  filters then work with a negative number of minutes. `raptor.go:368` and
  `docs/transit.md:215` call the result Pareto-optimal: trips of a direction with other
  stops than the first one, or that overtake, are boarded late or never, the
  stop that was asked for hides a faster one, and filters drop optimal options. The
  duration is of a time cut to the minute and of walks rounded up, so ways within a minute
  of each other may be ranked the wrong way round.
  `stopIdx` keeps the last visit of a stop, so on a loop a ride can go backwards.
* Planner, without `Fifo`: the way back looks for the stop where a ride boards in the round
  before it only (`raptor.go:811`), while the ride boards by a time that an earlier round
  may have set. Where a direction has trips with other stops, the label is nil, the
  way back ends there, and an itinerary is offered that starts with a walk of any
  length from the origin, although `docs/transit.md:205` says "400m (~5 min)".
  `LabelsLeadBack` proves that only trips with other stops, or that overtake, do this.
* Planner: only stops that a round improved are walked on from (`raptor.go:536`), and a walk
  is one of 400 m. Who rides to a stop that can be reached on foot as early, over walks in
  between that the planner does not take again, and walks on from there, has a way that
  is not found; it may be the only one, although `docs/transit.md:203` says "optimal bus
  routes between any two points". The reference therefore walks on only from rides that
  are ahead of whoever walks any distance and rides once less.
* The stay-on hint is never shown, next departures name cancelled trips, and a
  cancellation is looked for in the newest feed only (`repo.go:577`).
* The planner's timetable is not dropped when a bundle is loaded (`raptor.go:241`), nor
  are the tracker's caches (`vehicle_tracker.go:118`).

### Bounds, and why they suffice

* Tracker: two buses, one trip and stop (or one bus and two trips), a road of
  three fixes on which a bus can arrive, dwell, leave, graze and turn back; two
  timestamps with a stale timeout of one; two service dates; a sweep on every
  first or second poll. A visit's key is (date, trip, stop), so two visits interact
  only through one key or one bus, and both cases are there.
* Packs: four datasets cover a parent, a child, a joined grandchild and an
  unrelated one; three bundles cover a correction, an orphan and its repair; rows
  have two keys and two values.
* GTFS: two files and three bundles, so that a table can mix, a hash can be two
  bundles old and a file can be missing from the middle one.
* Stream: two clients, a channel of two places (three in the code: full is full),
  two timestamps, one night. The history counter of publications is bounded by
  timestamps and nights.
* Chunks: two dates, so that a build, a select or an observation crosses the change; one
  route in two bands, of which the morning is observed, once, so that a row is missing,
  empty or full and the evening's depends on the morning's delay; a second bundle whose
  calendar starts with the second date; an operator who asks for the first. Selects
  that cover loaded dates in between need three dates, and a date of which some routes
  are listed two routes: `CacheCorrect` and `BackfillComplete` have them.
* Recorder: six scenarios, each naming the feeds that speak, the faults that may happen
  and the catalogs: a trip feed of three timestamps, more than the threshold apart or
  not, with two trips of which the first catalog lacks one, updated with an arrival, a
  departure or neither, twice in a feed, or without an id; an alert feed; all loops
  with a crash. The loops share only the catalog, so every fault meets its own kind.
* Council: minutes with two motions of one item and a third before them once corrected,
  a meeting of the same date, one before the term; five scenarios name what may fail
  and who acts, since the fetcher runs to its end while others act between its steps.
* Planner: four stops, three directions, up to two trips of each, three rounds (four in
  the code) and journeys of three rides; two units of time in a minute, so that seconds
  are dropped, and a day of 18 units, so that the last trips end after midnight. The four
  towns lie along a road, so distances add up: stops too far apart to walk, three within
  reach one after the other but not the first from the last, where walks meet the
  cut-off, and walks that replace an earlier label of their round. The days without
  overtaking, short trips or loops are held to the reference; the others, which `Straight`
  and `Fifo` excuse there, are what the labels and the way back are checked on.
* Packs: datasets of a development boot do not fail by chance, only by foreign keys.
* `Faults` in each module names the kinds of fault that a run allows, so that a
  run can ask one question; the union of the runs allows all of them.

### Fairness

* Tracker: weak fairness of the poll loop, a goroutine on a timer that never
  exits while the server runs. `LiveSpec` adds that the feed is not empty for
  ever.
* Packs: weak fairness of a boot that has begun and of the clock; strong fairness of a
  successful load and of a dataset's successful commit: failures are not permanent; and from
  some time on a boot is not killed half way (a server killed in every boot applies
  nothing). Stops and boots are the operator's and have no fairness: `Converges` says what
  happens if there are boots again and again, since nothing in the program makes one.
* GTFS: weak fairness of boot, ticks, the check and the reload loop; from some
  time on no step fails and the process is not ended.
* Stream: weak fairness of the poller (a ticker) and of each handler's loop; not of
  clients arriving or leaving, nor of the night's end.
* Chunks: weak fairness of the rollup's goroutine (a ticker), of a request that
  holds the lock and of the 30 seconds; strong fairness of requests for today, since
  a page that nobody opens shows nothing; from some time on nothing fails. A build
  fails only while it reads, so that its failure is not also a finished write.

* Recorder: weak fairness of each poll loop and of the reload loop (tickers); from
  some time on nothing fails and the process is not ended.

The council's commands and the planner run once and end; nothing is claimed to happen
in them eventually. No fairness is asked of the world otherwise: publications, nights, buses and operators.

## What is proved

`VisitTrackerProofs`, for every fleet, network, geometry, feed and set of faults:
`Invariance` (the inductive invariant), and from it type correctness, tracked
rows, recorded visits, assigned buses, ordered times, and the refinement of
`VisitLog`. The checked properties speak of the moment between two polls; inside a
poll a queued exit is a visit already forgotten, so the invariant carries the
queues: what is still to be inserted or updated, which of it belongs to this
poll's date, and that a queued exit is never before its entry.

`MuniApplyProofs`, for every set of datasets, packs, bundles and faults: type
correctness, `GreenPacksApplied`, and the refinement of `MuniStore`. The
strengthening says of each dataset of the current bundle that it is still to do,
or failed and its pack is marked, or logged; a registered pack needs it when
the packs are upserted. `SkipIsSafe`: the kept hash lets no development boot skip work,
from the order of the boots (`DevInv`): the files only move on, the hash is of files
that were loaded no later than now, and each of their datasets is logged or failed.

`GtfsReloadProofs`: type correctness and `CacheFollows` for all bundles and
faults; `OneBundle` under `Complete` (every bundle has every file, since the
extraction does not delete), whatever the fetcher does; `UnchangedCurrent` and
the refinement of `GtfsTimetable` also under `Forward` (no fetcher, and the city
does not take a bundle back). The invariant relates the copy on disk to the
download unless the fetcher raced with it, and orders hash, tier, cache and
upstream.

`ChunkDaysProofs`, for every number of dates, units and observations, every timetable,
window and choice of faults: type correctness; `BackfillComplete`, from the
invariant that an owed date waits its turn, is built with a unit still to be
written whose route was observed, is done, failed, or was given no observed route by the calendar; `CacheCorrect`, which needs that a shown row
exists in the table, because a select does not clear what it does not find;
`NeverBack`, which needs that a build on its own holds at least what its row has,
and that the table is never behind the page.

`VehicleStreamProofs`, for every number of browsers, channel size, feed and night: type
correctness, and with it that no registered channel is closed; `BehindIfMissed`, from what a
browser was greeted with before it subscribed (`Greeted`); `NeverBack`, from the numbers
of publications, which grow along every channel (`Ordered`).

`FeedRecorderProofs`, for all feeds, catalogs and faults: type correctness;
`NoticesFirst`, from the invariant that a poll which has passed its notices has stored
them (`PastNotices`); `GapsComplete`, from one that says where a poll stands between the
check of a gap and the state that closes it (`GapInv`). `RowsInContext`: a row of
`stop_delay` has the context of a catalog that knew its trip and is of a stop update that
a feed carried, with a delay or without, and a delay in it is one that a feed said; the invariant keeps, for a poll
under way, in which catalog each of its rows was looked up, and that the copy is never
ahead of the catalog. `DelaysForwardOnly`, an action property: as long as the feed does
not go back, nothing that is stored or held by a poll is later than what the feed
says (`DelaysForward`, on top of `GapInv`). They need one assumption on the constants,
`NilAssumption`: no row is `Nil`.

`CouncilArchiveProofs`, for all meetings, readings, files and faults: type correctness,
`OneReading` and `SummariesKeepItem`. The invariant says the same of what the fetcher
carries between parse and save, of what the summarizer was asked, and of the file.
`JsonIsTable`: the file written last has what the table has, since the motions a fetch
loads to write it are those of the table until it writes them (`TableOfFetch`).
`CurationStays`, an action property: from the invariant that no tag of a person is the
routine one.

`TripPlannerProofs`, for every timetable, question, number of rounds and order of the
loops: type correctness and `LabelsTellJourneys`. In the middle of a round the arrays
and labels of this round and the one before hold different things: `Told` says which label tells the time of which array, `Aboard` what is known of the trip that a scan
rides on; that times only fall keeps a label true when the label before it is replaced.

`NoJourneyIsEarlier` is the optimality of the planner: when it stops, in whichever order
its loops ran, and whether it used all its rounds or ran out of marked stops, no journey
of `Soonest` is at any stop earlier. Two invariants carry it. `EarlyInv` says that no ride is
missed: a trip that could be caught by a time of the round before, and brings a rider
somewhere earlier, is of a route that is not yet scanned, or boards past the scan
(`Exhausted`, `Scanned`), and the trip that the scan rides on is the first that can be caught
so far (`Riding`); `Straight` and `Fifo` make one ride along a route as good as all its trips.
`SoonInv` says that the rounds keep up: a round starts from times that no journey of fewer
rides is before (`OnTime`), and where a ride of the reference pays, the stop has still to be
walked from or was (`WalkedOn`; `Footed` for the walk to the first ride). A ride that pays
ends at a stop that the round improves and marks, because no label is ahead of `Free` (`NotAhead`,
`FreePrev`): that is where the triangle inequality comes in, and the only place where a
journey that the 400 m cut-off hides would break it. That the recursions of the
reference have a solution is proved from the smallest round that would lack one.

`LabelsLeadBack` is what `reconstructPath` relies on. The walks of a round never form a
circle, for any timetable, or its loop would not end: a stop is walked to before it is
walked from, or never walked to again (`WalksLeadBack`). And a ride boards where the round
before has a label in time: a trip that an older time could board was boarded in an older
round (`RidesFollowOn`, from `Exhausted`).

`ItinerariesRidable` goes on from there to whole itineraries. A way back is defined by
recursion over labels, so first that it exists: from any set of places one leads out of it
(`SomeEnds`, from the smallest round and `WalksLeadBack`), so the places where partial
solutions stop are none (`WayExists`), and `WayIs` unfolds it. By the same lemma the way
back from every label can be gone (`WaysCanBeGone`): its legs join, each ride waits for
the rider, and it is there no later than its label says, earlier if a label on the way was
replaced while the ones behind it were not. What the itinerary shows is of a time less than
a minute and the slack of its walks from that: the last arrival loses its seconds (`ShownTime`,
which needs `SameDay`, without which `fmtTime` wraps), and the walk after it is rounded up to
a minute from distances each rounded to the metre, which costs at most two units a leg
(`ShownWalks`, from `Metre <= 2 * Pace`: a metre takes 0.83 s) and a last walk too short
to show (`ShownLastWalk`).

`GoodWaysOffered` needs both: a stop that a ride reaches first has a label with the first
time, in the round that reached it (`ReachedFirst`), and `Goals` are the stops where a ride
is ahead of all who walk, so the round that finds one is as early as the reference
(`RoundIsEarly`, `ParetoFirst`). The property then follows that round through the filters: it is
among `Pareto`; if its itinerary is not dropped for a route that is left and taken again
(`Preferred`, the code's own rule at `raptor.go:647`, and the one condition the theorem
leaves), rounds have different numbers of rides, so none passes for another (`NoneTaken`),
and one that saves less than `Saving` over the first of the list is replaced by the first
(`Offered`), in the minutes that are shown, whatever was rounded and also past midnight. It assumes
that `Saving` is not zero (`PlansAssumption`; ten minutes at `raptor.go:687`).

### Only model-checked

All liveness (`StaleVisitSwept`, `Converges`, `CatchesUp`, `NightIsShown`, `TodayIsShown`,
`NoticesAreStored`), since fairness and ENABLED are beyond the prover. Every safety
property that a run checks is stated by a theorem.

## What is not modelled

The generated GTFS-realtime code, the views and templates, the web shell, the
operator's generators, TSV and PDF text parsing beyond its control, and PostgreSQL
itself (a transaction commits or not). The process is single: two servers on one
database are not considered. The `last_seen` times of `transit.vehicle` are
abstracted to the set of known ids.

Left out with a reason each: signatures and keys (functions of a file; the
loader takes what verifies), the publisher (one operator, nothing beside it),
chunk metrics, the request histogram and the budget ledger (sums without state), the
generic caches (one value with a time to live). Of the modelled parts: the
recorder's vehicle positions as rows, later service dates, and the wording of
alerts; the summaries of meetings, labels and media links of the council; the
planner's arrive-by search, next departures, hint and timetable cache.
