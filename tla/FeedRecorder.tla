---------------------------- MODULE FeedRecorder ----------------------------
(***************************************************************************)
(* The recorder: internal/transit/recorder.go with the parsed feeds of     *)
(* client.go, the trip cache of trip_cache.go and the feed rows of repo.go.*)
(*                                                                         *)
(* Three loops poll the vehicle, trip and alert feeds.  A poll stores what *)
(* must not be lost (cancellations, alerts: an error ends the poll), then  *)
(* what may be (positions, delays: an error is logged), updates the        *)
(* statistics, looks for a gap since the last timestamp and remembers its  *)
(* own.  Every step may be cut short by a crash.                           *)
(*                                                                         *)
(* A feed is its header timestamp and the set of things it says; positions *)
(* are left out, the vehicle tracker that the vehicle loop calls is the    *)
(* module VisitTracker, a trip has one stop, which a feed may update more  *)
(* than once.                                                              *)
(***************************************************************************)
EXTENDS Integers, FiniteSets

CONSTANTS
  Feeds,       \* the loops that run
  Items,       \* trips and alerts
  Stamps,      \* Stamps[f]: the header timestamps of feed f
  Contents,    \* Contents[f]: what feed f may say
  Catalog,     \* Catalog[v]: the trips of version v of trip_catalog
  Interval,    \* seconds between two polls
  MaxCrashes,  \* bound: crashes of the process
  Scenarios,   \* bounds: feeds that speak, faults that may happen, catalogs
  Nil          \* no row

Versions == DOMAIN Catalog
Times == UNION {Stamps[f] : f \in Feeds}

\* One thing that a feed says of a trip or alert: an update of the trip's stop
\* with the delays it has (both, one or none), that the trip is canceled or
\* deleted, that there is an alert, or what the client passes over, for it has
\* no id of the trip, route, stop or alert.
Entities == [item : Items, is : {"update", "canceled", "alert", "unread"},
             arrival : BOOLEAN, departure : BOOLEAN]

ASSUME RecorderAssumption ==
  /\ Feeds \subseteq {"vehicles", "trips", "alerts"}
  /\ "trips" \in Feeds
  /\ Stamps \in [Feeds -> SUBSET (Nat \ {0})]
  /\ Contents \in [Feeds -> SUBSET SUBSET Entities]
  /\ Versions \subseteq Nat
  /\ 0 \in Versions
  /\ Catalog \in [Versions -> SUBSET Items]
  /\ Catalog[0] = {}
  /\ Interval \in Nat
  /\ MaxCrashes \in Nat
  /\ Scenarios \subseteq [feeds : SUBSET Feeds, faults : SUBSET STRING,
                           versions : Versions]

ASSUME NilAssumption ==
  Nil \notin [arrival : Nat, departure : Nat, version : Versions]

\* A row of stop_delay: the feeds that its two delays are from (0: NULL) and
\* the version of the catalog that its context was copied from.
Row(arrival, departure, version) ==
  [arrival |-> arrival, departure |-> departure, version |-> version]

VARIABLES
  scenario,  \* one of Scenarios, for good
  \* upstream
  upstream,  \* upstream[f]: the timestamp served, 0 before the first
  content,   \* content[f][t]: what the feed of timestamp t says
  published, \* published[f]: the timestamps so far
  wentBack,  \* history: feeds that served an older timestamp
  \* the refresher
  catalog,   \* the version of trip_catalog
  signal,    \* has a reload been signalled to the recorder?
  \* memory
  running,   \* is the process up?
  crashes,   \* crashes so far
  pc,        \* pc[f]: where the loop of f is
  held,      \* held[f]: the timestamp of the feed it holds
  stats,     \* stats[f]: the last feed recorded, and was the last poll an error?
  cache,     \* the version of the catalog in the trip cache
  shown,     \* lastTripFeed, 0 when nil
  todo,      \* delays to look up
  batch,     \* delay rows to write
  \* tables
  stored,    \* cancellation and alert
  rows,      \* stop_delay, by trip
  last,      \* feed_state
  gaps,      \* feed_gap
  seen,      \* history: timestamps that feed_state has had
  unlogged   \* history: gaps whose check failed

world  == <<scenario, upstream, content, published, wentBack>>
memory == <<pc, held, stats, shown, todo, batch>>
tables == <<stored, rows, last, gaps, seen, unlogged>>
vars   == <<world, catalog, signal, running, crashes, cache, memory, tables>>

NoStats == [at |-> 0, error |-> FALSE]

Init ==
  /\ scenario \in Scenarios
  /\ upstream = [f \in Feeds |-> 0]
  /\ content = [f \in Feeds |-> [t \in Times |-> {}]]
  /\ published = [f \in Feeds |-> {}]
  /\ wentBack = {}
  /\ catalog = 0
  /\ signal = FALSE
  /\ running = FALSE
  /\ crashes = 0
  /\ pc = [f \in Feeds |-> "idle"]
  /\ held = [f \in Feeds |-> 0]
  /\ stats = [f \in Feeds |-> NoStats]
  /\ cache = 0
  /\ shown = 0
  /\ todo = {}
  /\ batch = {}
  /\ stored = [f \in Feeds |-> {}]
  /\ rows = [i \in Items |-> Nil]
  /\ last = [f \in Feeds |-> 0]
  /\ gaps = [f \in Feeds |-> {}]
  /\ seen = [f \in Feeds |-> {}]
  /\ unlogged = [f \in Feeds |-> {}]

-----------------------------------------------------------------------------
(* What the client makes of a feed.                                        *)

\* FetchTrips takes a canceled or deleted trip for a cancellation and leaves
\* its stop updates out; FetchAlerts takes every alert that has an id.
Notices(feed) == {e.item : e \in {d \in feed : d.is \in {"canceled", "alert"}}}

\* Every update of a stop, also one without a delay.
Delays(feed) == {e \in feed : e.is = "update"}

-----------------------------------------------------------------------------
(* Upstream and the refresher.                                             *)

Publish(f, t, feed) ==
  /\ f \in scenario.feeds
  /\ \A s \in published[f] : s < t
  /\ published' = [published EXCEPT ![f] = @ \cup {t}]
  /\ upstream' = [upstream EXCEPT ![f] = t]
  /\ content' = [content EXCEPT ![f][t] = feed]
  /\ UNCHANGED <<scenario, wentBack, catalog, signal, running, crashes, cache,
                 memory, tables>>

\* A replica serves what was served before.
ServeAgain(f, t) ==
  /\ "older" \in scenario.faults
  /\ t \in published[f]
  /\ upstream' = [upstream EXCEPT ![f] = t]
  /\ wentBack' = IF t < upstream[f] THEN wentBack \cup {f} ELSE wentBack
  /\ UNCHANGED <<scenario, content, published, catalog, signal, running, crashes, cache,
                 memory, tables>>

NewCatalog ==
  /\ catalog + 1 \in Versions
  /\ catalog < scenario.versions
  /\ catalog' = catalog + 1
  /\ signal' = running
  /\ UNCHANGED <<world, running, crashes, cache, memory, tables>>

-----------------------------------------------------------------------------
(* The process and its trip cache.                                         *)

\* An initial load that fails is logged; the cache stays empty.
Start ==
  /\ ~running
  /\ running' = TRUE
  /\ \/ cache' = catalog
     \/ "reload" \in scenario.faults /\ cache' = 0
  /\ UNCHANGED <<world, catalog, signal, crashes, memory, tables>>

Crash ==
  /\ running
  /\ crashes < MaxCrashes
  /\ crashes' = crashes + 1
  /\ running' = FALSE
  /\ signal' = FALSE
  /\ cache' = 0
  /\ pc' = [f \in Feeds |-> "idle"]
  /\ held' = [f \in Feeds |-> 0]
  /\ stats' = [f \in Feeds |-> NoStats]
  /\ shown' = 0
  /\ todo' = {}
  /\ batch' = {}
  /\ UNCHANGED <<world, catalog, tables>>

ReloadTrips ==
  /\ signal
  /\ signal' = FALSE
  /\ cache' = catalog
  /\ UNCHANGED <<world, catalog, running, crashes, memory, tables>>

ReloadFails ==
  /\ signal
  /\ "reload" \in scenario.faults
  /\ signal' = FALSE
  /\ UNCHANGED <<world, catalog, running, crashes, cache, memory, tables>>

-----------------------------------------------------------------------------
(* One poll of feed f.                                                     *)

\* Mutant: a feed that was fetched before is not worth another poll.
FetchNew(f) ==
  /\ running
  /\ pc[f] = "idle"
  /\ upstream[f] # 0
  /\ f = "trips" => upstream[f] # shown
  /\ held' = [held EXCEPT ![f] = upstream[f]]
  /\ shown' = IF f = "trips" THEN upstream[f] ELSE shown
  /\ pc' = [pc EXCEPT ![f] = "notices"]
  /\ UNCHANGED <<world, catalog, signal, running, crashes, cache, stats, todo,
                 batch, tables>>

\* The raw trip feed is published before anything of it is stored.
Fetch(f) ==
  /\ running
  /\ pc[f] = "idle"
  /\ upstream[f] # 0
  /\ held' = [held EXCEPT ![f] = upstream[f]]
  /\ shown' = IF f = "trips" THEN upstream[f] ELSE shown
  /\ pc' = [pc EXCEPT ![f] = "notices"]
  /\ UNCHANGED <<world, catalog, signal, running, crashes, cache, stats, todo,
                 batch, tables>>

\* The end of fetchAndRecord when record returned an error.
Abort(f) ==
  /\ stats' = [stats EXCEPT ![f].error = TRUE]
  /\ held' = [held EXCEPT ![f] = 0]
  /\ pc' = [pc EXCEPT ![f] = "idle"]

FetchFails(f) ==
  /\ running
  /\ pc[f] = "idle"
  /\ "fetch" \in scenario.faults
  /\ Abort(f)
  /\ UNCHANGED <<world, catalog, signal, running, crashes, cache, shown, todo,
                 batch, tables>>

\* A cancellation copies its context from the trip cache, or has none.
Context(item) == IF item \in Catalog[cache] THEN cache ELSE 0

\* ON CONFLICT (id, feed_timestamp) DO NOTHING.
Inserted(f) ==
  {[item |-> i, at |-> held[f], version |-> IF f = "trips" THEN Context(i) ELSE 0] :
     i \in {j \in Notices(content[f][held[f]]) :
              \A n \in stored[f] : ~(n.item = j /\ n.at = held[f])}}

StoreNotices(f) ==
  /\ pc[f] = "notices"
  /\ stored' = [stored EXCEPT ![f] = @ \cup Inserted(f)]
  /\ todo' = IF f = "trips" THEN Delays(content[f][held[f]]) ELSE todo
  /\ pc' = [pc EXCEPT ![f] = "rows"]
  /\ UNCHANGED <<world, catalog, signal, running, crashes, cache, held, stats,
                 shown, batch, rows, last, gaps, seen, unlogged>>

\* Mutant: the error is logged and the poll goes on, as for the delays.
NoticesSkipped(f) ==
  /\ pc[f] = "notices"
  /\ Notices(content[f][held[f]]) # {}
  /\ "notices" \in scenario.faults
  /\ todo' = IF f = "trips" THEN Delays(content[f][held[f]]) ELSE todo
  /\ pc' = [pc EXCEPT ![f] = "rows"]
  /\ UNCHANGED <<world, catalog, signal, running, crashes, cache, held, stats,
                 shown, batch, tables>>

NoticesFail(f) ==
  /\ pc[f] = "notices"
  /\ Notices(content[f][held[f]]) # {}
  /\ "notices" \in scenario.faults
  /\ Abort(f)
  /\ UNCHANGED <<world, catalog, signal, running, crashes, cache, shown, todo,
                 batch, tables>>

\* Mutant: an orphan is written with what context there is.
LookupAny(e) ==
  /\ pc["trips"] = "rows"
  /\ e \in todo
  /\ todo' = todo \ {e}
  /\ batch' = batch \cup {[entity |-> e, version |-> cache]}
  /\ UNCHANGED <<world, catalog, signal, running, crashes, cache, pc, held,
                 stats, shown, tables>>

\* An orphan is dropped.  A reload may come between two lookups.
Lookup(e) ==
  /\ pc["trips"] = "rows"
  /\ e \in todo
  /\ todo' = todo \ {e}
  /\ batch' = IF e.item \in Catalog[cache]
              THEN batch \cup {[entity |-> e, version |-> cache]}
              ELSE batch
  /\ UNCHANGED <<world, catalog, signal, running, crashes, cache, pc, held,
                 stats, shown, tables>>

\* Does one of the updates say this delay?
Any(of, delay) == \E b \in of : b.entity[delay]

\* The context of the update queued first: catalogs only grow during a poll.
FirstVersion(of) ==
  CHOOSE v \in {b.version : b \in of} : \A b \in of : v <= b.version

\* Mutant: EXCLUDED alone, without COALESCE.
OverwrittenRow(old, of, t) ==
  Row(IF Any(of, "arrival") THEN t ELSE 0,
      IF Any(of, "departure") THEN t ELSE 0,
      IF old = Nil THEN FirstVersion(of) ELSE old.version)

\* A row after the updates of the batch, one after the other.  ON CONFLICT DO
\* UPDATE keeps the context, and a delay that EXCLUDED lacks.
Coalesced(old, of, t) ==
  Row(IF Any(of, "arrival") THEN t ELSE IF old = Nil THEN 0 ELSE old.arrival,
      IF Any(of, "departure") THEN t ELSE IF old = Nil THEN 0 ELSE old.departure,
      IF old = Nil THEN FirstVersion(of) ELSE old.version)

\* record returns nil: the statistics are those of a success.
Succeed(f) ==
  /\ stats' = [stats EXCEPT ![f] = [at |-> held[f], error |-> FALSE]]
  /\ pc' = [pc EXCEPT ![f] = "gap"]
  /\ batch' = IF f = "trips" THEN {} ELSE batch

\* The end of record: trips write their batch of delays, vehicles their
\* positions (and the tracker its visits), alerts have nothing more.
StoreRows(f) ==
  /\ pc[f] = "rows"
  /\ f = "trips" => todo = {}
  /\ rows' = IF f # "trips" THEN rows
             ELSE [i \in Items |->
                     LET of == {b \in batch : b.entity.item = i} IN
                     IF of = {} THEN rows[i]
                     ELSE Coalesced(rows[i], of, held[f])]
  /\ Succeed(f)
  /\ UNCHANGED <<world, catalog, signal, running, crashes, cache, held, shown,
                 todo, stored, last, gaps, seen, unlogged>>

RowsFail(f) ==
  /\ pc[f] = "rows"
  /\ f = "trips" => todo = {} /\ batch # {}
  /\ "rows" \in scenario.faults
  /\ Succeed(f)
  /\ UNCHANGED <<world, catalog, signal, running, crashes, cache, held, shown,
                 todo, tables>>

-----------------------------------------------------------------------------
(* Gaps and feed_state.                                                    *)

GapThreshold == 3

\* checkAndRecordGap found more than three intervals since the last feed.
IsGap(f) == last[f] # 0 /\ held[f] - last[f] > GapThreshold * Interval

\* Mutant: the state is saved before the gap is looked for.
SaveStateFirst(f) ==
  /\ pc[f] = "gap"
  /\ last' = [last EXCEPT ![f] = held[f]]
  /\ seen' = [seen EXCEPT ![f] = @ \cup {held[f]}]
  /\ pc' = [pc EXCEPT ![f] = "state"]
  /\ UNCHANGED <<world, catalog, signal, running, crashes, cache, held, stats,
                 shown, todo, batch, stored, rows, gaps, unlogged>>

CheckGap(f) ==
  /\ pc[f] = "gap"
  /\ gaps' = [gaps EXCEPT ![f] =
                IF IsGap(f) THEN @ \cup {<<last[f], held[f]>>} ELSE @]
  /\ pc' = [pc EXCEPT ![f] = "state"]
  /\ UNCHANGED <<world, catalog, signal, running, crashes, cache, held, stats,
                 shown, todo, batch, stored, rows, last, seen, unlogged>>

\* An error of the read is taken for a first run, one of the insert is logged.
GapFails(f) ==
  /\ pc[f] = "gap"
  /\ IsGap(f)
  /\ "gap" \in scenario.faults
  /\ unlogged' = [unlogged EXCEPT ![f] = @ \cup {<<last[f], held[f]>>}]
  /\ pc' = [pc EXCEPT ![f] = "state"]
  /\ UNCHANGED <<world, catalog, signal, running, crashes, cache, held, stats,
                 shown, todo, batch, stored, rows, last, gaps, seen>>

SaveState(f) ==
  /\ pc[f] = "state"
  /\ last' = [last EXCEPT ![f] = held[f]]
  /\ seen' = [seen EXCEPT ![f] = @ \cup {held[f]}]
  /\ held' = [held EXCEPT ![f] = 0]
  /\ pc' = [pc EXCEPT ![f] = "idle"]
  /\ UNCHANGED <<world, catalog, signal, running, crashes, cache, stats, shown,
                 todo, batch, stored, rows, gaps, unlogged>>

SaveFails(f) ==
  /\ pc[f] = "state"
  /\ "state" \in scenario.faults
  /\ held' = [held EXCEPT ![f] = 0]
  /\ pc' = [pc EXCEPT ![f] = "idle"]
  /\ UNCHANGED <<world, catalog, signal, running, crashes, cache, stats, shown,
                 todo, batch, tables>>

-----------------------------------------------------------------------------
Poll(f) ==
  \/ Fetch(f) \/ StoreNotices(f) \/ StoreRows(f) \/ CheckGap(f) \/ SaveState(f)
  \/ f = "trips" /\ \E e \in todo : Lookup(e)

Fails(f) ==
  FetchFails(f) \/ NoticesFail(f) \/ RowsFail(f) \/ GapFails(f) \/ SaveFails(f)

Environment ==
  \/ \E f \in Feeds, t \in Times :
       /\ t \in Stamps[f]
       /\ (\E feed \in Contents[f] : Publish(f, t, feed)) \/ ServeAgain(f, t)
  \/ NewCatalog

Next ==
  \/ Environment
  \/ Start \/ Crash \/ ReloadTrips \/ ReloadFails
  \/ \E f \in Feeds : Poll(f) \/ Fails(f)

Spec == Init /\ [][Next]_vars

\* Every loop comes round again, a process that died is started again, and a
\* signal that waits is taken.
FairSpec ==
  /\ Spec
  /\ WF_vars(Start)
  /\ WF_vars(ReloadTrips)
  /\ \A f \in Feeds : WF_vars(Poll(f))

-----------------------------------------------------------------------------
(* Properties.                                                             *)

States == {"idle", "notices", "rows", "gap", "state"}

\* What the timestamps of a feed have to do with each other.
LoopOK(f) ==
  /\ published[f] \subseteq Stamps[f]
  /\ upstream[f] \in published[f] \cup {0}
  /\ pc[f] # "idle" => running /\ held[f] \in published[f]
  /\ stats[f].at \in published[f] \cup {0}
  /\ last[f] \in seen[f] \/ (last[f] = 0 /\ seen[f] = {})
  /\ seen[f] \subseteq published[f]

\* The tables and the memory hold what they are declared to hold; a loop that
\* is not idle holds a feed that was published.
TypeOK ==
  /\ scenario \in Scenarios
  /\ upstream \in [Feeds -> Nat]
  /\ published \in [Feeds -> SUBSET Nat]
  /\ wentBack \subseteq Feeds
  /\ content \in [Feeds -> [Times -> SUBSET Entities]]
  /\ {catalog, cache} \subseteq Versions
  /\ {signal, running} \subseteq BOOLEAN
  /\ crashes \in 0..MaxCrashes
  /\ pc \in [Feeds -> States]
  /\ held \in [Feeds -> Nat]
  /\ stats \in [Feeds -> [at : Nat, error : BOOLEAN]]
  /\ shown \in Nat
  /\ todo \subseteq Entities
  /\ batch \subseteq [entity : Entities, version : Versions]
  /\ stored \in [Feeds -> SUBSET [item : Items, at : Nat, version : Versions]]
  /\ rows \in [Items -> [arrival : Nat, departure : Nat, version : Versions]
                          \cup {Nil}]
  /\ last \in [Feeds -> Nat]
  /\ gaps \in [Feeds -> SUBSET (Nat \X Nat)]
  /\ unlogged \in [Feeds -> SUBSET (Nat \X Nat)]
  /\ seen \in [Feeds -> SUBSET Nat]
  /\ \A f \in Feeds : LoopOK(f)

IsStored(f, i, t) == \E n \in stored[f] : n.item = i /\ n.at = t

\* A feed that feed_state or the health page calls recorded has all its
\* cancellations or alerts in the table, whatever failed or crashed before:
\* recordTrips and recordAlerts return the error of that insert, and of that
\* one only (recorder.go:279, 313).
NoticesBeforeState ==
  \A f \in Feeds : \A t \in seen[f] \cup ({stats[f].at} \ {0}) :
    \A i \in Notices(content[f][t]) : IsStored(f, i, t)

\* Between two timestamps more than three intervals apart, with none in
\* between, feed_gap has a gap, or the check of that gap failed: also across
\* restarts, and when the feed went back and forth (recorder.go:472).
HoleIsRecorded(f) ==
  \A x, y \in Stamps[f] :
    (/\ y - x > GapThreshold * Interval
     /\ y <= last[f]
     /\ \E s \in seen[f] : s <= x
     /\ \A s \in seen[f] : ~(x < s /\ s < y))
    => \E g \in gaps[f] \cup unlogged[f] : g[1] <= x /\ y <= g[2]

\* A gap has no feed inside that feed_state ever had, unless the feed went
\* back in time, when the way forward is taken for a gap again.
GapIsHole(f) ==
  f \notin wentBack =>
    \A g \in gaps[f], s \in seen[f] : ~(g[1] < s /\ s < g[2])

\* feed_gap says where the recorder saw nothing, no less and no more.
GapsAreTheHoles == \A f \in Feeds : HoleIsRecorded(f) /\ GapIsHole(f)

\* The feed of timestamp t has updates of i: all, and those with this delay.
Updates(i, t) == {e \in content["trips"][t] : e.item = i /\ e.is = "update"}
Says(i, t, delay) == \E e \in Updates(i, t) : e[delay]

\* A row of stop_delay has the context of a catalog that knew its trip and is
\* of a trip that some feed had a stop update of, though perhaps without any
\* delay; a delay in it is one that a feed said.  Orphans are dropped even when
\* the catalog is reloaded between two lookups (recorder.go:349, 365), and a
\* trip that was only ever canceled has no row.
RowsHaveContext ==
  \A i \in Items : rows[i] # Nil =>
    /\ i \in Catalog[rows[i].version]
    /\ rows[i].version <= catalog
    /\ \E t \in published["trips"] : Updates(i, t) # {}
    /\ rows[i].arrival # 0 => Says(i, rows[i].arrival, "arrival")
    /\ rows[i].departure # 0 => Says(i, rows[i].departure, "departure")

\* A delay once stored is never nulled and, unless the feed goes back, never
\* replaced by an older one, over polls, failures and restarts
\* (recorder.go:388, COALESCE).
DelaysNeverGoBack ==
  [][\A i \in Items : rows[i] # Nil =>
       /\ rows'[i] # Nil
       /\ rows[i].arrival # 0 => rows'[i].arrival # 0
       /\ rows[i].departure # 0 => rows'[i].departure # 0
       /\ "trips" \notin wentBack =>
            /\ rows'[i].arrival >= rows[i].arrival
            /\ rows'[i].departure >= rows[i].departure]_vars

\* Again and again all cancellations or alerts that a feed says now are stored,
\* once its fetches and these inserts no longer fail: a poll that returned
\* their error is made up for by the next (recorder.go:198, 280).
NoticesAreStored ==
  \A f \in Feeds :
    <>[][~(FetchFails(f) \/ NoticesFail(f))]_vars =>
      []<>(upstream[f] # 0 =>
             \A i \in Notices(content[f][upstream[f]]) :
               IsStored(f, i, upstream[f]))
=============================================================================
