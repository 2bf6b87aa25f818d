----------------------------- MODULE GtfsReload -----------------------------
(***************************************************************************)
(* Keeping the static schedule current: GTFSRefresher and its loader in    *)
(* internal/transit/gtfs_loader.go and derive.go, the reload signal and    *)
(* the TripCache of trip_cache.go, and the boot order of cmd/server.       *)
(*                                                                         *)
(* One check runs through                                                  *)
(*                                                                         *)
(*   download -> compare the hash -> extract to disk -> stage the files    *)
(*     in one transaction -> derive the entity tables in another ->        *)
(*     signal -> save the hash                                             *)
(*                                                                         *)
(* and may fail or be killed anywhere.  The first check runs before the    *)
(* recorder exists; then the recorder's reload loop subscribes to the      *)
(* signal while the refresher already makes its next check.                *)
(*                                                                         *)
(* The hash of a bundle and the contents of its files are modelled by its  *)
(* version.  The loader takes its files in a fixed order; any order is     *)
(* allowed here.                                                           *)
(***************************************************************************)
EXTENDS Naturals

CONSTANTS
  Files,      \* the files the loader knows
  MaxVersion, \* bound: bundles
  Contains,   \* Contains[v]: the files in the zip of bundle v
  Faults,     \* bound: the kinds of fault that may happen
  Nil,        \* no bundle, no file, no rows
  Torn        \* part of a file

Versions == 1..MaxVersion
Contents == Versions \cup {Nil, Torn}
Tables   == [Files -> Contents]

ASSUME GtfsAssumption ==
  /\ Files # {}
  /\ MaxVersion \in Nat \ {0}
  /\ Contains \in [Versions -> SUBSET Files]
  /\ Nil \notin Files \cup Versions \cup {Torn}
  /\ Torn \notin Versions

VARIABLES
  \* the world
  upstream,   \* the bundle at gtfsURL
  tool,       \* the fetcher command's download: as copy below, or Nil
  raced,      \* history: did it write while this check extracted or staged?
  \* the disk and the database
  disk,       \* static/transit/gtfs
  staging,    \* gtfs.*: for each file the bundle its rows came from
  tier,       \* transit.*: what they were derived from
  tainted,    \* history: was that in a race?
  hash,       \* feed_state.version_hash
  \* the server
  phase,      \* down, boot or running
  pc,         \* where the refresher's check is
  body,       \* the bundle downloaded
  copy,       \* the extraction: files left and the file being written
  todo,       \* files left to stage
  loaded,     \* the rows inserted by the staging transaction
  subscribed, \* does the reload loop listen?
  signal,     \* the channel's one-place buffer
  reload,     \* where the reload loop is
  reading,    \* the rows its query returned
  cache,      \* what the TripCache was read from
  excuse      \* history: why the cache may be behind

world   == <<upstream, tool, raced>>
tables  == <<staging, tier, tainted, hash>>
check   == <<pc, body, copy, todo, loaded>>
reader  == <<subscribed, signal, reload, reading, cache, excuse>>
vars    == <<world, disk, tables, phase, check, reader>>

Nothing == [f \in Files |-> Nil]
Copies  == [left : SUBSET Files, open : Files \cup {Nil}]
NoCopy  == [left |-> {}, open |-> Nil]

\* The rows of bundle v and of no other.
Whole(v) == [f \in Files |-> IF f \in Contains[v] THEN v ELSE Nil]

Init ==
  /\ upstream = 1
  /\ tool = Nil
  /\ raced = FALSE
  /\ disk = Nothing
  /\ staging = Nothing
  /\ tier = Nothing
  /\ tainted = FALSE
  /\ hash = Nil
  /\ phase = "down"
  /\ pc = "idle"
  /\ body = Nil
  /\ copy = NoCopy
  /\ todo = {}
  /\ loaded = Nothing
  /\ subscribed = FALSE
  /\ signal = FALSE
  /\ reload = "wait"
  /\ reading = Nothing
  /\ cache = Nothing
  /\ excuse = {}

-----------------------------------------------------------------------------
(* Boot.                                                                   *)

Boot ==
  /\ phase = "down"
  /\ phase' = "boot"
  /\ pc' = "download"
  /\ UNCHANGED <<world, disk, tables, body, copy, todo, loaded, reader>>

\* The recorder reads the trips once, then starts its reload loop; the
\* refresher starts and checks again at once.
StartRecorder(ok) ==
  /\ ok \/ "reload" \in Faults
  /\ phase = "boot"
  /\ pc = "idle"
  /\ phase' = "running"
  /\ pc' = "download"
  /\ cache' = IF ok THEN tier ELSE cache
  /\ excuse' = IF ok THEN {} ELSE {"failed"}
  /\ UNCHANGED <<world, disk, tables, body, copy, todo, loaded, subscribed,
                 signal, reload, reading>>

\* GTFSRefreshInterval is over.
Tick ==
  /\ phase = "running"
  /\ pc = "idle"
  /\ pc' = "download"
  /\ UNCHANGED <<world, disk, tables, phase, body, copy, todo, loaded, reader>>

-----------------------------------------------------------------------------
(* CheckAndReload.                                                         *)

Download ==
  /\ pc = "download"
  /\ pc' = "compare"
  /\ body' = upstream
  /\ UNCHANGED <<world, disk, tables, phase, copy, todo, loaded, reader>>

Unchanged ==
  /\ pc = "compare"
  /\ body = hash
  /\ pc' = "idle"
  /\ UNCHANGED <<world, disk, tables, phase, body, copy, todo, loaded, reader>>

\* A hash that cannot be read counts as no hash.
Changed ==
  /\ pc = "compare"
  /\ body # hash \/ "hash" \in Faults
  /\ pc' = "extract"
  /\ copy' = [left |-> Contains[body], open |-> Nil]
  /\ raced' = FALSE
  /\ UNCHANGED <<upstream, tool, disk, tables, phase, body, todo, loaded,
                 reader>>

\* Both extractions create a file, which empties it, and then fill it; files
\* that are not in the zip stay.
Create(c, f) ==
  /\ c.open = Nil
  /\ f \in c.left
  /\ disk' = [disk EXCEPT ![f] = Torn]

Fill(c, v) ==
  /\ c.open # Nil
  /\ disk' = [disk EXCEPT ![c.open] = v]

Filled(c) == [left |-> c.left \ {c.open}, open |-> Nil]

CreateFile(f) ==
  /\ pc = "extract"
  /\ Create(copy, f)
  /\ copy' = [copy EXCEPT !.open = f]
  /\ UNCHANGED <<world, tables, phase, pc, body, todo, loaded, reader>>

FillFile ==
  /\ pc = "extract"
  /\ Fill(copy, body)
  /\ copy' = Filled(copy)
  /\ UNCHANGED <<world, tables, phase, pc, body, todo, loaded, reader>>

\* Mutant: the rest of the zip is not waited for.
NoneOpen == copy.open = Nil

Extracted == copy.left = {} /\ copy.open = Nil

BeginStaging ==
  /\ pc = "extract"
  /\ Extracted
  /\ pc' = "stage"
  /\ todo' = Files
  /\ loaded' = Nothing
  /\ UNCHANGED <<world, disk, tables, phase, body, copy, reader>>

\* A file that is not there is skipped; part of a file may parse.
LoadFile(f) ==
  /\ pc = "stage"
  /\ f \in todo
  /\ loaded' = [loaded EXCEPT ![f] = disk[f]]
  /\ todo' = todo \ {f}
  /\ UNCHANGED <<world, disk, tables, phase, pc, body, copy, reader>>

\* Mutant: the hash is saved with the staging tables.
CommitStagingAndHash ==
  /\ pc = "stage"
  /\ todo = {}
  /\ staging' = loaded
  /\ hash' = body
  /\ pc' = "derive"
  /\ UNCHANGED <<world, disk, tier, tainted, phase, body, copy, todo, loaded,
                 reader>>

CommitStaging ==
  /\ pc = "stage"
  /\ todo = {}
  /\ staging' = loaded
  /\ pc' = "derive"
  /\ UNCHANGED <<world, disk, tier, tainted, hash, phase, body, copy, todo,
                 loaded, reader>>

Derive ==
  /\ pc = "derive"
  /\ tier' = staging
  /\ tainted' = raced
  /\ pc' = "notify"
  /\ UNCHANGED <<world, disk, staging, hash, phase, body, copy, todo, loaded,
                 reader>>

\* Mutant: only a loop that waits gets the signal.
SignalIfWaiting == IF reload = "wait" THEN TRUE ELSE signal

\* A full buffer keeps its signal.
SignalSent == TRUE

\* Subscribers only: before the loop has subscribed nobody hears it.
Notify ==
  /\ pc = "notify"
  /\ pc' = "save"
  /\ signal' = IF subscribed THEN SignalSent ELSE signal
  /\ excuse' = IF phase = "running" /\ ~subscribed
               THEN excuse \cup {"early"} ELSE excuse
  /\ UNCHANGED <<world, disk, tables, phase, body, copy, todo, loaded,
                 subscribed, reload, reading, cache>>

Save ==
  /\ pc = "save"
  /\ hash' = body
  /\ pc' = "idle"
  /\ UNCHANGED <<world, disk, staging, tier, tainted, phase, body, copy, todo,
                 loaded, reader>>

\* A step fails or runs out of time; transactions are rolled back, files stay
\* as they are.
Fail ==
  /\ pc \in {"download", "extract", "stage", "derive", "save"} \cap Faults
  /\ pc' = "idle"
  /\ copy' = NoCopy
  /\ UNCHANGED <<world, disk, tables, phase, body, todo, loaded, reader>>

-----------------------------------------------------------------------------
(* The recorder's reload loop.                                             *)

\* The goroutine subscribes when it is scheduled, not when it is started.
Subscribe ==
  /\ phase = "running"
  /\ ~subscribed
  /\ subscribed' = TRUE
  /\ UNCHANGED <<world, disk, tables, phase, check, signal, reload, reading,
                 cache, excuse>>

Wake ==
  /\ reload = "wait"
  /\ signal
  /\ signal' = FALSE
  /\ reload' = "query"
  /\ UNCHANGED <<world, disk, tables, phase, check, subscribed, reading, cache,
                 excuse>>

\* Mutant: the trips are read from the staging tables.
QueryStaging ==
  /\ reload = "query"
  /\ reading' = staging
  /\ reload' = "swap"
  /\ UNCHANGED <<world, disk, tables, phase, check, subscribed, signal, cache,
                 excuse>>

Query ==
  /\ reload = "query"
  /\ reading' = tier
  /\ reload' = "swap"
  /\ UNCHANGED <<world, disk, tables, phase, check, subscribed, signal, cache,
                 excuse>>

Swap ==
  /\ reload = "swap"
  /\ cache' = reading
  /\ reload' = "wait"
  /\ excuse' = {}
  /\ UNCHANGED <<world, disk, tables, phase, check, subscribed, signal,
                 reading>>

\* A failed read is logged; the next signal tries again.
ReloadFails ==
  /\ reload \in {"query", "swap"}
  /\ "reload" \in Faults
  /\ reload' = "wait"
  /\ excuse' = excuse \cup {"failed"}
  /\ UNCHANGED <<world, disk, tables, phase, check, subscribed, signal,
                 reading, cache>>

-----------------------------------------------------------------------------
(* The world: a new bundle, the end of the process, and the fetcher        *)
(* command, which extracts into the same directory.                        *)

Publish ==
  /\ \E v \in Versions :
       /\ v > upstream \/ "revert" \in Faults
       /\ v # upstream
       /\ upstream' = v
  /\ UNCHANGED <<tool, raced, disk, tables, phase, check, reader>>

\* A restart keeps the directory; a deployment starts without it.
Exit(keep) ==
  /\ phase # "down"
  /\ "exit" \in Faults
  /\ phase' = "down"
  /\ disk' = IF keep THEN disk ELSE Nothing
  /\ pc' = "idle"
  /\ body' = Nil
  /\ copy' = NoCopy
  /\ todo' = {}
  /\ loaded' = Nothing
  /\ subscribed' = FALSE
  /\ signal' = FALSE
  /\ reload' = "wait"
  /\ reading' = Nothing
  /\ cache' = Nothing
  /\ excuse' = {}
  /\ UNCHANGED <<world, tables>>

Writes == raced' = (raced \/ pc \in {"extract", "stage"})

ToolDownload ==
  /\ "tool" \in Faults
  /\ tool = Nil
  /\ tool' = [bundle |-> upstream,
              copy |-> [left |-> Contains[upstream], open |-> Nil]]
  /\ UNCHANGED <<upstream, raced, disk, tables, phase, check, reader>>

ToolCreates(f) ==
  /\ tool # Nil
  /\ Create(tool.copy, f)
  /\ tool' = [tool EXCEPT !.copy.open = f]
  /\ Writes
  /\ UNCHANGED <<upstream, tables, phase, check, reader>>

ToolFills ==
  /\ tool # Nil
  /\ Fill(tool.copy, tool.bundle)
  /\ tool' = [tool EXCEPT !.copy = Filled(tool.copy)]
  /\ Writes
  /\ UNCHANGED <<upstream, tables, phase, check, reader>>

\* Done, failed or interrupted.
ToolEnds ==
  /\ tool # Nil
  /\ tool' = Nil
  /\ UNCHANGED <<upstream, raced, disk, tables, phase, check, reader>>

Refresher ==
  \/ Download
  \/ Unchanged
  \/ Changed
  \/ \E f \in Files : CreateFile(f)
  \/ FillFile
  \/ BeginStaging
  \/ \E f \in Files : LoadFile(f)
  \/ CommitStaging
  \/ Derive
  \/ Notify
  \/ Save

ReloadLoop == Subscribe \/ Wake \/ Query \/ Swap

Tool ==
  \/ ToolDownload
  \/ \E f \in Files : ToolCreates(f)
  \/ ToolFills
  \/ ToolEnds

Next ==
  \/ Boot
  \/ \E ok \in BOOLEAN : StartRecorder(ok)
  \/ Tick
  \/ Refresher
  \/ Fail
  \/ ReloadLoop
  \/ ReloadFails
  \/ Publish
  \/ \E keep \in BOOLEAN : Exit(keep)
  \/ Tool

Spec == Init /\ [][Next]_vars

-----------------------------------------------------------------------------
(* Properties.                                                             *)

TypeOK ==
  /\ upstream \in Versions
  /\ tool \in [bundle : Versions, copy : Copies] \cup {Nil}
  /\ raced \in BOOLEAN
  /\ disk \in Tables
  /\ staging \in Tables
  /\ tier \in Tables
  /\ tainted \in BOOLEAN
  /\ hash \in Versions \cup {Nil}
  /\ phase \in {"down", "boot", "running"}
  /\ pc \in {"idle", "download", "compare", "extract", "stage", "derive",
             "notify", "save"}
  /\ phase = "down" => pc = "idle"
  /\ body \in Versions \cup {Nil}
  /\ pc \notin {"idle", "download"} => body \in Versions
  /\ copy \in Copies
  /\ pc # "extract" => copy = NoCopy
  /\ todo \subseteq Files
  /\ loaded \in Tables
  /\ subscribed \in BOOLEAN
  /\ signal \in BOOLEAN
  /\ signal => subscribed
  /\ reload \in {"wait", "query", "swap"}
  /\ reading \in Tables
  /\ cache \in Tables
  /\ excuse \subseteq {"early", "failed"}

\* The entity tables are of one bundle, whole, whatever failed or was killed
\* on the way: neither a torn file nor the remains of an earlier bundle on
\* disk get into them, unless the fetcher command wrote while they were read;
\* the next bundle repairs that.
TierIsOneBundle ==
  tainted \/ tier = Nothing \/ \E v \in Versions : tier = Whole(v)

\* The hash short-circuit: when the bundle has the stored hash, the entity
\* tables hold it already, although they are replaced before the hash is and
\* the save may fail.
UnchangedIsCurrent ==
  pc = "compare" /\ body = hash => tier = Whole(body) \/ tainted

Behind == phase = "running" /\ cache # tier

Coming == signal \/ reload = "query" \/ pc = "notify"

\* The recorder's trips are those of the entity tables or will be read
\* again, unless a read failed or the signal came before the loop listened.
CacheFollowsTier ==
  Behind => Coming \/ excuse # {} \/ (reload = "swap" /\ reading = tier)

\* The loader implements GtfsTimetable.
VersionOf(t) ==
  IF t = Nothing THEN 0 ELSE CHOOSE v \in Versions : t = Whole(v)

Timetable == INSTANCE GtfsTimetable
               WITH tier <- VersionOf(tier), held <- VersionOf(cache)
TimetableSpec == Timetable!Spec

-----------------------------------------------------------------------------
(* Liveness: the process is started, its loops run, and from some time on  *)
(* no step fails and the process is not ended.                             *)

FairSpec ==
  /\ Spec
  /\ WF_vars(Boot)
  /\ WF_vars(StartRecorder(TRUE))
  /\ WF_vars(Tick)
  /\ WF_vars(Refresher)
  /\ WF_vars(ReloadLoop)
  /\ <>[][~(Fail \/ \E keep \in BOOLEAN : Exit(keep))]_vars

\* Once the city has published its last bundle the entity tables get it, and
\* so does the recorder unless it was excused.
CatchesUp ==
  <>[](upstream = MaxVersion =>
         /\ tier = Whole(MaxVersion)
         /\ phase = "running" => cache = tier \/ excuse # {})

=============================================================================
