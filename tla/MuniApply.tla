------------------------------ MODULE MuniApply ------------------------------
(***************************************************************************)
(* Loading the municipal data bundle at boot: applyMuniBundle in           *)
(* cmd/server/main.go and Apply in internal/muni/apply.go.                 *)
(*                                                                         *)
(* A boot runs through                                                     *)
(*                                                                         *)
(*   gate -> load bundle -> one transaction per dataset, in BOD order      *)
(*        -> one upsert per pack -> mark the check                         *)
(*                                                                         *)
(* and the process may be killed between any two of these.  A dataset that *)
(* fails is skipped; the code goes on with the next and ends in success.   *)
(* It runs once in a process, in a goroutine that main starts.             *)
(* In production the gate is "checked less than 24 hours ago", in a local  *)
(* development boot it is "BOD.tsv has the hash of the last boot".         *)
(*                                                                         *)
(* A checksum is modelled by the content it is the hash of.  Row i of a    *)
(* child table refers to row i of its parent table.                        *)
(***************************************************************************)
EXTENDS Naturals, Sequences, Functions

CONSTANTS
  Files,      \* datasets
  BodOrder,   \* the datasets in the order of BOD.tsv
  Parent,     \* Parent[f]: the dataset f's rows refer to, or Nil
  Joined,     \* datasets inserted by a join with their parent: the votes
  Packs,      \* pack ids
  PackOf,     \* PackOf[f]: its pack, or Nil
  Ids,        \* row keys
  Values,     \* row values
  MaxVersion, \* bound: bundles published
  Content,    \* Content[v][f]: the rows of dataset f in bundle v
  LocalDevs,  \* may the boots be development boots from data/muni?
  Faults,     \* bound: Faults[localDev]: the kinds of fault that may happen
  Nil         \* no row, no parent, no pack, no bundle

Versions == 1..MaxVersion
Rows     == [Ids -> Values \cup {Nil}]
Upserted == Files \ Joined

ASSUME MuniAssumption ==
  /\ MaxVersion \in Nat \ {0}
  /\ BodOrder \in Seq(Files)
  /\ Parent \in [Files -> Files \cup {Nil}]
  /\ Joined \subseteq {f \in Files : Parent[f] # Nil}
  /\ PackOf \in [Files -> Packs \cup {Nil}]
  /\ Content \in [Versions -> [Files -> Rows]]
  /\ LocalDevs \subseteq BOOLEAN
  /\ Nil \notin Files \cup Packs \cup Values \cup Versions

VARIABLES
  \* the process
  pc,          \* where applyMuniBundle is
  bodSha,      \* the version whose BOD.tsv this boot hashed
  bundle,      \* the version being applied
  todo,        \* datasets still to apply
  packErrors,  \* packs with a failed dataset
  packsTodo,   \* packs not upserted yet
  status,      \* the state the admin page shows
  \* the database
  log,         \* data_patch_log: the checksums applied, oldest first
  table,       \* table[f][i]: row i of dataset f, or Nil
  packs,       \* muni_packs: the bundle and whether last_error is set
  checked,     \* last_checked_at: never, recent (within 24 hours) or old
  devSha,      \* muni_dev_cache.bod_sha
  failedLast,  \* history, if localDev: the datasets whose last attempt failed
  \* the world
  localDev,    \* is this a development machine?
  published    \* the newest bundle

work == <<bodSha, bundle, todo, packErrors, packsTodo>>
db   == <<log, table, packs, checked, devSha, failedLast>>
world == <<localDev, published>>
vars == <<pc, work, status, db, world>>

Fault(kind) == kind \in Faults[localDev]

Init ==
  /\ pc = "down"
  /\ bodSha = Nil
  /\ bundle = Nil
  /\ todo = <<>>
  /\ packErrors = {}
  /\ packsTodo = {}
  /\ status = "idle"
  /\ log = [f \in Files |-> <<>>]
  /\ table = [f \in Files |-> [i \in Ids |-> Nil]]
  /\ packs = [p \in Packs |-> Nil]
  /\ checked = "never"
  /\ devSha = Nil
  /\ failedLast = {}
  /\ localDev \in LocalDevs
  /\ published = 1

-----------------------------------------------------------------------------
(* Boot, gate and download.                                                *)

Boot ==
  /\ pc = "down"
  /\ pc' = "gate"
  /\ status' = "idle"
  /\ UNCHANGED <<work, db, world>>

Skip ==
  /\ pc' = "up"
  /\ status' = "skipped"

\* A gate that cannot be read does not hold the boot back.
GateProduction ==
  /\ pc = "gate"
  /\ ~localDev
  /\ \/ checked = "recent" /\ Skip
     \/ /\ checked # "recent" \/ Fault("gate")
        /\ pc' = "load"
        /\ status' = "fetching"
  /\ UNCHANGED <<work, db, world>>

GateDev ==
  /\ pc = "gate"
  /\ localDev
  /\ bodSha' = published
  /\ \/ devSha = published /\ Skip
     \/ /\ devSha # published \/ Fault("gate")
        /\ pc' = "load"
        /\ status' = "applying"
  /\ UNCHANGED <<bundle, todo, packErrors, packsTodo, db, world>>

\* The bundle is read whole, verified and its BOD parsed.
Load ==
  /\ pc = "load"
  /\ pc' = "apply"
  /\ status' = "applying"
  /\ bundle' = published
  /\ todo' = BodOrder
  /\ packErrors' = {}
  /\ UNCHANGED <<bodSha, packsTodo, db, world>>

LoadFails ==
  /\ pc = "load"
  /\ Fault("load")
  /\ pc' = "up"
  /\ status' = "error"
  /\ UNCHANGED <<work, db, world>>

-----------------------------------------------------------------------------
(* One dataset.                                                            *)

Checksum(f) == Content[bundle][f]

\* Mutant: an applied dataset is left alone whatever its checksum.
AppliedOnce(f) == log[f] # <<>>

\* latestAction: the dataset's last entry has this checksum already.  Every
\* entry is an apply: no code writes the action 'down' that the schema allows.
AlreadyApplied(f) == log[f] # <<>> /\ log[f][Len(log[f])] = Checksum(f)

HasParent(f, i) == Parent[f] # Nil => table[Parent[f]][i] # Nil

\* The foreign key of an upserted row; a join drops the rows without one.
ReferencesHold(f) ==
  f \in Joined \/ \A i \in Ids : Checksum(f)[i] # Nil => HasParent(f, i)

\* Mutant: rows that are there already are left as they are.
InsertedOnly(f) ==
  [i \in Ids |-> IF table[f][i] = Nil THEN Checksum(f)[i] ELSE table[f][i]]

\* ON CONFLICT (key) DO UPDATE: the bundle's values win.
UpsertedRows(f) ==
  [i \in Ids |-> IF Checksum(f)[i] # Nil THEN Checksum(f)[i] ELSE table[f][i]]

\* INSERT ... SELECT ... JOIN ... ON CONFLICT DO NOTHING: rows whose motion is
\* not there are dropped, rows that exist already stay.
JoinedRows(f) ==
  [i \in Ids |-> IF table[f][i] = Nil /\ HasParent(f, i)
                 THEN Checksum(f)[i] ELSE table[f][i]]

\* One transaction: the rows and the log entry.
Commit(f) ==
  /\ ReferencesHold(f)
  /\ table' = [table EXCEPT ![f] = IF f \in Joined THEN JoinedRows(f)
                                                   ELSE UpsertedRows(f)]
  /\ log' = [log EXCEPT ![f] = Append(@, Checksum(f))]
  /\ failedLast' = failedLast \ {f}
  /\ UNCHANGED packErrors

\* Mutant: the failure is only logged.
ErrorsForgotten(f) == packErrors

\* The failure is remembered for the dataset's pack.
ErrorsAfter(f) ==
  packErrors \cup (IF PackOf[f] = Nil THEN {} ELSE {PackOf[f]})

Fail(f) ==
  /\ packErrors' = ErrorsAfter(f)
  /\ failedLast' = IF localDev THEN failedLast \cup {f} ELSE {}
  /\ UNCHANGED <<log, table>>

ApplyDataset(f) ==
  /\ pc = "apply"
  /\ todo # <<>>
  /\ f = Head(todo)
  /\ todo' = Tail(todo)
  /\ \/ /\ AlreadyApplied(f)
        /\ failedLast' = failedLast \ {f}
        /\ UNCHANGED <<log, table, packErrors>>
     \/ ~AlreadyApplied(f) /\ Commit(f)
     \/ ~AlreadyApplied(f) /\ ~ReferencesHold(f) /\ Fail(f)
     \/ Fault("dataset") /\ Fail(f)
  /\ UNCHANGED <<pc, bodSha, bundle, packsTodo, status, packs, checked, devSha,
                 world>>

-----------------------------------------------------------------------------
(* The pack registry and the end of the boot.                              *)

BundlePacks == {PackOf[f] : f \in Range(BodOrder)} \ {Nil}

BeginPacks ==
  /\ pc = "apply"
  /\ todo = <<>>
  /\ pc' = "packs"
  /\ packsTodo' = BundlePacks
  /\ UNCHANGED <<bodSha, bundle, todo, packErrors, status, db, world>>

\* The packs are upserted one statement at a time, in no particular order.
UpsertPack(p) ==
  /\ pc = "packs"
  /\ p \in packsTodo
  /\ packs' = [packs EXCEPT ![p] =
                 [bundle |-> bundle, failed |-> p \in packErrors]]
  /\ packsTodo' = packsTodo \ {p}
  /\ UNCHANGED <<pc, bodSha, bundle, todo, packErrors, status, log, table,
                 checked, devSha, failedLast, world>>

\* The first pack that fails ends the update, with a warning.
UpsertPackFails ==
  /\ pc = "packs"
  /\ packsTodo # {}
  /\ Fault("packs")
  /\ packsTodo' = {}
  /\ UNCHANGED <<pc, bodSha, bundle, todo, packErrors, status, db, world>>

\* Mutant: BOD.tsv is hashed when the work is done.
HashNow == published

HashToKeep == bodSha

\* MarkChecked or SetDevCacheBODSha, whether or not every dataset went in.
Finish(ok) ==
  /\ ok \/ Fault("mark")
  /\ pc = "packs"
  /\ packsTodo = {}
  /\ pc' = "up"
  /\ status' = "ok"
  /\ checked' = IF ok /\ ~localDev THEN "recent" ELSE checked
  /\ devSha' = IF ok /\ localDev THEN HashToKeep ELSE devSha
  /\ UNCHANGED <<work, log, table, packs, failedLast, world>>

-----------------------------------------------------------------------------
(* The world.                                                              *)

\* A crash, a deployment or a hot reload, at any point.
Stop ==
  /\ pc # "down"
  /\ pc = "up" \/ Fault("crash")
  /\ pc' = "down"
  /\ bodSha' = Nil
  /\ bundle' = Nil
  /\ todo' = <<>>
  /\ packErrors' = {}
  /\ packsTodo' = {}
  /\ status' = "idle"
  /\ UNCHANGED <<db, world>>

\* The window muniCheckInterval after the last check has passed.
Day ==
  /\ checked = "recent"
  /\ checked' = "old"
  /\ UNCHANGED <<pc, work, status, log, table, packs, devSha, failedLast,
                 world>>

Publish ==
  /\ published < MaxVersion
  /\ published' = published + 1
  /\ UNCHANGED <<pc, work, status, db, localDev>>

Server ==
  \/ Boot
  \/ GateProduction
  \/ GateDev
  \/ Load
  \/ LoadFails
  \/ \E f \in Files : ApplyDataset(f)
  \/ BeginPacks
  \/ \E p \in Packs : UpsertPack(p)
  \/ UpsertPackFails
  \/ \E ok \in BOOLEAN : Finish(ok)

Next == Server \/ Stop \/ Day \/ Publish

Spec == Init /\ [][Next]_vars

-----------------------------------------------------------------------------
(* Properties.                                                             *)

Latest(f) == log[f][Len(log[f])]

TypeOK ==
  /\ pc \in {"down", "gate", "load", "apply", "packs", "up"}
  /\ bodSha \in Versions \cup {Nil}
  /\ bundle \in Versions \cup {Nil}
  /\ pc \in {"apply", "packs"} => bundle \in Versions
  /\ todo \in Seq(Files)
  /\ packErrors \subseteq Packs
  /\ packsTodo \subseteq Packs
  /\ status \in {"idle", "fetching", "applying", "ok", "error", "skipped"}
  /\ log \in [Files -> Seq(Rows)]
  /\ table \in [Files -> Rows]
  /\ packs \in [Packs -> [bundle : Versions, failed : BOOLEAN] \cup {Nil}]
  /\ checked \in {"never", "recent", "old"}
  /\ devSha \in Versions \cup {Nil}
  /\ failedLast \subseteq Files
  /\ localDev \in BOOLEAN
  /\ published \in Versions

\* The log and the upserted tables keep MuniStore's promise across failed
\* datasets, crashes and new bundles: an entry and its rows come together.
Store ==
  INSTANCE MuniStore WITH Contents <- Rows,
                          store <- [f \in Upserted |-> table[f]]
StoreSpec == Store!Spec

\* A pack without an error on the admin page had every one of its datasets
\* applied, at the checksums of the bundle it names, although the upsert runs
\* after all of them, for all packs, from what the loop remembers.
GreenPackIsApplied ==
  \A p \in Packs : packs[p] # Nil /\ ~packs[p].failed =>
    \A f \in Range(BodOrder) :
      PackOf[f] = p => Content[packs[p].bundle][f] \in Range(log[f])

Current(f, v) == log[f] # <<>> /\ Latest(f) = Content[v][f]

\* The hash in muni_dev_cache is the last-applied one: a boot that it lets
\* skip has nothing to apply but the datasets whose last attempt failed, though
\* BOD.tsv may change while it is applied and a boot may be cut off anywhere.
SkipLeavesNothing ==
  localDev /\ status = "skipped" =>
    \A f \in Range(BodOrder) : f \in failedLast \/ Current(f, bodSha)

-----------------------------------------------------------------------------
(* Liveness.  A boot that has begun runs to its end and the clock goes on; *)
(* a load or a dataset that can succeed does not fail for ever, and from   *)
(* some time on no boot is cut off.  Nothing makes the server stop or      *)
(* start again: applyMuniBundle runs once in a process, so whether a       *)
(* bundle arrives is up to the operator's restarts.                        *)

Booted == Server /\ ~Boot

FairSpec ==
  /\ Spec
  /\ WF_vars(Booted)
  /\ WF_vars(Day)
  /\ SF_vars(Load)
  /\ \A f \in Files : SF_vars(ApplyDataset(f) /\ ~AlreadyApplied(f) /\ Commit(f))
  /\ <>[][Stop => pc = "up"]_vars

\* In production, if the server is restarted again and again, every dataset of
\* the last bundle is applied in the end: no failure, though it ends in "ok"
\* and closes the gate for a day, no crash and no checksum that comes back
\* keeps one out for ever.  A server that stays up applies nothing new.
Converges ==
  []<>(pc = "gate") =>
    <>[](published = MaxVersion /\ ~localDev =>
           \A f \in Range(BodOrder) : Current(f, MaxVersion))

-----------------------------------------------------------------------------
(* What the documents say and the code does not do.                        *)

\* data_patch_log "tells you exactly what data shipped": the rows of a logged
\* content are in the table.  Not so for votes when motions failed.
LoggedIsLoaded ==
  \A f \in Files : log[f] # <<>> =>
    \A i \in Ids : Latest(f)[i] # Nil => table[f][i] # Nil
=============================================================================
