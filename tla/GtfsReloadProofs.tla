-------------------------- MODULE GtfsReloadProofs --------------------------
(***************************************************************************)
(* Proofs about GtfsReload, for every number of bundles, every set of      *)
(* files and every choice of faults.  What is said of the entity tables    *)
(* needs complete bundles, as the run GtfsDropped shows; what is said of   *)
(* versions also needs that the fetcher command is not used, and a city    *)
(* that does not take a bundle back.                                       *)
(***************************************************************************)
EXTENDS GtfsReload, TLAPS

USE GtfsAssumption DEF GtfsAssumption

Complete == \A v \in Versions : Contains[v] = Files

Forward == Faults \cap {"tool", "revert"} = {}

-----------------------------------------------------------------------------
(* The invariant, in five parts.                                           *)

\* Who listens to the signal, and what the reload loop has in hand.
LoopInv ==
  /\ subscribed => phase = "running"
  /\ reload # "wait" => subscribed
  /\ reload = "swap" /\ reading # tier => signal \/ pc = "notify"
  /\ CacheFollowsTier

\* Everything the check has handled so far is of the bundle it downloaded,
\* unless the fetcher wrote to the directory meanwhile.
CopyInv ==
  /\ copy.open # Nil => copy.open \in copy.left
  /\ pc = "extract" /\ ~raced => \A f \in Files \ copy.left : disk[f] = body
  /\ pc = "stage" /\ ~raced => \A f \in Files : disk[f] = body
  /\ pc = "stage" /\ ~raced => \A f \in Files \ todo : loaded[f] = body
  /\ pc = "derive" /\ ~raced => staging = Whole(body)
  /\ pc \in {"notify", "save"} /\ ~tainted => tier = Whole(body)

\* The server has the directory to itself.
AloneInv == tool = Nil /\ ~raced /\ ~tainted

\* The tables hold an earlier bundle than the one in hand, and a later one
\* than the hash says.
OrderInv ==
  /\ body # Nil => body <= upstream
  /\ VersionOf(tier) <= upstream
  /\ pc \notin {"idle", "download"} => VersionOf(tier) <= body
  /\ hash # Nil => hash <= VersionOf(tier)

IsBundle(t) == t = Nothing \/ \E v \in Versions : t = Whole(v)

HeldInv ==
  /\ IsBundle(cache)
  /\ IsBundle(reading)
  /\ VersionOf(cache) <= VersionOf(tier)
  /\ reload = "swap" => /\ VersionOf(cache) <= VersionOf(reading)
                        /\ VersionOf(reading) <= VersionOf(tier)

LEMMA WholeBundle ==
  ASSUME Complete, NEW v \in Versions
  PROVE  /\ Whole(v) = [f \in Files |-> v]
         /\ Whole(v) # Nothing
         /\ VersionOf(Whole(v)) = v
  <1>1. Whole(v) = [f \in Files |-> v]
    BY DEF Whole, Complete
  <1>2. PICK f \in Files : TRUE
    OBVIOUS
  <1>3. v # Nil
    BY DEF Versions
  <1>4. Whole(v) # Nothing
    <2>1. Whole(v)[f] = v /\ Nothing[f] = Nil
      BY <1>1, <1>2 DEF Nothing
    <2> QED BY <1>3, <2>1
  <1>5. ASSUME NEW w \in Versions, Whole(v) = Whole(w)
        PROVE  w = v
    <2>1. Whole(v)[f] = v /\ Whole(w)[f] = w
      BY <1>2 DEF Whole, Complete
    <2> QED BY <1>5, <2>1
  <1>6. (CHOOSE w \in Versions : Whole(v) = Whole(w)) = v
    BY <1>5
  <1> QED BY <1>1, <1>4, <1>6 DEF VersionOf

LEMMA BundleVersion ==
  ASSUME Complete, NEW t, IsBundle(t)
  PROVE  /\ VersionOf(t) \in 0..MaxVersion
         /\ t = Nothing <=> VersionOf(t) = 0
         /\ VersionOf(t) # 0 => t = Whole(VersionOf(t))
  <1>1. CASE t = Nothing
    BY <1>1 DEF VersionOf
  <1>2. ASSUME NEW v \in Versions, t = Whole(v)
        PROVE  /\ VersionOf(t) = v /\ t # Nothing
               /\ v \in 0..MaxVersion /\ v # 0
    BY <1>2, WholeBundle DEF Versions
  <1> QED BY <1>1, <1>2 DEF IsBundle

LEMMA NothingIsNone == IsBundle(Nothing) /\ VersionOf(Nothing) = 0
  BY DEF IsBundle, VersionOf

-----------------------------------------------------------------------------
(* Types.                                                                  *)

LEMMA InitType == Init => TypeOK
  <1> SUFFICES ASSUME Init PROVE TypeOK
    OBVIOUS
  <1>1. NoCopy \in Copies /\ Nothing \in Tables
    BY DEF NoCopy, Copies, Nothing, Tables, Contents
  <1>2. 1 \in Versions
    BY DEF Versions
  <1> QED BY <1>1, <1>2 DEF Init, TypeOK

LEMMA FilledType ==
  ASSUME NEW c \in Copies
  PROVE  Filled(c) \in Copies
  BY DEF Filled, Copies

LEMMA StepType ==
  ASSUME TypeOK, [Next]_vars
  PROVE  TypeOK'
  <1> USE DEF TypeOK
  <1>1. NoCopy \in Copies /\ Nothing \in Tables
    BY DEF NoCopy, Copies, Nothing, Tables, Contents
  <1>2. CASE Boot \/ Tick \/ Download \/ Unchanged
    BY <1>2 DEF Boot, Tick, Download, Unchanged, world, tables, reader
  <1>3. ASSUME NEW ok \in BOOLEAN, StartRecorder(ok)
        PROVE  TypeOK'
    BY <1>3 DEF StartRecorder, world, tables
  <1>4. CASE Changed
    <2>1. copy' \in Copies
      BY <1>4 DEF Changed, Copies
    <2> QED BY <1>4, <2>1 DEF Changed, world, tables, reader
  <1>5. ASSUME NEW f \in Files, CreateFile(f)
        PROVE  TypeOK'
    <2>1. copy' \in Copies
      BY <1>5 DEF CreateFile, Copies
    <2>2. disk' \in Tables
      BY <1>5 DEF CreateFile, Create, Tables, Contents
    <2> QED BY <1>5, <2>1, <2>2 DEF CreateFile, world, tables, reader
  <1>6. CASE FillFile
    <2>1. copy' \in Copies
      BY <1>6, FilledType DEF FillFile
    <2>2. disk' \in Tables
      BY <1>6 DEF FillFile, Fill, Tables, Contents
    <2> QED BY <1>6, <2>1, <2>2 DEF FillFile, world, tables, reader
  <1>7. CASE BeginStaging
    <2>1. copy = NoCopy
      BY <1>7 DEF BeginStaging, Extracted, Copies, NoCopy
    <2> QED BY <1>1, <1>7, <2>1 DEF BeginStaging, world, tables, reader
  <1>8. ASSUME NEW f \in Files, LoadFile(f)
        PROVE  TypeOK'
    <2>1. loaded' \in Tables
      BY <1>8 DEF LoadFile, Tables
    <2> QED BY <1>8, <2>1 DEF LoadFile, world, tables, reader
  <1>9. CASE CommitStaging \/ Derive \/ Notify \/ Save
    <2>1. CASE CommitStaging
      BY <2>1 DEF CommitStaging, world, reader
    <2>2. CASE Derive
      BY <2>2 DEF Derive, world, reader
    <2>3. CASE Notify
      BY <2>3 DEF Notify, SignalSent, world, tables
    <2>4. CASE Save
      BY <2>4 DEF Save, world, reader
    <2> QED BY <1>9, <2>1, <2>2, <2>3, <2>4
  <1>10. CASE Fail
    BY <1>1, <1>10 DEF Fail, world, tables, reader
  <1>11. CASE Subscribe \/ Wake \/ Query \/ Swap \/ ReloadFails
    <2>1. CASE Subscribe
      BY <2>1 DEF Subscribe, world, tables, check
    <2>2. CASE Wake
      BY <2>2 DEF Wake, world, tables, check
    <2>3. CASE Query
      BY <2>3 DEF Query, world, tables, check
    <2>4. CASE Swap
      BY <2>4 DEF Swap, world, tables, check
    <2>5. CASE ReloadFails
      BY <2>5 DEF ReloadFails, world, tables, check
    <2> QED BY <1>11, <2>1, <2>2, <2>3, <2>4, <2>5
  <1>12. CASE Publish
    BY <1>12 DEF Publish, tables, check, reader
  <1>13. ASSUME NEW keep \in BOOLEAN, Exit(keep)
         PROVE  TypeOK'
    BY <1>1, <1>13 DEF Exit, world, tables
  <1>14. CASE Tool
    <2>1. UNCHANGED <<upstream, tables, phase, check, reader>> /\ raced' \in BOOLEAN
      BY <1>14 DEF Tool, ToolDownload, ToolCreates, ToolFills, ToolEnds, Writes
    <2>2. disk' \in Tables
      BY <1>14 DEF Tool, ToolDownload, ToolCreates, ToolFills, ToolEnds,
         Create, Fill, Tables, Contents
    <2>3. tool' \in [bundle : Versions, copy : Copies] \cup {Nil}
      <3>1. CASE ToolDownload
        <4>1. [left |-> Contains[upstream], open |-> Nil] \in Copies
          BY DEF Copies
        <4> QED BY <3>1, <4>1 DEF ToolDownload
      <3>2. ASSUME NEW f \in Files, ToolCreates(f)
            PROVE  tool' \in [bundle : Versions, copy : Copies]
        <4>1. tool.copy \in Copies /\ tool.bundle \in Versions
          BY <3>2 DEF ToolCreates
        <4>2. [tool.copy EXCEPT !.open = f] \in Copies
          BY <4>1 DEF Copies
        <4> QED BY <3>2, <4>1, <4>2 DEF ToolCreates
      <3>3. CASE ToolFills
        <4>1. Filled(tool.copy) \in Copies
          BY <3>3, FilledType DEF ToolFills
        <4> QED BY <3>3, <4>1 DEF ToolFills
      <3>4. CASE ToolEnds
        BY <3>4 DEF ToolEnds
      <3> QED BY <1>14, <3>1, <3>2, <3>3, <3>4 DEF Tool
    <2> QED BY <2>1, <2>2, <2>3 DEF tables, check, reader
  <1>15. CASE UNCHANGED vars
    BY <1>15 DEF vars, world, tables, check, reader
  <1> QED
    BY <1>2, <1>3, <1>4, <1>5, <1>6, <1>7, <1>8, <1>9, <1>10, <1>11, <1>12,
       <1>13, <1>14, <1>15 DEF Next, Refresher, ReloadLoop

-----------------------------------------------------------------------------
(* The reload loop.                                                        *)

LEMMA StepLoop ==
  ASSUME TypeOK, LoopInv, [Next]_vars
  PROVE  LoopInv'
  <1> USE DEF TypeOK, LoopInv, CacheFollowsTier, Behind, Coming
  <1>1. CASE Boot \/ Tick \/ Download \/ Unchanged \/ Changed
    BY <1>1 DEF Boot, Tick, Download, Unchanged, Changed, world, tables, reader
  <1>2. ASSUME NEW ok \in BOOLEAN, StartRecorder(ok)
        PROVE  LoopInv'
    BY <1>2 DEF StartRecorder, world, tables
  <1>3. CASE \/ \E f \in Files : CreateFile(f) \/ LoadFile(f)
             \/ FillFile \/ BeginStaging \/ CommitStaging \/ Save \/ Fail
    BY <1>3 DEF CreateFile, LoadFile, FillFile, BeginStaging, CommitStaging,
       Save, Fail, world, tables, reader
  <1>4. CASE Derive
    BY <1>4 DEF Derive, world, reader
  <1>5. CASE Notify
    BY <1>5 DEF Notify, SignalSent, world, tables
  <1>6. CASE Subscribe \/ Wake \/ Query \/ ReloadFails
    BY <1>6 DEF Subscribe, Wake, Query, ReloadFails, world, tables, check
  <1>7. CASE Swap
    BY <1>7 DEF Swap, world, tables, check
  <1>8. ASSUME NEW keep \in BOOLEAN, Exit(keep)
        PROVE  LoopInv'
    BY <1>8 DEF Exit, world, tables
  <1>9. CASE Publish \/ Tool \/ UNCHANGED vars
    BY <1>9 DEF Publish, Tool, ToolDownload, ToolCreates, ToolFills, ToolEnds,
       vars, world, tables, check, reader
  <1> QED
    BY <1>1, <1>2, <1>3, <1>4, <1>5, <1>6, <1>7, <1>8, <1>9
    DEF Next, Refresher, ReloadLoop

-----------------------------------------------------------------------------
(* The tables.                                                             *)

LEMMA StepCopy ==
  ASSUME Complete, TypeOK, CopyInv, [Next]_vars
  PROVE  CopyInv'
  <1> USE DEF TypeOK, CopyInv
  <1>1. \A v \in Versions : Whole(v) = [f \in Files |-> v]
    BY WholeBundle
  <1>2. CASE Boot \/ Tick \/ Download \/ Unchanged
    BY <1>2 DEF Boot, Tick, Download, Unchanged, world, tables, reader
  <1>3. ASSUME NEW ok \in BOOLEAN, StartRecorder(ok)
        PROVE  CopyInv'
    BY <1>3 DEF StartRecorder, world, tables
  <1>4. CASE Changed
    <2>1. body \in Versions /\ Contains[body] = Files
      BY <1>4 DEF Changed, Complete
    <2>2. copy'.left = Files /\ copy'.open = Nil
      BY <1>4, <2>1 DEF Changed
    <2> QED BY <1>4, <2>2 DEF Changed, world, tables
  <1>5. ASSUME NEW g \in Files, CreateFile(g)
        PROVE  CopyInv'
    <2>1. /\ pc = "extract" /\ pc' = pc /\ raced' = raced /\ body' = body
          /\ g \in copy.left
          /\ \A f \in Files \ {g} : disk'[f] = disk[f]
      BY <1>5 DEF CreateFile, Create, Tables, world
    <2>2. copy'.left = copy.left /\ copy'.open = g
      BY <1>5 DEF CreateFile, Copies
    <2> QED BY <2>1, <2>2
  <1>6. CASE FillFile
    <2>1. /\ pc = "extract" /\ pc' = pc /\ raced' = raced /\ body' = body
          /\ copy.open # Nil /\ copy.open \in copy.left
      BY <1>6 DEF FillFile, Fill, world
    <2>2. \A f \in Files : disk'[f] = IF f = copy.open THEN body ELSE disk[f]
      BY <1>6 DEF FillFile, Fill, Tables
    <2>3. copy'.left = copy.left \ {copy.open} /\ copy'.open = Nil
      BY <1>6 DEF FillFile, Filled
    <2> QED BY <2>1, <2>2, <2>3
  <1>7. CASE BeginStaging
    BY <1>7 DEF BeginStaging, Extracted, world, tables
  <1>8. ASSUME NEW g \in Files, LoadFile(g)
        PROVE  CopyInv'
    <2>1. /\ pc = "stage" /\ pc' = pc /\ raced' = raced /\ body' = body
          /\ copy' = copy /\ disk' = disk /\ todo' = todo \ {g}
      BY <1>8 DEF LoadFile, world
    <2>2. \A f \in Files : loaded'[f] = IF f = g THEN disk[g] ELSE loaded[f]
      BY <1>8 DEF LoadFile, Tables
    <2> QED BY <2>1, <2>2
  <1>9. CASE CommitStaging
    <2>1. ~raced => loaded = [f \in Files |-> body]
      BY <1>9 DEF CommitStaging, Tables
    <2>2. ~raced => staging' = Whole(body)'
      BY <1>1, <1>9, <2>1 DEF CommitStaging, Whole
    <2> QED BY <1>9, <2>2 DEF CommitStaging, world
  <1>10. CASE Derive
    <2>1. ~raced => tier' = Whole(body)'
      BY <1>10 DEF Derive, Whole
    <2> QED BY <1>10, <2>1 DEF Derive, world
  <1>11. CASE Notify
    BY <1>11 DEF Notify, world, tables, Whole
  <1>12. CASE Save
    BY <1>12 DEF Save, world
  <1>13. CASE Fail
    BY <1>13 DEF Fail, NoCopy, world
  <1>14. CASE Subscribe \/ Wake \/ Query \/ Swap \/ ReloadFails
    <2>1. UNCHANGED <<world, disk, tables, check>>
      BY <1>14 DEF Subscribe, Wake, Query, Swap, ReloadFails
    <2> QED BY <2>1 DEF world, tables, check, Whole
  <1>15. CASE Publish
    BY <1>15 DEF Publish, tables, check, Whole
  <1>16. ASSUME NEW keep \in BOOLEAN, Exit(keep)
         PROVE  CopyInv'
    BY <1>16 DEF Exit, NoCopy, world
  <1>17. CASE Tool
    <2>1. UNCHANGED <<tables, check>>
      BY <1>17 DEF Tool, ToolDownload, ToolCreates, ToolFills, ToolEnds
    <2>2. \/ UNCHANGED <<disk, raced>>
          \/ raced' = (raced \/ pc \in {"extract", "stage"})
      BY <1>17 DEF Tool, ToolDownload, ToolCreates, ToolFills, ToolEnds, Writes
    <2> QED BY <2>1, <2>2 DEF tables, check, Whole
  <1>18. CASE UNCHANGED vars
    BY <1>18 DEF vars, world, tables, check, Whole
  <1> QED
    BY <1>2, <1>3, <1>4, <1>5, <1>6, <1>7, <1>8, <1>9, <1>10, <1>11, <1>12,
       <1>13, <1>14, <1>15, <1>16, <1>17, <1>18
    DEF Next, Refresher, ReloadLoop

\* Only Derive changes the entity tables, to the bundle in hand.
LEMMA StepTier ==
  ASSUME Complete, TypeOK, CopyInv, [Next]_vars
  PROVE  \/ UNCHANGED <<tier, tainted>>
         \/ /\ Derive
            /\ body \in Versions
            /\ tainted' \/ tier' = Whole(body)
  <1>1. CASE Derive
    BY <1>1 DEF Derive, TypeOK, CopyInv
  <1>2. CASE Publish \/ Tool \/ Subscribe \/ Wake \/ Query \/ Swap
             \/ ReloadFails \/ UNCHANGED vars
    BY <1>2 DEF Publish, Tool, ToolDownload, ToolCreates, ToolFills, ToolEnds,
       Subscribe, Wake, Query, Swap, ReloadFails, vars, tables
  <1>3. CASE \/ Boot \/ Tick \/ Download \/ Unchanged \/ Changed \/ FillFile
             \/ BeginStaging \/ CommitStaging \/ Notify \/ Save \/ Fail
    BY <1>3 DEF Boot, Tick, Download, Unchanged, Changed, FillFile,
       BeginStaging, CommitStaging, Notify, Save, Fail, tables
  <1>4. CASE \/ \E ok \in BOOLEAN : StartRecorder(ok) \/ Exit(ok)
             \/ \E f \in Files : CreateFile(f) \/ LoadFile(f)
    BY <1>4 DEF StartRecorder, Exit, CreateFile, LoadFile, tables
  <1> QED
    BY <1>1, <1>2, <1>3, <1>4 DEF Next, Refresher, ReloadLoop

LEMMA StepBundle ==
  ASSUME Complete, TypeOK, CopyInv, TierIsOneBundle, [Next]_vars
  PROVE  TierIsOneBundle'
  <1>1. CASE UNCHANGED <<tier, tainted>>
    BY <1>1 DEF TierIsOneBundle, Whole, Nothing
  <1>2. CASE body \in Versions /\ (tainted' \/ tier' = Whole(body))
    BY <1>2 DEF TierIsOneBundle, Whole
  <1> QED BY <1>1, <1>2, StepTier

LEMMA StepAlone ==
  ASSUME Forward, AloneInv, [Next]_vars
  PROVE  AloneInv'
  <1> USE DEF AloneInv
  <1>1. CASE \/ Boot \/ Tick \/ Download \/ Unchanged \/ Changed \/ FillFile
             \/ BeginStaging \/ CommitStaging \/ Derive \/ Notify \/ Save \/ Fail
    BY <1>1 DEF Boot, Tick, Download, Unchanged, Changed, FillFile,
       BeginStaging, CommitStaging, Derive, Notify, Save, Fail, world, tables
  <1>2. CASE \/ \E ok \in BOOLEAN : StartRecorder(ok) \/ Exit(ok)
             \/ \E f \in Files : CreateFile(f) \/ LoadFile(f)
    BY <1>2 DEF StartRecorder, Exit, CreateFile, LoadFile, world, tables
  <1>3. CASE \/ Publish \/ Subscribe \/ Wake \/ Query \/ Swap \/ ReloadFails
             \/ UNCHANGED vars
    BY <1>3 DEF Publish, Subscribe, Wake, Query, Swap, ReloadFails, vars, world,
       tables
  <1>4. CASE Tool
    BY <1>4 DEF Tool, ToolDownload, ToolCreates, ToolFills, ToolEnds, Forward
  <1> QED
    BY <1>1, <1>2, <1>3, <1>4 DEF Next, Refresher, ReloadLoop

-----------------------------------------------------------------------------
(* The order of the versions.                                              *)

\* The bundle in hand and the city's, step by step.
LEMMA StepBody ==
  ASSUME TypeOK, Forward, [Next]_vars
  PROVE  /\ upstream <= upstream'
         /\ \/ body' \in {Nil, upstream}
            \/ body' = body
         /\ pc' \notin {"idle", "download"} =>
              \/ Download /\ body' = upstream
              \/ pc \notin {"idle", "download"} /\ body' = body
         /\ hash' = hash \/ (Save /\ hash' = body)
  <1> USE DEF TypeOK
  <1>1. CASE Boot \/ Tick \/ Download \/ Unchanged \/ Changed
    BY <1>1 DEF Boot, Tick, Download, Unchanged, Changed, world, tables,
       Versions
  <1>2. ASSUME NEW ok \in BOOLEAN, StartRecorder(ok)
        PROVE  UNCHANGED <<world, tables, body>> /\ pc' = "download"
    BY <1>2 DEF StartRecorder
  <1>3. CASE \/ \E f \in Files : CreateFile(f) \/ LoadFile(f)
             \/ FillFile \/ BeginStaging \/ CommitStaging \/ Derive \/ Notify
             \/ Save \/ Fail
    BY <1>3 DEF CreateFile, LoadFile, FillFile, BeginStaging, CommitStaging,
       Derive, Notify, Save, Fail, world, tables, Versions
  <1>4. CASE Subscribe \/ Wake \/ Query \/ Swap \/ ReloadFails \/ Tool
             \/ UNCHANGED vars
    BY <1>4 DEF Subscribe, Wake, Query, Swap, ReloadFails, Tool, ToolDownload,
       ToolCreates, ToolFills, ToolEnds, vars, world, tables, check, Versions
  <1>5. CASE Publish
    BY <1>5 DEF Publish, Forward, tables, check, Versions
  <1>6. ASSUME NEW keep \in BOOLEAN, Exit(keep)
        PROVE  UNCHANGED <<world, tables>> /\ body' = Nil /\ pc' = "idle"
    BY <1>6 DEF Exit
  <1> QED
    BY <1>1, <1>2, <1>3, <1>4, <1>5, <1>6
    DEF Next, Refresher, ReloadLoop, world, tables, Versions

LEMMA StepOrder ==
  ASSUME Complete, Forward, TypeOK, AloneInv, CopyInv, TierIsOneBundle,
         OrderInv, [Next]_vars
  PROVE  OrderInv' /\ VersionOf(tier) <= VersionOf(tier)'
  <1>1. /\ upstream \in Nat /\ upstream' \in Nat /\ upstream <= upstream'
        /\ body \in Versions \cup {Nil} /\ Versions \subseteq Nat
        /\ hash \in Versions \cup {Nil}
    BY StepType, StepBody DEF TypeOK, Versions
  <1>2. VersionOf(tier) \in Nat
    BY BundleVersion DEF TierIsOneBundle, IsBundle, AloneInv
  <1>3. \/ VersionOf(tier)' = VersionOf(tier)
        \/ /\ pc = "derive" /\ pc' = "notify" /\ body \in Versions
           /\ VersionOf(tier)' = body /\ UNCHANGED <<upstream, body, hash>>
    <2>1. CASE UNCHANGED tier
      BY <2>1 DEF VersionOf, Whole, Nothing
    <2>2. CASE Derive /\ body \in Versions /\ tier' = Whole(body)
      BY <2>2, WholeBundle DEF Derive, world, VersionOf, Whole, Nothing
    <2> QED BY <2>1, <2>2, StepTier, StepAlone DEF AloneInv
  <1>4. VersionOf(tier) <= VersionOf(tier)'
    BY <1>1, <1>2, <1>3 DEF OrderInv
  <1>5. ASSUME body' # Nil
        PROVE  body' <= upstream'
    BY <1>1, <1>5, StepBody DEF OrderInv
  <1>6. VersionOf(tier)' <= upstream'
    BY <1>1, <1>2, <1>3 DEF OrderInv
  <1>7. ASSUME pc' \notin {"idle", "download"}
        PROVE  VersionOf(tier)' <= body'
    <2>1. CASE Download /\ body' = upstream
      BY <1>1, <1>2, <1>3, <2>1 DEF OrderInv, Download
    <2>2. CASE pc \notin {"idle", "download"} /\ body' = body
      BY <1>1, <1>2, <1>3, <2>2 DEF OrderInv
    <2> QED BY <1>7, <2>1, <2>2, StepBody
  <1>8. ASSUME hash' # Nil
        PROVE  hash' <= VersionOf(tier)'
    <2>1. CASE hash' = hash
      BY <1>1, <1>2, <1>3, <1>4, <1>8, <2>1 DEF OrderInv
    <2>2. CASE Save /\ hash' = body
      <3>1. body \in Versions /\ VersionOf(tier) = body
        BY <2>2, WholeBundle DEF Save, TypeOK, CopyInv, AloneInv
      <3>2. VersionOf(tier)' = VersionOf(tier)
        BY <1>3, <2>2 DEF Save
      <3> QED BY <1>1, <2>2, <3>1, <3>2
    <2> QED BY <2>1, <2>2, StepBody
  <1> QED BY <1>4, <1>5, <1>6, <1>7, <1>8 DEF OrderInv

\* What a step does to the recorder's trips.
LEMMA StepCache ==
  ASSUME [Next]_vars
  PROVE  \/ UNCHANGED <<cache, reading>> /\ (reload' = "swap" => reload = "swap")
         \/ /\ phase = "boot" /\ cache' = tier
            /\ UNCHANGED <<tier, reading, reload>>
         \/ Query
         \/ Swap
         \/ /\ UNCHANGED tier
            /\ cache' = Nothing /\ reading' = Nothing /\ reload' = "wait"
  <1>1. CASE Boot \/ Tick \/ Download \/ Unchanged \/ Changed
    BY <1>1 DEF Boot, Tick, Download, Unchanged, Changed, reader
  <1>2. CASE \E ok \in BOOLEAN : StartRecorder(ok)
    BY <1>2 DEF StartRecorder, tables
  <1>3. CASE \/ \E f \in Files : CreateFile(f) \/ LoadFile(f)
             \/ FillFile \/ BeginStaging \/ CommitStaging \/ Derive \/ Notify
             \/ Save \/ Fail
    BY <1>3 DEF CreateFile, LoadFile, FillFile, BeginStaging, CommitStaging,
       Derive, Notify, Save, Fail, reader
  <1>4. CASE Subscribe \/ Wake \/ ReloadFails \/ Publish \/ Tool
             \/ UNCHANGED vars
    BY <1>4 DEF Subscribe, Wake, ReloadFails, Publish, Tool, ToolDownload,
       ToolCreates, ToolFills, ToolEnds, vars, reader
  <1>5. CASE \E keep \in BOOLEAN : Exit(keep)
    BY <1>5 DEF Exit, tables
  <1> QED
    BY <1>1, <1>2, <1>3, <1>4, <1>5 DEF Next, Refresher, ReloadLoop

LEMMA StepHeld ==
  ASSUME Complete, Forward, TypeOK, LoopInv, AloneInv, CopyInv,
         TierIsOneBundle, OrderInv, HeldInv, [Next]_vars
  PROVE  HeldInv' /\ \/ VersionOf(cache)' = VersionOf(cache)
                     \/ /\ UNCHANGED tier
                        /\ VersionOf(cache)' \in
                             VersionOf(cache)..VersionOf(tier)
                     \/ UNCHANGED tier /\ VersionOf(cache)' = 0
  <1>1. /\ IsBundle(tier) /\ IsBundle(cache) /\ IsBundle(reading)
        /\ IsBundle(tier)'
    BY StepBundle, StepAlone DEF HeldInv, TierIsOneBundle, IsBundle, AloneInv
  <1>2. /\ VersionOf(tier) \in Nat /\ VersionOf(cache) \in Nat
        /\ VersionOf(reading) \in Nat /\ VersionOf(tier') \in Nat
    BY <1>1, BundleVersion DEF IsBundle, Whole, Nothing
  <1>3. VersionOf(tier) <= VersionOf(tier')
    BY StepOrder DEF VersionOf, Whole, Nothing
  <1>4. /\ VersionOf(tier)' = VersionOf(tier')
        /\ VersionOf(cache)' = VersionOf(cache')
        /\ VersionOf(reading)' = VersionOf(reading')
        /\ IsBundle(cache)' <=> IsBundle(cache')
        /\ IsBundle(reading)' <=> IsBundle(reading')
    BY DEF VersionOf, IsBundle, Whole, Nothing
  <1>5. CASE UNCHANGED <<cache, reading>> /\ (reload' = "swap" => reload = "swap")
    BY <1>2, <1>3, <1>4, <1>5 DEF HeldInv
  <1>6. CASE phase = "boot" /\ cache' = tier /\ UNCHANGED <<tier, reading, reload>>
    <2>1. reload = "wait"
      BY <1>6 DEF LoopInv, TypeOK
    <2> QED BY <1>1, <1>2, <1>4, <1>6, <2>1 DEF HeldInv
  <1>7. CASE Query
    <2>1. UNCHANGED <<tier, cache>> /\ reading' = tier
      BY <1>7 DEF Query, tables
    <2> QED BY <1>1, <1>2, <1>4, <2>1 DEF HeldInv
  <1>8. CASE Swap
    <2>1. /\ UNCHANGED <<tier, reading>> /\ cache' = reading
          /\ reload = "swap" /\ reload' = "wait"
      BY <1>8 DEF Swap, tables
    <2> QED BY <1>1, <1>2, <1>4, <2>1 DEF HeldInv
  <1>9. CASE /\ UNCHANGED tier
             /\ cache' = Nothing /\ reading' = Nothing /\ reload' = "wait"
    BY <1>2, <1>4, <1>9, NothingIsNone DEF HeldInv
  <1> QED BY <1>5, <1>6, <1>7, <1>8, <1>9, StepCache

-----------------------------------------------------------------------------
(* The theorems.                                                           *)

\* Memory, disk and tables are well typed in every reachable state, whatever
\* the bundles and the faults; a check that has left "extract" has no file
\* open.
THEOREM TypeCorrect == Spec => []TypeOK
  <1>1. TypeOK /\ [Next]_vars => TypeOK'
    BY StepType
  <1> QED BY <1>1, InitType, PTL DEF Spec

\* The signal reaches the recorder: its trips are the current ones, or will
\* be read again, unless a read failed or the loop had not yet subscribed.
THEOREM CacheFollows == Spec => []CacheFollowsTier
  <1>1. Init => TypeOK /\ LoopInv
    BY InitType DEF Init, LoopInv, CacheFollowsTier, Behind
  <1>2. TypeOK /\ LoopInv /\ [Next]_vars => (TypeOK /\ LoopInv)'
    BY StepType, StepLoop
  <1>3. TypeOK /\ LoopInv => CacheFollowsTier
    BY DEF LoopInv
  <1> QED BY <1>1, <1>2, <1>3, PTL DEF Spec

\* With complete bundles, the entity tables hold one whole bundle wherever a
\* check failed or was killed, unless the fetcher wrote into that check.
THEOREM OneBundle ==
  ASSUME Complete
  PROVE  Spec => []TierIsOneBundle
  <1> DEFINE Inv == TypeOK /\ CopyInv /\ TierIsOneBundle
  <1>1. Init => Inv
    BY InitType DEF Init, CopyInv, NoCopy, TierIsOneBundle
  <1>2. Inv /\ [Next]_vars => Inv'
    BY StepType, StepCopy, StepBundle
  <1>3. Inv => TierIsOneBundle
    OBVIOUS
  <1> QED BY <1>1, <1>2, <1>3, PTL DEF Spec

IInv == /\ TypeOK
        /\ LoopInv
        /\ AloneInv
        /\ CopyInv
        /\ TierIsOneBundle
        /\ OrderInv
        /\ HeldInv

\* The whole invariant, for a city that does not take a bundle back and a
\* fetcher that is not used.
THEOREM Invariance ==
  ASSUME Complete, Forward
  PROVE  Spec => []IInv
  <1>1. Init => IInv
    <2> SUFFICES ASSUME Init PROVE IInv
      OBVIOUS
    <2>1. LoopInv /\ AloneInv /\ CopyInv /\ TierIsOneBundle
      BY DEF Init, AloneInv, LoopInv, CacheFollowsTier, Behind, CopyInv, NoCopy,
         TierIsOneBundle
    <2>2. OrderInv /\ HeldInv
      BY NothingIsNone DEF Init, OrderInv, HeldInv
    <2> QED BY <2>1, <2>2, InitType DEF IInv
  <1>2. IInv /\ [Next]_vars => IInv'
    BY StepType, StepLoop, StepAlone, StepCopy, StepBundle, StepOrder, StepHeld
    DEF IInv
  <1> QED BY <1>1, <1>2, PTL DEF Spec

\* A bundle that the hash short-circuits is in the entity tables.
THEOREM UnchangedCurrent ==
  ASSUME Complete, Forward
  PROVE  Spec => []UnchangedIsCurrent
  <1>1. IInv => UnchangedIsCurrent
    <2> SUFFICES ASSUME IInv, pc = "compare", body = hash
                 PROVE  tier = Whole(body)
      BY DEF UnchangedIsCurrent
    <2>1. body \in Versions
      BY DEF IInv, TypeOK
    <2>2. VersionOf(tier) \in Nat
      BY BundleVersion DEF IInv, AloneInv, TierIsOneBundle, IsBundle
    <2>3. VersionOf(tier) = body
      BY <2>1, <2>2 DEF IInv, OrderInv, Versions
    <2> QED
      BY <2>1, <2>3, BundleVersion
      DEF IInv, AloneInv, TierIsOneBundle, IsBundle, Versions
  <1> QED BY <1>1, Invariance, PTL

\* The loader implements GtfsTimetable: whole bundles, newer ones only, and
\* a recorder whose trips never go back.
THEOREM Refinement ==
  ASSUME Complete, Forward
  PROVE  Spec => TimetableSpec
  <1> DEFINE t == VersionOf(tier)
             h == VersionOf(cache)
  <1>1. Init => Timetable!Init
    BY NothingIsNone DEF Init, Timetable!Init
  <1>2. ASSUME IInv, [Next]_vars
        PROVE  [Timetable!Next]_<<t, h>>
    <2>1. /\ t \in Nat /\ IsBundle(tier)
          /\ IInv'
      BY <1>2, BundleVersion, StepType, StepLoop, StepAlone, StepCopy,
         StepBundle, StepOrder, StepHeld
      DEF IInv, AloneInv, TierIsOneBundle, IsBundle
    <2>2. t <= t'
      BY <1>2, StepOrder DEF IInv
    <2>3. t' \in 0..MaxVersion
      <3>1. IsBundle(tier')
        BY <2>1 DEF IInv, AloneInv, TierIsOneBundle, IsBundle, Whole, Nothing
      <3>2. VersionOf(tier') \in 0..MaxVersion
        BY <3>1, BundleVersion
      <3> QED BY <3>2 DEF VersionOf, Whole, Nothing
    <2>4. UNCHANGED tier => t' = t
      BY DEF VersionOf, Whole, Nothing
    <2>5. \/ h' = h
          \/ UNCHANGED tier /\ h' \in h..t
          \/ UNCHANGED tier /\ h' = 0
      BY <1>2, StepHeld DEF IInv
    <2>6. CASE h' = h /\ t' = t
      BY <2>6
    <2>7. CASE h' = h /\ t' # t
      <3>1. t' > t /\ t' \in 1..MaxVersion
        BY <2>1, <2>2, <2>3, <2>7
      <3> QED BY <2>7, <3>1 DEF Timetable!Next, Timetable!Load
    <2>8. CASE t' = t /\ h' \in h..t
      BY <2>8 DEF Timetable!Next, Timetable!Read
    <2>9. CASE t' = t /\ h' = 0
      BY <2>9 DEF Timetable!Next, Timetable!Exit
    <2> QED BY <2>4, <2>5, <2>6, <2>7, <2>8, <2>9
  <1> QED
    BY <1>1, <1>2, Invariance, PTL DEF Spec, TimetableSpec, Timetable!Spec
=============================================================================
