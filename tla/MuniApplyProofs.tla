--------------------------- MODULE MuniApplyProofs ---------------------------
(***************************************************************************)
(* Proofs about MuniApply, for every set of datasets, packs and bundles,   *)
(* every order of the BOD, and every choice of faults.                     *)
(***************************************************************************)
EXTENDS MuniApply, TLAPS

USE MuniAssumption DEF MuniAssumption

\* What the loop over the datasets has established so far: a dataset that is
\* behind it is in the log, or its pack is remembered as failed.
LoopDone ==
  pc \in {"apply", "packs"} =>
    \A f \in Range(BodOrder) :
      \/ f \in Range(todo)
      \/ PackOf[f] \in packErrors \cup {Nil}
      \/ Content[bundle][f] \in Range(log[f])

TodoDone == pc = "packs" => todo = <<>>

IInv == TypeOK /\ TodoDone /\ LoopDone /\ GreenPackIsApplied

LEMMA AppendRange ==
  ASSUME NEW S, NEW l \in Seq(S), NEW c \in S
  PROVE  /\ Append(l, c) \in Seq(S)
         /\ Range(l) \subseteq Range(Append(l, c))
         /\ c \in Range(Append(l, c))
  <1>1. /\ Len(l) \in Nat
        /\ DOMAIN l = 1..Len(l)
        /\ DOMAIN Append(l, c) = 1..(Len(l) + 1)
        /\ \A i \in 1..Len(l) : Append(l, c)[i] = l[i]
        /\ Append(l, c)[Len(l) + 1] = c
    OBVIOUS
  <1>2. Range(l) \subseteq Range(Append(l, c))
    BY <1>1 DEF Range
  <1>3. c \in Range(Append(l, c))
    BY <1>1 DEF Range
  <1> QED BY <1>2, <1>3

LEMMA AppendLast ==
  ASSUME NEW S, NEW l \in Seq(S), NEW c \in S
  PROVE  Append(l, c) # <<>> /\ Append(l, c)[Len(Append(l, c))] = c
  <1>1. /\ Len(l) \in Nat /\ Len(Append(l, c)) = Len(l) + 1
        /\ Append(l, c)[Len(l) + 1] = c
    OBVIOUS
  <1>2. Append(l, c) # <<>>
    <2>1. ASSUME Append(l, c) = <<>> PROVE FALSE
      <3>1. Len(Append(l, c)) = 0
        BY <2>1
      <3> QED BY <1>1, <3>1
    <2> QED BY <2>1
  <1> QED BY <1>1, <1>2

LEMMA TailRange ==
  ASSUME NEW S, NEW l \in Seq(S), l # <<>>
  PROVE  /\ Head(l) \in S /\ Tail(l) \in Seq(S)
         /\ \A x \in Range(l) : x = Head(l) \/ x \in Range(Tail(l))
  <1>1. /\ Len(l) \in Nat \ {0}
        /\ DOMAIN l = 1..Len(l)
        /\ DOMAIN Tail(l) = 1..(Len(l) - 1)
        /\ \A i \in 1..(Len(l) - 1) : Tail(l)[i] = l[i + 1]
        /\ Head(l) = l[1] /\ l[1] \in S
    OBVIOUS
  <1>2. ASSUME NEW x \in Range(l)
        PROVE  x = Head(l) \/ x \in Range(Tail(l))
    <2>1. PICK i \in 1..Len(l) : x = l[i]
      BY <1>1 DEF Range
    <2>2. CASE i = 1
      BY <1>1, <2>1, <2>2
    <2>3. CASE i # 1
      <3>1. i - 1 \in 1..(Len(l) - 1) /\ (i - 1) + 1 = i
        BY <1>1, <2>3
      <3>2. Tail(l)[i - 1] = x
        BY <1>1, <2>1, <3>1
      <3> QED BY <1>1, <3>1, <3>2 DEF Range
    <2> QED BY <2>2, <2>3
  <1> QED BY <1>1, <1>2

LEMMA LastOfLog ==
  ASSUME NEW S, NEW l \in Seq(S), l # <<>>
  PROVE  l[Len(l)] \in Range(l)
  <1>1. Len(l) \in DOMAIN l
    OBVIOUS
  <1> QED BY <1>1 DEF Range

\* What committing a dataset does to the log and the tables.
LEMMA CommitType ==
  ASSUME TypeOK, bundle \in Versions, NEW f \in Files, Commit(f)
  PROVE  /\ log' \in [Files -> Seq(Rows)]
         /\ table' \in [Files -> Rows]
         /\ Checksum(f) \in Rows
         /\ log'[f] = Append(log[f], Checksum(f))
         /\ \A g \in Files \ {f} : log'[g] = log[g] /\ table'[g] = table[g]
         /\ table'[f] = IF f \in Joined THEN JoinedRows(f) ELSE UpsertedRows(f)
  <1>1. Checksum(f) \in Rows
    BY DEF Checksum
  <1>2. JoinedRows(f) \in Rows /\ UpsertedRows(f) \in Rows
    BY <1>1 DEF JoinedRows, UpsertedRows, Rows, TypeOK
  <1>3. Append(log[f], Checksum(f)) \in Seq(Rows)
    BY <1>1, AppendRange DEF TypeOK
  <1> QED BY <1>1, <1>2, <1>3 DEF Commit, TypeOK

LEMMA StepType ==
  ASSUME TypeOK, [Next]_vars
  PROVE  TypeOK'
  <1> USE DEF TypeOK
  <1>1. CASE Boot \/ GateProduction \/ GateDev
    BY <1>1 DEF Boot, GateProduction, GateDev, Skip, work, db, world
  <1>2. CASE Load \/ LoadFails
    BY <1>2 DEF Load, LoadFails, work, db, world
  <1>3. ASSUME NEW f \in Files, ApplyDataset(f)
        PROVE  TypeOK'
    <2>1. /\ UNCHANGED <<pc, bodSha, bundle, packsTodo, status, packs, checked,
                         devSha, world>>
          /\ bundle \in Versions
      BY <1>3 DEF ApplyDataset
    <2>2. todo' \in Seq(Files)
      BY <1>3, TailRange DEF ApplyDataset
    <2>3. CASE /\ UNCHANGED <<log, table, packErrors>>
               /\ failedLast' = failedLast \ {f}
      BY <2>1, <2>2, <2>3 DEF world
    <2>4. CASE Commit(f)
      BY <2>1, <2>2, <2>4, CommitType DEF Commit, world
    <2>5. CASE Fail(f)
      BY <2>1, <2>2, <2>5 DEF Fail, ErrorsAfter, world
    <2> QED BY <1>3, <2>3, <2>4, <2>5 DEF ApplyDataset
  <1>4. CASE BeginPacks
    <2>1. BundlePacks \subseteq Packs
      BY DEF BundlePacks, Range
    <2> QED BY <1>4, <2>1 DEF BeginPacks, db, world
  <1>5. ASSUME NEW p \in Packs, UpsertPack(p)
        PROVE  TypeOK'
    <2>1. [bundle |-> bundle, failed |-> p \in packErrors]
            \in [bundle : Versions, failed : BOOLEAN]
      BY <1>5 DEF UpsertPack
    <2> QED BY <1>5, <2>1 DEF UpsertPack, world
  <1>6. CASE UpsertPackFails
    BY <1>6 DEF UpsertPackFails, db, world
  <1>7. ASSUME NEW ok \in BOOLEAN, Finish(ok)
        PROVE  TypeOK'
    BY <1>7 DEF Finish, HashToKeep, work, world
  <1>8. CASE Stop
    BY <1>8 DEF Stop, db, world
  <1>9. CASE Day
    BY <1>9 DEF Day, work, world
  <1>10. CASE Publish
    BY <1>10 DEF Publish, work, db, Versions
  <1>11. CASE UNCHANGED vars
    BY <1>11 DEF vars, work, db, world
  <1> QED BY <1>1, <1>2, <1>3, <1>4, <1>5, <1>6, <1>7, <1>8, <1>9, <1>10, <1>11
          DEF Next, Server

\* The log only grows.
LEMMA LogGrows ==
  ASSUME TypeOK, [Next]_vars, NEW f \in Files
  PROVE  Range(log[f]) \subseteq Range(log'[f])
  <1>1. ASSUME NEW g \in Files, ApplyDataset(g)
        PROVE  Range(log[f]) \subseteq Range(log'[f])
    <2>1. CASE UNCHANGED log
      BY <2>1
    <2>2. CASE Commit(g)
      <3>1. bundle \in Versions
        BY <1>1 DEF ApplyDataset, TypeOK
      <3>2. /\ g = f => log'[f] = Append(log[f], Checksum(f))
            /\ g # f => log'[f] = log[f]
            /\ Checksum(g) \in Rows
        BY <2>2, <3>1, CommitType
      <3> QED BY <3>2, AppendRange DEF TypeOK
    <2> QED BY <1>1, <2>1, <2>2 DEF ApplyDataset, Fail
  <1>2. CASE UNCHANGED log
    BY <1>2
  <1> QED
    BY <1>1, <1>2 DEF Next, Server, Boot, GateProduction, GateDev, Load,
       LoadFails, BeginPacks, UpsertPack, UpsertPackFails, Finish, Stop, Day,
       Publish, vars, db

LEMMA StepLoop ==
  ASSUME TypeOK, TodoDone, LoopDone, [Next]_vars
  PROVE  TodoDone' /\ LoopDone'
  <1> DEFINE done(f) == \/ PackOf[f] \in packErrors \cup {Nil}
                        \/ Content[bundle][f] \in Range(log[f])
  <1>1. CASE Load
    BY <1>1 DEF Load, TodoDone, LoopDone
  <1>2. ASSUME NEW g \in Files, ApplyDataset(g)
        PROVE  TodoDone' /\ LoopDone'
    <2>1. /\ pc = "apply" /\ pc' = "apply" /\ bundle' = bundle
          /\ g = Head(todo) /\ todo # <<>> /\ todo' = Tail(todo)
          /\ bundle \in Versions /\ todo \in Seq(Files)
      BY <1>2 DEF ApplyDataset, TypeOK
    <2>2. packErrors \subseteq packErrors'
      BY <1>2 DEF ApplyDataset, Commit, Fail, ErrorsAfter
    <2>3. ASSUME NEW f \in Files, done(f)
          PROVE  done(f)'
      BY <2>1, <2>2, <2>3, LogGrows
    <2>4. done(g)'
      <3>1. CASE AlreadyApplied(g) /\ UNCHANGED log
        <4>1. Content[bundle][g] \in Range(log[g])
          BY <3>1, LastOfLog DEF AlreadyApplied, Checksum, TypeOK
        <4> QED BY <2>1, <3>1, <4>1
      <3>2. CASE Commit(g)
        <4>1. /\ log'[g] = Append(log[g], Checksum(g))
              /\ Checksum(g) \in Rows /\ log[g] \in Seq(Rows)
          BY <2>1, <3>2, CommitType DEF TypeOK
        <4>2. Checksum(g) \in Range(log'[g])
          BY <4>1, AppendRange
        <4> QED BY <2>1, <4>2 DEF Checksum
      <3>3. CASE Fail(g)
        BY <3>3 DEF Fail, ErrorsAfter
      <3> QED BY <1>2, <3>1, <3>2, <3>3 DEF ApplyDataset
    <2>5. ASSUME NEW f \in Range(BodOrder)
          PROVE  f \in Range(todo') \/ done(f)'
      <3>1. f \in Files
        BY DEF Range
      <3>2. CASE f \in Range(todo)
        <4>1. f = g \/ f \in Range(todo')
          BY <2>1, <3>2, TailRange
        <4> QED BY <2>4, <4>1
      <3>3. CASE done(f)
        BY <2>3, <3>1, <3>3
      <3> QED BY <2>1, <3>2, <3>3 DEF LoopDone
    <2> QED BY <2>1, <2>5 DEF TodoDone, LoopDone
  <1>3. CASE BeginPacks
    BY <1>3 DEF BeginPacks, db, TodoDone, LoopDone
  <1>4. CASE \/ \E p \in Packs : UpsertPack(p)
             \/ UpsertPackFails \/ Day \/ Publish \/ UNCHANGED vars
    BY <1>4 DEF UpsertPack, UpsertPackFails, Day, Publish, work, db, vars,
                TodoDone, LoopDone
  <1>5. CASE \/ Boot \/ GateProduction \/ GateDev \/ LoadFails \/ Stop
             \/ \E ok \in BOOLEAN : Finish(ok)
    BY <1>5 DEF Boot, GateProduction, GateDev, Skip, LoadFails, Stop, Finish,
                TodoDone, LoopDone
  <1> QED BY <1>1, <1>2, <1>3, <1>4, <1>5 DEF Next, Server

LEMMA StepGreen ==
  ASSUME TypeOK, TodoDone, LoopDone, GreenPackIsApplied, [Next]_vars
  PROVE  GreenPackIsApplied'
  <1>1. \A f \in Range(BodOrder) :
          f \in Files /\ Range(log[f]) \subseteq Range(log'[f])
    <2>1. Range(BodOrder) \subseteq Files
      BY DEF Range
    <2> QED BY <2>1, LogGrows
  <1>2. CASE UNCHANGED packs
    BY <1>1, <1>2 DEF GreenPackIsApplied
  <1>3. ASSUME NEW q \in Packs, UpsertPack(q)
        PROVE  GreenPackIsApplied'
    <2>1. /\ UNCHANGED log /\ pc = "packs" /\ todo = <<>>
          /\ packs' = [packs EXCEPT ![q] =
                         [bundle |-> bundle, failed |-> q \in packErrors]]
      BY <1>3 DEF UpsertPack, TodoDone
    <2>2. ASSUME NEW f \in Range(BodOrder), PackOf[f] = q, q \notin packErrors
          PROVE  Content[bundle][f] \in Range(log[f])
      <3>1. f \notin Range(todo)
        BY <2>1 DEF Range
      <3> QED BY <2>1, <2>2, <3>1 DEF LoopDone
    <2>3. /\ packs'[q].bundle = bundle /\ packs'[q].failed = (q \in packErrors)
          /\ \A p \in Packs \ {q} : packs'[p] = packs[p]
      BY <2>1 DEF TypeOK
    <2> QED BY <2>1, <2>2, <2>3 DEF GreenPackIsApplied
  <1> QED
    BY <1>2, <1>3 DEF Next, Server, Boot, GateProduction, GateDev, Load,
       LoadFails, ApplyDataset, BeginPacks, UpsertPackFails, Finish, Stop, Day,
       Publish, vars, db

\* The invariant: types, and what the loop and the packs say of the log.
THEOREM Invariance == Spec => []IInv
  <1>1. Init => IInv
    <2> SUFFICES ASSUME Init PROVE IInv
      OBVIOUS
    <2>1. TypeOK
      <3>1. log \in [Files -> Seq(Rows)] /\ table \in [Files -> Rows]
        BY DEF Init, Rows
      <3> QED BY <3>1 DEF Init, TypeOK, Versions
    <2> QED BY <2>1 DEF Init, IInv, TodoDone, LoopDone, GreenPackIsApplied
  <1>2. IInv /\ [Next]_vars => IInv'
    BY StepType, StepLoop, StepGreen DEF IInv
  <1> QED BY <1>1, <1>2, PTL DEF Spec

\* The boot's memory, the log, the tables and the pack registry stay well
\* formed through failed datasets and crashes.
THEOREM TypeCorrect == Spec => []TypeOK
  <1>1. IInv => TypeOK
    BY DEF IInv
  <1> QED BY <1>1, Invariance, PTL

\* A pack shown without an error has all its datasets in the log, at the
\* checksums of the bundle it names, wherever the boot failed or was killed.
THEOREM GreenPacksApplied == Spec => []GreenPackIsApplied
  <1>1. IInv => GreenPackIsApplied
    BY DEF IInv
  <1> QED BY <1>1, Invariance, PTL

\* The log and the upserted tables implement MuniStore: rows and entry come
\* in one step, never the same checksum twice in a row, nothing taken back.
THEOREM Refinement == Spec => StoreSpec
  <1> DEFINE st == [f \in Upserted |-> table[f]]
  <1>1. Init => Store!Init
    BY DEF Init, Store!Init, Upserted
  <1>2. ASSUME IInv, [Next]_vars
        PROVE  [Store!Next]_<<log, st>>
    <2>1. ASSUME NEW f \in Files, ApplyDataset(f), Commit(f), ~AlreadyApplied(f)
          PROVE  Store!Next
      <3>1. bundle \in Versions /\ TypeOK
        BY <1>2, <2>1 DEF IInv, ApplyDataset, TypeOK
      <3>2. Checksum(f) \in Rows
        BY <2>1, <3>1, CommitType
      <3>3. ~Store!IsLatest(f, Checksum(f))
        BY <2>1 DEF AlreadyApplied, Store!IsLatest
      <3>4. log' = [log EXCEPT ![f] = Append(@, Checksum(f))]
        BY <2>1 DEF Commit
      <3>5. ASSUME NEW g \in Upserted
            PROVE  table'[g] = IF g = f THEN Store!Merged(st[g], Checksum(f))
                                        ELSE st[g]
        <4>1. st[g] = table[g] /\ g \in Files /\ g \notin Joined
          BY DEF Upserted
        <4>2. g = f => table'[g] = UpsertedRows(f)
          BY <2>1, <3>1, <4>1, CommitType
        <4>3. g # f => table'[g] = table[g]
          BY <2>1, <3>1, <4>1, CommitType
        <4>4. UpsertedRows(f) = Store!Merged(table[f], Checksum(f))
          BY DEF UpsertedRows, Store!Merged
        <4> QED BY <4>1, <4>2, <4>3, <4>4
      <3>6. st' = [g \in Upserted |->
                     IF g = f THEN Store!Merged(st[g], Checksum(f)) ELSE st[g]]
        BY <3>5
      <3> QED BY <3>2, <3>3, <3>4, <3>6 DEF Store!Next, Store!Load
    <2>2. CASE UNCHANGED <<log, table>>
      BY <2>2
    <2>3. ASSUME NEW f \in Files, ApplyDataset(f)
          PROVE  [Store!Next]_<<log, st>>
      BY <2>1, <2>2, <2>3 DEF ApplyDataset, Fail
    <2> QED
      BY <1>2, <2>2, <2>3 DEF Next, Server, Boot, GateProduction, GateDev, Load,
         LoadFails, BeginPacks, UpsertPack, UpsertPackFails, Finish, Stop, Day,
         Publish, vars, db
  <1> QED BY <1>1, <1>2, Invariance, PTL DEF Spec, StoreSpec, Store!Spec

-----------------------------------------------------------------------------
(* The hash a development boot keeps.                                      *)

Settled(f, v) == f \in failedLast \/ Current(f, v)

Applying == pc \in {"apply", "packs"}

\* The three versions a boot holds only move forward: what was hashed is not
\* newer than what was loaded, which is not older than the hash kept before.
DevOrder ==
  /\ bodSha \in Versions => bodSha <= published
  /\ bundle \in Versions => bundle <= published
  /\ devSha \in Versions => devSha <= published
  /\ pc \in {"load", "apply", "packs"} => bodSha \in Versions
  /\ Applying => bodSha <= bundle /\ (devSha \in Versions => devSha <= bundle)

DevLoop ==
  Applying => \A f \in Range(BodOrder) : f \in Range(todo) \/ Settled(f, bundle)

DevKept == devSha = published => \A f \in Range(BodOrder) : Settled(f, devSha)

DevSkipped ==
  status = "skipped" =>
    pc = "up" /\ \A f \in Range(BodOrder) : Settled(f, bodSha)

DevInv == localDev => DevOrder /\ DevLoop /\ DevKept /\ DevSkipped

\* A dataset that is applied is settled at the bundle, one that is not keeps
\* what it had.
LEMMA AppliedIsSettled ==
  ASSUME TypeOK, localDev, NEW g \in Files, ApplyDataset(g),
         NEW f \in Files, NEW v \in Versions
  PROVE  /\ Settled(g, bundle)'
         /\ Settled(f, v) /\ (v = bundle \/ f # g) => Settled(f, v)'
  <1> bundle \in Versions /\ bundle' = bundle /\ log \in [Files -> Seq(Rows)]
    BY DEF ApplyDataset, TypeOK
  <1>1. CASE /\ AlreadyApplied(g)
             /\ failedLast' = failedLast \ {g}
             /\ UNCHANGED <<log, table, packErrors>>
    BY <1>1 DEF Settled, Current, Latest, AlreadyApplied, Checksum
  <1>2. CASE Commit(g)
    <2>1. /\ log'[g] = Append(log[g], Checksum(g))
          /\ log[g] \in Seq(Rows) /\ Checksum(g) \in Rows
          /\ \A h \in Files \ {g} : log'[h] = log[h]
          /\ failedLast' = failedLast \ {g}
      BY <1>2, CommitType DEF Commit
    <2>2. log'[g] # <<>> /\ log'[g][Len(log'[g])] = Checksum(g)
      BY <2>1, AppendLast
    <2>3. Settled(g, bundle)'
      BY <2>2 DEF Settled, Current, Latest, Checksum
    <2>4. f # g /\ Settled(f, v) => Settled(f, v)'
      BY <2>1 DEF Settled, Current, Latest
    <2> QED BY <2>3, <2>4
  <1>3. CASE Fail(g)
    BY <1>3 DEF Fail, Settled, Current, Latest
  <1> QED BY <1>1, <1>2, <1>3 DEF ApplyDataset

LEMMA StepDev ==
  ASSUME TypeOK, TypeOK', TodoDone, DevInv, [Next]_vars
  PROVE  DevInv'
  <1> SUFFICES ASSUME localDev'
               PROVE  DevOrder' /\ DevLoop' /\ DevKept' /\ DevSkipped'
    BY DEF DevInv
  <1>1. localDev
    BY DEF Next, Server, Boot, GateProduction, GateDev, Load, LoadFails,
       ApplyDataset, BeginPacks, UpsertPack, UpsertPackFails, Finish, Stop, Day,
       Publish, vars, world
  <1>2. DevOrder /\ DevLoop /\ DevKept /\ DevSkipped
    BY <1>1 DEF DevInv
  <1>3. /\ Versions \subseteq Nat /\ published \in Versions /\ Nil \notin Versions
        /\ devSha \in Versions \cup {Nil} /\ bodSha \in Versions \cup {Nil}
        /\ Range(BodOrder) \subseteq Files
    BY DEF TypeOK, Versions, Range
  <1> USE <1>1, <1>2, <1>3
  <1> USE DEF DevOrder, DevLoop, DevKept, DevSkipped, Applying
  <1>4. CASE Boot
    BY <1>4 DEF Boot, work, db, world, Settled, Current, Latest
  <1>5. CASE GateDev
    BY <1>5 DEF GateDev, Skip, db, world, Settled, Current, Latest
  <1>6. CASE Load
    <2>1. Range(todo') = Range(BodOrder)
      BY <1>6 DEF Load
    <2> QED BY <1>6, <2>1 DEF Load, db, world, Settled, Current, Latest
  <1>7. CASE LoadFails
    BY <1>7 DEF LoadFails, work, db, world, Settled, Current, Latest
  <1>8. ASSUME NEW g \in Files, ApplyDataset(g)
        PROVE  DevOrder' /\ DevLoop' /\ DevKept' /\ DevSkipped'
    <2>1. /\ pc = "apply" /\ g = Head(todo) /\ todo # <<>> /\ todo' = Tail(todo)
          /\ UNCHANGED <<pc, bodSha, bundle, status, devSha, published>>
          /\ bundle \in Versions /\ todo \in Seq(Files)
      BY <1>8 DEF ApplyDataset, TypeOK, world
    <2>2. DevLoop'
      <3>1. ASSUME NEW f \in Range(BodOrder), f \in Range(todo)
            PROVE  f = g \/ f \in Range(todo')
        BY <2>1, <3>1, TailRange
      <3>2. Settled(g, bundle)'
        BY <1>8, <2>1, AppliedIsSettled
      <3>3. ASSUME NEW f \in Range(BodOrder), Settled(f, bundle)
            PROVE  Settled(f, bundle)'
        BY <1>8, <2>1, <3>3, AppliedIsSettled
      <3> QED BY <2>1, <3>1, <3>2, <3>3
    <2>3. DevKept'
      <3>1. devSha = published => bundle = devSha
        <4>1. devSha \in Versions => devSha <= bundle
          BY <2>1
        <4>2. bundle <= published /\ bundle \in Nat /\ published \in Nat
          BY <2>1
        <4> QED BY <4>1, <4>2
      <3>2. ASSUME NEW f \in Range(BodOrder), devSha = published
            PROVE  Settled(f, devSha)'
        BY <1>8, <2>1, <3>1, <3>2, AppliedIsSettled
      <3> QED BY <2>1, <3>2
    <2>4. DevOrder' /\ DevSkipped'
      BY <2>1
    <2> QED BY <2>2, <2>3, <2>4
  <1>9. CASE BeginPacks
    BY <1>9 DEF BeginPacks, db, world, Settled, Current, Latest
  <1>10. ASSUME NEW p \in Packs, UpsertPack(p)
         PROVE  DevOrder' /\ DevLoop' /\ DevKept' /\ DevSkipped'
    BY <1>10 DEF UpsertPack, world, Settled, Current, Latest
  <1>11. CASE UpsertPackFails
    BY <1>11 DEF UpsertPackFails, db, world, Settled, Current, Latest
  <1>12. ASSUME NEW ok \in BOOLEAN, Finish(ok)
         PROVE  DevOrder' /\ DevLoop' /\ DevKept' /\ DevSkipped'
    <2>1. /\ pc = "packs" /\ pc' = "up" /\ status' = "ok"
          /\ UNCHANGED <<bodSha, bundle, log, failedLast, published>>
          /\ devSha' = IF ok THEN bodSha ELSE devSha
      BY <1>12 DEF Finish, HashToKeep, work, world
    <2>2. \A f \in Range(BodOrder) : Settled(f, bundle)
      BY <2>1 DEF TodoDone, Range
    <2>3. bundle \in Versions /\ bodSha \in Versions
      BY <2>1 DEF TypeOK
    <2>4. bodSha = published => bundle = bodSha
      <3>1. bodSha <= bundle /\ bundle <= published
        BY <2>1, <2>3
      <3>2. bodSha \in Nat /\ bundle \in Nat /\ published \in Nat
        BY <2>3
      <3> QED BY <3>1, <3>2
    <2>5. ASSUME NEW f \in Files, NEW v
          PROVE  Settled(f, v)' = Settled(f, v')
      BY <2>1 DEF Settled, Current, Latest
    <2>6. DevKept'
      BY <2>1, <2>2, <2>4, <2>5
    <2> QED BY <2>1, <2>3, <2>6
  <1>13. CASE Stop
    BY <1>13 DEF Stop, db, world, Settled, Current, Latest
  <1>14. CASE Day
    BY <1>14 DEF Day, work, world, Settled, Current, Latest
  <1>15. CASE Publish
    <2>1. /\ published' = published + 1
          /\ UNCHANGED <<pc, bodSha, bundle, todo, status, log, failedLast, devSha>>
      BY <1>15 DEF Publish, work, db
    <2>2. ASSUME NEW v \in Versions, v <= published
          PROVE  v <= published' /\ v # published'
      <3>1. v \in Nat /\ published \in Nat
        OBVIOUS
      <3> QED BY <2>1, <2>2, <3>1
    <2>3. devSha' # published'
      <3>1. published' \in Versions
        BY DEF TypeOK
      <3> QED BY <2>1, <2>2, <3>1
    <2>4. DevOrder'
      BY <2>1, <2>2
    <2>5. ASSUME NEW f, NEW v
          PROVE  Settled(f, v)' = Settled(f, v')
      BY <2>1 DEF Settled, Current, Latest
    <2>6. DevLoop' /\ DevSkipped'
      BY <2>1, <2>5
    <2>7. DevKept'
      BY <2>3
    <2> QED BY <2>4, <2>6, <2>7
  <1>16. CASE UNCHANGED vars
    BY <1>16 DEF vars, work, db, world, Settled, Current, Latest
  <1>17. CASE Server
    BY <1>4, <1>5, <1>6, <1>7, <1>8, <1>9, <1>10, <1>11, <1>12, <1>17
       DEF Server, GateProduction
  <1> QED BY <1>13, <1>14, <1>15, <1>16, <1>17 DEF Next

\* A development boot that the kept hash lets skip finds every dataset current
\* but those whose last attempt failed, for any number of bundles published
\* while it applies and wherever it is cut off.
THEOREM SkipIsSafe == Spec => []SkipLeavesNothing
  <1>1. Init => DevInv
    BY DEF Init, DevInv, DevOrder, DevLoop, DevKept, DevSkipped, Applying,
           Versions
  <1>2. IInv /\ IInv' /\ DevInv /\ [Next]_vars => DevInv'
    BY StepDev DEF IInv
  <1>3. DevInv => SkipLeavesNothing
    BY DEF DevInv, DevSkipped, SkipLeavesNothing, Settled
  <1> QED BY <1>1, <1>2, <1>3, Invariance, PTL DEF Spec
=============================================================================
