------------------------ MODULE CouncilArchiveProofs ------------------------
(***************************************************************************)
(* Proofs about CouncilArchive, for every number of meetings, dates,       *)
(* motions, agenda items and versions of the minutes, any number of        *)
(* fetches, and every choice of faults and tools.                          *)
(***************************************************************************)
EXTENDS CouncilArchive, TLAPS

USE ArchiveAssumption DEF ArchiveAssumption

-----------------------------------------------------------------------------
(* Readings and rows.                                                      *)

LEMMA ReadingsType == \A m \in Meetings : Readings(m) \subseteq Seq(Texts)
  <1> SUFFICES ASSUME NEW m \in Meetings, NEW r \in Readings(m) PROVE r \in Seq(Texts)
    OBVIOUS
  <1>1. PICK n \in Meetings : r \in {Minutes[n][v] : v \in DOMAIN Minutes[n]}
    BY DEF Readings
  <1>2. Minutes[n] \in Seq(Seq(Texts))
    OBVIOUS
  <1>3. \A v \in DOMAIN Minutes[n] : Minutes[n][v] \in Seq(Texts)
    BY <1>2
  <1> QED BY <1>1, <1>3

LEMMA SameFile ==
  ASSUME NEW m \in Meetings, NEW n \in Meetings, FileOf[m] = FileOf[n]
  PROVE  Readings(m) = Readings(n)
  BY DEF Readings

LEMMA OwnReading ==
  ASSUME NEW m \in Meetings, NEW v \in 1..Len(Minutes[m])
  PROVE  Minutes[m][v] \in Readings(m)
  BY DEF Readings

LEMMA VersionsType == \A m \in Meetings : Len(Minutes[m]) \in Nat
  <1> SUFFICES ASSUME NEW m \in Meetings PROVE Len(Minutes[m]) \in Nat
    OBVIOUS
  <1>1. Minutes[m] \in Seq(Seq(Texts))
    OBVIOUS
  <1> QED BY <1>1

LEMMA FilesType == \A m \in Meetings : FileOf[m] \in Files
  BY DEF Files

\* A row that is new, and one that gets another motion.
LEMMA NewRowType ==
  ASSUME NEW t \in Texts, fetches \in 1..MaxFetches
  PROVE  /\ NewRow(t) \in Rows /\ ~NewRow(t).curated
         /\ NewRow(t).text = t /\ NewRow(t).votes = Votes(t)
         /\ NewRow(t).born = fetches /\ NewRow(t).summary = Nil
  BY DEF NewRow, Rows, Votes, Significances

LEMMA SavedType ==
  ASSUME NEW old \in Seq(Rows), NEW texts \in Seq(Texts), fetches \in 1..MaxFetches
  PROVE  /\ Saved(old, texts) \in Seq(Rows)
         /\ DOMAIN Saved(old, texts) = DOMAIN texts
         /\ \A i \in DOMAIN texts :
              /\ Saved(old, texts)[i].text = texts[i]
              /\ Saved(old, texts)[i].votes = Votes(texts[i])
              /\ i \in DOMAIN old =>
                   /\ Saved(old, texts)[i].born = old[i].born
                   /\ Saved(old, texts)[i].summary = old[i].summary
                   /\ Saved(old, texts)[i].curated = old[i].curated
                   /\ Saved(old, texts)[i].significance = old[i].significance
              /\ i \notin DOMAIN old =>
                   /\ ~Saved(old, texts)[i].curated
                   /\ Saved(old, texts)[i].born = fetches
                   /\ Saved(old, texts)[i].summary = Nil
  <1>1. ASSUME NEW i \in 1..Len(texts)
        PROVE  /\ Saved(old, texts)[i] \in Rows
               /\ Saved(old, texts)[i].text = texts[i]
               /\ Saved(old, texts)[i].votes = Votes(texts[i])
               /\ i \in DOMAIN old =>
                    /\ Saved(old, texts)[i].born = old[i].born
                    /\ Saved(old, texts)[i].summary = old[i].summary
                    /\ Saved(old, texts)[i].curated = old[i].curated
                    /\ Saved(old, texts)[i].significance = old[i].significance
               /\ i \notin DOMAIN old =>
                    /\ ~Saved(old, texts)[i].curated
                    /\ Saved(old, texts)[i].born = fetches
                    /\ Saved(old, texts)[i].summary = Nil
    <2>1. texts[i] \in Texts
      OBVIOUS
    <2>2. Votes(texts[i]) \in Texts \cup {Nil}
      BY <2>1 DEF Votes
    <2>3. CASE i > Len(old)
      <3>1. Saved(old, texts)[i] = NewRow(texts[i])
        BY <2>3 DEF Saved
      <3> QED BY <2>1, <2>3, <3>1, NewRowType
    <2>4. CASE ~(i > Len(old))
      <3>1. i \in DOMAIN old /\ old[i] \in Rows
        BY <2>4
      <3>2. Saved(old, texts)[i] =
              [old[i] EXCEPT !.text = texts[i], !.votes = Votes(texts[i])]
        BY <2>4 DEF Saved
      <3> QED BY <2>1, <2>2, <3>1, <3>2 DEF Rows
    <2> QED BY <2>3, <2>4
  <1>2. DOMAIN Saved(old, texts) = 1..Len(texts) /\ Len(texts) \in Nat
    BY DEF Saved
  <1>3. Saved(old, texts) = [i \in 1..Len(texts) |-> Saved(old, texts)[i]]
    BY DEF Saved
  <1>4. Saved(old, texts) \in Seq(Rows)
    BY <1>1, <1>2, <1>3
  <1> QED BY <1>1, <1>2, <1>4

-----------------------------------------------------------------------------
(* The invariant.                                                          *)

\* A row, a record and a question have the item of the motion that their
\* summary is of, for a meeting whose motions kept their rows.
RecordOK(r) ==
  r.meeting \notin shifted /\ r.summary # Nil => ItemOf[r.summary] = r.item

QuestionOK(a) ==
  a.meeting \notin shifted =>
    \A i \in DOMAIN rows[a.meeting] :
      i = a.index /\ rows[a.meeting][i].born = a.born =>
        ItemOf[rows[a.meeting][i].text] = ItemOf[a.text]

\* Before a fetch saves, no row and no question is of this fetch.
Unborn ==
  pc \in {"download", "save"} =>
    /\ \A m \in Meetings : \A i \in DOMAIN rows[m] : rows[m][i].born < fetches
    /\ \A a \in asked : a.born < fetches

ArchiveInv ==
  /\ TypeOK
  /\ pc # "idle" => fetches > 0
  /\ Unborn
  /\ RowsAreOneReading
  /\ SummaryIsOfItem
  /\ \A r \in left : RecordOK(r)
  /\ file # Nil => \A r \in file : RecordOK(r)
  /\ \A a \in asked : QuestionOK(a)
  /\ \A a \in asked : a.born <= fetches
  /\ \A m \in Meetings : \A i \in DOMAIN rows[m] : rows[m][i].born <= fetches

LEMMA InitInv == Init => ArchiveInv
  <1> SUFFICES ASSUME Init PROVE ArchiveInv
    OBVIOUS
  <1>1. ASSUME NEW m \in Meetings PROVE ReadingsOK(m)
    <2>1. FileOf[m] \in Files /\ Len(Minutes[m]) \in Nat
      BY FilesType, VersionsType
    <2>2. disk[FileOf[m]] = Nil /\ city[m] = 0
      BY <2>1 DEF Init
    <2> QED BY <2>1, <2>2 DEF Init, ReadingsOK
  <1>2. TypeOK
    <2>1. /\ disk \in [Files -> Seq(Texts) \cup {Nil, Torn}]
          /\ parsed \in [Meetings -> Seq(Texts)]
          /\ rows \in [Meetings -> Seq(Rows)]
          /\ json \in [Meetings -> Seq(Texts) \cup {Nil}]
      BY DEF Init
    <2>2. /\ city \in [Meetings -> Nat]
          /\ todo \subseteq listed /\ listed \subseteq Meetings
          /\ left \subseteq Records /\ asked \subseteq Asked
          /\ shifted \subseteq Meetings
      BY DEF Init
    <2>3. fetches \in 0..MaxFetches
      BY DEF Init
    <2> QED BY <1>1, <2>1, <2>2, <2>3 DEF Init, TypeOK
  <1>3. \A m \in Meetings : rows[m] = <<>>
    BY DEF Init
  <1>6. \A m \in Meetings : DOMAIN rows[m] = {}
    <2> SUFFICES ASSUME NEW m \in Meetings PROVE DOMAIN rows[m] = {}
      OBVIOUS
    <2>1. rows[m] = <<>>
      BY <1>3
    <2> QED BY <2>1
  <1>4. RowsAreOneReading
    <2>1. ASSUME NEW m \in Meetings PROVE MotionsOf(m) = <<>>
      <3>1. DOMAIN rows[m] = {}
        BY <1>6
      <3> QED BY <3>1 DEF MotionsOf
    <2> QED BY <1>6, <2>1 DEF RowsAreOneReading
  <1>5. SummaryIsOfItem
    BY <1>6 DEF SummaryIsOfItem
  <1> QED BY <1>2, <1>4, <1>5, <1>6 DEF Init, ArchiveInv, Unborn

-----------------------------------------------------------------------------
(* Type correctness, step by step.                                         *)

LEMMA PublishType ==
  ASSUME TypeOK, NEW m \in Meetings, PublishMinutes(m)
  PROVE  TypeOK'
  <1>1. city' \in [Meetings -> Nat]
    BY DEF TypeOK, PublishMinutes
  <1>2. ASSUME NEW n \in Meetings PROVE ReadingsOK(n)'
    <2>1. Len(Minutes[n]) \in Nat
      BY VersionsType
    <2>2. city'[n] \in 0..Len(Minutes[n]) /\ (n \in listed => city'[n] > 0)
      BY <2>1 DEF TypeOK, PublishMinutes, ReadingsOK
    <2> QED BY <2>2 DEF TypeOK, PublishMinutes, ReadingsOK, Readings, fetcher, tables
  <1> QED BY <1>1, <1>2 DEF TypeOK, PublishMinutes, fetcher, tables, history

LEMMA RemoveType ==
  ASSUME TypeOK, NEW p \in Files, RemoveFile(p)
  PROVE  TypeOK'
  <1>1. disk' \in [Files -> Seq(Texts) \cup {Nil, Torn}]
    BY DEF TypeOK, RemoveFile
  <1>2. ASSUME NEW n \in Meetings PROVE ReadingsOK(n)'
    BY FilesType DEF TypeOK, RemoveFile, ReadingsOK, Readings, fetcher, tables
  <1> QED BY <1>1, <1>2 DEF TypeOK, RemoveFile, fetcher, tables, history

LEMMA ListType ==
  ASSUME TypeOK, List
  PROVE  TypeOK'
  <1>1. ASSUME NEW n \in Meetings PROVE ReadingsOK(n)'
    BY DEF TypeOK, List, ReadingsOK, Readings, tables
  <1>2. fetches' \in 0..MaxFetches
    BY DEF TypeOK, List
  <1> QED BY <1>1, <1>2 DEF TypeOK, List, tables, history

LEMMA DownloadType ==
  ASSUME TypeOK, NEW m \in Meetings, Download(m)
  PROVE  TypeOK'
  <1>1. m \in listed /\ city[m] \in 1..Len(Minutes[m])
    BY VersionsType DEF TypeOK, Download, ReadingsOK
  <1>2. Minutes[m][city[m]] \in Readings(m)
    BY <1>1, OwnReading
  <1>3. FileOf[m] \in Files /\ Readings(m) \subseteq Seq(Texts)
    BY FilesType, ReadingsType
  <1>4. disk' \in [Files -> Seq(Texts) \cup {Nil, Torn}]
    BY <1>2, <1>3 DEF TypeOK, Download
  <1>5. ASSUME NEW n \in Meetings PROVE ReadingsOK(n)'
    <2>1. FileOf[n] \in Files
      BY FilesType
    <2>2. CASE FileOf[n] = FileOf[m]
      <3>1. Readings(n) = Readings(m)
        BY <2>2, SameFile
      <3>2. disk'[FileOf[n]] \in Readings(n) \cup {Nil, Torn}
        BY <1>2, <1>3, <2>2, <3>1 DEF TypeOK, Download, ReadingsOK
      <3> QED BY <3>2 DEF TypeOK, Download, ReadingsOK, Readings, tables
    <2>3. CASE FileOf[n] # FileOf[m]
      <3>1. disk'[FileOf[n]] = disk[FileOf[n]]
        BY <2>1, <2>3 DEF TypeOK, Download
      <3> QED BY <3>1 DEF TypeOK, Download, ReadingsOK, Readings, tables
    <2> QED BY <2>2, <2>3
  <1> QED BY <1>4, <1>5 DEF TypeOK, Download, tables, history

LEMMA DownloadFailsType ==
  ASSUME TypeOK, NEW m \in Meetings, DownloadFails(m)
  PROVE  TypeOK'
  <1>1. ASSUME NEW n \in Meetings PROVE ReadingsOK(n)'
    BY DEF TypeOK, DownloadFails, ReadingsOK, Readings, tables
  <1> QED BY <1>1 DEF TypeOK, DownloadFails, tables, history

LEMMA ParseType ==
  ASSUME TypeOK, Parse
  PROVE  TypeOK'
  <1>1. PICK bad \in SUBSET listed :
          parsed' = [m \in Meetings |->
                       IF m \in listed \ bad THEN Reading(FileOf[m]) ELSE <<>>]
    BY DEF Parse, TypeOK
  <1>2. ASSUME NEW n \in Meetings
        PROVE  parsed'[n] \in Readings(n) \cup {<<>>} /\ parsed'[n] \in Seq(Texts)
    <2>1. disk[FileOf[n]] \in Readings(n) \cup {Nil, Torn}
      BY DEF TypeOK, ReadingsOK
    <2>2. Readings(n) \subseteq Seq(Texts)
      BY ReadingsType
    <2> QED BY <1>1, <2>1, <2>2 DEF Reading
  <1>3. parsed' \in [Meetings -> Seq(Texts)]
    BY <1>1, <1>2
  <1>4. ASSUME NEW n \in Meetings PROVE ReadingsOK(n)'
    BY <1>2 DEF TypeOK, Parse, ReadingsOK, Readings, tables
  <1> QED BY <1>3, <1>4 DEF TypeOK, Parse, tables, history

LEMMA SaveType ==
  ASSUME TypeOK, fetches > 0, Save
  PROVE  TypeOK'
  <1>1. ASSUME NEW n \in Meetings PROVE ReadingsOK(n)'
    BY DEF TypeOK, Save, ReadingsOK, Readings
  <1>2. rows' \in [Meetings -> Seq(Rows)]
    <2>1. fetches \in 1..MaxFetches
      BY DEF TypeOK
    <2>2. \A m \in Meetings : Saved(rows[m], parsed[m]) \in Seq(Rows)
      BY <2>1, SavedType DEF TypeOK
    <2> QED BY <2>2 DEF TypeOK, Save
  <1>3. left' \subseteq Records /\ shifted' \subseteq Meetings
    BY DEF TypeOK, Save
  <1> QED BY <1>1, <1>2, <1>3 DEF TypeOK, Save

\* The end of a fetch, however it ends.
LEMMA IdleReadings ==
  ASSUME TypeOK, Idle, UNCHANGED city, UNCHANGED disk,
         \A m \in Meetings : json'[m] \in Readings(m) \cup {<<>>, Nil}
  PROVE  /\ parsed' \in [Meetings -> Seq(Texts)]
         /\ \A n \in Meetings : ReadingsOK(n)'
  BY DEF TypeOK, Idle, ReadingsOK, Readings

LEMMA WriteVotesType ==
  ASSUME TypeOK, WriteVotes
  PROVE  TypeOK'
  <1>1. \A m \in Meetings : json'[m] \in Readings(m) \cup {<<>>, Nil}
    BY DEF TypeOK, WriteVotes, TermVotes, ReadingsOK
  <1>2. json' \in [Meetings -> Seq(Texts) \cup {Nil}]
    BY DEF TypeOK, WriteVotes, TermVotes
  <1>3. /\ parsed' \in [Meetings -> Seq(Texts)]
        /\ \A n \in Meetings : ReadingsOK(n)'
    BY <1>1, IdleReadings DEF WriteVotes
  <1>4. todo' \subseteq listed'
    BY DEF WriteVotes, Idle
  <1> QED BY <1>2, <1>3, <1>4 DEF TypeOK, WriteVotes, Idle

LEMMA EndType ==
  ASSUME TypeOK, SaveFails \/ WriteOldVotes
  PROVE  TypeOK'
  <1>1. /\ Idle
        /\ UNCHANGED <<scenario, city, disk, fetches, left, asked, tables, history>>
    BY DEF SaveFails, WriteOldVotes
  <1>2. /\ parsed' \in [Meetings -> Seq(Texts)]
        /\ \A n \in Meetings : ReadingsOK(n)'
    BY <1>1, IdleReadings DEF TypeOK, ReadingsOK, tables
  <1> QED BY <1>1, <1>2 DEF TypeOK, Idle, tables, history

LEMMA CrashType ==
  ASSUME TypeOK, FetchCrash
  PROVE  TypeOK'
  <1>1. disk' \in [Files -> Seq(Texts) \cup {Nil, Torn}]
    BY FilesType DEF TypeOK, FetchCrash
  <1>2. ASSUME NEW n \in Meetings PROVE ReadingsOK(n)'
    <2>1. disk'[FileOf[n]] = disk[FileOf[n]] \/ disk'[FileOf[n]] = Torn
      BY FilesType DEF TypeOK, FetchCrash
    <2> QED BY <2>1 DEF TypeOK, FetchCrash, Idle, ReadingsOK, Readings, tables
  <1>3. parsed' \in [Meetings -> Seq(Texts)]
    BY DEF FetchCrash, Idle
  <1> QED BY <1>1, <1>2, <1>3 DEF TypeOK, FetchCrash, Idle, tables, history

\* Steps that change rows, records, questions or summaries.json only.
LEMMA RestType ==
  ASSUME TypeOK, UNCHANGED <<scenario, city, disk, pc, fetches, listed, todo, parsed, json>>,
         rows' \in [Meetings -> Seq(Rows)], left' \subseteq Records,
         asked' \subseteq Asked, file' = Nil \/ file' \subseteq Records,
         shifted' \subseteq Meetings, stale' \in BOOLEAN
  PROVE  TypeOK'
  <1>1. \A n \in Meetings : ReadingsOK(n)'
    BY DEF TypeOK, ReadingsOK, Readings
  <1> QED BY <1>1 DEF TypeOK

\* What the summaries, the significance and the tag of a row do not touch.
SameMotions ==
  \A m \in Meetings :
    /\ DOMAIN rows'[m] = DOMAIN rows[m]
    /\ \A i \in DOMAIN rows[m] : /\ rows'[m][i].text = rows[m][i].text
                                /\ rows'[m][i].votes = rows[m][i].votes
                                /\ rows'[m][i].born = rows[m][i].born

LEMMA ApplyRows ==
  ASSUME TypeOK, NEW r \in left, Apply(r)
  PROVE  /\ rows' \in [Meetings -> Seq(Rows)]
         /\ SameMotions
         /\ \A m \in Meetings : \A i \in DOMAIN rows[m] :
              rows'[m][i].summary =
                IF Fills(r, m, rows[m][i]) THEN r.summary ELSE rows[m][i].summary
  <1>1. ASSUME NEW m \in Meetings, NEW i \in DOMAIN rows[m]
        PROVE  /\ rows'[m][i] \in Rows
               /\ rows'[m][i].text = rows[m][i].text
               /\ rows'[m][i].votes = rows[m][i].votes
               /\ rows'[m][i].born = rows[m][i].born
               /\ rows'[m][i].summary =
                    IF Fills(r, m, rows[m][i]) THEN r.summary ELSE rows[m][i].summary
    <2>1. rows[m][i] \in Rows /\ r \in Records
      BY DEF TypeOK
    <2>2. CASE Fills(r, m, rows[m][i])
      <3>1. rows'[m][i] = [rows[m][i] EXCEPT !.summary = r.summary,
                                             !.significance = r.significance,
                                             !.curated = FALSE]
        BY <2>2 DEF Apply
      <3> QED BY <2>1, <2>2, <3>1 DEF Rows, Records
    <2>3. CASE ~Fills(r, m, rows[m][i])
      <3>1. rows'[m][i] = rows[m][i]
        BY <2>3 DEF Apply
      <3> QED BY <2>1, <2>3, <3>1
    <2> QED BY <2>2, <2>3
  <1>2. ASSUME NEW m \in Meetings
        PROVE  DOMAIN rows'[m] = DOMAIN rows[m] /\ rows'[m] \in Seq(Rows)
    <2>1. rows'[m] = [i \in DOMAIN rows[m] |-> rows'[m][i]]
      BY DEF Apply
    <2>2. rows[m] \in Seq(Rows) /\ DOMAIN rows[m] = 1..Len(rows[m])
      BY DEF TypeOK
    <2> QED BY <1>1, <2>1, <2>2
  <1>3. rows' \in [Meetings -> Seq(Rows)]
    BY <1>2 DEF Apply
  <1> QED BY <1>1, <1>2, <1>3 DEF SameMotions

LEMMA AnswerRows ==
  ASSUME TypeOK, NEW a \in asked, Answer(a)
  PROVE  /\ rows' \in [Meetings -> Seq(Rows)]
         /\ SameMotions
         /\ \A m \in Meetings : \A i \in DOMAIN rows[m] :
              \/ rows'[m][i].summary = rows[m][i].summary
              \/ /\ m = a.meeting /\ i = a.index /\ rows[m][i].born = a.born
                 /\ rows'[m][i].summary \in {a.text, Nil}
         /\ \A m \in Meetings : \A i \in DOMAIN rows[m] :
              /\ rows'[m][i].curated = rows[m][i].curated
              /\ rows[m][i].significance # "routine" =>
                   rows'[m][i].significance = rows[m][i].significance
  <1>1. a \in Asked
    BY DEF TypeOK
  <1>2. PICK summary \in {a.text, Nil}, significance \in {"routine", "notable"} :
          rows' = IF /\ a.index \in DOMAIN rows[a.meeting]
                     /\ rows[a.meeting][a.index].born = a.born
                  THEN [rows EXCEPT ![a.meeting][a.index].summary = summary,
                                    ![a.meeting][a.index].significance =
                                       Promoted(@, significance)]
                  ELSE rows
    BY DEF Answer
  <1>3. CASE ~(/\ a.index \in DOMAIN rows[a.meeting]
               /\ rows[a.meeting][a.index].born = a.born)
    BY <1>2, <1>3 DEF TypeOK, SameMotions
  <1>4. CASE /\ a.index \in DOMAIN rows[a.meeting]
             /\ rows[a.meeting][a.index].born = a.born
    <2> DEFINE old == rows[a.meeting][a.index]
               new == [old EXCEPT !.summary = summary,
                                  !.significance = Promoted(old.significance, significance)]
    <2>1. old \in Rows /\ rows[a.meeting] \in Seq(Rows) /\ a.meeting \in Meetings
      BY <1>1, <1>4 DEF TypeOK, Asked
    <2>2. /\ new \in Rows
          /\ new.text = old.text /\ new.votes = old.votes /\ new.born = old.born
          /\ new.summary = summary /\ new.curated = old.curated
          /\ old.significance # "routine" => new.significance = old.significance
      BY <1>1, <2>1 DEF Rows, Asked, Promoted, Significances
    <2>3. rows' = [rows EXCEPT ![a.meeting] = [rows[a.meeting] EXCEPT ![a.index] = new]]
      BY <1>2, <1>4, <2>1 DEF TypeOK, Rows
    <2> HIDE DEF new
    <2>4. [rows[a.meeting] EXCEPT ![a.index] = new] \in Seq(Rows)
      BY <1>4, <2>1, <2>2
    <2>5. rows' \in [Meetings -> Seq(Rows)]
      BY <2>3, <2>4 DEF TypeOK
    <2>6. \A m \in Meetings : DOMAIN rows'[m] = DOMAIN rows[m]
      BY <2>1, <2>3 DEF TypeOK
    <2>7. \A m \in Meetings : \A i \in DOMAIN rows[m] :
            rows'[m][i] = IF m = a.meeting /\ i = a.index THEN new ELSE rows[m][i]
      BY <1>4, <2>1, <2>3 DEF TypeOK
    <2>8. SameMotions
      <3> SUFFICES ASSUME NEW m \in Meetings, NEW i \in DOMAIN rows[m]
                   PROVE  /\ rows'[m][i].text = rows[m][i].text
                          /\ rows'[m][i].votes = rows[m][i].votes
                          /\ rows'[m][i].born = rows[m][i].born
        BY <2>6 DEF SameMotions
      <3>1. CASE m = a.meeting /\ i = a.index
        BY <2>2, <2>7, <3>1
      <3>2. CASE ~(m = a.meeting /\ i = a.index)
        <4>1. rows'[m][i] = rows[m][i]
          BY <2>7, <3>2
        <4> QED BY <4>1
      <3> QED BY <3>1, <3>2
    <2>9. \A m \in Meetings : \A i \in DOMAIN rows[m] :
            /\ rows'[m][i].curated = rows[m][i].curated
            /\ rows[m][i].significance # "routine" =>
                 rows'[m][i].significance = rows[m][i].significance
      BY <2>2, <2>7
    <2>10. \A m \in Meetings : \A i \in DOMAIN rows[m] :
             \/ rows'[m][i].summary = rows[m][i].summary
             \/ /\ m = a.meeting /\ i = a.index /\ rows[m][i].born = a.born
                /\ rows'[m][i].summary \in {a.text, Nil}
      BY <1>4, <2>2, <2>7
    <2> QED BY <2>5, <2>8, <2>9, <2>10
  <1> QED BY <1>3, <1>4

LEMMA TagRows ==
  ASSUME TypeOK, NEW m \in Meetings, NEW i \in DOMAIN rows[m], Tag(m, i)
  PROVE  /\ rows' \in [Meetings -> Seq(Rows)]
         /\ SameMotions
         /\ \A n \in Meetings : \A j \in DOMAIN rows[n] :
              /\ rows'[n][j].summary = rows[n][j].summary
              /\ \/ rows'[n][j] = rows[n][j]
                 \/ ~rows[n][j].curated /\ rows'[n][j].significance = "headline"
  <1> DEFINE old == rows[m][i]
             new == [old EXCEPT !.significance = "headline", !.curated = TRUE]
  <1>1. old \in Rows /\ rows[m] \in Seq(Rows)
    BY DEF TypeOK
  <1>2. /\ new \in Rows
        /\ new.text = old.text /\ new.votes = old.votes /\ new.born = old.born
        /\ new.summary = old.summary
        /\ ~old.curated /\ new.significance = "headline"
    BY <1>1 DEF Rows, Significances, Tag
  <1>3. rows' = [rows EXCEPT ![m] = [rows[m] EXCEPT ![i] = new]]
    BY <1>1 DEF TypeOK, Tag, Rows
  <1> HIDE DEF new
  <1>4. [rows[m] EXCEPT ![i] = new] \in Seq(Rows)
    BY <1>1, <1>2
  <1>5. rows' \in [Meetings -> Seq(Rows)]
    BY <1>3, <1>4 DEF TypeOK
  <1>6. \A n \in Meetings : DOMAIN rows'[n] = DOMAIN rows[n]
    BY <1>1, <1>3 DEF TypeOK
  <1>7. \A n \in Meetings : \A j \in DOMAIN rows[n] :
          rows'[n][j] = IF n = m /\ j = i THEN new ELSE rows[n][j]
    BY <1>1, <1>3 DEF TypeOK
  <1>8. SameMotions
    BY <1>2, <1>6, <1>7 DEF SameMotions
  <1> QED BY <1>2, <1>5, <1>7, <1>8

LEMMA ExportedType ==
  ASSUME TypeOK
  PROVE  Exported \subseteq Records
  <1> SUFFICES ASSUME NEW r \in Exported PROVE r \in Records
    OBVIOUS
  <1>1. PICK m \in Meetings : \E i \in DOMAIN rows[m] :
          r = [meeting |-> m, item |-> ItemOf[rows[m][i].text],
               summary |-> rows[m][i].summary,
               significance |-> rows[m][i].significance]
    BY DEF Exported
  <1>2. \A i \in DOMAIN rows[m] : rows[m][i] \in Rows
    BY DEF TypeOK
  <1> QED BY <1>1, <1>2 DEF Records, Rows, Items

LEMMA AskType ==
  ASSUME TypeOK, Ask
  PROVE  /\ asked' \subseteq Asked
         /\ \A a \in asked' : /\ a.meeting \in Meetings
                              /\ a.index \in DOMAIN rows[a.meeting]
                              /\ a.born = rows[a.meeting][a.index].born
                              /\ a.text = rows[a.meeting][a.index].text
  <1> SUFFICES ASSUME NEW a \in asked'
               PROVE  /\ a \in Asked
                      /\ a.meeting \in Meetings
                      /\ a.index \in DOMAIN rows[a.meeting]
                      /\ a.born = rows[a.meeting][a.index].born
                      /\ a.text = rows[a.meeting][a.index].text
    OBVIOUS
  <1>1. PICK m \in Meetings : \E i \in DOMAIN rows[m] :
          a = [meeting |-> m, index |-> i, born |-> rows[m][i].born,
               text |-> rows[m][i].text]
    BY DEF Ask
  <1>2. \A i \in DOMAIN rows[m] : rows[m][i] \in Rows /\ i \in Nat
    BY DEF TypeOK
  <1> QED BY <1>1, <1>2 DEF Asked, Rows

\* Every step keeps the types, given that a fetch under way has been counted.
LEMMA TypeStep ==
  ASSUME TypeOK, pc # "idle" => fetches > 0, [Next]_vars
  PROVE  TypeOK' /\ (pc # "idle" => fetches > 0)'
  <1>1. CASE UNCHANGED vars
    BY <1>1 DEF TypeOK, ReadingsOK, Readings, vars, fetcher, tables, history
  <1>2. ASSUME NEW m \in Meetings, PublishMinutes(m)
        PROVE  TypeOK' /\ (pc # "idle" => fetches > 0)'
    BY <1>2, PublishType DEF PublishMinutes, fetcher
  <1>3. CASE List
    <2>1. fetches \in Nat
      BY DEF TypeOK
    <2>2. fetches' > 0
      BY <1>3, <2>1 DEF List
    <2> QED BY <1>3, <2>2, ListType
  <1>4. ASSUME NEW m \in Meetings, Download(m) \/ DownloadFails(m)
        PROVE  TypeOK' /\ (pc # "idle" => fetches > 0)'
    BY <1>4, DownloadType, DownloadFailsType DEF Download, DownloadFails
  <1>5. CASE Parse
    BY <1>5, ParseType DEF Parse
  <1>6. CASE Save
    BY <1>6, SaveType DEF Save
  <1>7. CASE SaveFails \/ WriteOldVotes
    BY <1>7, EndType DEF SaveFails, WriteOldVotes, Idle
  <1>8. CASE WriteVotes
    BY <1>8, WriteVotesType DEF WriteVotes, Idle
  <1>9. CASE FetchCrash
    BY <1>9, CrashType DEF FetchCrash, Idle
  <1>10. ASSUME NEW r \in left, Apply(r) \/ ApplyFails(r)
         PROVE  TypeOK' /\ (pc # "idle" => fetches > 0)'
    <2>1. CASE Apply(r)
      BY <2>1, ApplyRows, RestType DEF Apply, TypeOK, history
    <2>2. CASE ApplyFails(r)
      BY <2>2, RestType DEF ApplyFails, TypeOK, tables, history
    <2> QED BY <1>10, <2>1, <2>2
  <1>11. CASE Import
    BY <1>11, RestType DEF Import, TypeOK, tables, history
  <1>12. CASE Dump
    BY <1>12, RestType, ExportedType DEF Dump, TypeOK, fetcher, history
  <1>13. CASE Rebuild
    <2>1. rows' \in [Meetings -> Seq(Rows)]
      BY <1>13 DEF Rebuild
    <2> QED BY <1>13, <2>1, RestType DEF Rebuild, TypeOK, fetcher
  <1>14. CASE Ask
    BY <1>14, RestType, AskType DEF Ask, TypeOK, fetcher, tables, history
  <1>15. ASSUME NEW p \in Files, RemoveFile(p)
         PROVE  TypeOK' /\ (pc # "idle" => fetches > 0)'
    BY <1>15, RemoveType DEF RemoveFile, fetcher
  <1>16. ASSUME NEW a \in asked, Answer(a) \/ AnswerFails(a)
         PROVE  TypeOK' /\ (pc # "idle" => fetches > 0)'
    <2>1. CASE Answer(a)
      BY <2>1, AnswerRows, RestType DEF Answer, TypeOK, fetcher, history
    <2>2. CASE AnswerFails(a)
      BY <2>2, RestType DEF AnswerFails, TypeOK, fetcher, tables, history
    <2> QED BY <1>16, <2>1, <2>2
  <1>17. ASSUME NEW m \in Meetings, NEW i \in DOMAIN rows[m], Tag(m, i)
         PROVE  TypeOK' /\ (pc # "idle" => fetches > 0)'
    BY <1>17, TagRows, RestType DEF Tag, TypeOK, fetcher, history
  <1> QED BY <1>1, <1>2, <1>3, <1>4, <1>5, <1>6, <1>7, <1>8, <1>9, <1>10, <1>11,
             <1>12, <1>13, <1>14, <1>15, <1>16, <1>17 DEF Next, Fetcher, Operator

-----------------------------------------------------------------------------
(* The invariant, step by step.                                            *)

LEMMA BornType ==
  ASSUME TypeOK
  PROVE  /\ fetches \in Nat
         /\ \A m \in Meetings : \A i \in DOMAIN rows[m] : rows[m][i].born \in Nat
         /\ \A a \in asked : a.born \in Nat /\ a.meeting \in Meetings
  <1>1. ASSUME NEW m \in Meetings, NEW i \in DOMAIN rows[m] PROVE rows[m][i].born \in Nat
    <2>1. rows[m][i] \in Rows
      BY DEF TypeOK
    <2> QED BY <2>1 DEF Rows
  <1> QED BY <1>1 DEF TypeOK, Asked

\* Steps that leave rows and summaries.json alone and ask and load nothing new.
LEMMA QuietStep ==
  ASSUME ArchiveInv, TypeOK', (pc # "idle" => fetches > 0)',
         UNCHANGED <<rows, file, shifted>>, left' \subseteq left,
         asked' \subseteq asked,
         \/ fetches' = fetches /\ (pc' \in {"download", "save"} => pc \in {"download", "save"})
         \/ fetches' = fetches + 1
  PROVE  ArchiveInv'
  <1>1. RowsAreOneReading /\ SummaryIsOfItem /\ TypeOK /\ Unborn
    BY DEF ArchiveInv
  <1>2. RowsAreOneReading'
    <2> SUFFICES ASSUME NEW m \in Meetings
                 PROVE  /\ MotionsOf(m)' \in Readings(m) \cup {<<>>}
                        /\ \A i \in DOMAIN rows'[m] :
                             rows'[m][i].votes = Votes(rows'[m][i].text)
      BY DEF RowsAreOneReading, Readings, Votes
    <2>1. MotionsOf(m)' = MotionsOf(m)
      BY DEF MotionsOf
    <2> QED BY <1>1, <2>1 DEF RowsAreOneReading
  <1>3. SummaryIsOfItem'
    BY <1>1 DEF SummaryIsOfItem
  <1>4. fetches \in Nat /\ fetches' \in Nat
    BY <1>1, BornType
  <1>5. /\ \A a \in asked' : a.born <= fetches'
        /\ \A m \in Meetings : \A i \in DOMAIN rows'[m] : rows'[m][i].born <= fetches'
    BY <1>1, <1>4, BornType DEF ArchiveInv
  <1>6. Unborn'
    <2>1. CASE fetches' = fetches /\ (pc' \in {"download", "save"} => pc \in {"download", "save"})
      BY <1>1, <2>1 DEF Unborn
    <2>2. CASE fetches' = fetches + 1
      <3>1. /\ \A a \in asked : a.born <= fetches
            /\ \A m \in Meetings : \A i \in DOMAIN rows[m] : rows[m][i].born <= fetches
        BY DEF ArchiveInv
      <3> QED BY <1>1, <2>2, <3>1, BornType DEF Unborn
    <2> QED BY <2>1, <2>2
  <1>7. /\ \A r \in left' : RecordOK(r)'
        /\ file' # Nil => \A r \in file' : RecordOK(r)'
        /\ \A a \in asked' : QuestionOK(a)'
    BY DEF ArchiveInv, RecordOK, QuestionOK
  <1> QED BY <1>2, <1>3, <1>5, <1>6, <1>7 DEF ArchiveInv

\* Steps that change what hangs on the motions, but no motion.
LEMMA SameMotionsStep ==
  ASSUME ArchiveInv, TypeOK', (pc # "idle" => fetches > 0)', SameMotions,
         UNCHANGED <<pc, fetches, file, shifted>>, left' \subseteq left,
         asked' \subseteq asked, SummaryIsOfItem'
  PROVE  ArchiveInv'
  <1>0. /\ TypeOK /\ RowsAreOneReading /\ Unborn
        /\ \A a \in asked : a.born <= fetches
        /\ \A m \in Meetings : \A i \in DOMAIN rows[m] : rows[m][i].born <= fetches
    BY DEF ArchiveInv
  <1>1. RowsAreOneReading'
    <2> SUFFICES ASSUME NEW m \in Meetings
                 PROVE  /\ MotionsOf(m)' \in Readings(m) \cup {<<>>}
                        /\ \A i \in DOMAIN rows'[m] :
                             rows'[m][i].votes = Votes(rows'[m][i].text)
      BY DEF RowsAreOneReading, Readings, Votes
    <2>1. MotionsOf(m)' = MotionsOf(m)
      BY DEF SameMotions, MotionsOf
    <2>2. \A i \in DOMAIN rows[m] : rows[m][i].votes = Votes(rows[m][i].text)
      BY <1>0 DEF RowsAreOneReading
    <2>3. \A i \in DOMAIN rows'[m] : rows'[m][i].votes = Votes(rows'[m][i].text)
      BY <2>2 DEF SameMotions
    <2> QED BY <1>0, <2>1, <2>3 DEF RowsAreOneReading
  <1>2. /\ \A a \in asked' : a \in asked
        /\ \A m \in Meetings : \A i \in DOMAIN rows'[m] :
             i \in DOMAIN rows[m] /\ rows'[m][i].born = rows[m][i].born
    BY DEF SameMotions
  <1>6. Unborn'
    <2> SUFFICES ASSUME pc \in {"download", "save"}
                 PROVE  /\ \A m \in Meetings : \A i \in DOMAIN rows'[m] :
                             rows'[m][i].born < fetches
                        /\ \A a \in asked' : a.born < fetches
      BY DEF Unborn
    <2>1. ASSUME NEW m \in Meetings, NEW i \in DOMAIN rows'[m]
          PROVE  rows'[m][i].born < fetches
      <3>1. i \in DOMAIN rows[m] /\ rows'[m][i].born = rows[m][i].born
        BY <1>2
      <3>2. rows[m][i].born < fetches
        BY <1>0, <3>1 DEF Unborn
      <3> QED BY <3>1, <3>2
    <2>2. \A a \in asked' : a.born < fetches
      BY <1>0 DEF Unborn
    <2> QED BY <2>1, <2>2
  <1>3. /\ \A r \in left' : RecordOK(r)'
        /\ file' # Nil => \A r \in file' : RecordOK(r)'
    BY DEF ArchiveInv, RecordOK
  <1>4. \A a \in asked' : QuestionOK(a)'
    <2> SUFFICES ASSUME NEW a \in asked, a.meeting \notin shifted,
                        NEW i \in DOMAIN rows'[a.meeting],
                        i = a.index, rows'[a.meeting][i].born = a.born
                 PROVE  ItemOf[rows'[a.meeting][i].text] = ItemOf[a.text]
      BY DEF QuestionOK
    <2>1. a.meeting \in Meetings
      BY <1>0, BornType
    <2>2. QuestionOK(a)
      BY DEF ArchiveInv
    <2> QED BY <2>1, <2>2 DEF QuestionOK, SameMotions
  <1>5. /\ \A a \in asked' : a.born <= fetches'
        /\ \A m \in Meetings : \A i \in DOMAIN rows'[m] : rows'[m][i].born <= fetches'
    <2>1. ASSUME NEW m \in Meetings, NEW i \in DOMAIN rows'[m]
          PROVE  rows'[m][i].born <= fetches
      <3>1. i \in DOMAIN rows[m] /\ rows'[m][i].born = rows[m][i].born
        BY <1>2
      <3>2. rows[m][i].born <= fetches
        BY <1>0, <3>1
      <3> QED BY <3>1, <3>2
    <2> QED BY <1>0, <2>1
  <1> QED BY <1>1, <1>6, <1>3, <1>4, <1>5 DEF ArchiveInv

\* What a record gives a row is of the row's item.
LEMMA ApplyInv ==
  ASSUME ArchiveInv, TypeOK', (pc # "idle" => fetches > 0)', NEW r \in left, Apply(r)
  PROVE  ArchiveInv'
  <1>1. TypeOK /\ SummaryIsOfItem /\ RecordOK(r)
    BY DEF ArchiveInv
  <1>2. SummaryIsOfItem'
    <2> SUFFICES ASSUME NEW m \in Meetings, m \notin shifted, NEW i \in DOMAIN rows'[m],
                        rows'[m][i].summary # Nil
                 PROVE  ItemOf[rows'[m][i].summary] = ItemOf[rows'[m][i].text]
      BY DEF SummaryIsOfItem, Apply, history
    <2>1. i \in DOMAIN rows[m] /\ rows'[m][i].text = rows[m][i].text
      BY <1>1, ApplyRows DEF SameMotions
    <2>2. CASE Fills(r, m, rows[m][i])
      <3>1. rows'[m][i].summary = r.summary
        BY <1>1, <2>1, <2>2, ApplyRows
      <3>2. r.meeting = m /\ ItemOf[rows[m][i].text] = r.item
        BY <2>2 DEF Fills
      <3>3. ItemOf[r.summary] = r.item
        BY <1>1, <3>1, <3>2 DEF RecordOK
      <3> QED BY <2>1, <3>1, <3>2, <3>3
    <2>3. CASE ~Fills(r, m, rows[m][i])
      <3>1. rows'[m][i].summary = rows[m][i].summary
        BY <1>1, <2>1, <2>3, ApplyRows
      <3>2. ItemOf[rows[m][i].summary] = ItemOf[rows[m][i].text]
        BY <1>1, <2>1, <3>1 DEF SummaryIsOfItem
      <3> QED BY <2>1, <3>1, <3>2
    <2> QED BY <2>2, <2>3
  <1> QED BY <1>1, <1>2, ApplyRows, SameMotionsStep DEF Apply, history

LEMMA AnswerInv ==
  ASSUME ArchiveInv, TypeOK', (pc # "idle" => fetches > 0)', NEW a \in asked, Answer(a)
  PROVE  ArchiveInv'
  <1>1. TypeOK /\ SummaryIsOfItem /\ QuestionOK(a)
    BY DEF ArchiveInv
  <1>2. SummaryIsOfItem'
    <2> SUFFICES ASSUME NEW m \in Meetings, m \notin shifted, NEW i \in DOMAIN rows'[m],
                        rows'[m][i].summary # Nil
                 PROVE  ItemOf[rows'[m][i].summary] = ItemOf[rows'[m][i].text]
      BY DEF SummaryIsOfItem, Answer, history
    <2>1. i \in DOMAIN rows[m] /\ rows'[m][i].text = rows[m][i].text
      BY <1>1, AnswerRows DEF SameMotions
    <2>2. CASE rows'[m][i].summary = rows[m][i].summary
      BY <1>1, <2>1, <2>2 DEF SummaryIsOfItem
    <2>3. CASE /\ m = a.meeting /\ i = a.index /\ rows[m][i].born = a.born
               /\ rows'[m][i].summary \in {a.text, Nil}
      BY <1>1, <2>1, <2>3 DEF QuestionOK
    <2> QED BY <1>1, <2>1, <2>2, <2>3, AnswerRows
  <1> QED BY <1>1, <1>2, AnswerRows, SameMotionsStep DEF Answer, fetcher, history

LEMMA TagInv ==
  ASSUME ArchiveInv, TypeOK', (pc # "idle" => fetches > 0)',
         NEW m \in Meetings, NEW i \in DOMAIN rows[m], Tag(m, i)
  PROVE  ArchiveInv'
  <1>1. TypeOK /\ SummaryIsOfItem
    BY DEF ArchiveInv
  <1>2. SummaryIsOfItem'
    <2> SUFFICES ASSUME NEW n \in Meetings, n \notin shifted, NEW j \in DOMAIN rows'[n],
                        rows'[n][j].summary # Nil
                 PROVE  ItemOf[rows'[n][j].summary] = ItemOf[rows'[n][j].text]
      BY DEF SummaryIsOfItem, Tag, history
    <2>1. j \in DOMAIN rows[n] /\ rows'[n][j].text = rows[n][j].text
      BY <1>1, TagRows DEF SameMotions
    <2>2. rows'[n][j].summary = rows[n][j].summary
      BY <1>1, <2>1, TagRows
    <2> QED BY <1>1, <2>1, <2>2 DEF SummaryIsOfItem
  <1> QED BY <1>1, <1>2, TagRows, SameMotionsStep DEF Tag, fetcher, history

\* The listing begins a fetch, of which there are no rows yet.
LEMMA QuietSteps ==
  ASSUME ArchiveInv, TypeOK', (pc # "idle" => fetches > 0)',
         \/ \E m \in Meetings : PublishMinutes(m) \/ Download(m) \/ DownloadFails(m)
         \/ \E p \in Files : RemoveFile(p)
         \/ List \/ Parse \/ SaveFails \/ WriteVotes \/ WriteOldVotes \/ FetchCrash
         \/ \E r \in left : ApplyFails(r)
         \/ \E a \in asked : AnswerFails(a)
  PROVE  ArchiveInv'
  <1>1. CASE \E m \in Meetings : PublishMinutes(m)
    BY <1>1, QuietStep DEF PublishMinutes, fetcher, tables, history
  <1>2. CASE \E m \in Meetings : Download(m) \/ DownloadFails(m)
    BY <1>2, QuietStep DEF Download, DownloadFails, tables, history
  <1>3. CASE \E p \in Files : RemoveFile(p)
    BY <1>3, QuietStep DEF RemoveFile, fetcher, tables, history
  <1>4. CASE List
    BY <1>4, QuietStep DEF List, tables, history
  <1>5. CASE Parse
    BY <1>5, QuietStep DEF Parse, tables, history
  <1>6. CASE SaveFails \/ WriteOldVotes
    BY <1>6, QuietStep DEF SaveFails, WriteOldVotes, Idle, tables, history
  <1>7. CASE WriteVotes
    BY <1>7, QuietStep DEF WriteVotes, Idle
  <1>8. CASE FetchCrash
    BY <1>8, QuietStep DEF FetchCrash, Idle, tables, history
  <1>9. CASE \E r \in left : ApplyFails(r)
    BY <1>9, QuietStep DEF ApplyFails, tables, history
  <1>10. CASE \E a \in asked : AnswerFails(a)
    BY <1>10, QuietStep DEF AnswerFails, fetcher, tables, history
  <1> QED BY <1>1, <1>2, <1>3, <1>4, <1>5, <1>6, <1>7, <1>8, <1>9, <1>10

\* Records are loaded from summaries.json, and written from rows.
LEMMA ImportInv ==
  ASSUME ArchiveInv, TypeOK', (pc # "idle" => fetches > 0)', Import
  PROVE  ArchiveInv'
  <1>1. \A r \in left' : RecordOK(r)
    BY DEF ArchiveInv, Import
  <1>2. RowsAreOneReading'
    <2> SUFFICES ASSUME NEW m \in Meetings
                 PROVE  /\ MotionsOf(m)' \in Readings(m) \cup {<<>>}
                        /\ \A i \in DOMAIN rows'[m] :
                             rows'[m][i].votes = Votes(rows'[m][i].text)
      BY DEF RowsAreOneReading, Readings, Votes
    <2>1. MotionsOf(m)' = MotionsOf(m)
      BY DEF MotionsOf, Import, tables
    <2> QED BY <2>1 DEF ArchiveInv, RowsAreOneReading, Import, tables
  <1>3. SummaryIsOfItem' /\ Unborn'
    BY DEF ArchiveInv, SummaryIsOfItem, Unborn, Import, tables, history
  <1>4. /\ \A r \in left' : RecordOK(r)'
        /\ file' # Nil => \A r \in file' : RecordOK(r)'
        /\ \A a \in asked' : QuestionOK(a)'
        /\ \A a \in asked' : a.born <= fetches'
        /\ \A m \in Meetings : \A i \in DOMAIN rows'[m] : rows'[m][i].born <= fetches'
    BY <1>1 DEF ArchiveInv, RecordOK, QuestionOK, Import, tables, history
  <1> QED BY <1>2, <1>3, <1>4 DEF ArchiveInv

LEMMA DumpInv ==
  ASSUME ArchiveInv, TypeOK', (pc # "idle" => fetches > 0)', Dump
  PROVE  ArchiveInv'
  <1>1. \A r \in Exported : RecordOK(r)
    <2> SUFFICES ASSUME NEW r \in Exported, r.meeting \notin shifted, r.summary # Nil
                 PROVE  ItemOf[r.summary] = r.item
      BY DEF RecordOK
    <2>1. PICK m \in Meetings : \E i \in DOMAIN rows[m] :
            r = [meeting |-> m, item |-> ItemOf[rows[m][i].text],
                 summary |-> rows[m][i].summary,
                 significance |-> rows[m][i].significance]
      BY DEF Exported
    <2>2. PICK i \in DOMAIN rows[m] :
            r = [meeting |-> m, item |-> ItemOf[rows[m][i].text],
                 summary |-> rows[m][i].summary,
                 significance |-> rows[m][i].significance]
      BY <2>1
    <2>3. /\ r.meeting = m /\ r.item = ItemOf[rows[m][i].text]
          /\ r.summary = rows[m][i].summary
      BY <2>2
    <2> QED BY <2>3 DEF ArchiveInv, SummaryIsOfItem
  <1>2. file' # Nil => \A r \in file' : RecordOK(r)
    BY <1>1 DEF Dump
  <1>3. RowsAreOneReading'
    <2> SUFFICES ASSUME NEW m \in Meetings
                 PROVE  /\ MotionsOf(m)' \in Readings(m) \cup {<<>>}
                        /\ \A i \in DOMAIN rows'[m] :
                             rows'[m][i].votes = Votes(rows'[m][i].text)
      BY DEF RowsAreOneReading, Readings, Votes
    <2>1. MotionsOf(m)' = MotionsOf(m)
      BY DEF MotionsOf, Dump
    <2> QED BY <2>1 DEF ArchiveInv, RowsAreOneReading, Dump
  <1>4. SummaryIsOfItem' /\ Unborn'
    BY DEF ArchiveInv, SummaryIsOfItem, Unborn, Dump, fetcher, history
  <1>5. /\ \A r \in left' : RecordOK(r)'
        /\ file' # Nil => \A r \in file' : RecordOK(r)'
        /\ \A a \in asked' : QuestionOK(a)'
        /\ \A a \in asked' : a.born <= fetches'
        /\ \A m \in Meetings : \A i \in DOMAIN rows'[m] : rows'[m][i].born <= fetches'
    BY <1>2 DEF ArchiveInv, RecordOK, QuestionOK, Dump, fetcher, history
  <1> QED BY <1>3, <1>4, <1>5 DEF ArchiveInv

\* A question is of the motion that its row has.
LEMMA AskInv ==
  ASSUME ArchiveInv, TypeOK', (pc # "idle" => fetches > 0)', Ask
  PROVE  ArchiveInv'
  <1>0. TypeOK
    BY DEF ArchiveInv
  <1>1. \A a \in asked' : /\ a.meeting \in Meetings
                          /\ a.index \in DOMAIN rows[a.meeting]
                          /\ a.born = rows[a.meeting][a.index].born
                          /\ a.text = rows[a.meeting][a.index].text
    BY <1>0, AskType
  <1>2. \A a \in asked' : QuestionOK(a)'
    BY <1>1 DEF QuestionOK, Ask, tables, history
  <1>3. RowsAreOneReading'
    <2> SUFFICES ASSUME NEW m \in Meetings
                 PROVE  /\ MotionsOf(m)' \in Readings(m) \cup {<<>>}
                        /\ \A i \in DOMAIN rows'[m] :
                             rows'[m][i].votes = Votes(rows'[m][i].text)
      BY DEF RowsAreOneReading, Readings, Votes
    <2>1. MotionsOf(m)' = MotionsOf(m)
      BY DEF MotionsOf, Ask, tables
    <2> QED BY <2>1 DEF ArchiveInv, RowsAreOneReading, Ask, tables
  <1>4. \A a \in asked' : a.born <= fetches'
    BY <1>1 DEF ArchiveInv, Ask, fetcher
  <1>5. Unborn'
    BY <1>1 DEF ArchiveInv, Unborn, Ask, tables, fetcher
  <1>6. /\ SummaryIsOfItem'
        /\ \A r \in left' : RecordOK(r)'
        /\ file' # Nil => \A r \in file' : RecordOK(r)'
        /\ \A m \in Meetings : \A i \in DOMAIN rows'[m] : rows'[m][i].born <= fetches'
    BY DEF ArchiveInv, SummaryIsOfItem, RecordOK, Ask, tables, fetcher, history
  <1> QED BY <1>2, <1>3, <1>4, <1>5, <1>6 DEF ArchiveInv

LEMMA RebuildInv ==
  ASSUME ArchiveInv, TypeOK', (pc # "idle" => fetches > 0)', Rebuild
  PROVE  ArchiveInv'
  <1>1. \A m \in Meetings : rows'[m] = <<>>
    BY DEF Rebuild
  <1>2. RowsAreOneReading'
    <2> SUFFICES ASSUME NEW m \in Meetings PROVE MotionsOf(m)' = <<>>
      BY <1>1 DEF RowsAreOneReading
    <2> QED BY <1>1 DEF MotionsOf
  <1>3. \A m \in Meetings : DOMAIN rows'[m] = {}
    BY <1>1
  <1>4. SummaryIsOfItem'
    BY <1>3 DEF SummaryIsOfItem
  <1>5. asked' = {} /\ left' = {} /\ UNCHANGED <<pc, fetches, file, shifted>>
    BY DEF Rebuild, fetcher
  <1>6. file' # Nil => \A r \in file' : RecordOK(r)'
    BY <1>5 DEF ArchiveInv, RecordOK
  <1> QED BY <1>2, <1>3, <1>4, <1>5, <1>6 DEF ArchiveInv, Unborn

\* A reading laid over the rows leaves the reading; a row that is given another
\* motion makes its meeting a shifted one.
LEMMA SaveInv ==
  ASSUME ArchiveInv, TypeOK', (pc # "idle" => fetches > 0)', Save
  PROVE  ArchiveInv'
  <1>0. /\ TypeOK /\ RowsAreOneReading /\ SummaryIsOfItem /\ Unborn
        /\ \A a \in asked : a.born <= fetches
        /\ \A m \in Meetings : \A i \in DOMAIN rows[m] : rows[m][i].born <= fetches
        /\ fetches \in 1..MaxFetches /\ pc = "save"
    BY DEF ArchiveInv, Save, TypeOK
  <1>1. ASSUME NEW m \in Meetings, m \in listed
        PROVE  /\ DOMAIN rows'[m] = DOMAIN parsed[m]
               /\ \A i \in DOMAIN parsed[m] :
                    /\ rows'[m][i].text = parsed[m][i]
                    /\ rows'[m][i].votes = Votes(parsed[m][i])
                    /\ i \in DOMAIN rows[m] =>
                         /\ rows'[m][i].born = rows[m][i].born
                         /\ rows'[m][i].summary = rows[m][i].summary
                    /\ i \notin DOMAIN rows[m] =>
                         /\ rows'[m][i].born = fetches
                         /\ rows'[m][i].summary = Nil
    <2>1. rows'[m] = Saved(rows[m], parsed[m])
      BY <1>1 DEF Save
    <2>2. rows[m] \in Seq(Rows) /\ parsed[m] \in Seq(Texts)
      BY <1>0 DEF TypeOK
    <2> QED BY <1>0, <2>1, <2>2, SavedType
  <1>2. ASSUME NEW m \in Meetings, m \notin listed PROVE rows'[m] = rows[m]
    BY <1>2 DEF Save
  <1>3. shifted' = shifted \cup {m \in listed : Shifts(m)}
    BY DEF Save
  <1>4. ASSUME NEW m \in Meetings, m \notin shifted',
               NEW i \in DOMAIN rows'[m], i \in DOMAIN rows[m]
        PROVE  /\ rows'[m][i].text = rows[m][i].text
               /\ rows'[m][i].born = rows[m][i].born
               /\ rows'[m][i].summary = rows[m][i].summary
               /\ m \notin shifted
    <2>1. CASE m \in listed
      <3>1. i \in DOMAIN parsed[m]
        BY <1>1, <2>1
      <3>2. rows[m][i].text = parsed[m][i]
        BY <1>3, <1>4, <2>1, <3>1 DEF Shifts
      <3> QED BY <1>1, <1>3, <1>4, <2>1, <3>1, <3>2
    <2>2. CASE m \notin listed
      BY <1>2, <1>3, <1>4, <2>2
    <2> QED BY <2>1, <2>2
  <1>5. ASSUME NEW m \in Meetings, NEW i \in DOMAIN rows'[m], i \notin DOMAIN rows[m]
        PROVE  rows'[m][i].born = fetches /\ rows'[m][i].summary = Nil
    BY <1>1, <1>2, <1>5
  <1>6. RowsAreOneReading'
    <2> SUFFICES ASSUME NEW m \in Meetings
                 PROVE  /\ MotionsOf(m)' \in Readings(m) \cup {<<>>}
                        /\ \A i \in DOMAIN rows'[m] :
                             rows'[m][i].votes = Votes(rows'[m][i].text)
      BY DEF RowsAreOneReading, Readings, Votes
    <2>1. CASE m \in listed
      <3>1. MotionsOf(m)' = [i \in DOMAIN parsed[m] |-> parsed[m][i]]
        BY <1>1, <2>1 DEF MotionsOf
      <3>2. parsed[m] = [i \in DOMAIN parsed[m] |-> parsed[m][i]]
        <4>1. parsed[m] \in Seq(Texts)
          BY <1>0 DEF TypeOK
        <4> QED BY <4>1
      <3>3. parsed[m] \in Readings(m) \cup {<<>>}
        BY <1>0 DEF TypeOK, ReadingsOK
      <3> QED BY <1>1, <2>1, <3>1, <3>2, <3>3
    <2>2. CASE m \notin listed
      <3>1. MotionsOf(m)' = MotionsOf(m)
        BY <1>2, <2>2 DEF MotionsOf
      <3> QED BY <1>0, <1>2, <2>2, <3>1 DEF RowsAreOneReading
    <2> QED BY <2>1, <2>2
  <1>7. SummaryIsOfItem'
    <2> SUFFICES ASSUME NEW m \in Meetings, m \notin shifted', NEW i \in DOMAIN rows'[m],
                        rows'[m][i].summary # Nil
                 PROVE  ItemOf[rows'[m][i].summary] = ItemOf[rows'[m][i].text]
      BY DEF SummaryIsOfItem
    <2>1. i \in DOMAIN rows[m]
      BY <1>5
    <2>2. /\ rows'[m][i].text = rows[m][i].text
          /\ rows'[m][i].summary = rows[m][i].summary
          /\ m \notin shifted
      BY <1>4, <2>1
    <2>3. ItemOf[rows[m][i].summary] = ItemOf[rows[m][i].text]
      BY <1>0, <2>1, <2>2 DEF SummaryIsOfItem
    <2> QED BY <2>2, <2>3
  <1>8. Unborn'
    BY DEF Unborn, Save
  <1>9. /\ \A r \in left' : RecordOK(r)'
        /\ file' # Nil => \A r \in file' : RecordOK(r)'
    BY <1>3 DEF ArchiveInv, RecordOK, Save
  <1>10. \A a \in asked' : QuestionOK(a)'
    <2>0. asked' = asked
      BY DEF Save
    <2> SUFFICES ASSUME NEW a \in asked, a.meeting \notin shifted',
                        NEW i \in DOMAIN rows'[a.meeting],
                        i = a.index, rows'[a.meeting][i].born = a.born
                 PROVE  ItemOf[rows'[a.meeting][i].text] = ItemOf[a.text]
      BY <2>0 DEF QuestionOK
    <2>1. a.meeting \in Meetings /\ a.born < fetches /\ a.born \in Nat /\ fetches \in Nat
      BY <1>0, BornType DEF Unborn
    <2>2. i \in DOMAIN rows[a.meeting]
      BY <1>5, <2>1
    <2>3. QuestionOK(a)
      BY DEF ArchiveInv
    <2> QED BY <1>4, <2>1, <2>2, <2>3 DEF QuestionOK
  <1>11. \A m \in Meetings : \A i \in DOMAIN rows'[m] : rows'[m][i].born <= fetches'
    <2> SUFFICES ASSUME NEW m \in Meetings, NEW i \in DOMAIN rows'[m]
                 PROVE  rows'[m][i].born <= fetches
      BY DEF Save
    <2>1. CASE i \notin DOMAIN rows[m]
      BY <1>0, <1>5, <2>1
    <2>2. CASE i \in DOMAIN rows[m]
      <3>1. rows'[m][i].born = rows[m][i].born
        BY <1>1, <1>2, <2>2
      <3> QED BY <1>0, <2>2, <3>1
    <2> QED BY <2>1, <2>2
  <1>12. \A a \in asked' : a.born <= fetches'
    BY <1>0 DEF Save
  <1> QED BY <1>6, <1>7, <1>8, <1>9, <1>10, <1>11, <1>12 DEF ArchiveInv

LEMMA InvStep == ArchiveInv /\ [Next]_vars => ArchiveInv'
  <1> SUFFICES ASSUME ArchiveInv, [Next]_vars PROVE ArchiveInv'
    OBVIOUS
  <1>1. TypeOK' /\ (pc # "idle" => fetches > 0)'
    BY TypeStep DEF ArchiveInv
  <1>2. CASE UNCHANGED vars
    BY <1>1, <1>2, QuietStep DEF vars, fetcher, tables, history
  <1>3. CASE Save
    BY <1>1, <1>3, SaveInv
  <1>4. CASE \E r \in left : Apply(r)
    BY <1>1, <1>4, ApplyInv
  <1>5. CASE Import \/ Dump \/ Ask \/ Rebuild
    BY <1>1, <1>5, ImportInv, DumpInv, AskInv, RebuildInv
  <1>6. CASE \E a \in asked : Answer(a)
    BY <1>1, <1>6, AnswerInv
  <1>7. CASE \E m \in Meetings : \E i \in DOMAIN rows[m] : Tag(m, i)
    BY <1>1, <1>7, TagInv
  <1> QED BY <1>1, <1>2, <1>3, <1>4, <1>5, <1>6, <1>7, QuietSteps
          DEF Next, Fetcher, Operator

-----------------------------------------------------------------------------
(* The theorems.                                                           *)

LEMMA Invariance == Spec => []ArchiveInv
  <1> QED BY InitInv, InvStep, PTL DEF Spec

\* The tables, the files and the memory of the fetcher hold what they should:
\* what a file or the table has of a meeting was published for its date.
THEOREM TypeCorrect == Spec => []TypeOK
  <1>1. ArchiveInv => TypeOK
    BY DEF ArchiveInv
  <1> QED BY <1>1, Invariance, PTL

\* The motions of a meeting are always those of one reading of its minutes,
\* with their votes, whatever fails and however often it is fetched.
THEOREM OneReading == Spec => []RowsAreOneReading
  <1>1. ArchiveInv => RowsAreOneReading
    BY DEF ArchiveInv
  <1> QED BY <1>1, Invariance, PTL

\* As long as no reading moves the motions of a meeting to other rows, each
\* summary belongs to its agenda item, also one that was asked for before.
THEOREM SummariesKeepItem == Spec => []SummaryIsOfItem
  <1>1. ArchiveInv => SummaryIsOfItem
    BY DEF ArchiveInv
  <1> QED BY <1>1, Invariance, PTL

-----------------------------------------------------------------------------
(* The file of votes.                                                      *)

\* What the table has of a meeting comes from minutes that are published, so
\* that every fetch lists it; once a fetch has saved, its rows are what it read.
TableOfFetch ==
  \A m \in Meetings :
    /\ rows[m] # <<>> => city[m] > 0
    /\ pc # "idle" /\ rows[m] # <<>> => m \in listed
    /\ pc = "load" /\ m \in listed => MotionsOf(m) = parsed[m]

JsonInv == ArchiveInv /\ TableOfFetch /\ JsonFollowsTable

\* Steps that change no motion and neither begin a fetch nor write the file.
LEMMA SameJson ==
  ASSUME JsonInv, TypeOK', SameMotions, UNCHANGED <<city, json, stale>>,
         \/ pc' = "idle"
         \/ /\ pc # "idle" /\ listed' = listed
            /\ pc' = "load" => pc = "load" /\ parsed' = parsed
  PROVE  TableOfFetch' /\ JsonFollowsTable'
  <1>1. TypeOK /\ TableOfFetch /\ JsonFollowsTable
    BY DEF JsonInv, ArchiveInv
  <1>2. ASSUME NEW m \in Meetings
        PROVE  /\ MotionsOf(m)' = MotionsOf(m)
               /\ rows'[m] = <<>> <=> rows[m] = <<>>
    <2>1. MotionsOf(m)' = MotionsOf(m)
      BY DEF SameMotions, MotionsOf
    <2>2. rows[m] \in Seq(Rows) /\ rows'[m] \in Seq(Rows) /\ DOMAIN rows'[m] = DOMAIN rows[m]
      BY <1>1 DEF TypeOK, SameMotions
    <2> QED BY <2>1, <2>2
  <1>3. TableOfFetch'
    BY <1>1, <1>2 DEF TableOfFetch
  <1>4. JsonFollowsTable'
    BY <1>1, <1>2 DEF JsonFollowsTable
  <1> QED BY <1>3, <1>4

LEMMA ListJson ==
  ASSUME JsonInv, List
  PROVE  TableOfFetch' /\ JsonFollowsTable'
  <1>1. TableOfFetch /\ JsonFollowsTable
    BY DEF JsonInv
  <1>2. UNCHANGED <<rows, json, stale, city>> /\ pc' = "download"
        /\ listed' = {m \in Meetings : city[m] > 0}
    BY DEF List, tables, history
  <1> QED BY <1>1, <1>2 DEF TableOfFetch, JsonFollowsTable, MotionsOf

LEMMA PublishJson ==
  ASSUME JsonInv, NEW m \in Meetings, PublishMinutes(m)
  PROVE  TableOfFetch' /\ JsonFollowsTable'
  <1>1. TypeOK /\ TableOfFetch /\ JsonFollowsTable
    BY DEF JsonInv, ArchiveInv
  <1>2. UNCHANGED <<rows, json, stale, pc, listed, parsed>>
    BY DEF PublishMinutes, fetcher, tables, history
  <1>3. \A n \in Meetings : city[n] > 0 => city'[n] > 0
    BY <1>1 DEF PublishMinutes, TypeOK
  <1> QED BY <1>1, <1>2, <1>3 DEF TableOfFetch, JsonFollowsTable, MotionsOf

\* The rows of a meeting that is saved are its reading.
LEMMA SaveJson ==
  ASSUME JsonInv, Save
  PROVE  TableOfFetch' /\ JsonFollowsTable'
  <1>1. TypeOK /\ TableOfFetch /\ fetches > 0 /\ pc = "save"
    BY DEF JsonInv, ArchiveInv, Save
  <1>2. UNCHANGED <<city, listed, parsed>> /\ pc' = "load" /\ stale' = TRUE
    BY DEF Save
  <1>3. ASSUME NEW m \in Meetings, m \in listed
        PROVE  MotionsOf(m)' = parsed[m] /\ city[m] > 0
    <2>1. rows'[m] = Saved(rows[m], parsed[m])
      BY <1>3 DEF Save
    <2>2. /\ rows[m] \in Seq(Rows) /\ parsed[m] \in Seq(Texts)
          /\ fetches \in 1..MaxFetches /\ city[m] > 0
      BY <1>1, <1>3 DEF TypeOK, ReadingsOK
    <2>3. /\ DOMAIN rows'[m] = DOMAIN parsed[m]
          /\ \A i \in DOMAIN parsed[m] : rows'[m][i].text = parsed[m][i]
      BY <2>1, <2>2, SavedType
    <2>4. parsed[m] = [i \in DOMAIN parsed[m] |-> parsed[m][i]]
      BY <2>2
    <2> QED BY <2>2, <2>3, <2>4 DEF MotionsOf
  <1>4. ASSUME NEW m \in Meetings, m \notin listed
        PROVE  rows'[m] = <<>>
    BY <1>1, <1>4 DEF Save, TableOfFetch
  <1>5. TableOfFetch'
    BY <1>2, <1>3, <1>4 DEF TableOfFetch
  <1> QED BY <1>2, <1>5 DEF JsonFollowsTable

LEMMA WriteJson ==
  ASSUME JsonInv, WriteVotes
  PROVE  TableOfFetch' /\ JsonFollowsTable'
  <1>1. TableOfFetch /\ pc = "load"
    BY DEF JsonInv, WriteVotes
  <1>2. /\ UNCHANGED <<rows, city>> /\ pc' = "idle"
        /\ json' = [m \in Meetings |-> IF m \in listed \ Old THEN parsed[m] ELSE Nil]
    BY DEF WriteVotes, Idle, TermVotes
  <1>3. TableOfFetch'
    BY <1>1, <1>2 DEF TableOfFetch
  <1>4. \A m \in Meetings : MotionsOf(m)' = MotionsOf(m)
    BY <1>2 DEF MotionsOf
  <1>5. JsonFollowsTable'
    BY <1>1, <1>2, <1>4 DEF TableOfFetch, JsonFollowsTable
  <1> QED BY <1>3, <1>5

LEMMA RebuildJson ==
  ASSUME JsonInv, Rebuild
  PROVE  TableOfFetch' /\ JsonFollowsTable'
  BY DEF JsonInv, Rebuild, TableOfFetch, JsonFollowsTable, fetcher

LEMMA JsonStep == JsonInv /\ [Next]_vars => JsonInv'
  <1> SUFFICES ASSUME JsonInv, [Next]_vars PROVE JsonInv'
    OBVIOUS
  <1>1. ArchiveInv /\ ArchiveInv' /\ TypeOK /\ TypeOK'
    BY InvStep DEF JsonInv, ArchiveInv
  <1>2. rows' = rows => SameMotions
    BY DEF SameMotions
  <1> SUFFICES TableOfFetch' /\ JsonFollowsTable'
    BY <1>1 DEF JsonInv
  <1>3. CASE UNCHANGED vars
    BY <1>1, <1>2, <1>3, SameJson DEF vars, fetcher, tables, history
  <1>4. CASE \/ SaveFails \/ WriteOldVotes \/ FetchCrash
    BY <1>1, <1>2, <1>4, SameJson DEF SaveFails, WriteOldVotes, FetchCrash, Idle, tables, history
  <1>5. CASE \/ Parse \/ \E m \in Meetings : Download(m) \/ DownloadFails(m)
    BY <1>1, <1>2, <1>5, SameJson DEF Parse, Download, DownloadFails, tables, history
  <1>6. ASSUME NEW r \in left, Apply(r) \/ ApplyFails(r) PROVE TableOfFetch' /\ JsonFollowsTable'
    <2>1. SameMotions
      BY <1>1, <1>2, <1>6, ApplyRows DEF ApplyFails, tables
    <2> QED BY <1>1, <1>6, <2>1, SameJson DEF Apply, ApplyFails, tables, history
  <1>7. CASE Import \/ Dump \/ Ask \/ \E p \in Files : RemoveFile(p)
    BY <1>1, <1>2, <1>7, SameJson DEF Import, Dump, Ask, RemoveFile, fetcher, tables, history
  <1>8. ASSUME NEW a \in asked, Answer(a) \/ AnswerFails(a) PROVE TableOfFetch' /\ JsonFollowsTable'
    <2>1. SameMotions
      BY <1>1, <1>2, <1>8, AnswerRows DEF AnswerFails, tables
    <2> QED BY <1>1, <1>8, <2>1, SameJson DEF Answer, AnswerFails, fetcher, tables, history
  <1>9. ASSUME NEW m \in Meetings, NEW i \in DOMAIN rows[m], Tag(m, i) PROVE TableOfFetch' /\ JsonFollowsTable'
    BY <1>1, <1>9, TagRows, SameJson DEF Tag, fetcher, history
  <1> QED BY <1>3, <1>4, <1>5, <1>6, <1>7, <1>8, <1>9, ListJson, PublishJson, SaveJson,
             WriteJson, RebuildJson DEF Next, Fetcher, Operator

\* Once a fetch has written the file of votes, that has for every meeting of the
\* term the motions that the table has, whatever failed in the fetches before.
THEOREM JsonIsTable == Spec => []JsonFollowsTable
  <1>1. Init => JsonInv
    <2> SUFFICES ASSUME Init PROVE JsonInv
      OBVIOUS
    <2>1. TableOfFetch
      BY DEF Init, TableOfFetch
    <2>2. JsonFollowsTable
      BY DEF Init, JsonFollowsTable
    <2> QED BY <2>1, <2>2, InitInv DEF JsonInv
  <1>2. JsonInv => JsonFollowsTable
    BY DEF JsonInv
  <1> QED BY <1>1, <1>2, JsonStep, PTL DEF Spec

-----------------------------------------------------------------------------
(* Hand-set significance.                                                  *)

\* No row was tagged by hand as routine.
TagsAreNotRoutine ==
  \A m \in Meetings : \A i \in DOMAIN rows[m] :
    rows[m][i].curated => rows[m][i].significance # "routine"

\* What a step makes of the tag of row i of m: it keeps it, inserts the row,
\* fills in a summary that was missing, answers for it, or tags it.
TagStep(m, i) ==
  \/ i \notin DOMAIN rows[m] /\ ~rows'[m][i].curated
  \/ /\ i \in DOMAIN rows[m]
     /\ rows[m][i].summary = Nil /\ ~rows'[m][i].curated
  \/ /\ i \in DOMAIN rows[m]
     /\ rows'[m][i].curated = rows[m][i].curated
     /\ rows[m][i].significance # "routine" =>
          rows'[m][i].significance = rows[m][i].significance
  \/ /\ i \in DOMAIN rows[m]
     /\ ~rows[m][i].curated /\ rows'[m][i].significance = "headline"

LEMMA StepOfTags ==
  ASSUME ArchiveInv, [Next]_vars, NEW m \in Meetings, NEW i \in DOMAIN rows'[m]
  PROVE  TagStep(m, i)
  <1>0. TypeOK /\ (pc # "idle" => fetches > 0)
    BY DEF ArchiveInv
  <1>1. CASE rows' = rows
    BY <1>1 DEF TagStep
  <1>2. CASE Save
    <2>1. CASE m \in listed
      <3>1. rows'[m] = Saved(rows[m], parsed[m])
        BY <1>2, <2>1 DEF Save
      <3>2. rows[m] \in Seq(Rows) /\ parsed[m] \in Seq(Texts) /\ fetches \in 1..MaxFetches
        BY <1>0, <1>2 DEF Save, TypeOK
      <3> QED BY <3>1, <3>2, SavedType DEF TagStep
    <2>2. CASE m \notin listed
      BY <1>2, <2>2 DEF Save, TagStep
    <2> QED BY <2>1, <2>2
  <1>3. ASSUME NEW r \in left, Apply(r) PROVE TagStep(m, i)
    <2>1. i \in DOMAIN rows[m] /\ rows[m][i] \in Rows
      <3>1. DOMAIN rows'[m] = DOMAIN rows[m]
        BY <1>3 DEF Apply
      <3>2. rows[m] \in Seq(Rows)
        BY <1>0 DEF TypeOK
      <3> QED BY <3>1, <3>2
    <2>2. CASE Fills(r, m, rows[m][i])
      <3>1. rows'[m][i] = [rows[m][i] EXCEPT !.summary = r.summary,
                                             !.significance = r.significance,
                                             !.curated = FALSE]
        BY <1>3, <2>1, <2>2 DEF Apply
      <3>2. ~rows'[m][i].curated /\ rows[m][i].summary = Nil
        BY <2>1, <2>2, <3>1 DEF Rows, Fills
      <3> QED BY <2>1, <3>2 DEF TagStep
    <2>3. CASE ~Fills(r, m, rows[m][i])
      <3>1. rows'[m][i] = rows[m][i]
        BY <1>3, <2>1, <2>3 DEF Apply
      <3> QED BY <2>1, <3>1 DEF TagStep
    <2> QED BY <2>2, <2>3
  <1>4. ASSUME NEW a \in asked, Answer(a) PROVE TagStep(m, i)
    BY <1>0, <1>4, AnswerRows DEF SameMotions, TagStep
  <1>5. ASSUME NEW n \in Meetings, NEW j \in DOMAIN rows[n], Tag(n, j) PROVE TagStep(m, i)
    BY <1>0, <1>5, TagRows DEF SameMotions, TagStep
  <1>6. CASE Rebuild
    <2>1. rows'[m] = <<>>
      BY <1>6 DEF Rebuild
    <2> QED BY <2>1
  <1>7. CASE \/ UNCHANGED vars
             \/ List \/ Parse \/ SaveFails \/ WriteVotes \/ WriteOldVotes \/ FetchCrash
             \/ Import \/ Dump \/ Ask
             \/ \E n \in Meetings : PublishMinutes(n) \/ Download(n) \/ DownloadFails(n)
             \/ \E r \in left : ApplyFails(r)
             \/ \E p \in Files : RemoveFile(p)
             \/ \E a \in asked : AnswerFails(a)
    BY <1>1, <1>7 DEF vars, List, Parse, SaveFails, WriteVotes, WriteOldVotes, FetchCrash,
       Import, Dump, Ask, PublishMinutes, Download, DownloadFails, ApplyFails, RemoveFile,
       AnswerFails, tables
  <1> QED BY <1>2, <1>3, <1>4, <1>5, <1>6, <1>7 DEF Next, Fetcher, Operator

LEMMA TagsStep == ArchiveInv /\ TagsAreNotRoutine /\ [Next]_vars => TagsAreNotRoutine'
  <1> SUFFICES ASSUME ArchiveInv, TagsAreNotRoutine, [Next]_vars,
                      NEW m \in Meetings, NEW i \in DOMAIN rows'[m], rows'[m][i].curated
               PROVE  rows'[m][i].significance # "routine"
    BY DEF TagsAreNotRoutine
  <1>1. TagStep(m, i)
    BY StepOfTags
  <1> QED BY <1>1 DEF TagStep, TagsAreNotRoutine

\* A hand-set significance of a motion that has a summary stays with its row as
\* long as that lives, over fetches, loads and late answers of the summarizer.
THEOREM CurationStays == Spec => CurationIsKept
  <1>1. Init => TagsAreNotRoutine
    <2> SUFFICES ASSUME Init, NEW m \in Meetings PROVE DOMAIN rows[m] = {}
      BY DEF TagsAreNotRoutine
    <2>1. rows[m] = <<>>
      BY DEF Init
    <2> QED BY <2>1
  <1>2. ArchiveInv /\ TagsAreNotRoutine /\ [Next]_vars =>
          [\A m \in Meetings : \A i \in DOMAIN rows[m] \cap DOMAIN rows'[m] :
             (/\ rows[m][i].born = rows'[m][i].born
              /\ rows[m][i].curated
              /\ rows[m][i].summary # Nil)
             => rows'[m][i].significance = rows[m][i].significance]_vars
    <2> SUFFICES ASSUME ArchiveInv, TagsAreNotRoutine, [Next]_vars,
                        NEW m \in Meetings, NEW i \in DOMAIN rows[m] \cap DOMAIN rows'[m],
                        rows[m][i].curated, rows[m][i].summary # Nil
                 PROVE  rows'[m][i].significance = rows[m][i].significance
      OBVIOUS
    <2>1. TagStep(m, i)
      BY StepOfTags
    <2> QED BY <2>1 DEF TagStep, TagsAreNotRoutine
  <1> QED BY <1>1, <1>2, TagsStep, Invariance, PTL DEF Spec, CurationIsKept

=============================================================================
