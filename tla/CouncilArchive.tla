--------------------------- MODULE CouncilArchive ---------------------------
(***************************************************************************)
(* The archive of council minutes: internal/council (scrape.go, fetch.go,  *)
(* store.go, summarize.go) with the tools cmd/fetcher and cmd/summarize.   *)
(*                                                                         *)
(* The fetcher lists the meetings, downloads the minutes it has no file    *)
(* of, reads the files, saves the motions of every meeting under their     *)
(* index in one transaction, restores summaries from summaries.json by     *)
(* their agenda item, and writes the votes of the term.  The summarizer    *)
(* reads the motions that lack a summary and writes each answer under the  *)
(* id of the row; the operator tags rows, dumps and loads the summaries.   *)
(*                                                                         *)
(* A motion is its text; a summary is the text that it was written from.   *)
(* The summaries of whole meetings, labels and media links are left out.   *)
(***************************************************************************)
EXTENDS Integers, Sequences

CONSTANTS
  Meetings,   \* eSCRIBE's meetings
  Old,        \* those before the term
  Texts,      \* motions
  ItemOf,     \* ItemOf[t]: the agenda item of a motion
  Recorded,   \* motions with a recorded vote
  Minutes,    \* Minutes[m][v]: the motions of version v of a meeting's minutes
  FileOf,     \* FileOf[m]: the name of the PDF, which is its date
  MaxFetches, \* bound: fetches begun
  Scenarios,  \* bounds: meetings held, faults and tools that may happen
  Nil,        \* nothing
  Torn        \* what a download that was cut short leaves

Files == {FileOf[m] : m \in Meetings}
Significances == {"routine", "notable", "headline"}

ASSUME ArchiveAssumption ==
  /\ Old \subseteq Meetings
  /\ Recorded \subseteq Texts
  /\ DOMAIN ItemOf = Texts
  /\ DOMAIN FileOf = Meetings
  /\ DOMAIN Minutes = Meetings
  /\ \A m \in Meetings : Minutes[m] \in Seq(Seq(Texts)) /\ Minutes[m] # <<>>
  /\ MaxFetches \in Nat
  /\ Nil \notin Texts
  /\ Torn \notin Seq(Texts)
  /\ Torn # Nil
  /\ Nil \notin Seq(Texts)
  /\ Scenarios \subseteq [held : SUBSET Meetings, may : SUBSET STRING,
                           fetches : 0..MaxFetches]

Items == {ItemOf[t] : t \in Texts}

\* The readings that a meeting may be given: those of a meeting of its date.
Readings(m) ==
  UNION {{Minutes[n][v] : v \in DOMAIN Minutes[n]} :
           n \in {k \in Meetings : FileOf[k] = FileOf[m]}}

\* A row of council_motions; its id is its meeting, its index and the fetch
\* that inserted it.
Rows == [born : 1..MaxFetches, text : Texts, votes : Texts \cup {Nil},
         summary : Texts \cup {Nil}, significance : Significances,
         curated : BOOLEAN]

\* A record of summaries.json.
Records == [meeting : Meetings, item : Items, summary : Texts \cup {Nil},
            significance : Significances]

Asked == [meeting : Meetings, index : Nat, born : 1..MaxFetches, text : Texts]

VARIABLES
  scenario, \* one of Scenarios, for good
  city,     \* city[m]: the version of the minutes that are published, or 0
  disk,     \* disk[p]: what the PDF p says
  \* the fetcher
  pc,       \* where it is
  fetches,  \* fetches begun
  listed,   \* the meetings it found
  todo,     \* those it has not downloaded yet
  parsed,   \* parsed[m]: the motions it read
  left,     \* records it has not applied yet
  \* the summarizer
  asked,    \* rows it has no answer for yet
  \* tables and files
  rows,     \* rows[m]: the motions of a meeting, by index
  file,     \* summaries.json
  json,     \* json[m]: the motions of a meeting in votes_2022.json
  \* history
  shifted,  \* meetings of which a row with an id changed its motion
  stale     \* has the table been saved since votes_2022.json?

fetcher == <<pc, fetches, listed, todo, parsed, left>>
tables  == <<rows, file, json>>
history == <<shifted, stale>>
vars    == <<scenario, city, disk, fetcher, asked, tables, history>>

Init ==
  /\ scenario \in Scenarios
  /\ city = [m \in Meetings |-> 0]
  /\ disk = [p \in Files |-> Nil]
  /\ pc = "idle"
  /\ fetches = 0
  /\ listed = {}
  /\ todo = {}
  /\ parsed = [m \in Meetings |-> <<>>]
  /\ left = {}
  /\ asked = {}
  /\ rows = [m \in Meetings |-> <<>>]
  /\ file = Nil
  /\ json = [m \in Meetings |-> Nil]
  /\ shifted = {}
  /\ stale = FALSE

May(what) == what \in scenario.may

-----------------------------------------------------------------------------
(* The city.                                                               *)

\* Minutes are published, and corrected later.
PublishMinutes(m) ==
  /\ m \in scenario.held
  /\ city[m] < Len(Minutes[m])
  /\ city' = [city EXCEPT ![m] = @ + 1]
  /\ UNCHANGED <<scenario, disk, fetcher, asked, tables, history>>

\* The operator deletes a file, so that it is downloaded again.
RemoveFile(p) ==
  /\ May("remove")
  /\ pc = "idle"
  /\ disk[p] # Nil
  /\ disk' = [disk EXCEPT ![p] = Nil]
  /\ UNCHANGED <<scenario, city, fetcher, asked, tables, history>>

-----------------------------------------------------------------------------
(* The fetcher: download and read.                                         *)

\* Meetings that have minutes are listed.
List ==
  /\ pc = "idle"
  /\ fetches < scenario.fetches
  /\ fetches' = fetches + 1
  /\ listed' = {m \in Meetings : city[m] > 0}
  /\ todo' = listed'
  /\ pc' = "download"
  /\ UNCHANGED <<scenario, city, disk, parsed, left, asked, tables, history>>

\* A file that exists is not downloaded again.
Download(m) ==
  /\ pc = "download"
  /\ m \in todo
  /\ todo' = todo \ {m}
  /\ disk' = IF disk[FileOf[m]] = Nil
             THEN [disk EXCEPT ![FileOf[m]] = Minutes[m][city[m]]]
             ELSE disk
  /\ UNCHANGED <<scenario, city, pc, fetches, listed, parsed, left, asked,
                 tables, history>>

\* An error is a warning.
DownloadFails(m) ==
  /\ May("download")
  /\ pc = "download"
  /\ m \in todo
  /\ disk[FileOf[m]] = Nil
  /\ todo' = todo \ {m}
  /\ UNCHANGED <<scenario, city, disk, pc, fetches, listed, parsed, left,
                 asked, tables, history>>

\* The motions of a file; none when it is missing or cannot be read.
Reading(p) == IF disk[p] \in {Nil, Torn} THEN <<>> ELSE disk[p]

\* The end of a fetch, however it ends.
Idle ==
  /\ pc' = "idle"
  /\ listed' = {}
  /\ todo' = {}
  /\ parsed' = [m \in Meetings |-> <<>>]

Parse ==
  /\ pc = "download"
  /\ todo = {}
  /\ \E bad \in SUBSET listed :
       /\ bad = {} \/ May("extract")
       /\ parsed' = [m \in Meetings |->
                       IF m \in listed \ bad THEN Reading(FileOf[m]) ELSE <<>>]
  /\ pc' = "save"
  /\ UNCHANGED <<scenario, city, disk, fetches, listed, todo, left, asked,
                 tables, history>>

-----------------------------------------------------------------------------
(* The fetcher: save.                                                      *)

Votes(t) == IF t \in Recorded THEN t ELSE Nil

NewRow(t) ==
  [born |-> fetches, text |-> t, votes |-> Votes(t), summary |-> Nil,
   significance |-> "routine", curated |-> FALSE]

\* Mutant: the rows beyond the last motion that was read stay.
Untrimmed(old, texts) ==
  [i \in 1..(IF Len(old) > Len(texts) THEN Len(old) ELSE Len(texts)) |->
     IF i > Len(old) THEN NewRow(texts[i])
     ELSE IF i > Len(texts) THEN old[i]
     ELSE [old[i] EXCEPT !.text = texts[i], !.votes = Votes(texts[i])]]

\* Motion i is upserted at index i, where it keeps the id, the summary and the
\* significance of the row; the rows beyond the last are deleted.
Saved(old, texts) ==
  [i \in 1..Len(texts) |->
     IF i > Len(old) THEN NewRow(texts[i])
     ELSE [old[i] EXCEPT !.text = texts[i], !.votes = Votes(texts[i])]]

Shifts(m) ==
  \E i \in DOMAIN rows[m] \cap DOMAIN parsed[m] : rows[m][i].text # parsed[m][i]

\* SaveMeetings is one transaction; loadSummariesFromFile comes next.
Save ==
  /\ pc = "save"
  /\ rows' = [m \in Meetings |->
                IF m \in listed THEN Saved(rows[m], parsed[m]) ELSE rows[m]]
  /\ shifted' = shifted \cup {m \in listed : Shifts(m)}
  /\ stale' = TRUE
  /\ left' = IF file = Nil THEN {} ELSE file
  /\ pc' = "load"
  /\ UNCHANGED <<scenario, city, disk, fetches, listed, todo, parsed, asked,
                 file, json>>

\* FetchVotes returns the error.
SaveFails ==
  /\ May("save")
  /\ pc = "save"
  /\ Idle
  /\ UNCHANGED <<scenario, city, disk, fetches, left, asked, tables, history>>

-----------------------------------------------------------------------------
(* summaries.json.                                                         *)

\* Mutant: WHERE meeting_id and llm_summary = '' alone.
FillsMeeting(r, m, row) == m = r.meeting /\ row.summary = Nil

\* WHERE meeting_id = $7 AND agenda_item = $8 AND llm_summary = ''.
Fills(r, m, row) ==
  m = r.meeting /\ ItemOf[row.text] = r.item /\ row.summary = Nil

\* Every row without a summary that has the item gets the summary, and the
\* significance of the record.
Apply(r) ==
  /\ r \in left
  /\ left' = left \ {r}
  /\ rows' = [m \in Meetings |-> [i \in DOMAIN rows[m] |->
                IF Fills(r, m, rows[m][i])
                THEN [rows[m][i] EXCEPT !.summary = r.summary,
                                        !.significance = r.significance,
                                        !.curated = FALSE]
                ELSE rows[m][i]]]
  /\ UNCHANGED <<scenario, city, disk, pc, fetches, listed, todo, parsed,
                 asked, file, json, history>>

\* An error of one UPDATE is skipped.
ApplyFails(r) ==
  /\ May("apply")
  /\ r \in left
  /\ left' = left \ {r}
  /\ UNCHANGED <<scenario, city, disk, pc, fetches, listed, todo, parsed,
                 asked, tables, history>>

\* summarize -load does the same without a fetch.
Import ==
  /\ May("import")
  /\ pc = "idle"
  /\ left = {}
  /\ file # Nil
  /\ left' = file
  /\ UNCHANGED <<scenario, city, disk, pc, fetches, listed, todo, parsed,
                 asked, tables, history>>

\* Rows that are worth a record.
Exported ==
  UNION {{[meeting |-> m, item |-> ItemOf[rows[m][i].text],
           summary |-> rows[m][i].summary,
           significance |-> rows[m][i].significance] :
            i \in {j \in DOMAIN rows[m] : \/ rows[m][j].summary # Nil
                                          \/ rows[m][j].significance # "routine"}} :
           m \in Meetings}

\* summarize -dump; one that is cut short leaves a file that does not parse.
Dump ==
  /\ May("dump")
  /\ pc = "idle"
  /\ \/ file' = Exported
     \/ May("crash") /\ file' = Nil
  /\ UNCHANGED <<scenario, city, disk, fetcher, asked, rows, json, history>>

-----------------------------------------------------------------------------
(* The fetcher: votes_2022.json.                                           *)

\* Mutant: meetings without a motion are left out, and keep what they had.
PartialVotes ==
  [m \in Meetings |-> IF m \in listed \ Old /\ parsed[m] # <<>>
                      THEN parsed[m] ELSE json[m]]

\* The file has the meetings of the term that were listed, as they were read.
TermVotes ==
  [m \in Meetings |-> IF m \in listed \ Old THEN parsed[m] ELSE Nil]

WriteVotes ==
  /\ pc = "load"
  /\ left = {}
  /\ listed \ Old # {}
  /\ json' = TermVotes
  /\ stale' = FALSE
  /\ Idle
  /\ UNCHANGED <<scenario, city, disk, fetches, left, asked, rows, file,
                 shifted>>

\* The name of the file of the term "" is a slice of it out of bounds: the
\* fetcher panics, before or after the file of the term that there is.
WriteOldVotes ==
  /\ pc = "load"
  /\ left = {}
  /\ listed \cap Old # {} \/ listed = {}
  /\ Idle
  /\ UNCHANGED <<scenario, city, disk, fetches, left, asked, tables, history>>

\* The fetcher is stopped; a download may be left half written.
FetchCrash ==
  /\ May("crash")
  /\ pc # "idle"
  /\ Idle
  /\ left' = {}
  /\ \/ UNCHANGED disk
     \/ \E m \in todo : disk[FileOf[m]] = Nil /\ disk' = [disk EXCEPT ![FileOf[m]] = Torn]
  /\ UNCHANGED <<scenario, city, fetches, asked, tables, history>>

-----------------------------------------------------------------------------
(* The summarizer and the operator.                                        *)

\* ListUnsummarized; with -force every motion.
Ask ==
  /\ May("summarize")
  /\ asked = {}
  /\ \E force \in {FALSE} \cup (IF May("force") THEN {TRUE} ELSE {}) :
       asked' = UNION {{[meeting |-> m, index |-> i, born |-> rows[m][i].born,
                         text |-> rows[m][i].text] :
                          i \in {j \in DOMAIN rows[m] :
                                   force \/ rows[m][j].summary = Nil}} :
                         m \in Meetings}
  /\ UNCHANGED <<scenario, city, disk, fetcher, tables, history>>

\* Mutant: the answer's significance goes into both columns.
Overruled(old, answer) == answer

\* What was curated is not overruled.
Promoted(old, answer) == IF old = "routine" THEN answer ELSE old

\* UpdateMotionSummary, for a row that still has the id; the answer may lack a
\* summary, and is routine when its significance is not one of the four.
Answer(a) ==
  /\ a \in asked
  /\ asked' = asked \ {a}
  /\ \E summary \in {a.text} \cup (IF May("empty") THEN {Nil} ELSE {}),
        significance \in {"routine", "notable"} :
       rows' = IF /\ a.index \in DOMAIN rows[a.meeting]
                  /\ rows[a.meeting][a.index].born = a.born
               THEN [rows EXCEPT ![a.meeting][a.index].summary = summary,
                                 ![a.meeting][a.index].significance =
                                    Promoted(@, significance)]
               ELSE rows
  /\ UNCHANGED <<scenario, city, disk, fetcher, file, json, history>>

AnswerFails(a) ==
  /\ May("llm")
  /\ a \in asked
  /\ asked' = asked \ {a}
  /\ UNCHANGED <<scenario, city, disk, fetcher, tables, history>>

\* The operator tags a motion that was in the news.
Tag(m, i) ==
  /\ May("tag")
  /\ ~rows[m][i].curated
  /\ rows' = [rows EXCEPT ![m][i].significance = "headline",
                          ![m][i].curated = TRUE]
  /\ UNCHANGED <<scenario, city, disk, fetcher, asked, file, json, history>>

\* The database is lost and made again.
Rebuild ==
  /\ May("rebuild")
  /\ pc = "idle"
  /\ left = {}
  /\ asked = {}
  /\ rows' = [m \in Meetings |-> <<>>]
  /\ stale' = TRUE
  /\ UNCHANGED <<scenario, city, disk, fetcher, asked, file, json, shifted>>

-----------------------------------------------------------------------------
Fetcher ==
  \/ List \/ Parse \/ Save \/ SaveFails \/ WriteVotes \/ WriteOldVotes \/ FetchCrash
  \/ \E m \in Meetings : Download(m) \/ DownloadFails(m)
  \/ \E r \in left : Apply(r) \/ ApplyFails(r)

Operator ==
  \/ Import \/ Dump \/ Rebuild \/ Ask
  \/ \E p \in Files : RemoveFile(p)
  \/ \E a \in asked : Answer(a) \/ AnswerFails(a)
  \/ \E m \in Meetings : \E i \in DOMAIN rows[m] : Tag(m, i)

Next ==
  \/ \E m \in Meetings : PublishMinutes(m)
  \/ Fetcher
  \/ Operator

Spec == Init /\ [][Next]_vars

-----------------------------------------------------------------------------
(* Properties.                                                             *)

\* What files and memory have of a meeting is a reading of its date.
ReadingsOK(m) ==
  /\ city[m] \in 0..Len(Minutes[m])
  /\ m \in listed => city[m] > 0
  /\ disk[FileOf[m]] \in Readings(m) \cup {Nil, Torn}
  /\ parsed[m] \in Readings(m) \cup {<<>>}
  /\ json[m] \in Readings(m) \cup {<<>>, Nil}

\* Tables, files and memory hold what they are declared to hold.
TypeOK ==
  /\ scenario \in Scenarios
  /\ city \in [Meetings -> Nat]
  /\ disk \in [Files -> Seq(Texts) \cup {Nil, Torn}]
  /\ pc \in {"idle", "download", "save", "load"}
  /\ fetches \in 0..MaxFetches
  /\ listed \subseteq Meetings
  /\ todo \subseteq listed
  /\ parsed \in [Meetings -> Seq(Texts)]
  /\ left \subseteq Records
  /\ asked \subseteq Asked
  /\ rows \in [Meetings -> Seq(Rows)]
  /\ file = Nil \/ file \subseteq Records
  /\ json \in [Meetings -> Seq(Texts) \cup {Nil}]
  /\ shifted \subseteq Meetings
  /\ stale \in BOOLEAN
  /\ \A m \in Meetings : ReadingsOK(m)

MotionsOf(m) == [i \in DOMAIN rows[m] |-> rows[m][i].text]

\* The table's motions of a meeting are those of one reading of the minutes of
\* its date, none twice and none missing, each with its own votes, though a
\* new reading is laid over the old one index by index (store.go:67, 81).
RowsAreOneReading ==
  \A m \in Meetings :
    /\ MotionsOf(m) \in Readings(m) \cup {<<>>}
    /\ \A i \in DOMAIN rows[m] : rows[m][i].votes = Votes(rows[m][i].text)

\* A motion's summary was written from a motion of the same agenda item of
\* the same meeting, whether the summarizer or the file gave it, unless a
\* reading moved motions to other rows (fetch.go:288, store.go:598).
SummaryIsOfItem ==
  \A m \in Meetings \ shifted : \A i \in DOMAIN rows[m] :
    rows[m][i].summary # Nil =>
      ItemOf[rows[m][i].summary] = ItemOf[rows[m][i].text]

\* A hand-set significance of a motion that has a summary stays with its row
\* as long as that lives: over fetches, loads, and answers of a summarizer
\* that asked before the row was tagged (store.go:27, 603).
CurationIsKept ==
  [][\A m \in Meetings : \A i \in DOMAIN rows[m] \cap DOMAIN rows'[m] :
       (/\ rows[m][i].born = rows'[m][i].born
        /\ rows[m][i].curated
        /\ rows[m][i].summary # Nil)
       => rows'[m][i].significance = rows[m][i].significance]_vars

\* Once a fetch has written its file, that has the motions of the table: also
\* none for a meeting whose PDF was missing (fetch.go:112, 212).
JsonFollowsTable ==
  ~stale => \A m \in Meetings \ Old :
              (rows[m] # <<>> \/ json[m] # Nil) =>
                json[m] = MotionsOf(m)
=============================================================================
