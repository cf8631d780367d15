-------------------------------- MODULE Dump --------------------------------
(***************************************************************************)
(* `langusta export` and `langusta import` (db/export.py, cli.py): the     *)
(* user-owned tables of one database go to a JSON file and from there into *)
(* another.  The exporter reads one table after the other, each with a     *)
(* SELECT of its own and without a transaction, while scans, edits and     *)
(* notes go on; the importer counts the rows of each table, again one      *)
(* SELECT at a time, and then inserts everything in one transaction, while *)
(* somebody may be working on the target.                                  *)
(*                                                                         *)
(* A table is the sequence of its rows, a row's id its position: every     *)
(* table but field_provenance is AUTOINCREMENT and no row of them is ever  *)
(* deleted.  A row is reduced to its foreign keys and to what the          *)
(* properties tell apart: for an asset, who set each of its fields.        *)
(***************************************************************************)
EXTENDS Nullable, Integers, Sequences, SequencesExt

CONSTANTS Fields,      \* fields of an asset
          Macs,        \* MAC addresses
          MaxCommits,  \* commits on the source
          MaxRivals    \* commits of others on the target

ASSUME DumpAssumption ==
  /\ NULL \notin Macs
  /\ MaxCommits \in Nat
  /\ MaxRivals \in Nat

(* _USER_TABLES without meta, in the order they are read and inserted.     *)
TableOrder ==
  <<"assets", "mac_addresses", "field_provenance", "scans",
    "proposed_changes", "review_queue", "timeline_entries">>

Tables == {"assets", "mac_addresses", "field_provenance", "scans",
           "proposed_changes", "review_queue", "timeline_entries"}

VARIABLES
  src,        \* the source database: its tables
  commits,    \* commits made on it so far
  exporter,   \* how far the export is
  buffer,     \* the tables it has read
  cut,        \* a commit came between its first and its last SELECT
  file,       \* the dump on disk
  photo,      \* history: the source as of the export's first SELECT
  target,     \* the target database
  rivals,     \* commits of others on the target
  importer    \* how far the import is

vars == <<src, commits, exporter, buffer, cut, file, photo,
          target, rivals, importer>>

-----------------------------------------------------------------------------
(* Rows.                                                                   *)

Ids     == Nat \ {0}
Setters == {"manual", "scanned"}
Asset   == [Fields -> Setters \cup {NULL}]
Rows ==
  [assets           |-> Asset,
   mac_addresses    |-> [asset: Ids, mac: Macs],
   field_provenance |-> [asset: Ids, field: Fields, by: Setters],
   scans            |-> {"started", "finished"},
   proposed_changes |-> [asset: Ids, field: Fields, scan: Ids, open: BOOLEAN],
   review_queue     |-> [scan: Ids],
   timeline_entries |-> [asset: Ids, corrects: Nat]]

Database == [Tables -> UNION {Seq(Rows[t]) : t \in Tables}]
Empty    == [t \in Tables |-> << >>]

(* The rows a row refers to; a NULL reference is 0.                        *)
Refs(t, row) ==
  CASE t \in {"mac_addresses", "field_provenance"} -> {<<"assets", row.asset>>}
    [] t = "proposed_changes" -> {<<"assets", row.asset>>, <<"scans", row.scan>>}
    [] t = "review_queue" -> {<<"scans", row.scan>>}
    [] t = "timeline_entries" ->
         {<<"assets", row.asset>>} \cup
           IF row.corrects = 0 THEN {} ELSE {<<"timeline_entries", row.corrects>>}
    [] OTHER -> {}

ForeignKeysHold(d) ==
  \A t \in Tables : \A i \in DOMAIN d[t] :
    \A ref \in Refs(t, d[t][i]) : ref[2] \in DOMAIN d[ref[1]]

Put(d, t, row) == [d EXCEPT ![t] = Append(@, row)]
\* Faulty: an entry that belongs to no asset.
EntryOfNobody(d, a, corrects) ==
  Put(d, "timeline_entries", [asset |-> NULL, corrects |-> corrects])

Entry(d, a, corrects) ==
  Put(d, "timeline_entries", [asset |-> a, corrects |-> corrects])

(* A value and its provenance row are written in one transaction.          *)
SetField(d, a, f, by) ==
  LET known == {i \in DOMAIN d["field_provenance"] :
                  /\ d["field_provenance"][i].asset = a
                  /\ d["field_provenance"][i].field = f}
      row   == [asset |-> a, field |-> f, by |-> by]
      set   == [d EXCEPT !["assets"][a][f] = by]
  IN  IF known = {} THEN Put(set, "field_provenance", row)
      ELSE [set EXCEPT !["field_provenance"] =
              [i \in DOMAIN @ |-> IF i \in known THEN row ELSE @[i]]]

NewAsset(d, fields, by, mac) ==
  LET a     == Len(d["assets"]) + 1
      added == Put(d, "assets", [f \in Fields |-> IF f \in fields THEN by ELSE NULL])
      prov  == [added EXCEPT !["field_provenance"] =
                  @ \o SetToSeq({[asset |-> a, field |-> f, by |-> by] : f \in fields})]
  IN  IF mac = NULL \/ \E i \in DOMAIN d["mac_addresses"] :
                         d["mac_addresses"][i].mac = mac
      THEN prov
      ELSE Put(prov, "mac_addresses", [asset |-> a, mac |-> mac])

-----------------------------------------------------------------------------
Init ==
  /\ src = Empty /\ commits = 0
  /\ exporter = "idle" /\ buffer = << >> /\ cut = FALSE
  /\ file = "none" /\ photo = Empty
  /\ target = Empty /\ rivals = 0
  /\ importer = [phase |-> "idle", checked |-> 0]

-----------------------------------------------------------------------------
(* What others commit, on the source and, some of it, on the target.  Each *)
(* takes a database and gives the next one.                                *)

MacFree(d, m) ==
  m = NULL \/ \A i \in DOMAIN d["mac_addresses"] : d["mac_addresses"][i].mac # m

Added(d) ==
  {NewAsset(d, {f}, "manual", m) : f \in Fields, m \in {x \in Macs \cup {NULL} : MacFree(d, x)}}

ScanStarted(d) == {Put(d, "scans", "started")}

(* A scan commits its observation with its end: a new asset, a field of an *)
(* old one or a proposal about it, or a row for the review queue.          *)
Discovered(d) ==
  {LET e == NewAsset(d, {f}, "scanned", m)
   IN  Entry(e, Len(e["assets"]), 0)
     : f \in Fields, m \in {x \in Macs \cup {NULL} : MacFree(d, x)}}

Observed(d, s) ==
  {IF d["assets"][a][f] = "manual"
   THEN Put(d, "proposed_changes",
            [asset |-> a, field |-> f, scan |-> s, open |-> TRUE])
   ELSE Entry(SetField(d, a, f, "scanned"), a, 0)
     : a \in DOMAIN d["assets"], f \in Fields}

Deferred(d, s) == {Put(d, "review_queue", [scan |-> s])}

ScanCommitted(d) ==
  UNION {{[e EXCEPT !["scans"][s] = "finished"]
            : e \in {d} \cup Discovered(d) \cup Observed(d, s) \cup Deferred(d, s)}
          : s \in {i \in DOMAIN d["scans"] : d["scans"][i] = "started"}}

(* Accepting a proposal or typing another value instead.                   *)
Disposed(d) ==
  {LET q == d["proposed_changes"][i]
   IN  Entry([SetField(d, q.asset, q.field, by) EXCEPT !["proposed_changes"][i].open = FALSE],
             q.asset, 0)
     : i \in {j \in DOMAIN d["proposed_changes"] : d["proposed_changes"][j].open},
       by \in Setters}

(* db/timeline.py: a note (tui/screens/journal_editor.py) and a correction *)
(* of an entry, which goes to the asset of the entry it corrects.          *)
Noted(d)     == {Entry(d, a, 0) : a \in DOMAIN d["assets"]}
\* Faulty: the caller says whose timeline a correction goes to.
CorrectedAnywhere(d) == {Entry(d, a, e) : a \in DOMAIN d["assets"],
                                          e \in DOMAIN d["timeline_entries"]}
Corrected(d) == {Entry(d, d["timeline_entries"][e].asset, e)
                   : e \in DOMAIN d["timeline_entries"]}

Writes(d) ==
  Added(d) \cup ScanStarted(d) \cup ScanCommitted(d) \cup Disposed(d)
    \cup Noted(d) \cup Corrected(d)

(* Bounds: MaxCommits, and none after the last SELECT, which nobody sees.  *)
SourceCommits ==
  /\ commits < MaxCommits
  /\ Len(buffer) < Len(TableOrder)
  /\ src' \in Writes(src)
  /\ commits' = commits + 1
  /\ cut' = (cut \/ buffer # << >>)
  /\ UNCHANGED <<exporter, buffer, file, photo, target, rivals, importer>>

RivalCommits ==
  /\ rivals < MaxRivals
  /\ target' \in Added(target) \cup ScanStarted(target)
  /\ rivals' = rivals + 1
  /\ UNCHANGED <<src, commits, exporter, buffer, cut, file, photo, importer>>

-----------------------------------------------------------------------------
(* export_to_dict and export_cmd.                                          *)

(* SELECT * FROM the next table ORDER BY rowid: the last commit is seen.   *)
ReadTable ==
  LET t == TableOrder[Len(buffer) + 1]
  IN  /\ exporter \in {"idle", "reading"}
      /\ Len(buffer) < Len(TableOrder)
      /\ exporter' = "reading"
      /\ buffer' = Append(buffer, src[t])
      /\ photo' = IF buffer = << >> THEN src ELSE photo
      /\ UNCHANGED <<src, commits, cut, file, target, rivals, importer>>

(* Path.write_text truncates the file and then writes it.                  *)
OpenFile ==
  /\ exporter = "reading"
  /\ Len(buffer) = Len(TableOrder)
  /\ exporter' = "writing"
  /\ file' = "torn"
  /\ UNCHANGED <<src, commits, buffer, cut, photo, target, rivals, importer>>

FinishFile ==
  /\ exporter = "writing"
  /\ exporter' = "done"
  /\ file' = "whole"
  /\ UNCHANGED <<src, commits, buffer, cut, photo, target, rivals, importer>>

ExporterDies ==
  /\ exporter \in {"reading", "writing"}
  /\ exporter' = "dead"
  /\ UNCHANGED <<src, commits, buffer, cut, file, photo, target, rivals, importer>>

(* What a whole file holds.                                                *)
Dumped(t) == buffer[CHOOSE k \in DOMAIN TableOrder : TableOrder[k] = t]

-----------------------------------------------------------------------------
(* import_from_dict and import_cmd.                                        *)

(* json.loads refuses a file that was not written to its end.              *)
StartImport ==
  /\ file # "none"
  /\ importer.phase # "checking"
  /\ importer' = [phase |-> IF file = "whole" THEN "checking" ELSE "failed",
                  checked |-> 0]
  /\ UNCHANGED <<src, commits, exporter, buffer, cut, file, photo, target, rivals>>

(* SELECT COUNT( * ): a table that has rows means a refusal.               *)
CountRows ==
  LET t == TableOrder[importer.checked + 1]
  IN  /\ importer.phase = "checking"
      /\ importer.checked < Len(TableOrder)
      /\ importer' = IF target[t] # << >> THEN [importer EXCEPT !.phase = "refused"]
                     ELSE [importer EXCEPT !.checked = @ + 1]
      /\ UNCHANGED <<src, commits, exporter, buffer, cut, file, photo, target, rivals>>

\* Faulty: rows come without their ids and get new ones.
NeverCollides(t) == FALSE

(* A row comes with its id, and both databases count from 1: two non-empty *)
(* tables share an id.  field_provenance has no id, only a key.            *)
Collides(t) ==
  IF t = "field_provenance"
  THEN \E i \in DOMAIN target[t], j \in DOMAIN Dumped(t) :
         /\ target[t][i].asset = Dumped(t)[j].asset
         /\ target[t][i].field = Dumped(t)[j].field
  ELSE target[t] # << >> /\ Dumped(t) # << >>

Merged == [t \in Tables |-> target[t] \o Dumped(t)]

\* Faulty: PRAGMA foreign_keys left off, SQLite's default.
NeverDangles(t) == FALSE

(* PRAGMA foreign_keys = ON: a row may refer to rows already there.        *)
Dangles(t) ==
  LET before(u) == SelectInSeq(TableOrder, LAMBDA x : x = u)
                     < SelectInSeq(TableOrder, LAMBDA x : x = t)
      there(u, i) == IF u = t THEN Len(target[t]) + i - 1
                     ELSE IF before(u) THEN Len(Merged[u]) ELSE Len(target[u])
  IN  \E i \in DOMAIN Dumped(t) :
        \E ref \in Refs(t, Dumped(t)[i]) : ref[2] > there(ref[1], i)

(* One transaction; an IntegrityError rolls all of it back.                *)
InsertRows ==
  /\ importer.phase = "checking"
  /\ importer.checked = Len(TableOrder)
  /\ IF \E t \in Tables : Collides(t) \/ Dangles(t)
     THEN /\ importer' = [importer EXCEPT !.phase = "failed"]
          /\ UNCHANGED target
     ELSE /\ importer' = [importer EXCEPT !.phase = "imported"]
          /\ target' = Merged
  /\ UNCHANGED <<src, commits, exporter, buffer, cut, file, photo, rivals>>

ImporterDies ==
  /\ importer.phase = "checking"
  /\ importer' = [importer EXCEPT !.phase = "idle"]
  /\ UNCHANGED <<src, commits, exporter, buffer, cut, file, photo, target, rivals>>

-----------------------------------------------------------------------------
Exporting == ReadTable \/ OpenFile \/ FinishFile \/ ExporterDies
Importing == StartImport \/ CountRows \/ InsertRows \/ ImporterDies

Next == SourceCommits \/ RivalCommits \/ Exporting \/ Importing

Spec == Init /\ [][Next]_vars

-----------------------------------------------------------------------------
TypeOK ==
  /\ \A t \in Tables : src[t] \in Seq(Rows[t]) /\ target[t] \in Seq(Rows[t])
                         /\ photo[t] \in Seq(Rows[t])
  /\ commits \in 0 .. MaxCommits /\ rivals \in 0 .. MaxRivals
  /\ exporter \in {"idle", "reading", "writing", "done", "dead"}
  /\ Len(buffer) <= Len(TableOrder)
  /\ \A k \in DOMAIN buffer : buffer[k] \in Seq(Rows[TableOrder[k]])
  /\ cut \in BOOLEAN
  /\ file \in {"none", "torn", "whole"}
  /\ importer \in [phase : {"idle", "checking", "refused", "failed", "imported"},
                   checked : 0 .. Len(TableOrder)]

(* Whatever was read of the source while it changed, and whoever wrote to  *)
(* the target meanwhile: no row of the target refers to a row that is not  *)
(* there, nor does one of the source.                                      *)
ReferencesResolve == ForeignKeysHold(src) /\ ForeignKeysHold(target)

(* A correction stands on the timeline of the entry it corrects            *)
(* (db/timeline.py append_entry), in the target too.                       *)
CorrectionsStayOnTheirAsset ==
  \A d \in {src, target} : \A i \in DOMAIN d["timeline_entries"] :
    LET e == d["timeline_entries"][i]
    IN  e.corrects # 0 => d["timeline_entries"][e.corrects].asset = e.asset

JustBecame(outcome) == importer.phase # outcome /\ importer'.phase = outcome

(* An export nobody wrote beside comes back as it was                      *)
(* (tests/property/test_export_roundtrip.py): every table it has rows of   *)
(* is exactly the source's, never merged with what another command added   *)
(* after the emptiness check, and what else the target holds stays.  An    *)
(* import only fails for a reason: the file was not finished, the source   *)
(* was written to during the export, or the target during the import.      *)
RoundTrips ==
  [][/\ JustBecame("imported") /\ ~cut =>
          \A t \in Tables :
            target'[t] = IF photo[t] = << >> THEN target[t] ELSE photo[t]
     /\ JustBecame("failed") => file = "torn" \/ cut \/ rivals > 0]_vars

-----------------------------------------------------------------------------
(* What documents say of the program and it does not do.                   *)

(* A finished dump can be imported on a clean install                      *)
(* (docs/development-plan.md: "`langusta export --format json > dump.json` *)
(* + `langusta import dump.json` round-trips cleanly on a fresh DB").      *)
DumpsAreImportable ==
  [][JustBecame("failed") => file = "torn" \/ rivals > 0]_vars

(* A value imported as set by a human was set by a human, as in the source *)
(* (core/provenance.py).                                                   *)
Attributed(d) ==
  \A i \in DOMAIN d["field_provenance"] :
    LET p == d["field_provenance"][i]
    IN  d["assets"][p.asset][p.field] = p.by
ImportsAreAttributed == rivals = 0 => Attributed(target)
=============================================================================
