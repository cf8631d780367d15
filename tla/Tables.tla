------------------------------- MODULE Tables -------------------------------
(***************************************************************************)
(* The inventory database and what each data-access function writes to it. *)
(* A database is one record, so that an uncommitted transaction is just a  *)
(* second database and a rollback is forgetting it:                        *)
(*                                                                         *)
(*   asset      sequence of assets, the id being the position (ids are     *)
(*              never reused: nothing deletes an asset); per field its     *)
(*              value and its field_provenance row                         *)
(*   owner      mac_addresses: the asset a MAC is bound to, 0 if none      *)
(*   proposals  proposed_changes; a row's id is the pair (by, field)       *)
(*   review     review_queue                                               *)
(*   timeline   timeline_entries, the body reduced to what it records      *)
(*   started, finished   the scans table, the second set having finished_at*)
(*                                                                         *)
(* `by` stamps everything written for one observation: the process that    *)
(* made it and a number unique within that process.                        *)
(***************************************************************************)
EXTENDS Integers, Sequences, Identity, Provenance

CONSTANTS Values,         \* field values
          Macs,           \* normalised MAC addresses
          ScanAttrs,      \* vendor, detected_os, device_type
          CuratedAttrs    \* fields only humans and importers set

Resolutions == {"accepted", "rejected", "edited"}

ASSUME NullAssumption ==
  NULL \notin Values \cup Macs \cup Provenances \cup Resolutions

ScannableFields  == {"hostname", "primary_ip"} \cup ScanAttrs
ImportableFields == ScannableFields \cup CuratedAttrs
Fields           == ImportableFields

Cells == [Fields -> Values \cup {NULL}]
Row   == [value: Cells, mac: Macs \cup {NULL}, ports: BOOLEAN]
Asset == [value: Cells, prov: [Fields -> Provenances \cup {NULL}]]

EntryKinds  == {"discovered", "ports", "scan_diff", "collision", "import",
                "accepted", "rejected", "edited"}

EmptyDb ==
  [asset |-> << >>, owner |-> [m \in Macs |-> 0], proposals |-> {},
   review |-> {}, timeline |-> {}, started |-> {}, finished |-> {}]

-----------------------------------------------------------------------------
(* Projections the writers read.                                           *)

MacsOf(d, a) == {m \in Macs : d.owner[m] = a}

Identities(d) ==
  [a \in DOMAIN d.asset |->
     [hostname   |-> d.asset[a].value["hostname"],
      primary_ip |-> d.asset[a].value["primary_ip"],
      macs       |-> MacsOf(d, a)]]

MacSet(m) == IF m = NULL THEN {} ELSE {m}

Candidate(row) ==
  [hostname |-> row.value["hostname"], primary_ip |-> row.value["primary_ip"],
   macs |-> MacSet(row.mac)]

ResolveRow(d, row) == Resolve(Candidate(row), Identities(d))

(* A field counts as known only if it has a provenance row and a value.    *)
KnownFrom(prov, value) ==
  [prov  |-> prov,
   value |-> [f \in Fields |-> IF prov[f] = NULL THEN NULL ELSE value[f]]]

KnownOf(d, a) == KnownFrom(d.asset[a].prov, d.asset[a].value)
NothingKnown  == [prov  |-> [f \in Fields |-> NULL],
                  value |-> [f \in Fields |-> NULL]]

(* UNIQUE(assets.primary_ip): some asset other than `a` holds the address. *)
AddressTaken(d, a, ip) ==
  /\ ip # NULL
  /\ \E b \in DOMAIN d.asset : b # a /\ d.asset[b].value["primary_ip"] = ip

MacTaken(d, m) == m # NULL /\ d.owner[m] # 0

-----------------------------------------------------------------------------
(* Single-table writes.                                                    *)

Entry(a, kind, by) == [asset |-> a, kind |-> kind, by |-> by]
Log(d, entries)    == [d EXCEPT !.timeline = @ \cup entries]

NextId(d) == Len(d.asset) + 1

AddAsset(d, cells, prov) ==
  [d EXCEPT !.asset = Append(@,
     [value |-> cells,
      prov  |-> [f \in Fields |-> IF cells[f] = NULL THEN NULL ELSE prov]])]

SetFields(d, a, fields, cells, prov) ==
  [d EXCEPT !.asset[a] =
     [value |-> [f \in Fields |-> IF f \in fields THEN cells[f] ELSE @.value[f]],
      prov  |-> [f \in Fields |-> IF f \in fields THEN prov ELSE @.prov[f]]]]

Bind(d, a, m) == [d EXCEPT !.owner[m] = a]

Proposal(a, f, known, row, by) ==
  [asset |-> a, field |-> f, by |-> by, current |-> known.value[f],
   proposed |-> row.value[f], resolution |-> NULL]

Propose(d, a, known, row, by) ==
  [d EXCEPT !.proposals =
     @ \cup {Proposal(a, f, known, row, by) : f \in Proposed(known, row.value)}]

Defer(d, plan, by) ==
  [d EXCEPT !.review = @ \cup {[by |-> by, candidates |-> plan.candidates]}]

(* edit_override closes the row it has read, whatever became of it.        *)
CloseAlways(d, q, resolution) ==
  [d EXCEPT !.proposals =
     {x \in @ : ~(x.by = q.by /\ x.field = q.field)}
       \cup {[q EXCEPT !.resolution = resolution]}]

(* `UPDATE proposed_changes ... WHERE id = ? AND resolution IS NULL`: the  *)
(* row `q`, read while open, changes only if it still is open.             *)
CloseIfOpen(d, q, resolution) ==
  IF q \in d.proposals
  THEN [d EXCEPT !.proposals =
          (@ \ {q}) \cup {[q EXCEPT !.resolution = resolution]}]
  ELSE d

-----------------------------------------------------------------------------
(* The scanner's writers: db/writer.py.                                    *)

\* Faulty: the last asset seen with a MAC gets it.
BindMacAnyway(d, a, m, by) == IF m = NULL THEN d ELSE Bind(d, a, m)

BindMac(d, a, m, by) ==
  IF m = NULL THEN d
  ELSE IF d.owner[m] \in {0, a} THEN Bind(d, a, m)
  ELSE Log(d, {Entry(d.owner[m], "collision", by), Entry(a, "collision", by)})

Ports(row, a, by) == IF row.ports THEN {Entry(a, "ports", by)} ELSE {}

ScanInsert(d, row, by) ==
  LET a == NextId(d)
  IN  Log(BindMac(AddAsset(d, row.value, "scanned"), a, row.mac, by),
          {Entry(a, "discovered", by)} \cup Ports(row, a, by))

ScanReports(d, row, known) ==
  \/ VisibleChanges(known, row.value) # {}
  \/ row.mac # NULL /\ d.owner[row.mac] = 0
  \/ row.ports

ScanUpdate(d, a, row, known, by) ==
  LET written == SetFields(d, a, Applied(known, row.value), row.value, "scanned")
      bound   == BindMac(written, a, row.mac, by)
  IN  Log(Propose(bound, a, known, row, by),
          IF ScanReports(d, row, known) THEN {Entry(a, "scan_diff", by)} ELSE {})

-----------------------------------------------------------------------------
(* The importers' writers: db/import_common.py.  What an import applies    *)
(* becomes IMPORTED; a MAC is bound on insertion only.                     *)

ImportInsert(d, row, by) ==
  LET a     == NextId(d)
      added == AddAsset(d, row.value, "imported")
  IN  Log(IF row.mac = NULL THEN added ELSE Bind(added, a, row.mac),
          {Entry(a, "import", by)})

ImportReports(row, known) ==
  \/ VisibleChanges(known, row.value) # {}
  \/ Proposed(known, row.value) # {}

ImportUpdate(d, a, row, known, by) ==
  LET written == SetFields(d, a, Applied(known, row.value), row.value, "imported")
  IN  Log(Propose(written, a, known, row, by),
          IF ImportReports(row, known) THEN {Entry(a, "import", by)} ELSE {})

-----------------------------------------------------------------------------
(* One observation, dispatched on the resolver's answer `plan`; `known` is *)
(* what was read of the asset to update.  `kind` is the ingesting command. *)

ApplyRow(kind, d, plan, row, known, by) ==
  CASE plan.kind = "ambiguous" -> Defer(d, plan, by)
    [] plan.kind = "insert" /\ kind = "scan" -> ScanInsert(d, row, by)
    [] plan.kind = "insert" /\ kind # "scan" -> ImportInsert(d, row, by)
    [] plan.kind = "update" /\ kind = "scan" ->
         ScanUpdate(d, plan.asset, row, known, by)
    [] plan.kind = "update" /\ kind # "scan" ->
         ImportUpdate(d, plan.asset, row, known, by)

(* The statements above fail on a UNIQUE constraint exactly here: the scan *)
(* looks a MAC up before it inserts it, the importer does not.             *)
Conflicts(kind, d, plan, row, known) ==
  LET ip == row.value["primary_ip"]
  IN  \/ /\ plan.kind = "insert"
         /\ \/ AddressTaken(d, 0, ip)
            \/ kind # "scan" /\ MacTaken(d, row.mac)
      \/ /\ plan.kind = "update"
         /\ "primary_ip" \in Applied(known, row.value)
         /\ AddressTaken(d, plan.asset, ip)
=============================================================================
