----------------------------- MODULE Inventory ------------------------------
(***************************************************************************)
(* The inventory under concurrent commands.  Every `langusta` invocation   *)
(* is a process of its own on one SQLite file in WAL mode, and python's    *)
(* sqlite3 runs it in legacy isolation:                                    *)
(*                                                                         *)
(*   - a SELECT outside a transaction sees the last commit and pins        *)
(*     nothing, so two SELECTs of a command may see different commits;     *)
(*   - the first INSERT/UPDATE opens a transaction and takes the one write *)
(*     lock; from then on the command sees `work`, its own writes over the *)
(*     commit it started from, until COMMIT installs it or it is dropped;  *)
(*   - a SAVEPOINT (the Lansweeper import) does pin the commit its first   *)
(*     SELECT sees, and the first write fails if that is not the last one. *)
(*                                                                         *)
(* A command that makes all its writes in one go (add, accept, reject)     *)
(* takes the lock, writes and commits in one step; an ingest (a scan or an *)
(* import) applies its rows one by one under the lock.  `stale` is the set *)
(* of processes that hold something read before somebody else's commit.    *)
(***************************************************************************)
EXTENDS Tables

CONSTANTS Scans, Netboxes, Lansweepers,  \* ingesting commands, one run each
          Adds,                          \* `langusta add` commands, one run each
          Reviewers,                     \* a CLI or TUI session reviewing proposals
          ScanBatches, NetboxBatches, LansweeperBatches,  \* their possible rows
          AddRows,                       \* what `add` may be asked to insert
          Overrides                      \* values edit_override may be given

Ingests == Scans \cup Netboxes \cup Lansweepers
Procs   == Ingests \cup Adds \cup Reviewers

ASSUME ProcsAssumption ==
  /\ NULL \notin Procs
  /\ Scans \cap (Netboxes \cup Lansweepers \cup Adds \cup Reviewers) = {}
  /\ Netboxes \cap (Lansweepers \cup Adds \cup Reviewers) = {}
  /\ Lansweepers \cap (Adds \cup Reviewers) = {}
  /\ Adds \cap Reviewers = {}

ASSUME BatchesAssumption ==
  /\ ScanBatches \cup NetboxBatches \cup LansweeperBatches \subseteq Seq(Row)
  /\ AddRows \subseteq Row
  /\ Overrides \subseteq Values \cup {NULL}

VARIABLES
  db,      \* the last commit
  work,    \* the lock holder's view of the database
  lock,    \* who has the write lock, NULL if nobody
  phase,   \* how far each process is
  todo,    \* rows each process still has to apply
  plan,    \* the resolver's answer for the first of them
  known,   \* what was read of the asset that answer updates
  held,    \* the open proposal each reviewer has read
  stale    \* processes holding something read before another's commit

vars == <<db, work, lock, phase, todo, plan, known, held, stale>>

(* Phases of a command between its first read and its write.               *)
ReadPhases == {"checked", "resolved", "half", "ready", "forced", "pinned"}
EndPhases  == {"done", "refused", "conflict", "busy", "crashed"}
Phases     == {"idle", "reading", "txn"} \cup ReadPhases \cup EndPhases

Kind(p) == IF p \in Scans THEN "scan"
           ELSE IF p \in Netboxes THEN "netbox" ELSE "lansweeper"

Batches(p) == IF p \in Scans THEN ScanBatches
              ELSE IF p \in Netboxes THEN NetboxBatches ELSE LansweeperBatches

By(p) == <<p, Len(todo[p])>>

Stamps   == Ingests \X Nat
ProposalRow ==
  [asset: Nat, field: Fields, by: Stamps, current: Values, proposed: Values,
   resolution: Resolutions \cup {NULL}]
NoProposal == [resolution |-> "none"]

-----------------------------------------------------------------------------
Init ==
  /\ db = EmptyDb
  /\ work = EmptyDb
  /\ lock = NULL
  /\ phase = [p \in Procs |-> "idle"]
  /\ todo  = [p \in Procs |-> << >>]
  /\ plan  = [p \in Procs |-> Insert]
  /\ known = [p \in Procs |-> NothingKnown]
  /\ held  = [r \in Reviewers |-> NoProposal]
  /\ stale = {}

Goto(p, ph) == phase' = [phase EXCEPT ![p] = ph]

(* Whoever has read but not yet written is stale once `p` commits.         *)
Outdated(p) == {q \in Procs \ {p} : phase[q] \in ReadPhases}

Commit(p, d) ==
  /\ db' = d
  /\ work' = EmptyDb
  /\ lock' = NULL
  /\ stale' = stale \cup Outdated(p)

ReadOnly == UNCHANGED <<db, work, lock>>

(* A read outside a transaction: what `p` holds now is up to date.         *)
FreshRead(p) ==
  /\ ReadOnly
  /\ stale' = stale \ {p}

\* Faulty: what was written so far is committed.
AbandonCommitting(p, ph) ==
  /\ Goto(p, ph)
  /\ IF lock = p THEN db' = work /\ lock' = NULL /\ work' = EmptyDb
     ELSE UNCHANGED <<db, lock, work>>
  /\ UNCHANGED <<todo, plan, known, held, stale>>

(* An end without a commit: the transaction, if any, is rolled back.       *)
Abandon(p, ph) ==
  /\ Goto(p, ph)
  /\ IF lock = p THEN lock' = NULL /\ work' = EmptyDb ELSE UNCHANGED <<lock, work>>
  /\ UNCHANGED <<db, todo, plan, known, held, stale>>

-----------------------------------------------------------------------------
(* Scans and NetBox imports: scan/orchestrator.py, db/import_netbox.py.    *)

(* run_scan records the scan and commits before any network I/O; the rows  *)
(* the network will answer with are chosen here.                           *)
StartScan(p) ==
  /\ p \in Scans
  /\ phase[p] = "idle"
  /\ lock = NULL
  /\ \E rows \in ScanBatches : todo' = [todo EXCEPT ![p] = rows]
  /\ Commit(p, [db EXCEPT !.started = @ \cup {p}])
  /\ Goto(p, "reading")
  /\ UNCHANGED <<plan, known, held>>

StartImport(p) ==
  /\ p \in Netboxes \cup Lansweepers
  /\ phase[p] = "idle"
  /\ \E rows \in Batches(p) : todo' = [todo EXCEPT ![p] = rows]
  /\ Goto(p, "reading")
  /\ ReadOnly
  /\ UNCHANGED <<plan, known, held, stale>>

Row1(p) == Head(todo[p])
AddressKnown(p, d) == AddressTaken(d, 0, Row1(p).value["primary_ip"])

(* import_netbox leaves a device alone whose address is known already.     *)
CheckAddress(p) ==
  /\ p \in Netboxes
  /\ phase[p] = "reading"
  /\ todo[p] # << >>
  /\ FreshRead(p)
  /\ IF AddressKnown(p, db)
     THEN todo' = [todo EXCEPT ![p] = Tail(@)] /\ UNCHANGED phase
     ELSE Goto(p, "checked") /\ UNCHANGED todo
  /\ UNCHANGED <<plan, known, held>>

(* The first row is resolved outside any transaction.                      *)
ResolveFirst(p) ==
  /\ \/ p \in Scans /\ phase[p] = "reading"
     \/ p \in Netboxes /\ phase[p] = "checked"
  /\ todo[p] # << >>
  /\ plan' = [plan EXCEPT ![p] = ResolveRow(db, Row1(p))]
  /\ Goto(p, IF plan'[p].kind = "update" THEN "resolved" ELSE "ready")
  /\ IF p \in Scans THEN FreshRead(p) ELSE ReadOnly /\ UNCHANGED stale
  /\ UNCHANGED <<todo, known, held>>

ReadProvenance(p) ==
  /\ p \in Scans \cup Netboxes
  /\ phase[p] = "resolved"
  /\ known' = [known EXCEPT ![p] = [prov  |-> db.asset[plan[p].asset].prov,
                                    value |-> NothingKnown.value]]
  /\ Goto(p, "half")
  /\ ReadOnly
  /\ UNCHANGED <<todo, plan, held, stale>>

ReadValues(p) ==
  /\ p \in Scans \cup Netboxes
  /\ phase[p] = "half"
  /\ known' = [known EXCEPT ![p] =
                 KnownFrom(@.prov, db.asset[plan[p].asset].value)]
  /\ Goto(p, "ready")
  /\ ReadOnly
  /\ UNCHANGED <<todo, plan, held, stale>>

(* The first write: the lock is taken and the row, planned on what was     *)
(* read, lands on the last commit, whatever that is by now.                *)
WriteFirst(p) ==
  /\ p \in Scans \cup Netboxes
  /\ phase[p] = "ready"
  /\ lock = NULL
  /\ ~Conflicts(Kind(p), db, plan[p], Row1(p), known[p])
  /\ lock' = p
  /\ work' = ApplyRow(Kind(p), db, plan[p], Row1(p), known[p], By(p))
  /\ todo' = [todo EXCEPT ![p] = Tail(@)]
  /\ Goto(p, "txn")
  /\ UNCHANGED <<db, plan, known, held, stale>>

FirstWriteConflicts(p) ==
  /\ p \in Scans \cup Netboxes
  /\ phase[p] = "ready"
  /\ lock = NULL
  /\ Conflicts(Kind(p), db, plan[p], Row1(p), known[p])
  /\ Abandon(p, "conflict")

-----------------------------------------------------------------------------
(* Rows applied inside the transaction: resolution, provenance and writes  *)
(* all see `work`, and nobody else can write.                              *)

\* Faulty: what is known of the asset is not read again.
KnownForgotten(pl) == NothingKnown

KnownInTxn(pl) ==
  IF pl.kind = "update" THEN KnownOf(work, pl.asset) ELSE NothingKnown

InTxn(p) == lock = p /\ phase[p] = "txn"

(* An IntegrityError would end a scan or a NetBox import; the Lansweeper    *)
(* import would roll the row's savepoint back and go on.                   *)
RowFails(p) ==
  IF p \in Lansweepers
  THEN /\ todo' = [todo EXCEPT ![p] = Tail(@)]
       /\ UNCHANGED <<db, work, lock, phase, plan, known, held, stale>>
  ELSE Abandon(p, "conflict")

ApplyNext(p) ==
  LET pl == ResolveRow(work, Row1(p))
      kn == KnownInTxn(pl)
  IN  /\ InTxn(p)
      /\ todo[p] # << >>
      /\ p \in Netboxes => ~AddressKnown(p, work)
      /\ IF Conflicts(Kind(p), work, pl, Row1(p), kn)
         THEN RowFails(p)
         ELSE /\ work' = ApplyRow(Kind(p), work, pl, Row1(p), kn, By(p))
              /\ todo' = [todo EXCEPT ![p] = Tail(@)]
              /\ UNCHANGED <<db, lock, phase, plan, known, held, stale>>

SkipInTxn(p) ==
  /\ InTxn(p)
  /\ p \in Netboxes
  /\ todo[p] # << >>
  /\ AddressKnown(p, work)
  /\ todo' = [todo EXCEPT ![p] = Tail(@)]
  /\ UNCHANGED <<db, work, lock, phase, plan, known, held, stale>>

Finished(p, d) == IF p \in Scans THEN [d EXCEPT !.finished = @ \cup {p}] ELSE d

CommitBatch(p) ==
  /\ InTxn(p)
  /\ todo[p] = << >>
  /\ Commit(p, Finished(p, work))
  /\ Goto(p, "done")
  /\ UNCHANGED <<todo, plan, known, held>>

(* No row was written: a scan still records its end, an import just ends.  *)
FinishEmpty(p) ==
  /\ p \in Ingests
  /\ phase[p] \in {"reading", "pinned"}
  /\ todo[p] = << >>
  /\ IF p \in Scans
     THEN lock = NULL /\ Commit(p, Finished(p, db))
     ELSE ReadOnly /\ UNCHANGED stale
  /\ Goto(p, "done")
  /\ UNCHANGED <<todo, plan, known, held>>

-----------------------------------------------------------------------------
(* The Lansweeper import: one savepoint around the file, one per row.      *)

(* The first SELECT pins the commit it sees.                               *)
PinSnapshot(p) ==
  /\ p \in Lansweepers
  /\ phase[p] = "reading"
  /\ todo[p] # << >>
  /\ FreshRead(p)
  /\ Goto(p, "pinned")
  /\ UNCHANGED <<todo, plan, known, held>>

\* Faulty: a snapshot is upgraded however old it is.
UpgradeAnyway(p) ==
  /\ p \in Lansweepers
  /\ phase[p] = "pinned"
  /\ todo[p] # << >>
  /\ lock = NULL
  /\ lock' = p
  /\ work' = db
  /\ Goto(p, "txn")
  /\ UNCHANGED <<db, todo, plan, known, held, stale>>

(* The first write upgrades the pinned snapshot, which is then the last    *)
(* commit, to a transaction.                                               *)
UpgradeSnapshot(p) ==
  /\ p \in Lansweepers
  /\ phase[p] = "pinned"
  /\ todo[p] # << >>
  /\ lock = NULL
  /\ p \notin stale
  /\ lock' = p
  /\ work' = db
  /\ Goto(p, "txn")
  /\ UNCHANGED <<db, todo, plan, known, held, stale>>

(* If it cannot ("database is locked"), the row is reported and skipped;   *)
(* the snapshot stays pinned.                                              *)
SkipLocked(p) ==
  /\ p \in Lansweepers
  /\ phase[p] = "pinned"
  /\ todo[p] # << >>
  /\ lock # NULL \/ p \in stale
  /\ todo' = [todo EXCEPT ![p] = Tail(@)]
  /\ ReadOnly
  /\ UNCHANGED <<phase, plan, known, held, stale>>

(* --dry-run rolls everything back at the end.                             *)
DryRun(p) ==
  /\ p \in Lansweepers
  /\ InTxn(p)
  /\ todo[p] = << >>
  /\ Abandon(p, "done")

-----------------------------------------------------------------------------
(* `langusta add`: cli.py add, db/assets.py insert_manual.                 *)

(* find_by_identity: some asset has the address or the hostname.           *)
IdentityTaken(d, row) ==
  \E a \in DOMAIN d.asset, f \in {"hostname", "primary_ip"} :
    row.value[f] # NULL /\ d.asset[a].value[f] = row.value[f]

CheckAdd(p) ==
  /\ p \in Adds
  /\ phase[p] = "idle"
  /\ FreshRead(p)
  /\ \E row \in AddRows, force \in BOOLEAN :
       /\ todo' = [todo EXCEPT ![p] = <<row>>]
       /\ Goto(p, IF force THEN "forced"
                  ELSE IF IdentityTaken(db, row) THEN "refused" ELSE "ready")
  /\ UNCHANGED <<plan, known, held>>

InsertManual(d, cells, m) ==
  LET added == AddAsset(d, cells, "manual")
  IN  IF m = NULL THEN added ELSE Bind(added, NextId(d), m)

WithoutAddress(cells) == [cells EXCEPT !["primary_ip"] = NULL]

(* --force drops an address that is taken; nothing drops a MAC.            *)
AddAccepted(p) ==
  LET row   == Row1(p)
      taken == AddressTaken(db, 0, row.value["primary_ip"])
      cells == IF taken THEN WithoutAddress(row.value) ELSE row.value
  IN  /\ p \in Adds
      /\ phase[p] \in {"ready", "forced"}
      /\ lock = NULL
      /\ ~MacTaken(db, row.mac)
      /\ taken => phase[p] = "forced"
      /\ Commit(p, InsertManual(db, cells, row.mac))
      /\ Goto(p, "done")
      /\ UNCHANGED <<todo, plan, known, held>>

AddConflicts(p) ==
  LET row == Row1(p)
  IN  /\ p \in Adds
      /\ phase[p] \in {"ready", "forced"}
      /\ lock = NULL
      /\ \/ MacTaken(db, row.mac)
         \/ AddressTaken(db, 0, row.value["primary_ip"]) /\ phase[p] = "ready"
      /\ Abandon(p, "conflict")

-----------------------------------------------------------------------------
(* The review of proposals: db/proposed_changes.py, from the CLI and TUI.  *)

(* _assert_open reads the row outside any transaction.                     *)
ReadProposal(r) ==
  /\ r \in Reviewers
  /\ phase[r] = "idle"
  /\ \E q \in db.proposals :
       /\ q.resolution = NULL
       /\ held' = [held EXCEPT ![r] = q]
  /\ Goto(r, "ready")
  /\ FreshRead(r)
  /\ UNCHANGED <<todo, plan, known>>

Reviewing(r) == r \in Reviewers /\ phase[r] = "ready" /\ lock = NULL

Disposed(r, d, kind) == Log(d, {Entry(held[r].asset, kind, <<r, held[r]>>)})

Dispose(r, d) ==
  /\ Commit(r, d)
  /\ held' = [held EXCEPT ![r] = NoProposal]
  /\ Goto(r, "idle")
  /\ UNCHANGED <<todo, plan, known>>

WriteField(d, q, v, prov) ==
  SetFields(d, q.asset, {q.field}, [f \in Fields |-> v], prov)

FieldConflicts(d, q, v) == q.field = "primary_ip" /\ AddressTaken(d, q.asset, v)

Accept(r) ==
  LET q == held[r]
  IN  /\ Reviewing(r)
      /\ ~FieldConflicts(db, q, q.proposed)
      /\ Dispose(r, Disposed(r, CloseIfOpen(WriteField(db, q, q.proposed, "scanned"),
                                            q, "accepted"), "accepted"))

Reject(r) ==
  /\ Reviewing(r)
  /\ Dispose(r, Disposed(r, CloseIfOpen(db, held[r], "rejected"), "rejected"))

(* edit_override: a third value, with MANUAL provenance.                   *)
EditOverride(r, v) ==
  LET q == held[r]
  IN  /\ Reviewing(r)
      /\ ~FieldConflicts(db, q, v)
      /\ Dispose(r, Disposed(r, CloseAlways(WriteField(db, q, v, "manual"),
                                            q, "edited"), "edited"))

\* Faulty: the proposal is closed before its value is found to collide.
CloseThenFail(r) ==
  /\ Reviewing(r)
  /\ FieldConflicts(db, held[r], held[r].proposed)
  /\ Dispose(r, CloseIfOpen(db, held[r], "accepted"))

(* The address the proposal wants belongs to another asset by now: the     *)
(* IntegrityError ends the command and the proposal stays open.            *)
DispositionFails(r) ==
  LET q == held[r]
  IN  /\ Reviewing(r)
      /\ \E v \in {q.proposed} \cup Overrides : FieldConflicts(db, q, v)
      /\ held' = [held EXCEPT ![r] = NoProposal]
      /\ Goto(r, "idle")
      /\ ReadOnly
      /\ UNCHANGED <<todo, plan, known, stale>>

-----------------------------------------------------------------------------
(* A command that needs the lock gives up after busy_timeout, and any      *)
(* command may be interrupted or killed.                                   *)

NeedsLock(p) ==
  \/ p \in Scans /\ phase[p] = "idle"
  \/ p \in Scans /\ phase[p] = "reading" /\ todo[p] = << >>
  \/ phase[p] \in {"ready", "forced"}

BusyTimeout(p) ==
  /\ NeedsLock(p)
  /\ lock \notin {NULL, p}
  /\ IF p \in Reviewers
     THEN /\ Goto(p, "idle")
          /\ held' = [held EXCEPT ![p] = NoProposal]
          /\ UNCHANGED <<db, work, lock, todo, plan, known, stale>>
     ELSE Abandon(p, "busy")

Crash(p) ==
  /\ p \notin Reviewers
  /\ phase[p] \notin EndPhases \cup {"idle"}
  /\ Abandon(p, "crashed")

-----------------------------------------------------------------------------
Ingesting(p) ==
  \/ StartScan(p) \/ StartImport(p) \/ CheckAddress(p) \/ ResolveFirst(p)
  \/ ReadProvenance(p) \/ ReadValues(p) \/ WriteFirst(p) \/ FirstWriteConflicts(p)
  \/ ApplyNext(p) \/ SkipInTxn(p) \/ CommitBatch(p)
  \/ FinishEmpty(p) \/ PinSnapshot(p) \/ UpgradeSnapshot(p) \/ SkipLocked(p)
  \/ DryRun(p)

Adding(p) == CheckAdd(p) \/ AddAccepted(p) \/ AddConflicts(p)

Disposing(r) ==
  \/ Accept(r) \/ Reject(r) \/ DispositionFails(r)
  \/ \E v \in Overrides : EditOverride(r, v)

Next ==
  \E p \in Procs :
    Ingesting(p) \/ Adding(p) \/ ReadProposal(p) \/ Disposing(p)
      \/ BusyTimeout(p) \/ Crash(p)

Spec == Init /\ [][Next]_vars

(* As long as some command can go on, the operating system lets one go on; *)
(* nobody has to review, nothing has to crash.  A command runs once and    *)
(* has finitely many steps, so it needs no fairness of its own.            *)
FairSpec ==
  Spec /\ WF_vars(\E p \in Ingests \cup Adds : Ingesting(p) \/ Adding(p))

-----------------------------------------------------------------------------
(* Types.                                                                  *)

Databases ==
  [asset: Seq(Asset), owner: [Macs -> Nat], proposals: SUBSET ProposalRow,
   review: SUBSET [by: Stamps, candidates: SUBSET Nat],
   timeline: SUBSET [asset: Nat, kind: EntryKinds,
                     by: Stamps \cup (Reviewers \X ProposalRow)],
   started: SUBSET Scans, finished: SUBSET Scans]

Plans == [kind: {"insert", "update", "ambiguous"}, asset: Nat,
          candidates: SUBSET Nat]

Knowns == [prov: [Fields -> Provenances \cup {NULL}], value: Cells]

TypeOK ==
  /\ db \in Databases
  /\ work \in Databases
  /\ lock \in Ingests \cup {NULL}
  /\ phase \in [Procs -> Phases]
  /\ todo \in [Procs -> Seq(Row)]
  /\ plan \in [Procs -> Plans]
  /\ known \in [Procs -> Knowns]
  /\ held \in [Reviewers -> ProposalRow \cup {NoProposal}]
  /\ stale \subseteq Procs

-----------------------------------------------------------------------------
(* What must hold.                                                         *)

FieldOf(d, a, f) == <<d.asset[a].value[f], d.asset[a].prov[f]>>
Curated(d, a, f) == IsProtected(d.asset[a], f)

KeptCurated(d, e, a, f) == Curated(d, a, f) => FieldOf(e, a, f) = FieldOf(d, a, f)

KeepsCurated(d, e) ==
  \A a \in DOMAIN d.asset, f \in Fields : KeptCurated(d, e, a, f)

(* The first row of an ingest is about to overrule a curated field, or has *)
(* done so in its transaction: the ingest was overtaken, and when it read  *)
(* the asset the field was not curated yet.                                *)
Overrules(p, a, f) ==
  /\ p \in stale
  /\ plan[p].kind = "update" /\ plan[p].asset = a
  /\ ~IsProtected(known[p], f)

(* The scanner proposes, the human disposes (core/provenance.py): a field  *)
(* with a manual or imported value changes only by somebody's disposition  *)
(* of a proposal about that very field.  The code does not keep this, see  *)
(* the next property.                                                      *)
Disposes(r, a, f) ==
  /\ phase[r] = "ready" /\ phase'[r] = "idle"
  /\ held[r].asset = a /\ held[r].field = f

HumanDisposes ==
  [][\A a \in DOMAIN db.asset, f \in Fields :
       Curated(db, a, f) /\ FieldOf(db', a, f) # FieldOf(db, a, f) =>
         \E r \in Reviewers : Disposes(r, a, f)]_vars

(* What is left of it, whatever scans, imports, adds and sessions run: a   *)
(* curated field changes only by a disposition of a proposal about it, or  *)
(* by the first row of an ingest that read the asset before the field was  *)
(* curated and was overtaken by the commit that curated it.                *)
OnlyTheOvertakenOverrule ==
  [][\A a \in DOMAIN db.asset, f \in Fields :
       Curated(db, a, f) /\ FieldOf(db', a, f) # FieldOf(db, a, f) =>
         \/ \E r \in Reviewers : Disposes(r, a, f)
         \/ lock # NULL /\ Overrules(lock, a, f)]_vars

(* The same for one transaction, over all the rows of its batch: of the    *)
(* curated values in the commit an ingest started from, what it is about   *)
(* to commit touches none but those its first row overrules.               *)
TxnKeepsCurated ==
  \A p \in Ingests : lock = p =>
    \A a \in DOMAIN db.asset, f \in Fields :
      KeptCurated(db, work, a, f) \/ Overrules(p, a, f)

(* "No silent drops" (core/provenance.py): a row that updates an asset and *)
(* disagrees with a curated field of it leaves an open proposal for that   *)
(* field, unless the row was planned on a state that has gone.             *)
ConflictsAreProposed ==
  [][\A p \in Ingests : todo'[p] # todo[p] /\ lock' = p /\ p \notin stale =>
       LET seen == IF lock = p THEN work ELSE db
           row  == Row1(p)
           pl   == ResolveRow(seen, row)
       IN  pl.kind = "update" /\ (p \in Netboxes => ~AddressKnown(p, seen)) =>
             \A f \in Fields :
               /\ Curated(seen, pl.asset, f)
               /\ row.value[f] \notin {NULL, seen.asset[pl.asset].value[f]}
               => \E q \in work'.proposals :
                    /\ q.asset = pl.asset /\ q.field = f /\ q.by = By(p)
                    /\ q.proposed = row.value[f] /\ q.resolution = NULL]_vars

(* A batch is lost to a UNIQUE constraint only if another command got in   *)
(* between its first read and its first write: the resolver never plans a  *)
(* write that collides, and never does so later in the transaction.        *)
ConflictOnlyByRace ==
  \A p \in Ingests : phase[p] = "conflict" => p \in stale

(* A MAC address bound to an asset stays with it, even when two commands   *)
(* race to bind it.                                                        *)
MacNeverMoves ==
  [][\A m \in Macs : db.owner[m] # 0 => db'.owner[m] = db.owner[m]]_vars

(* The journal is complete: no commit changes a value of an existing asset *)
(* without an entry on its timeline, unless an ingest lost the race.       *)
ChangesAreJournalled ==
  [][\A a \in DOMAIN db.asset :
       db'.asset[a].value # db.asset[a].value =>
         \/ \E e \in db'.timeline \ db.timeline : e.asset = a
         \/ lock \in stale]_vars

(* A resolved proposal keeps its resolution though two reviewers had it    *)
(* open: accept and reject touch open rows only, and edit_override, which  *)
(* does not look, leaves no other resolution than its own.                 *)
ResolutionIsFinal ==
  [][\A q \in db.proposals : q.resolution # NULL =>
       \/ q \in db'.proposals
       \/ [q EXCEPT !.resolution = "edited"] \in db'.proposals]_vars

(* An ingest that has not finished, or has crashed or failed, has left no  *)
(* row behind it. Of one that has finished this says nothing: a Lansweeper *)
(* import goes on after a row that fails, and commits the others.          *)
BatchIsAtomic ==
  \A p \in Ingests : phase[p] # "done" =>
    /\ \A x \in db.proposals \cup db.review \cup db.timeline : x.by[1] # p
    /\ p \notin db.finished

(* A Lansweeper import writes only on the commit its savepoint has pinned: *)
(* if that is not the last one any more, every write of every row fails.   *)
SnapshotIsFresh == lock \in Lansweepers => lock \notin stale

(* A rejected proposal was not applied by anybody: accepting a row already *)
(* resolved is an AlreadyResolvedError (db/proposed_changes.py).           *)
RejectedIsNotApplied ==
  \A q \in db.proposals : q.resolution = "rejected" =>
    ~\E e \in db.timeline :
        e.kind = "accepted" /\ e.by[2] = [q EXCEPT !.resolution = NULL]

(* The whole inventory keeps the promise of Curation.tla, whatever runs,   *)
(* but for two things: the first row of an overtaken ingest overrules the  *)
(* fields that were curated since it read them, and a session that still   *)
(* holds a question answered meanwhile answers it again.                   *)
Promise == INSTANCE Curation WITH asset <- db.asset, proposals <- db.proposals

Overruled ==
  {x \in (DOMAIN db.asset) \X Fields : lock # NULL /\ Overrules(lock, x[1], x[2])}

AnsweredMeanwhile(r) == phase[r] = "ready" /\ held[r] \notin db.proposals

KeepsPromise ==
  /\ Promise!Init
  /\ [][\/ Promise!Next
        \/ Promise!DiscoverBut(Overruled)
        \/ \E r \in Reviewers : AnsweredMeanwhile(r) /\ Promise!AnswerAgain(held[r])
       ]_(Promise!promised)

(* Commands come to an end: again and again none of them is under way.     *)
CommandsEnd ==
  []<>(\A p \in Ingests \cup Adds : phase[p] \in EndPhases \cup {"idle"})

-----------------------------------------------------------------------------
(* What documents say of the program and it does not do.                   *)

(* An import's row that only its address connects to an asset waits in the *)
(* review queue (db/import_common.py's docstring: "IP-only match ->        *)
(* `review_queue` row (human picks)").                                     *)
IpOnlyImportsAreDeferred ==
  [][\A p \in Lansweepers : todo'[p] # todo[p] /\ lock = p /\ lock' = p =>
       LET c == Candidate(Row1(p))
           k == Identities(work)
       IN  MacHits(c, k) \cup HostHits(c, k) = {}
             /\ (\E a \in DOMAIN k : SharesAddress(c, k[a]))
             => \E x \in work'.review : x.by = By(p)]_vars

(* A value a human chose instead of the proposed one is protected from     *)
(* every scan after it (edit_override's docstring: "Applied with MANUAL    *)
(* provenance so subsequent scans treat it as protected again").           *)
EditsAreProtected ==
  [][\A a \in DOMAIN db.asset, f \in Fields :
       /\ db.asset[a].prov[f] = "manual"
       /\ \E e \in db.timeline : e.asset = a /\ e.kind = "edited" /\ e.by[2].field = f
       /\ FieldOf(db', a, f) # FieldOf(db, a, f)
       => lock \notin Scans \/ lock \in stale]_vars

-----------------------------------------------------------------------------
(* The inductive invariant behind the theorems of InventoryProofs.         *)

(* Foreign keys: what a database refers to exists in it.                   *)
Sound(d) ==
  /\ \A m \in Macs : d.owner[m] \in 0 .. Len(d.asset)
  /\ \A q \in d.proposals : q.asset \in DOMAIN d.asset

Planned(p) == p \in Scans \cup Netboxes /\ phase[p] \in {"resolved", "half", "ready"}

LockHeldInTxn == lock # NULL => phase[lock] = "txn"
WorkExtendsDb == lock # NULL => Len(work.asset) >= Len(db.asset)

PlanUsable(p) ==
  Planned(p) =>
    /\ todo[p] # << >>
    /\ plan[p].kind = "update" => plan[p].asset \in DOMAIN db.asset
    /\ phase[p] # "ready" => plan[p].kind = "update"

(* Unless somebody committed meanwhile, a plan is what the resolver would  *)
(* answer now, and what was read of the asset is what is there now.        *)
PlanFresh(p) ==
  Planned(p) /\ p \notin stale =>
    /\ plan[p] = ResolveRow(db, Row1(p))
    /\ phase[p] = "half" => known[p].prov = db.asset[plan[p].asset].prov
    /\ phase[p] = "ready" /\ plan[p].kind = "update" =>
         known[p] = KnownOf(db, plan[p].asset)

AddUsable(p) ==
  p \in Adds /\ phase[p] \in {"ready", "forced"} => todo[p] # << >>

ReviewUsable(p) ==
  p \in Reviewers /\ phase[p] = "ready" =>
    /\ held[p] \in ProposalRow
    /\ held[p].asset \in DOMAIN db.asset

ProcsUsable ==
  \A p \in Procs :
    PlanUsable(p) /\ PlanFresh(p) /\ AddUsable(p) /\ ReviewUsable(p)

IInv ==
  /\ TypeOK
  /\ Sound(db) /\ Sound(work)
  /\ LockHeldInTxn /\ WorkExtendsDb
  /\ ProcsUsable
  /\ TxnKeepsCurated
  /\ ConflictOnlyByRace
=============================================================================
