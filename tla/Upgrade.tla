------------------------------ MODULE Upgrade -------------------------------
(***************************************************************************)
(* Schema upgrades and snapshots: db/migrate.py, run by `langusta init`,   *)
(* db/backup.py, run after scans and by `langusta backup`, and the version *)
(* check of a starting daemon.                                             *)
(*                                                                         *)
(* Every migration is one transaction; what `migrate` has read before the  *)
(* first of them may be outdated by then, as no lock is taken across them. *)
(* A snapshot is a file that exists, empty, before its content is copied.  *)
(* Processes of different releases may share one database.                 *)
(***************************************************************************)
EXTENDS Integers, FiniteSets, FiniteSetsExt, Nullable

CONSTANTS Migrations,    \* ids of the migrations ever shipped
          Inits,         \* processes that migrate
          Daemons,       \* starting daemons
          Scans,         \* scans at their end, which take a snapshot
          Manuals,       \* `backup now`
          Pruners,       \* `backup prune`
          Release,       \* latest migration each init or daemon ships
          Edited,        \* inits that ship an edited copy of each migration
          Rows,          \* user data
          Window,        \* the hour in which one snapshot is enough
          Keep,          \* snapshots `backup prune` keeps
          Overlapping,   \* may two inits run at a time?
          MaxClock       \* bound of the model

Copiers == Scans \cup Manuals
Procs   == Inits \cup Daemons \cup Copiers \cup Pruners

(* A process runs one command.                                             *)
ASSUME UpgradeAssumption ==
  /\ Inits \cap (Daemons \cup Copiers \cup Pruners) = {}
  /\ Copiers \cap Pruners = {}
  /\ Migrations \subseteq Nat \ {0} /\ IsFiniteSet(Migrations)
  /\ Release \in [Inits \cup Daemons -> Migrations]
  /\ Edited \in [Inits -> SUBSET Migrations]
  /\ NULL \notin Nat
  /\ Window \in Nat \ {0} /\ Keep \in Nat /\ MaxClock \in Nat
  /\ Overlapping \in BOOLEAN

VARIABLES
  db,        \* user_version, the _migrations table, the user's data
  files,     \* the backups directory
  clock,     \* seconds, the resolution of a file's name
  phase,     \* how far each process is
  current,   \* user_version as each init read it
  todo,      \* migrations it still has to apply
  seen,      \* user data that made it take a snapshot
  file       \* name of the snapshot a process is writing; of those to drop

vars == <<db, files, clock, phase, current, todo, seen, file>>

Phases == {"idle", "read", "pending", "copying", "applying", "dropping",
           "done", "refused", "failed", "running"}

Checksums      == {"shipped", "edited"}
Checksum(p, m) == IF m \in Edited[p] THEN "edited" ELSE "shipped"
Shipped(p)     == {m \in Migrations : m <= Release[p]}

(* A name has a stamp and, before a migration, the version in it.          *)
Name(stamp, pre)  == <<stamp, pre>>
NameOf(f)         == Name(f.stamp, f.pre)
Blank(n)          == [stamp |-> n[1], pre |-> n[2], whole |-> FALSE,
                      version |-> 0, rows |-> {}]
Copy(n)           == [Blank(n) EXCEPT !.whole = TRUE, !.version = db.version,
                                      !.rows = db.rows]
Named(n)          == {f \in files : NameOf(f) = n}

-----------------------------------------------------------------------------
Init ==
  /\ db = [version |-> 0, applied |-> {}, rows |-> {}]
  /\ files = {}
  /\ clock = 0
  /\ phase = [p \in Procs |-> "idle"]
  /\ current = [p \in Inits |-> 0]
  /\ todo = [p \in Inits |-> {}]
  /\ seen = [p \in Inits |-> {}]
  /\ file = [p \in Procs |-> {}]

Goto(p, ph) == phase' = [phase EXCEPT ![p] = ph]
Idle(p)     == phase[p] \in {"idle", "done", "refused", "failed"}

-----------------------------------------------------------------------------
(* migrate.                                                                *)

\* Faulty: SELECT max(id) FROM _migrations, which is NULL at first.
ReadLastApplied(p) ==
  /\ p \in Inits
  /\ Idle(p)
  /\ Overlapping \/ \A q \in Inits : Idle(q)
  /\ current' = [current EXCEPT ![p] =
                   IF db.applied = {} THEN NULL ELSE Max({x[1] : x \in db.applied})]
  /\ Goto(p, IF db.version > Release[p] THEN "refused" ELSE "read")
  /\ UNCHANGED <<db, files, clock, todo, seen, file>>

(* A database of a later release is refused; one of this release is left   *)
(* alone, but for the checksums.                                           *)
ReadVersion(p) ==
  /\ p \in Inits
  /\ Idle(p)
  /\ Overlapping \/ \A q \in Inits : Idle(q)
  /\ current' = [current EXCEPT ![p] = db.version]
  /\ Goto(p, IF db.version > Release[p] THEN "refused" ELSE "read")
  /\ UNCHANGED <<db, files, clock, todo, seen, file>>

\* Faulty: what was applied is not compared.
CheckNothing(p) ==
  /\ p \in Inits
  /\ phase[p] = "read"
  /\ todo' = [todo EXCEPT ![p] = {m \in Shipped(p) : m > current[p]}]
  /\ Goto(p, IF todo'[p] = {} THEN "done" ELSE "pending")
  /\ UNCHANGED <<db, files, clock, current, seen, file>>

(* The checksums, then what is pending by the version read before.         *)
CheckApplied(p) ==
  /\ p \in Inits
  /\ phase[p] = "read"
  /\ IF \E x \in db.applied : x[1] \in Shipped(p) /\ x[2] # Checksum(p, x[1])
     THEN Goto(p, "refused") /\ UNCHANGED todo
     ELSE /\ todo' = [todo EXCEPT ![p] = {m \in Shipped(p) : m > current[p]}]
          /\ Goto(p, IF todo'[p] = {} THEN "done" ELSE "pending")
  /\ UNCHANGED <<db, files, clock, current, seen, file>>

OpenFile(p, n) ==
  /\ file' = [file EXCEPT ![p] = {n}]
  /\ files' = IF Named(n) = {} THEN files \cup {Blank(n)} ELSE files

\* Faulty: a snapshot of this second is snapshot enough.
LookForRecent(p) ==
  /\ p \in Inits
  /\ phase[p] = "pending"
  /\ seen' = [seen EXCEPT ![p] = db.rows]
  /\ IF db.rows = {} \/ \E f \in files : f.stamp = clock
     THEN Goto(p, "applying") /\ UNCHANGED <<file, files>>
     ELSE Goto(p, "copying") /\ OpenFile(p, Name(clock, current[p]))
  /\ UNCHANGED <<db, clock, current, todo>>

(* _has_user_data, _write_backup.                                          *)
LookForData(p) ==
  /\ p \in Inits
  /\ phase[p] = "pending"
  /\ seen' = [seen EXCEPT ![p] = db.rows]
  /\ IF db.rows = {}
     THEN Goto(p, "applying") /\ UNCHANGED <<file, files>>
     ELSE Goto(p, "copying") /\ OpenFile(p, Name(clock, current[p]))
  /\ UNCHANGED <<db, clock, current, todo>>

(* The online backup API copies the last commit; a file that was pruned    *)
(* meanwhile has no name any more, and the copy is lost.                   *)
FinishFile(p) ==
  /\ phase[p] = "copying"
  /\ LET n == CHOOSE n \in file[p] : TRUE
     IN  files' = {IF NameOf(f) = n THEN Copy(n) ELSE f : f \in files}
  /\ file' = [file EXCEPT ![p] = {}]
  /\ Goto(p, IF p \in Inits THEN "applying" ELSE "done")
  /\ UNCHANGED <<db, clock, current, todo, seen>>

\* Faulty: the bookkeeping row is forgotten; or it may be there already.
ApplyUnrecorded(p) ==
  LET m == Min(todo[p])
  IN  /\ p \in Inits
      /\ phase[p] = "applying"
      /\ todo[p] # {}
      /\ db' = [db EXCEPT !.version = m]
      /\ todo' = [todo EXCEPT ![p] = @ \ {m}]
      /\ Goto(p, IF todo'[p] = {} THEN "done" ELSE "applying")
      /\ UNCHANGED <<files, clock, current, seen, file>>
ApplyAgain(p) ==
  LET m == Min(todo[p])
  IN  /\ p \in Inits
      /\ phase[p] = "applying"
      /\ todo[p] # {}
      /\ db' = [db EXCEPT !.version = m, !.applied = @ \cup {<<m, Checksum(p, m)>>}]
      /\ todo' = [todo EXCEPT ![p] = @ \ {m}]
      /\ Goto(p, IF todo'[p] = {} THEN "done" ELSE "applying")
      /\ UNCHANGED <<files, clock, current, seen, file>>

(* One migration: its statements, its row in _migrations and user_version  *)
(* in one transaction.  The row's id is a primary key.                     *)
Apply(p) ==
  LET m == Min(todo[p])
  IN  /\ p \in Inits
      /\ phase[p] = "applying"
      /\ todo[p] # {}
      /\ \A x \in db.applied : x[1] # m
      /\ db' = [db EXCEPT !.version = m, !.applied = @ \cup {<<m, Checksum(p, m)>>}]
      /\ todo' = [todo EXCEPT ![p] = @ \ {m}]
      /\ Goto(p, IF todo'[p] = {} THEN "done" ELSE "applying")
      /\ UNCHANGED <<files, clock, current, seen, file>>

(* A statement fails (as the first one does in a migration that has been   *)
(* applied), or a foreign key dangles: this migration is rolled back and   *)
(* ends the run, those before it stay.                                     *)
RollBack(p) ==
  /\ p \in Inits
  /\ phase[p] = "applying"
  /\ Goto(p, "failed")
  /\ UNCHANGED <<db, files, clock, current, todo, seen, file>>

-----------------------------------------------------------------------------
(* write and prune.                                                        *)

Recent == \E f \in files : clock - f.stamp < Window

(* A scan is content with a recent file, both with one of this very second,*)
(* whatever is in it.                                                      *)
Enough(p) == (p \in Scans /\ Recent) \/ Named(Name(clock, NULL)) # {}

BeginCopy(p) ==
  /\ p \in Copiers
  /\ Idle(p)
  /\ IF Enough(p)
     THEN Goto(p, "done") /\ UNCHANGED <<file, files>>
     ELSE Goto(p, "copying") /\ OpenFile(p, Name(clock, NULL))
  /\ UNCHANGED <<db, clock, current, todo, seen>>

(* The newest Keep files stay; files of one second come in any order.      *)
ListOld(p) ==
  /\ p \in Pruners
  /\ Idle(p)
  /\ \E kept \in SUBSET files :
       /\ Cardinality(kept) = IF Cardinality(files) < Keep THEN Cardinality(files) ELSE Keep
       /\ \A f \in kept, g \in files \ kept : f.stamp >= g.stamp
       /\ file' = [file EXCEPT ![p] = {NameOf(f) : f \in files \ kept}]
  /\ Goto(p, "dropping")
  /\ UNCHANGED <<db, files, clock, current, todo, seen>>

(* One file at a time; one that has gone is no failure.                    *)
DropOld(p) ==
  /\ phase[p] = "dropping"
  /\ \E n \in file[p] : /\ files' = files \ Named(n)
                        /\ file' = [file EXCEPT ![p] = @ \ {n}]
  /\ UNCHANGED <<db, clock, phase, current, todo, seen>>

EndPrune(p) ==
  /\ phase[p] = "dropping"
  /\ file[p] = {}
  /\ Goto(p, "done")
  /\ UNCHANGED <<db, files, clock, current, todo, seen, file>>

-----------------------------------------------------------------------------
(* assert_schema_current.                                                  *)
StartDaemon(p) ==
  /\ p \in Daemons
  /\ Idle(p)
  /\ Goto(p, IF db.version < Release[p] THEN "refused" ELSE "running")
  /\ UNCHANGED <<db, files, clock, current, todo, seen, file>>

(* Any other command writes user data.                                     *)
AddRow(r) ==
  /\ db.version # 0
  /\ r \notin db.rows
  /\ db' = [db EXCEPT !.rows = @ \cup {r}]
  /\ UNCHANGED <<files, clock, phase, current, todo, seen, file>>

(* Files being written stay as they are: a blank one stays blank.          *)
Crash(p) ==
  /\ ~Idle(p)
  /\ Goto(p, "failed")
  /\ file' = [file EXCEPT ![p] = {}]
  /\ UNCHANGED <<db, files, clock, current, todo, seen>>

Tick ==
  /\ clock < MaxClock
  /\ clock' = clock + 1
  /\ UNCHANGED <<db, files, phase, current, todo, seen, file>>

-----------------------------------------------------------------------------
Migrating(p) ==
  ReadVersion(p) \/ CheckApplied(p) \/ LookForData(p) \/ Apply(p) \/ RollBack(p)

Next ==
  \/ Tick
  \/ \E r \in Rows : AddRow(r)
  \/ \E p \in Procs :
       \/ Migrating(p) \/ FinishFile(p) \/ BeginCopy(p)
       \/ ListOld(p) \/ DropOld(p) \/ EndPrune(p)
       \/ StartDaemon(p) \/ Crash(p)

Spec == Init /\ [][Next]_vars

-----------------------------------------------------------------------------
Names == Nat \X (Nat \cup {NULL})

TypeOK ==
  /\ db \in [version: Nat, applied: SUBSET (Migrations \X Checksums),
             rows: SUBSET Rows]
  /\ files \subseteq [stamp: Nat, pre: Nat \cup {NULL}, whole: BOOLEAN,
                      version: Nat, rows: SUBSET Rows]
  /\ clock \in Nat
  /\ phase \in [Procs -> Phases]
  /\ current \in [Inits -> Nat]
  /\ todo \in [Inits -> SUBSET Migrations]
  /\ seen \in [Inits -> SUBSET Rows]
  /\ file \in [Procs -> SUBSET Names]

(* user_version and the _migrations table tell the same story after every  *)
(* commit, whoever migrates, fails or dies beside whom: every migration up *)
(* to the version has been applied, once, and none beyond it.              *)
VersionIsApplied ==
  /\ {x[1] : x \in db.applied} = {m \in Migrations : m <= db.version}
  /\ \A x, y \in db.applied : x[1] = y[1] => x = y

(* Migrations are forward-only, though an older release runs beside a      *)
(* newer one and has read the version before it.                           *)
VersionNeverFalls == [][db'.version >= db.version]_vars

(* A successful init leaves the schema its own release ships, not one that *)
(* was built from other copies of the same migrations.                     *)
SchemaIsAsShipped ==
  \A p \in Inits : phase[p] = "done" =>
    \A m \in Shipped(p) : <<m, Checksum(p, m)>> \in db.applied

(* While an init that found user data changes the schema, a whole snapshot *)
(* of the version it started from holds that data ("Every non-empty DB is  *)
(* snapshotted before a DDL run", docs/upgrading.md), whatever scans       *)
(* snapshot meanwhile and wherever earlier attempts died.                  *)
DataIsSnapshotted ==
  \A p \in Inits : phase[p] = "applying" /\ seen[p] # {} =>
    \E f \in files :
      f.whole /\ f.pre = current[p] /\ f.version = f.pre /\ seen[p] \subseteq f.rows

-----------------------------------------------------------------------------
(* What documents say of the program and it does not do.                   *)

(* "They're never pruned by `backup prune`" (docs/upgrading.md, of the     *)
(* snapshots taken before a migration).                                    *)
PreMigrationIsKept ==
  [][\A f \in files : f.pre # NULL => \E g \in files' : NameOf(g) = NameOf(f)]_vars

(* "Always writes langusta.db.pre-NNNN.bak before any DDL" (ADR-0005): the *)
(* snapshot named after a version holds that version.                      *)
SnapshotPrecedesDdl ==
  \A f \in files : f.whole /\ f.pre # NULL => f.version = f.pre

(* The daemon checks the schema version on start; "mismatch = refuse to    *)
(* run" (ADR-0005).                                                        *)
MismatchIsRefused ==
  [][\A p \in Daemons : phase[p] # "running" /\ phase'[p] = "running" =>
       db.version = Release[p]]_vars

(* A snapshot on every scan completion, "deduplicated within a 1-hour      *)
(* window" (docs/specs/02): when a scan ends there is a whole snapshot of  *)
(* the last hour, or one being written.                                    *)
ScanIsSnapshotted ==
  [][\A p \in Scans : phase[p] # "done" /\ phase'[p] = "done" =>
       \E f \in files' :
         /\ clock - f.stamp < Window
         /\ f.whole \/ \E q \in Procs : phase[q] = "copying" /\ NameOf(f) \in file[q]]_vars
=============================================================================
