--------------------------- MODULE UpgradeProofs ----------------------------
(***************************************************************************)
(* For any migrations, releases, edited copies and processes: the version  *)
(* and the table of migrations never disagree, and an init that succeeds   *)
(* has its own release's schema.  For one init at a time and no pruning:   *)
(* the user's data is in a whole snapshot before the schema changes; and   *)
(* for one init at a time, a snapshot named after a version holds it.      *)
(***************************************************************************)
EXTENDS Upgrade, WellFoundedInduction, TLAPS

(* Only who takes snapshots writes files, one at a time; an init names its *)
(* file after the version it read, the others after none.                  *)
Role(p) ==
  /\ phase[p] \in {"read", "pending", "applying"} => p \in Inits
  /\ phase[p] = "dropping" => p \in Pruners
  /\ phase[p] = "copying" =>
       /\ p \in Inits \cup Copiers
       /\ \E n \in file[p] :
            file[p] = {n} /\ n[2] = IF p \in Inits THEN current[p] ELSE NULL
Roles == \A p \in Procs : Role(p)

(* Of what an init ships, the rest is in the table, as shipped.            *)
Underway(p)   == phase[p] \in {"pending", "copying", "applying"}
InTable(p, m) == <<m, Checksum(p, m)>> \in db.applied
Rest(p) ==
  /\ phase[p] = "read" => current[p] <= db.version
  /\ Underway(p) => todo[p] \subseteq Shipped(p) /\ \A m \in Shipped(p) \ todo[p] : InTable(p, m)
  /\ phase[p] = "done" => \A m \in Shipped(p) : InTable(p, m)
RestIsApplied == \A p \in Inits : Rest(p)

Facts == TypeOK /\ Roles /\ VersionIsApplied /\ RestIsApplied

-----------------------------------------------------------------------------
(* One init at a time, and nobody prunes.                                  *)

Single == ~Overlapping /\ Pruners = {}

OneInit == \A p, q \in Inits : ~Idle(p) /\ ~Idle(q) => p = q

(* Nothing but itself has changed the version since an init read it.       *)
VersionAsRead ==
  \A p \in Inits :
    /\ phase[p] \in {"read", "pending", "copying"} => current[p] = db.version
    /\ phase[p] = "copying" => seen[p] \subseteq db.rows

(* The file an init writes is in the directory.                            *)
Opened ==
  \A p \in Inits : phase[p] = "copying" => \E f \in files : NameOf(f) \in file[p]

Saved == OneInit /\ VersionAsRead /\ Opened /\ DataIsSnapshotted

-----------------------------------------------------------------------------
(* A set of numbers has a least one.                                       *)
LEMMA MinIsLeast ==
  ASSUME NEW S \in SUBSET Nat, S # {}
  PROVE  Min(S) \in S /\ \A x \in S : Min(S) <= x
<1> DEFINE R == OpToRel(<, Nat)
<1>1. IsWellFoundedOn(R, Nat)
  BY NatLessThanWellFounded
<1>2. \A x, y \in Nat : <<x, y>> \in R <=> x < y
  BY DEF OpToRel
<1> HIDE DEF R
<1>3. \E n \in S : \A m \in S : <<m, n>> \notin R
  BY <1>1, WFMin
<1>4. PICK n \in S : \A m \in S : <<m, n>> \notin R
  BY <1>3
<1>5. \A m \in S : n <= m
  <2> SUFFICES ASSUME NEW m \in S PROVE n <= m
    OBVIOUS
  <2>1. m \in Nat /\ n \in Nat
    OBVIOUS
  <2>2. ~(m < n)
    BY <2>1, <1>2, <1>4
  <2> QED BY <2>1, <2>2
<1> QED BY <1>5 DEF Min

(* Migrations count from 1, and a release ships those up to its own.       *)
LEMMA MigrationsAreNumbered ==
  /\ Migrations \subseteq Nat \ {0}
  /\ \A p \in Inits : Release[p] \in Nat /\ Shipped(p) \subseteq Migrations
  /\ NULL \notin Nat
BY UpgradeAssumption DEF Shipped

(* A process is of one kind.                                               *)
LEMMA OneCommand ==
  /\ \A p \in Inits : p \in Procs /\ p \notin Daemons /\ p \notin Copiers /\ p \notin Pruners
  /\ \A p \in Copiers : p \in Procs /\ p \notin Inits /\ p \notin Pruners
  /\ \A p \in Pruners \cup Daemons : p \in Procs /\ p \notin Inits
BY UpgradeAssumption DEF Procs

(* One file is written or dropped at a time, by what was read.             *)
LEMMA OneFile ==
  ASSUME TypeOK, Roles, NEW p \in Procs, phase[p] = "copying"
  PROVE  LET n == CHOOSE n \in file[p] : TRUE
         IN  file[p] = {n} /\ n \in Names /\ n[2] = IF p \in Inits THEN current[p] ELSE NULL
BY DEF TypeOK, Roles, Role

Snapshots == [stamp: Nat, pre: Nat \cup {NULL}, whole: BOOLEAN, version: Nat, rows: SUBSET Rows]

(* A snapshot is begun blank and becomes a copy of the database.           *)
LEMMA SnapshotTypes ==
  ASSUME TypeOK, NEW n \in Names
  PROVE  /\ Blank(n) \in Snapshots /\ Copy(n) \in Snapshots
         /\ NameOf(Copy(n)) = n /\ Copy(n).whole = TRUE /\ Copy(n).pre = n[2]
         /\ Copy(n).version = db.version /\ Copy(n).rows = db.rows
<1>1. n = <<n[1], n[2]>> /\ n[1] \in Nat /\ n[2] \in Nat \cup {NULL}
  BY DEF Names
<1>2. Blank(n) \in Snapshots
  BY <1>1 DEF Blank, Snapshots
<1>3. /\ Blank(n).stamp = n[1] /\ Blank(n).pre = n[2]
  BY DEF Blank
<1> DEFINE b == Blank(n)
<1> HIDE DEF b
<1>5. Copy(n) = [b EXCEPT !.whole = TRUE, !.version = db.version, !.rows = db.rows]
  BY DEF Copy, b
<1>6. /\ Copy(n) \in Snapshots /\ Copy(n).stamp = n[1] /\ Copy(n).pre = n[2]
      /\ Copy(n).whole = TRUE /\ Copy(n).version = db.version /\ Copy(n).rows = db.rows
  <2>1. b \in Snapshots /\ b.stamp = n[1] /\ b.pre = n[2]
    BY <1>2, <1>3 DEF b
  <2>2. db.version \in Nat /\ db.rows \in SUBSET Rows
    BY DEF TypeOK
  <2> QED BY <2>1, <2>2, <1>5 DEF Snapshots
<1>4. NameOf(Copy(n)) = n
  BY <1>1, <1>6 DEF NameOf, Name
<1> QED BY <1>2, <1>4, <1>6

(* Opening a snapshot adds it, torn, to the files.                         *)
LEMMA OpensFile ==
  ASSUME TypeOK, NEW p \in Procs, NEW n \in Names, OpenFile(p, n)
  PROVE  /\ file' \in [Procs -> SUBSET Names] /\ file'[p] = {n}
         /\ \A q \in Procs \ {p} : file'[q] = file[q]
         /\ files \subseteq files' /\ files' \subseteq Snapshots
<1>1. Blank(n) \in Snapshots /\ files \subseteq Snapshots
  BY SnapshotTypes DEF TypeOK, Snapshots
<1> QED BY <1>1 DEF OpenFile, TypeOK

(* What goes on but for the inits' migrating.                              *)
Elsewhere(p) ==
  FinishFile(p) \/ BeginCopy(p) \/ ListOld(p) \/ DropOld(p) \/ EndPrune(p)
  \/ StartDaemon(p) \/ Crash(p)

-----------------------------------------------------------------------------
(* Types and roles.                                                        *)

Typed == TypeOK /\ Roles

(* No process runs yet.                                                    *)
LEMMA InitTyped == Init => Typed
BY DEF Init, Typed, TypeOK, Roles, Role, Phases

(* A process that opens a snapshot keeps the types.                        *)
LEMMA OpensKeepsTyped ==
  ASSUME Typed, NEW p \in Inits \cup Copiers, NEW n \in Names,
         n[2] = (IF p \in Inits THEN current[p] ELSE NULL), OpenFile(p, n), Goto(p, "copying"),
         UNCHANGED <<db, clock, current, todo>>, seen' \in [Inits -> SUBSET Rows]
  PROVE  Typed'
<1>1. p \in Procs
  BY DEF Procs
<1>2. /\ file' \in [Procs -> SUBSET Names] /\ file'[p] = {n}
      /\ \A q \in Procs \ {p} : file'[q] = file[q]
      /\ files' \subseteq Snapshots
  BY <1>1, OpensFile DEF Typed
<1>3. /\ phase' \in [Procs -> Phases] /\ phase'[p] = "copying"
      /\ \A q \in Procs \ {p} : phase'[q] = phase[q]
  BY <1>1 DEF Typed, TypeOK, Goto, Phases
<1>4. TypeOK'
  BY <1>2, <1>3 DEF Typed, TypeOK, Snapshots
<1>5. Roles'
  <2> SUFFICES ASSUME NEW q \in Procs PROVE Role(q)'
    BY DEF Roles
  <2>1. CASE q = p
    BY <1>2, <1>3, <2>1 DEF Role
  <2>2. CASE q # p
    BY <1>2, <1>3, <2>2 DEF Typed, Roles, Role
  <2> QED BY <2>1, <2>2
<1> QED BY <1>4, <1>5 DEF Typed

(* So does an init that looks whether there is anything to save.           *)
LEMMA LookForDataKeepsTyped ==
  ASSUME Typed, NEW p \in Procs, LookForData(p) PROVE Typed'
<1>1. CASE db.rows = {}
  BY <1>1 DEF LookForData, Typed, TypeOK, Roles, Role, Phases, Goto
<1>2. CASE db.rows # {}
  <2> DEFINE n == Name(clock, current[p])
  <2>1. p \in Inits /\ OpenFile(p, n) /\ Goto(p, "copying")
        /\ UNCHANGED <<db, clock, current, todo>>
    BY <1>2 DEF LookForData
  <2>2. n \in Names /\ n[2] = current[p]
    BY <2>1 DEF Name, Names, Typed, TypeOK
  <2>3. seen' \in [Inits -> SUBSET Rows]
    BY DEF LookForData, Typed, TypeOK
  <2> HIDE DEF n
  <2> QED BY <2>1, <2>2, <2>3, OpensKeepsTyped
<1> QED BY <1>1, <1>2

(* The steps of an init keep the types.                                    *)
LEMMA MigratingKeepsTyped ==
  ASSUME Typed, NEW p \in Procs, Migrating(p) PROVE Typed'
<1> USE MigrationsAreNumbered DEF Typed, TypeOK, Roles, Role, Phases, Goto
<1>1. CASE ReadVersion(p)
  BY <1>1 DEF ReadVersion, Idle
<1>2. CASE CheckApplied(p)
  BY <1>2 DEF CheckApplied
<1>3. CASE LookForData(p)
  BY <1>3, LookForDataKeepsTyped
<1>4. CASE Apply(p)
  <2> DEFINE m == Min(todo[p])
  <2>1. m \in Migrations /\ p \in Inits
    BY <1>4, MinIsLeast DEF Apply
  <2>2. Checksum(p, m) \in Checksums
    BY DEF Checksum, Checksums
  <2>3. /\ db' = [db EXCEPT !.version = m, !.applied = @ \cup {<<m, Checksum(p, m)>>}]
        /\ todo' = [todo EXCEPT ![p] = @ \ {m}]
        /\ Goto(p, IF todo'[p] = {} THEN "done" ELSE "applying")
        /\ UNCHANGED <<files, clock, current, seen, file>>
    BY <1>4 DEF Apply
  <2> HIDE DEF m
  <2>4. db' \in [version: Nat, applied: SUBSET (Migrations \X Checksums), rows: SUBSET Rows]
    <3> DEFINE applied == db.applied \cup {<<m, Checksum(p, m)>>}
    <3>1. applied \subseteq Migrations \X Checksums
      BY <2>1, <2>2
    <3>2. db' = [db EXCEPT !.version = m, !.applied = applied]
      BY <2>3
    <3>3. m \in Nat
      BY <2>1
    <3> HIDE DEF applied
    <3> QED BY <3>1, <3>2, <3>3
  <2>5. todo' \in [Inits -> SUBSET Migrations]
    BY <2>3
  <2>6. phase' \in [Procs -> Phases] /\ phase'[p] \in {"done", "applying"}
        /\ \A q \in Procs \ {p} : phase'[q] = phase[q]
    BY <2>3
  <2> QED BY <2>1, <2>3, <2>4, <2>5, <2>6
<1>5. CASE RollBack(p)
  BY <1>5 DEF RollBack
<1> QED BY <1>1, <1>2, <1>3, <1>4, <1>5 DEF Migrating

(* The steps of the other commands, and the end of a copy, keep the types. *)
LEMMA ElsewhereKeepsTyped ==
  ASSUME Typed, NEW p \in Procs, Elsewhere(p) PROVE Typed'
<1> USE MigrationsAreNumbered, OneCommand DEF Typed, TypeOK, Roles, Role, Phases, Goto
<1>1. CASE FinishFile(p)
  <2> DEFINE n == CHOOSE n \in file[p] : TRUE
  <2>1. n \in Names
    BY <1>1, OneFile DEF FinishFile
  <2>2. files' = {IF NameOf(f) = n THEN Copy(n) ELSE f : f \in files}
    BY <1>1 DEF FinishFile
  <2> HIDE DEF n
  <2>3. files \subseteq Snapshots
    BY DEF Snapshots
  <2>4. Copy(n) \in Snapshots
    BY <2>1, SnapshotTypes
  <2>5. files' \subseteq Snapshots
    BY <2>2, <2>3, <2>4
  <2> QED BY <1>1, <2>5 DEF FinishFile, Snapshots
<1>2. CASE BeginCopy(p)
  <2>1. CASE Enough(p)
    BY <1>2, <2>1 DEF BeginCopy, Idle
  <2>2. CASE ~Enough(p)
    <3> DEFINE n == Name(clock, NULL)
    <3>1. n \in Names /\ n[2] = NULL /\ OpenFile(p, n) /\ p \in Copiers
      BY <1>2, <2>2 DEF BeginCopy, Name, Names
    <3>2. Goto(p, "copying") /\ UNCHANGED <<db, clock, current, todo, seen>>
      BY <1>2, <2>2 DEF BeginCopy
    <3> HIDE DEF n
    <3> QED BY <3>1, <3>2, OpensKeepsTyped
  <2> QED BY <2>1, <2>2
<1>3. CASE ListOld(p)
  <2>1. PICK kept \in SUBSET files :
          file' = [file EXCEPT ![p] = {NameOf(f) : f \in files \ kept}]
    BY <1>3 DEF ListOld
  <2>2. {NameOf(f) : f \in files \ kept} \subseteq Names
    BY DEF NameOf, Name, Names
  <2>3. p \in Pruners /\ phase' = [phase EXCEPT ![p] = "dropping"]
        /\ UNCHANGED <<db, files, clock, current, todo, seen>>
    BY <1>3 DEF ListOld
  <2> QED BY <2>1, <2>2, <2>3
<1>4. CASE DropOld(p)
  BY <1>4 DEF DropOld
<1>5. CASE EndPrune(p)
  BY <1>5 DEF EndPrune
<1>6. CASE StartDaemon(p)
  BY <1>6 DEF StartDaemon
<1>7. CASE Crash(p)
  BY <1>7 DEF Crash
<1> QED BY <1>1, <1>2, <1>3, <1>4, <1>5, <1>6, <1>7 DEF Elsewhere

(* The types, and what a process has in hand, are inductive.               *)
LEMMA TypedKept == Typed /\ [Next]_vars => Typed'
<1> SUFFICES ASSUME Typed, [Next]_vars PROVE Typed'
  OBVIOUS
<1>1. ASSUME NEW r \in Rows, AddRow(r) PROVE Typed'
  BY <1>1 DEF AddRow, Typed, TypeOK, Roles, Role
<1>2. CASE Tick
  BY <1>2 DEF Tick, Typed, TypeOK, Roles, Role
<1>3. CASE UNCHANGED vars
  BY <1>3 DEF vars, Typed, TypeOK, Roles, Role
<1> QED BY <1>1, <1>2, <1>3, MigratingKeepsTyped, ElsewhereKeepsTyped DEF Next, Elsewhere

-----------------------------------------------------------------------------
(* The table of migrations.                                                *)

(* The rows of the migrations table are pairs.                             *)
LEMMA AppliedType ==
  ASSUME TypeOK
  PROVE  /\ db.version \in Nat
         /\ \A x \in db.applied : x = <<x[1], x[2]>> /\ x[1] \in Migrations
BY DEF TypeOK

(* The migration an init applies is the next one after the version, though *)
(* it read the version long ago.                                           *)
LEMMA AppliesNext ==
  ASSUME Typed, VersionIsApplied, RestIsApplied, NEW p \in Inits, Apply(p)
  PROVE  LET m == Min(todo[p])
         IN  /\ m \in Shipped(p) /\ m \in todo[p] /\ m > db.version
             /\ \A k \in Migrations : k <= m <=> k <= db.version \/ k = m
             /\ db'.version = m /\ db'.rows = db.rows
             /\ db'.applied = db.applied \cup {<<m, Checksum(p, m)>>}
<1> DEFINE m == Min(todo[p])
<1>1. /\ todo[p] \subseteq Shipped(p) /\ todo[p] # {}
      /\ \A k \in Shipped(p) \ todo[p] : InTable(p, k)
  BY DEF Apply, RestIsApplied, Rest, Underway
<1>2. Shipped(p) \subseteq Migrations /\ Migrations \subseteq Nat /\ Release[p] \in Nat
  BY MigrationsAreNumbered
<1>3. m \in todo[p] /\ \A k \in todo[p] : m <= k
  BY <1>1, <1>2, MinIsLeast
<1>4. /\ db' = [db EXCEPT !.version = m, !.applied = @ \cup {<<m, Checksum(p, m)>>}]
      /\ \A x \in db.applied : x[1] # m
  BY DEF Apply
<1> HIDE DEF m
<1>5. /\ db'.version = m /\ db'.rows = db.rows
      /\ db'.applied = db.applied \cup {<<m, Checksum(p, m)>>}
  BY <1>4 DEF Typed, TypeOK
<1>6. m > db.version
  BY <1>1, <1>2, <1>3, <1>4, AppliedType DEF VersionIsApplied, Typed
<1>7. ASSUME NEW k \in Migrations, k <= m PROVE k <= db.version \/ k = m
  <2>0. m \in Nat /\ k \in Nat /\ m <= Release[p]
    BY <1>1, <1>2, <1>3 DEF Shipped
  <2>1. CASE k \in todo[p]
    BY <1>3, <1>7, <2>0, <2>1
  <2>2. CASE k \notin todo[p]
    <3>1. k \in Shipped(p)
      BY <1>2, <1>7, <2>0 DEF Shipped
    <3>2. <<k, Checksum(p, k)>> \in db.applied
      BY <1>1, <2>2, <3>1 DEF InTable
    <3> QED BY <3>2 DEF VersionIsApplied
  <2> QED BY <2>1, <2>2
<1>8. \A k \in Migrations : k <= m <=> k <= db.version \/ k = m
  BY <1>2, <1>3, <1>1, <1>6, <1>7, AppliedType DEF Typed
<1> QED BY <1>1, <1>3, <1>5, <1>6, <1>8 DEF m

(* Applying a migration records it: the table still matches the version.   *)
LEMMA ApplyKeepsVersion ==
  ASSUME Typed, VersionIsApplied, RestIsApplied, NEW p \in Inits, Apply(p)
  PROVE  VersionIsApplied'
<1> DEFINE m == Min(todo[p])
<1>1. /\ m \in Migrations
      /\ \A k \in Migrations : k <= m <=> k <= db.version \/ k = m
      /\ db'.version = m
      /\ db'.applied = db.applied \cup {<<m, Checksum(p, m)>>}
  BY AppliesNext, MigrationsAreNumbered
<1>2. \A x \in db.applied : x[1] # m
  BY DEF Apply
<1> HIDE DEF m
<1>3. {x[1] : x \in db'.applied} = {x[1] : x \in db.applied} \cup {m}
  <2> DEFINE new == <<m, Checksum(p, m)>>
  <2>1. db'.applied = db.applied \cup {new} /\ new[1] = m
    BY <1>1
  <2> HIDE DEF new
  <2> QED BY <2>1
<1>4. {k \in Migrations : k <= m} = {k \in Migrations : k <= db.version} \cup {m}
  BY <1>1
<1>5. \A x, y \in db'.applied : x[1] = y[1] => x = y
  BY <1>1, <1>2 DEF VersionIsApplied
<1> QED BY <1>1, <1>3, <1>4, <1>5 DEF VersionIsApplied

(* No other step touches the version or the table.                         *)
SameTable ==
  db'.version = db.version /\ db'.applied = db.applied /\ db.rows \subseteq db'.rows

(* No other step touches version, migrations table or data, but to add     *)
(* data.                                                                   *)
LEMMA OtherSteps ==
  ASSUME Typed, [Next]_vars
  PROVE  SameTable \/ \E p \in Inits : Apply(p)
<1>1. ASSUME NEW p \in Procs, Migrating(p), ~Apply(p) PROVE SameTable
  BY <1>1 DEF Migrating, ReadVersion, CheckApplied, LookForData, RollBack, SameTable
<1>2. ASSUME NEW p \in Procs, Elsewhere(p) PROVE SameTable
  BY <1>2 DEF Elsewhere, FinishFile, BeginCopy, ListOld, DropOld, EndPrune, StartDaemon, Crash,
              SameTable
<1>3. ASSUME NEW r \in Rows, AddRow(r) PROVE SameTable
  BY <1>3 DEF AddRow, SameTable, Typed, TypeOK
<1> QED BY <1>1, <1>2, <1>3 DEF Next, Elsewhere, Apply, Tick, vars, SameTable

(* Version and table match after every step, and neither ever falls.       *)
LEMMA VersionKept ==
  ASSUME Typed, VersionIsApplied, RestIsApplied, [Next]_vars
  PROVE  /\ VersionIsApplied'
         /\ db'.version >= db.version
         /\ db.applied \subseteq db'.applied
         /\ db.rows \subseteq db'.rows
<1>1. CASE SameTable
  BY <1>1, AppliedType DEF SameTable, VersionIsApplied, Typed
<1>2. ASSUME NEW p \in Inits, Apply(p)
      PROVE  /\ VersionIsApplied' /\ db'.version >= db.version
             /\ db.applied \subseteq db'.applied /\ db.rows \subseteq db'.rows
  <2>1. Min(todo[p]) \in Nat
    BY <1>2, AppliesNext, MigrationsAreNumbered
  <2> QED BY <1>2, <2>1, AppliesNext, ApplyKeepsVersion, AppliedType DEF Typed
<1> QED BY <1>1, <1>2, OtherSteps

(* What a process does changes nothing of another's.                       *)
LEMMA OthersStay ==
  ASSUME Typed, NEW p \in Procs, Migrating(p) \/ Elsewhere(p), NEW q \in Inits, q # p
  PROVE  /\ phase'[q] = phase[q] /\ current'[q] = current[q] /\ todo'[q] = todo[q]
         /\ seen'[q] = seen[q] /\ file'[q] = file[q]
<1>1. q \in Procs
  BY OneCommand
<1> USE <1>1 DEF Typed, TypeOK, Goto
<1>2. CASE Migrating(p)
  BY <1>2 DEF Migrating, ReadVersion, CheckApplied, LookForData, OpenFile, Apply, RollBack
<1>3. CASE Elsewhere(p)
  BY <1>3 DEF Elsewhere, FinishFile, BeginCopy, OpenFile, ListOld, DropOld, EndPrune, StartDaemon,
              Crash
<1> QED BY <1>2, <1>3

(* What an init has left to apply is not disturbed by what others do.      *)
LEMMA RestStays ==
  ASSUME NEW q \in Inits, Rest(q), VersionIsApplied, Typed,
         phase'[q] = phase[q], current'[q] = current[q], todo'[q] = todo[q],
         db'.version \in Nat, db'.version >= db.version, db.applied \subseteq db'.applied
  PROVE  Rest(q)'
BY AppliedType DEF Rest, Underway, InTable, Typed, TypeOK

(* Nor by a step of its own.                                               *)
LEMMA MigratingKeepsRest ==
  ASSUME Typed, VersionIsApplied, RestIsApplied, NEW p \in Inits, Migrating(p)
  PROVE  Rest(p)'
<1>0. Rest(p) /\ p \in Procs
  BY OneCommand DEF RestIsApplied
<1> USE <1>0 DEF Rest, Underway, InTable, Goto, Typed, TypeOK
<1>1. CASE ReadVersion(p)
  BY <1>1 DEF ReadVersion
<1>2. CASE CheckApplied(p)
  <2>1. phase[p] = "read" /\ db' = db
    BY <1>2 DEF CheckApplied
  <2>2. CASE \E x \in db.applied : x[1] \in Shipped(p) /\ x[2] # Checksum(p, x[1])
    BY <1>2, <2>2 DEF CheckApplied
  <2>3. CASE ~\E x \in db.applied : x[1] \in Shipped(p) /\ x[2] # Checksum(p, x[1])
    <3>1. /\ todo'[p] = {m \in Shipped(p) : m > current[p]}
          /\ phase'[p] = IF todo'[p] = {} THEN "done" ELSE "pending"
      BY <1>2, <2>3 DEF CheckApplied
    <3>2. ASSUME NEW m \in Shipped(p) \ todo'[p] PROVE <<m, Checksum(p, m)>> \in db.applied
      <4>1. m \in Migrations /\ m <= db.version
        <5>1. m \in Nat /\ current[p] \in Nat /\ db.version \in Nat /\ current[p] <= db.version
          BY <2>1, MigrationsAreNumbered
        <5>2. ~(m > current[p])
          BY <3>1
        <5> QED BY <5>1, <5>2, MigrationsAreNumbered
      <4>2. PICK x \in db.applied : x[1] = m
        BY <4>1 DEF VersionIsApplied
      <4>3. x = <<m, Checksum(p, m)>>
        BY <2>3, <4>2, AppliedType
      <4> QED BY <4>3
    <3> QED BY <2>1, <3>1, <3>2
  <2> QED BY <2>2, <2>3
<1>3. CASE LookForData(p)
  BY <1>3 DEF LookForData, OpenFile
<1>4. CASE Apply(p)
  <2> DEFINE m == Min(todo[p])
  <2>1. /\ m \in todo[p]
        /\ db'.applied = db.applied \cup {<<m, Checksum(p, m)>>}
    BY <1>4, AppliesNext
  <2>2. /\ phase[p] = "applying" /\ todo'[p] = todo[p] \ {m}
        /\ phase'[p] = IF todo'[p] = {} THEN "done" ELSE "applying"
    BY <1>4 DEF Apply
  <2> HIDE DEF m
  <2> QED BY <2>1, <2>2
<1>5. CASE RollBack(p)
  BY <1>5 DEF RollBack
<1> QED BY <1>1, <1>2, <1>3, <1>4, <1>5 DEF Migrating

(* What every init has left is what the table lacks, in every step.        *)
LEMMA RestKept ==
  ASSUME Typed, VersionIsApplied, RestIsApplied, [Next]_vars
  PROVE  RestIsApplied'
<1> SUFFICES ASSUME NEW q \in Inits PROVE Rest(q)'
  BY DEF RestIsApplied
<1>0. Rest(q) /\ q \in Procs /\ q \notin Daemons \cup Copiers \cup Pruners
  BY OneCommand DEF RestIsApplied
<1>1. /\ db'.version \in Nat /\ db'.version >= db.version
      /\ db.applied \subseteq db'.applied
  BY VersionKept, TypedKept DEF Typed, TypeOK
<1>2. ASSUME NEW p \in Procs, Migrating(p) \/ Elsewhere(p), p # q PROVE Rest(q)'
  BY <1>0, <1>1, <1>2, OthersStay, RestStays
<1>3. CASE Elsewhere(q)
  <2>1. current'[q] = current[q] /\ todo'[q] = todo[q]
    BY <1>3 DEF Elsewhere, FinishFile, BeginCopy, ListOld, DropOld, EndPrune, StartDaemon, Crash
  <2>2. \/ phase[q] = "copying" /\ phase'[q] = "applying"
        \/ phase'[q] = "failed"
        \/ phase'[q] = phase[q]
    BY <1>0, <1>3
    DEF Elsewhere, FinishFile, BeginCopy, ListOld, DropOld, EndPrune, StartDaemon, Crash, Goto,
        Typed, TypeOK, Roles, Role
  <2> QED BY <1>0, <1>1, <2>1, <2>2, RestStays DEF Rest, Underway, InTable
<1>4. ASSUME NEW r \in Rows, AddRow(r) PROVE Rest(q)'
  BY <1>0, <1>1, <1>4, RestStays DEF AddRow
<1>5. CASE Tick \/ UNCHANGED vars
  BY <1>0, <1>1, <1>5, RestStays DEF Tick, vars
<1> QED BY <1>2, <1>3, <1>4, <1>5, MigratingKeepsRest DEF Next, Elsewhere

-----------------------------------------------------------------------------
(* A database without a table is at version 0.                             *)
LEMMA InitFacts == Init => Facts
<1> SUFFICES ASSUME Init PROVE Facts
  OBVIOUS
<1>1. VersionIsApplied
  <2>1. ASSUME NEW m \in Migrations PROVE ~(m <= 0)
    <3>1. m \in Nat /\ m # 0
      BY MigrationsAreNumbered
    <3> QED BY <3>1
  <2>2. {m \in Migrations : m <= 0} = {}
    BY <2>1
  <2> QED BY <2>2 DEF Init, VersionIsApplied
<1>2. RestIsApplied
  BY OneCommand DEF Init, RestIsApplied, Rest, Underway
<1> QED BY <1>1, <1>2, InitTyped DEF Facts, Typed

(* The invariant is inductive.                                             *)
LEMMA NextFacts == Facts /\ [Next]_vars => Facts'
BY TypedKept, VersionKept, RestKept DEF Facts, Typed

(* The invariant holds in every reachable state.                           *)
LEMMA AlwaysFacts == Spec => []Facts
BY InitFacts, NextFacts, PTL DEF Spec

(* The variables keep their types.                                         *)
THEOREM UpgradeTypeCorrect == Spec => []TypeOK
<1>1. Facts => TypeOK
  BY DEF Facts
<1> QED BY <1>1, AlwaysFacts, PTL

(* However many inits of whatever releases overlap, fail and die, the      *)
(* version and the table of migrations tell the same story.                *)
THEOREM TableMatchesVersion == Spec => []VersionIsApplied
<1>1. Facts => VersionIsApplied
  BY DEF Facts
<1> QED BY <1>1, AlwaysFacts, PTL

(* No init takes the schema back, though what it read of it is outdated.   *)
THEOREM MigrationsGoForward == Spec => VersionNeverFalls
<1>1. Facts /\ [Next]_vars => [db'.version >= db.version]_vars
  BY VersionKept DEF Facts, Typed
<1> QED BY <1>1, AlwaysFacts, PTL DEF Spec, VersionNeverFalls

(* An init that succeeds leaves every migration its release ships applied, *)
(* from its own copy of it.                                                *)
THEOREM InitLeavesItsSchema == Spec => []SchemaIsAsShipped
<1>1. Facts => SchemaIsAsShipped
  BY DEF Facts, RestIsApplied, Rest, InTable, SchemaIsAsShipped
<1> QED BY <1>1, AlwaysFacts, PTL

-----------------------------------------------------------------------------
(* Snapshots.                                                              *)

(* With commands that do not overlap, one init is under way at most.       *)
LEMMA OneInitKept == ASSUME ~Overlapping, Typed, OneInit, [Next]_vars PROVE OneInit'
<1> USE DEF OneInit, Idle
<1>1. ASSUME NEW p \in Procs, Migrating(p) \/ Elsewhere(p) PROVE OneInit'
  <2>1. CASE \A q \in Inits : phase'[q] = phase[q] \/ ~Idle(q) \/ Idle(q)'
    BY <2>1
  <2>2. ASSUME NEW q \in Inits, phase'[q] # phase[q], Idle(q), ~Idle(q)'
        PROVE  OneInit'
    <3>1. q = p
      BY <1>1, <2>2, OthersStay
    <3>2. ReadVersion(p) \/ CheckApplied(p) \/ LookForData(p) \/ Apply(p) \/ RollBack(p)
          \/ FinishFile(p) \/ Crash(p)
      BY <1>1, <2>2, <3>1, OneCommand
      DEF Migrating, Elsewhere, BeginCopy, ListOld, DropOld, EndPrune, StartDaemon, Typed, Roles,
          Role
    <3>3. ReadVersion(p)
      BY <2>2, <3>1, <3>2 DEF CheckApplied, LookForData, Apply, RollBack, FinishFile, Crash
    <3>4. \A o \in Inits : Idle(o)
      BY <3>3 DEF ReadVersion
    <3> QED BY <1>1, <3>1, <3>4, OthersStay
  <2> QED BY <2>1, <2>2
<1>2. ASSUME NEW r \in Rows, AddRow(r) PROVE OneInit'
  BY <1>2 DEF AddRow
<1>3. CASE Tick \/ UNCHANGED vars
  BY <1>3 DEF Tick, vars
<1> QED BY <1>1, <1>2, <1>3 DEF Next, Elsewhere

(* A migration is applied by the one init that runs.                       *)
LEMMA TableStays ==
  ASSUME ~Overlapping, Typed, OneInit, [Next]_vars, NEW p \in Inits,
         phase[p] \in {"read", "pending", "copying"}
  PROVE  SameTable
<1>1. ASSUME NEW q \in Inits, Apply(q) PROVE FALSE
  BY <1>1 DEF Apply, OneInit, Idle
<1> QED BY <1>1, OtherSteps

(* Snapshots of inits stay: nobody prunes, and a file is finished by its   *)
(* own process.                                                            *)
Saves(f, p) ==
  f.whole /\ f.pre = current[p] /\ f.version = f.pre /\ seen[p] \subseteq f.rows

(* Where nothing prunes, the snapshot of an init stays, but for what it    *)
(* copies into it.                                                         *)
LEMMA FilesStay ==
  ASSUME Single, Typed, OneInit, [Next]_vars, NEW p \in Inits,
         phase[p] \in {"copying", "applying"}, ~FinishFile(p),
         NEW f \in files, f.pre = current[p]
  PROVE  f \in files'
<1>1. ASSUME NEW q \in Procs, FinishFile(q) PROVE f \in files'
  <2> DEFINE n == CHOOSE n \in file[q] : TRUE
  <2>1. phase[q] = "copying" /\ files' = {IF NameOf(g) = n THEN Copy(n) ELSE g : g \in files}
    BY <1>1 DEF FinishFile
  <2>2. q \notin Inits
    BY <1>1, <2>1 DEF OneInit, Idle
  <2>3. n[2] = NULL
    BY <2>1, <2>2, OneFile DEF Typed
  <2>4. current[p] # NULL
    BY MigrationsAreNumbered DEF Typed, TypeOK
  <2> HIDE DEF n
  <2>5. NameOf(f) # n
    BY <2>3, <2>4 DEF NameOf, Name
  <2> QED BY <2>1, <2>5
<1>2. ASSUME NEW q \in Procs, Migrating(q) PROVE f \in files'
  BY <1>2 DEF Migrating, ReadVersion, CheckApplied, LookForData, OpenFile, Apply, RollBack
<1>3. ASSUME NEW q \in Procs, Elsewhere(q), ~FinishFile(q) PROVE f \in files'
  BY <1>3 DEF Elsewhere, BeginCopy, OpenFile, ListOld, DropOld, EndPrune, StartDaemon, Crash,
              Single, Typed, Roles, Role
<1> QED BY <1>1, <1>2, <1>3 DEF Next, Elsewhere, AddRow, Tick, vars

(* What a snapshot was taken for stays as it is while it is taken.         *)
LEMMA StillStays ==
  ASSUME Typed, [Next]_vars, NEW q \in Inits, ~Migrating(q), ~Elsewhere(q)
  PROVE  phase'[q] = phase[q] /\ current'[q] = current[q] /\ seen'[q] = seen[q]
<1>1. ASSUME NEW p \in Procs, Migrating(p) \/ Elsewhere(p) PROVE p # q
  BY <1>1
<1>2. ASSUME NEW r \in Rows, AddRow(r)
      PROVE  phase' = phase /\ current' = current /\ seen' = seen
  BY <1>2 DEF AddRow
<1> QED BY <1>1, <1>2, OthersStay DEF Next, Elsewhere, Tick, vars

(* The version an init has read stays the database's.                      *)
LEMMA VersionAsReadKept ==
  ASSUME ~Overlapping, Facts, OneInit, VersionAsRead, [Next]_vars
  PROVE  VersionAsRead'
<1> SUFFICES ASSUME NEW q \in Inits
             PROVE  (/\ phase[q] \in {"read", "pending", "copying"} => current[q] = db.version
                     /\ phase[q] = "copying" => seen[q] \subseteq db.rows)'
  BY DEF VersionAsRead
<1>0. Typed /\ q \in Procs /\ q \notin Daemons \cup Copiers \cup Pruners
  BY OneCommand DEF Facts, Typed
<1>1. /\ db.rows \subseteq db'.rows
      /\ phase[q] \in {"read", "pending", "copying"} =>
           db'.version = db.version /\ current[q] = db.version
  BY <1>0, TableStays, VersionKept DEF Facts, SameTable, VersionAsRead
<1>2. phase[q] = "copying" => seen[q] \subseteq db'.rows
  BY <1>1 DEF VersionAsRead
<1> USE DEF Goto, Typed, TypeOK
<1>3. CASE ReadVersion(q)
  BY <1>0, <1>3 DEF ReadVersion
<1>4. CASE CheckApplied(q)
  BY <1>0, <1>1, <1>4 DEF CheckApplied
<1>5. CASE LookForData(q)
  BY <1>0, <1>1, <1>5 DEF LookForData
<1>6. CASE Apply(q) \/ RollBack(q) \/ FinishFile(q) \/ Crash(q)
  BY <1>0, <1>6 DEF Apply, RollBack, FinishFile, Crash
<1>7. CASE Elsewhere(q) /\ ~FinishFile(q) /\ ~Crash(q)
  BY <1>0, <1>7 DEF Elsewhere, BeginCopy, ListOld, DropOld, EndPrune, StartDaemon, Roles, Role
<1>8. CASE ~Migrating(q) /\ ~Elsewhere(q)
  BY <1>0, <1>1, <1>2, <1>8, StillStays
<1> QED BY <1>3, <1>4, <1>5, <1>6, <1>7, <1>8 DEF Migrating, Elsewhere

(* The file an init writes stays in the directory while it does.           *)
LEMMA OpenedKept ==
  ASSUME Single, Facts, OneInit, Opened, [Next]_vars
  PROVE  Opened'
<1> SUFFICES ASSUME NEW q \in Inits, phase'[q] = "copying"
             PROVE  \E f \in files' : NameOf(f) \in file'[q]
  BY DEF Opened, NameOf, Name
<1>0. Typed /\ TypeOK /\ Roles /\ q \in Procs /\ q \notin Daemons \cup Copiers \cup Pruners
  BY OneCommand DEF Facts, Typed
<1>1. CASE LookForData(q)
  <2> DEFINE n == Name(clock, current[q])
  <2>1. OpenFile(q, n)
    BY <1>0, <1>1 DEF LookForData, Goto, TypeOK
  <2>2. n \in Names
    BY <1>0 DEF Name, Names, TypeOK
  <2> HIDE DEF n
  <2>3. n \in file'[q]
    BY <1>0, <2>1, <2>2, OpensFile
  <2>4. NameOf(Blank(n)) = n
    BY <2>2 DEF NameOf, Name, Blank, Names
  <2>5. \E f \in files' : NameOf(f) = n
    BY <2>1, <2>4 DEF OpenFile, Named
  <2> QED BY <2>3, <2>5
<1>2. CASE ~LookForData(q)
  <2>1. phase[q] = "copying" /\ ~FinishFile(q) /\ file'[q] = file[q]
    <3>1. CASE Migrating(q)
      BY <1>0, <1>2, <3>1 DEF Migrating, ReadVersion, CheckApplied, Apply, RollBack, Goto, TypeOK
    <3>2. CASE Elsewhere(q)
      BY <1>0, <3>2 DEF Elsewhere, FinishFile, BeginCopy, ListOld, DropOld, EndPrune, StartDaemon,
                        Crash, Goto, TypeOK, Roles, Role
    <3>3. CASE ~Migrating(q) /\ ~Elsewhere(q)
      <4>1. ASSUME NEW p \in Procs, Migrating(p) \/ Elsewhere(p) PROVE p # q
        BY <3>3, <4>1
      <4>2. ASSUME NEW r \in Rows, AddRow(r) PROVE phase' = phase /\ file' = file
        BY <4>2 DEF AddRow
      <4>3. phase'[q] = phase[q] /\ file'[q] = file[q]
        BY <1>0, <4>1, <4>2, OthersStay DEF Next, Elsewhere, Tick, vars
      <4> QED BY <3>3, <4>3 DEF Elsewhere
    <3> QED BY <3>1, <3>2, <3>3
  <2>2. PICK f \in files : NameOf(f) \in file[q]
    BY <2>1 DEF Opened
  <2>3. f.pre = current[q]
    <3>1. NameOf(f)[2] = current[q]
      BY <1>0, <2>1, <2>2, OneFile
    <3> QED BY <3>1 DEF NameOf, Name
  <2> QED BY <1>0, <2>1, <2>2, <2>3, FilesStay
<1> QED BY <1>1, <1>2

(* The file an init finishes holds the version it was named after.         *)
LEMMA FinishSaves ==
  ASSUME Single, Typed, VersionAsRead, Opened, NEW q \in Inits, FinishFile(q)
  PROVE  /\ \E f \in files' : Saves(f, q)
         /\ current' = current /\ seen' = seen
<1> DEFINE n == CHOOSE n \in file[q] : TRUE
<1>1. /\ phase[q] = "copying"
      /\ files' = {IF NameOf(f) = n THEN Copy(n) ELSE f : f \in files}
      /\ current' = current /\ seen' = seen /\ q \in Procs
  BY OneCommand DEF FinishFile
<1>2. file[q] = {n} /\ n \in Names /\ n[2] = current[q]
  BY <1>1, OneFile DEF Typed
<1> HIDE DEF n
<1>3. /\ Copy(n).whole = TRUE /\ Copy(n).pre = n[2]
      /\ Copy(n).version = db.version /\ Copy(n).rows = db.rows
  BY <1>2, SnapshotTypes DEF Typed
<1>4. Saves(Copy(n), q)
  BY <1>1, <1>2, <1>3 DEF Saves, VersionAsRead
<1>5. Copy(n) \in files'
  <2>1. PICK f \in files : NameOf(f) = n
    BY <1>1, <1>2 DEF Opened
  <2> QED BY <1>1, <2>1
<1> QED BY <1>1, <1>4, <1>5

(* An init that has data to lose has saved it before its first migration.  *)
LEMMA DataStaysSnapshotted ==
  ASSUME Single, Facts, OneInit, VersionAsRead, Opened, DataIsSnapshotted, [Next]_vars
  PROVE  DataIsSnapshotted'
<1> SUFFICES ASSUME NEW q \in Inits, phase'[q] = "applying", seen'[q] # {}
             PROVE  \E f \in files' : Saves(f, q)'
  BY DEF DataIsSnapshotted, Saves
<1>0. Typed /\ q \in Procs /\ q \notin Daemons \cup Copiers \cup Pruners
  BY OneCommand DEF Facts, Typed
<1>1. ASSUME phase[q] = "applying", current'[q] = current[q], seen'[q] = seen[q]
      PROVE  \E f \in files' : Saves(f, q)'
  <2>1. PICK f \in files : Saves(f, q)
    BY <1>1 DEF DataIsSnapshotted, Saves
  <2>2. f \in files'
    <3>1. ~FinishFile(q)
      BY <1>1 DEF FinishFile
    <3> QED BY <1>0, <1>1, <2>1, <3>1, FilesStay DEF Saves
  <2> QED BY <1>1, <2>1, <2>2 DEF Saves
<1>2. CASE FinishFile(q)
  BY <1>0, <1>2, FinishSaves DEF Saves
<1>3. CASE Apply(q)
  BY <1>1, <1>3 DEF Apply
<1>4. CASE ReadVersion(q) \/ CheckApplied(q) \/ RollBack(q) \/ Crash(q)
  BY <1>0, <1>4 DEF ReadVersion, CheckApplied, RollBack, Crash, Goto, Typed, TypeOK
<1>5. CASE LookForData(q)
  BY <1>0, <1>5 DEF LookForData, Goto, Typed, TypeOK
<1>6. CASE Elsewhere(q) /\ ~FinishFile(q) /\ ~Crash(q)
  BY <1>0, <1>6 DEF Elsewhere, BeginCopy, ListOld, DropOld, EndPrune, StartDaemon, Typed, Roles,
                    Role
<1>7. CASE ~Migrating(q) /\ ~Elsewhere(q)
  BY <1>0, <1>1, <1>7, StillStays
<1> QED BY <1>2, <1>3, <1>4, <1>5, <1>6, <1>7 DEF Migrating, Elsewhere

(* There is nothing to save yet.                                           *)
LEMMA InitSaved == Init => Saved
BY OneCommand DEF Init, Saved, OneInit, Idle, VersionAsRead, Opened, DataIsSnapshotted

(* One init at a time, and no pruning: while the schema changes, a whole   *)
(* snapshot of the version the init started from holds the data it found,  *)
(* whatever scans and operators snapshot and write beside it and wherever  *)
(* earlier inits died.                                                     *)
THEOREM DataIsSafe == ASSUME Single PROVE Spec => []DataIsSnapshotted
<1>1. Init => Facts /\ Saved
  BY InitFacts, InitSaved
<1>2. Facts /\ Saved /\ [Next]_vars => (Facts /\ Saved)'
  <2>1. Facts => Typed
    BY DEF Facts, Typed
  <2> QED BY <2>1, NextFacts, OneInitKept, VersionAsReadKept, OpenedKept, DataStaysSnapshotted
     DEF Saved, Single
<1>3. Saved => DataIsSnapshotted
  BY DEF Saved
<1> QED BY <1>1, <1>2, <1>3, PTL DEF Spec

-----------------------------------------------------------------------------
(* The names of snapshots.                                                 *)

(* The file an init finishes holds the version in its name; what the other *)
(* commands finish has none in its name, and begun files are torn.         *)
LEMMA NamesKept ==
  ASSUME ~Overlapping, Typed, VersionAsRead, SnapshotPrecedesDdl, [Next]_vars
  PROVE  SnapshotPrecedesDdl'
<1> SUFFICES ASSUME NEW f \in files', f.whole, f.pre # NULL, f \notin files
             PROVE  f.version = f.pre
  BY DEF SnapshotPrecedesDdl
<1>1. ASSUME NEW p \in Procs, FinishFile(p) PROVE f.version = f.pre
  <2> DEFINE n == CHOOSE n \in file[p] : TRUE
  <2>1. phase[p] = "copying" /\ f = Copy(n)
    <3>1. files' = {IF NameOf(g) = n THEN Copy(n) ELSE g : g \in files}
      BY <1>1 DEF FinishFile
    <3> HIDE DEF n
    <3> QED BY <1>1, <3>1 DEF FinishFile
  <2>2. n \in Names /\ n[2] = IF p \in Inits THEN current[p] ELSE NULL
    BY <2>1, OneFile DEF Typed
  <2> HIDE DEF n
  <2>3. f.pre = n[2] /\ f.version = db.version
    BY <2>1, <2>2, SnapshotTypes DEF Typed
  <2> QED BY <2>1, <2>2, <2>3 DEF VersionAsRead
<1>2. ASSUME NEW p \in Procs, NEW n, OpenFile(p, n) PROVE FALSE
  <2>1. f = Blank(n)
    BY <1>2 DEF OpenFile
  <2>2. f.whole = FALSE
    BY <2>1 DEF Blank
  <2> QED BY <2>2
<1>3. ASSUME NEW p \in Procs, Migrating(p) PROVE FALSE
  BY <1>2, <1>3 DEF Migrating, ReadVersion, CheckApplied, LookForData, Apply, RollBack
<1>4. ASSUME NEW p \in Procs, Elsewhere(p), ~FinishFile(p) PROVE FALSE
  BY <1>2, <1>4 DEF Elsewhere, BeginCopy, ListOld, DropOld, EndPrune, StartDaemon, Crash
<1> QED BY <1>1, <1>3, <1>4 DEF Next, Elsewhere, AddRow, Tick, vars

(* ADR-0005 "Always writes langusta.db.pre-NNNN.bak before any DDL": if no *)
(* two inits overlap, every whole snapshot named after a version holds the *)
(* database as of that version, whatever else snapshots, prunes, writes or *)
(* dies.  Two inits at a time break it.                                    *)
THEOREM SnapshotsAreWhatTheySay ==
  ASSUME ~Overlapping PROVE Spec => []SnapshotPrecedesDdl
<1> DEFINE I == Facts /\ OneInit /\ VersionAsRead /\ SnapshotPrecedesDdl
<1>1. Init => I
  BY InitFacts, InitSaved DEF Saved, Init, SnapshotPrecedesDdl
<1>2. I /\ [Next]_vars => I'
  <2>1. Facts => Typed
    BY DEF Facts, Typed
  <2> QED BY <2>1, NextFacts, OneInitKept, VersionAsReadKept, NamesKept
<1> QED BY <1>1, <1>2, PTL DEF Spec
=============================================================================
