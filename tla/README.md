# LANgusta in TLA+

TLA+ models of LANgusta's own logic, TLC configurations that check them on small
instances, and TLAPS proofs of what matters most for instances of any size. Every
definition is written from the code under `src/`; `PROJECT.json` maps it to the
lines it stands for.

To run: `tlc -config Inventory_review.cfg MCInventory.tla`, `tlapm InventoryProofs.tla`.

## The system

LANgusta keeps an inventory of a LAN in one SQLite file. There is no server:
each `langusta` command, the TUI and the monitoring daemon are **separate
processes** that share the database, the `backups/` directory, a PID file and a
known-hosts file. Inside the daemon and inside a scan, asyncio tasks share one connection. The promise the
program is built around is "the scanner proposes, the human disposes".

### Components

| component | state it keeps | operations | what makes it correct |
|---|---|---|---|
| Identity (`core/identity.py`) | none | `resolve` an observation against what is known | one answer per observation; no update that splits an identity |
| Provenance (`core/provenance.py`, `core/models.py`) | provenance of each field | `merge_scan_result` | a manual or imported value is never overwritten, a conflict is proposed |
| Inventory writers (`db/writer.py`, `db/assets.py`) | `assets`, `field_provenance`, `mac_addresses`, `proposed_changes`, `review_queue`, `timeline_entries` | apply an observation; insert, update, `add` | nothing curated is lost but by a race that can be named, no UNIQUE violation a sequential run could cause, MACs stay bound, changes are journalled |
| Scan (`scan/*.py`, `db/scans.py`) | `scans`; tasks, connections and pool threads in memory | start row, ping sweep, reverse DNS, TCP, mDNS and SNMP stages, apply all, finish, snapshot | a scan is stored whole or not at all, awaits no stage with the write lock, and settles |
| Imports (`db/import_*.py`) | the same tables | NetBox pages, Lansweeper rows under savepoints, dry run | the same, and a failed row leaves nothing |
| Proposals (`db/proposed_changes.py`, TUI review queue) | `proposed_changes.resolution` | `accept`, `reject`, `edit_override` | an answer is carried out, and stands |
| Monitoring (`monitor/runner.py`, `db/monitoring.py`) | `monitoring_checks`, `check_results`, heartbeat in `meta`, `monitor_event` entries | `run_once`, daemon loop, enable, disable, prune | intervals between recorded results kept, each outage reported once, cycles end |
| Notifications (`monitor/notifications.py`, `db/notifications.py`) | log file, `notification_sinks` | `dispatch`, sinks added, disabled, removed | no event without its announcement at every place the cycle knew of |
| Daemon control (`monitor/daemon_control.py`, `cli.py`) | `monitor.pid`, processes | `monitor daemon`, `start`, `stop` | one daemon, and the file names it |
| Migrations (`db/migrate.py`) | `user_version`, `_migrations` | `migrate`, `assert_schema_current` | version and bookkeeping agree and never fall |
| Backups (`db/backup.py`) | files in `backups/` | write, pre-migration write, list, prune, verify | the user's data is in a whole snapshot before the schema changes |
| Vault (`crypto/`, `db/credentials.py`) | salt and verifier in `meta`, `credentials` | set up, unlock, add, remove, refer to | what is stored can be opened |
| Export and import (`db/export.py`, `cli.py`) | a JSON file | read table after table, write the file, check that the target is empty, insert everything | what is imported is whole; an undisturbed dump comes back as it was |
| Timeline (`db/timeline.py`) | `timeline_entries` | `append_entry` by scans, imports, dispositions and cycles; notes and corrections of a person | changes are journalled; a correction stays with the entry it corrects |
| SSH host keys (`monitor/ssh/known_hosts.py`, `asyncssh_backend.py`) | known-hosts file | trust on first use | first use makes one pin; a changed key is never accepted |

Also there, and not modelled: check implementations, SSH
authentication, search, TUI rendering, platform services, release lints (see
[Not modelled](#not-modelled)).

### How they interact

- **Through SQLite.** WAL mode, python's legacy isolation: a SELECT outside a
  transaction sees the last commit and pins nothing; the first INSERT or UPDATE
  takes the one write lock; COMMIT installs everything at once; a process that cannot
  get the lock fails after `busy_timeout`. The Lansweeper import's SAVEPOINT
  does pin a snapshot, and its first write fails if that is not the last commit.
- **Scan and imports → writers → identity, provenance.** Rows are applied one by one;
  each changes what the next is resolved against.
- **Scan → proposals → review.** A disposition is the only sanctioned way a
  curated field changes.
- **Daemon → cycle → results, events, notifications.** Events are dispatched
  to the log and then to each sink before the commit of the cycle that writes them.
- **Scan → event loop → thread pool.** The stages are awaited together, and the first that
  raises cancels the others; a DNS lookup is a thread that a timeout cannot stop, and the
  command's end waits for it.
- **Export → file → import.** The exporter reads one table after another outside a
  transaction, beside everything above; the file is all the importer has. With it comes the
  master password of the dumped database, where the target has none: **import → vault**.
- **`init` → migrate → backup**, **scan → backup**, **daemon → version check.**
- **Checks → credentials, host keys.**

### What is hard here

Decisions taken from a SELECT before the transaction that acts on them (first row
of a scan, `accept`, `list_due`, `is_set`, `user_version`); a write lock held while
the network is awaited (NetBox pages, probes of a cycle); threads that outlive their
timeout; a dump that is a cut no commit ever was; processes that die
holding a half-written batch, a blank backup or a PID file; two daemons, two inits,
two review sessions; process ids and credential labels that are reused; age-based pruning
against what must be kept. `PROJECT.json` lists 40 such hazards, each at its line with
the properties that cover it, or the reason why none does.

## Modules

| module | models | state and actions |
|---|---|---|
| `Nullable` | SQL NULL / Python None | one constant |
| `Identity` | `core/identity.py` | `Score`, `Resolve`: tenths instead of floats, the candidates as a set |
| `Provenance` | `core/provenance.py` | `Applied`, `Proposed`: the two halves of `merge_scan_result` |
| `Tables` | the tables and every write of one row | a database is a record (`asset`, `owner` of each MAC, `proposals`, `review`, `timeline`, `finished`); `ApplyRow` is `_apply_observation` or an importer's row, `Conflicts` says when it hits a UNIQUE constraint |
| `Inventory` | the commands on it, as processes | `db` last commit, `work` the lock holder's view; one action per step between two points where others can run: `StartScan`, `ResolveFirst`, `ReadProvenance`, `ReadValues`, `WriteFirst`, `ApplyNext`, `SkipInTxn`, `CommitBatch`, savepoint steps, `CheckAdd`, `AddAccepted`, `ReadProposal`, `Accept`, `Reject`, `EditOverride`, `BusyTimeout`, `Crash` … |
| `Sweep` | one scan, from its row to the command's end | stages as tasks, `thread` beside `name` because a lookup outlives its future; `StartScan`, `SweepEnds`, `TakeLookup`, `LookupReturns`, `LookupTimesOut`, `Connect`, `ConnectEnds`, `MdnsEnds`, `SnmpEnds`, `ApplyHost`, `FinishScan`, `BackUp`; `SweepFails`, `StageRaises`, `ApplyFails`, `Kill`. An error only leaves `run_scan`; in `Leave`, `asyncio.run` has joined the pool's threads, and then `connect()` rolls back and gives up the lock |
| `Dump` | export and import | `src` and `target` as sequences of rows reduced to their keys; `ReadTable`, `OpenFile`, `FinishFile`, `StartImport`, `CountRows`, `InsertRows`, and what others commit on either side (`SourceCommits`, `RivalCommits`), notes and corrections included |
| `Curation` | the promise, abstractly | `Discover`, `Accept`, `Reject`, `Edit` on assets and proposals; no processes, locks or commits. `DiscoverBut` and `AnswerAgain` are not part of it: they say what the code does instead when it is overtaken |
| `Monitor` | `run_once` and the commands that call it | `job` follows each check's task in each cycle (`ListSinks`, `Prepare` with the cycle's credential cache, `StartProbing`, `FindTarget`, `Probe`, `Answer`, then `Announce` once for each place), `EndCycle` prunes, beats and commits; daemons are killed and restarted; operators enable and disable checks, fill in addresses, add, disable and remove sinks |
| `Alarm` | the alarm a report reader expects, abstractly | `GoesDown`, `ComesUp`, `ComesBack`, `Stays` on last status and report |
| `DaemonControl` | the PID file and the processes | one action per file operation, `Die`, `Reuse` of an id; `Quiet` says no command is under way |
| `Upgrade` | `migrate`, backups, pruning, the daemon's version check | one action per read, file creation, copy and migration transaction; `Crash` anywhere; processes of different releases |
| `Vault` | master password and credentials | one action per connection or SELECT a decision rests on; `ImportMeta` inserts a dump's salt and verifier where there is none (credentials are never in a dump); AES-GCM and Argon2 as "a key is a password and a salt" |
| `HostKeys` | trust on first use | `SeeKey`, the connection without credentials; `AddPin`, the locked append; `Connect`, where the second connection reads the file, and `LogIn` or `KeyChanged`, where it compares; servers that change keys; operators who add lines, from before the first check on, and remove them. `accepted` and `overtaken` are history variables: the keys logged in against since the last edit by hand, and the connections begun before it |
| `MCInventory`, `MCMonitor`, `MCUpgrade` | instances | constants for TLC |
| `InventoryProofs`, `SweepProofs`, `DumpProofs`, `MonitorProofs`, `DaemonControlProofs`, `UpgradeProofs`, `VaultProofs`, `HostKeysProofs` | theorems | see [Proofs](#proofs) |

`Inventory` composes `Identity`, `Provenance` and `Tables` (EXTENDS) and is shown to
implement `Curation` (`Promise == INSTANCE Curation WITH asset <- db.asset, ...`);
`Monitor` is shown to implement `Alarm` the same way. The others are
checked alone. What `Sweep` hands on, a batch of observations, is what `Inventory`'s `ApplyNext`
takes row by row, and what `Upgrade` does after `BackUp` is one atomic step in it. `Dump` has writes of
its own, coarser than `Tables`': one whole commit each, since an exporter sees nothing else.

Definitions called `…Anyway`, `…Always`, `…Early` and the like beside a used one are its
plausible wrong versions; each property of a run has one that it must catch (`mutants` in
`PROJECT.json`).

### Data that is abstracted

Names, addresses and MACs are values of small sets. Timestamps are left out of the
inventory (nothing it decides depends on them); `Monitor` and `Upgrade` have a
clock that ticks up to `MaxClock`. A journal entry is its asset, its kind and
the row that caused it; ids of assets are positions in a sequence and ids of credentials come
from a counter that never goes back, as every such table is AUTOINCREMENT. Process ids, which the
system gives out again, are reused (`Reuse`).

## Runs

Every passing run explores all its states. Sizes are distinct states.

| run | instance | shows | states |
|---|---|---|---|
| `Inventory_review` | three scans of one host, one add, two sessions; 2 names, 2 addresses, 1 MAC; scans and sessions interchangeable | a curated value changes only by a disposition or by the first row of an ingest that read it before it was curated and was overtaken (`OnlyTheOvertakenOverrule`); but for that and for a second session that answers again, the inventory implements `Curation` (`KeepsPromise`); the inductive invariant of the proofs (`IInv`) | 840,046 |
| `Inventory_import` | a scan, NetBox, Lansweeper, an add, all of which may be killed; a review session | an ingest that has not finished has left nothing; over all its rows an ingest keeps the curated values it has read, and asks about each conflict; it collides only if overtaken; a Lansweeper import is never overtaken (`SnapshotIsFresh`); MACs never move; `KeepsPromise` where imports overtake, and where the answer to a proposal collides with an address taken meanwhile | 634,004 |
| `Sweep_scan` | one scan of 2 hosts, 3 ports, 2 connections at a time to a host, 1 pool thread, SNMP; fair | no stage is awaited with the write lock in hand, and the lock outlasts the writes only if one of them failed (`LockIsLocal`); a scan is stored whole or not at all, whichever stage raises and wherever it is killed (`ScanIsAtomic`); it is stored, fails or is killed however long DNS takes (`ScanSettles`), and the command ends if every lookup does (`CommandEnds`) | 87,850 |
| `Dump_beside_writers` | an export beside up to 4 commits of scans, edits and notes; imports beside one other commit | whatever was read while it changed, no row is imported that refers to a missing one (`ReferencesResolve`), and corrections stay on their asset; a dump nobody disturbed comes back as it was, and an import fails only for a reason (`RoundTrips`) | 913,424 |
| `Monitor_daemon` | one daemon, two checks, one probe slot | nothing is probed or recorded before the interval since the last recorded result is over, kills and restarts included (`IntervalIsKept`); reports are the alarm's; cycles end although one slot serves both checks | 73,960 |
| `Monitor_overlap` | a daemon and a `monitor run`, one check with a credential and, at first, no address; a webhook that comes and goes | every committed event had gone to the log and to every sink its cycle could reach; pruning spares the row behind a last status, also that of an overlapping cycle with another clock | 2,113,094 |
| `Daemon_serial` | 3 process ids, 2 starts, 2 stops, one command at a time | one daemon, and the file names it, though daemons die anywhere and ids are reused | 320,576 |
| `Upgrade_races` | inits of two releases and one with an edited migration, at once, and a pruner | version and bookkeeping agree, versions never fall, an init that succeeds leaves the schema its own release ships (`SchemaIsAsShipped`) | 1,626,288 |
| `Upgrade_snapshots` | one init at a time, a scan, `backup now`; any may die copying | the data that was there is in a whole snapshot before the schema changes | 418,808 |
| `Vault_commands` | two inits and an import one after the other, in any order, two adds, a use, a removal, a check being enabled | stored secrets open, whichever of them set the password; a check's credential exists and is the one its operator named | 126,852 |
| `HostKeys` | three checks of one host, which changes its key; a file filled in and edited by hand | first use makes one pin; between two edits every login is against a pinned key, and against one only if first use pinned it (`ChangedKeysAreRefused`) | 917,404 |
| `Inventory_import_race` | a scan beside an import | **violated**: `HumanDisposes` | |

### What the violation says

`Inventory_import_race`: the first observation of a scan reads the asset's
provenance before the scan's transaction exists (`writer.py:359`). An import that
commits between that read and the write is overwritten, and its field becomes
`scanned`. `core/provenance.py:67`: "NEVER flips MANUAL or IMPORTED to SCANNED."
Every later row of the scan reads inside the transaction and is safe; `TxnKeepsCurated`
states, and `InventoryProofs` proves (`CuratedInTxn`, `OnlyRacesOverrule`), that this window is the only one.

An import is not needed for it. Three scans and one reviewer do as well: `add` creates the asset as
h2 at i1; two scans propose h1 each; the reviewer accepts the first proposal, and the field is `scanned`;
the third scan reads it; the reviewer edits the second proposal to h2, and the field is `manual`; the third scan's
first write makes it h1 and `scanned`. With two scans the reviewer never has a second proposal about the field, and
the race cannot happen, which is why `Inventory_review` has three. `HumanDisposes` is violated on that instance
too, and the exceptions that `OnlyTheOvertakenOverrule` and `KeepsPromise` make are taken in it.

### Further configurations

Kept beside the runs, one `.cfg` each, to be run by hand. `Inventory_desk` (MCInventory; a scan,
Lansweeper and two reviewers, fair; 66,321 states) **passes**: an answer
stands, or an edit replaces it, whoever else held the proposal (`ResolutionIsFinal`, which `KeepsPromise` of the
runs implies), and commands end although any of them may hold, wait for, or
die with the lock (`CommandsEnd`). It is the instance for liveness of the inventory: on those of
the runs above, the same question takes minutes instead of seconds.

Each of the others checks one property that a doc, comment or docstring states, or that
a reader would take it for, and that TLC finds **violated** by what the code does.

| configuration (module) | property | what happens | what the repository says |
|---|---|---|---|
| `Inventory_double_review` (MCInventory) | `RejectedIsNotApplied` | two sessions read the same open row; what one rejected the other applies, and it stays marked rejected (`proposed_changes.py:186`) | `proposed_changes.py:43`: "accept/reject/edit_override called on a row already resolved." raises |
| `Inventory_import_by_ip` (MCInventory) | `IpOnlyImportsAreDeferred` | a row that only its address connects to an asset is merged into it (`import_common.py:325`) | `import_common.py:9`: "IP-only match → `review_queue` row (human picks)" |
| `Inventory_edit_to_nothing` (MCInventory) | `EditsAreProtected` | an override of None has manual provenance but no value, which nothing protects (`proposed_changes.py:252`) | `proposed_changes.py:246`: "MANUAL provenance so subsequent scans treat it as protected again." |
| `Monitor_no_target` (MCMonitor) | `DownIsReported` | a missing target is recorded as fail without an event; the outage that follows is no transition (`runner.py:321`) | `runner.py:7`: "On state transitions (ok↔fail), writes a `monitor_event` timeline entry" |
| `Monitor_two_cycles` (MCMonitor) | `DownIsReported` | overlapping cycles judge by the status each read when it began (`runner.py:344`) | the same |
| `Monitor_webhook` (MCMonitor) | `WebhooksAreNotified` | a daemon unlocks the vault only if a check needs it when it starts; without it a webhook's URL cannot be decrypted and its notices are dropped (`notifications.py:112`) | `cli.py:1138`: "Monitor events POST JSON to this URL." |
| `Monitor_shared_credential` (MCMonitor) | `WrongKindIsRefused` | a check whose credential is of the wrong kind is handed what an earlier check of the cycle decoded from it (`runner.py:282`) | `runner.py:291`: "requires one of …" |
| `Sweep_slow_dns` (Sweep) | `CommandEndsAnyway` | the scan is stored, but the command does not return before the last lookup has: `asyncio.run` joins the pool (`cli.py` calls it) | `scan/rdns.py:4`: "so a slow DNS server can't stall the scan" |
| `Sweep_failed_apply` (Sweep) | `WaitsWithoutLock` | a write fails while a lookup that was given up is still in its thread: the exception leaves `asyncio.run`, which joins the pool, before `connect()` rolls back (`cli.py:319-328`, `connection.py:61-64`), so the write lock is held until DNS answers | `scan/orchestrator.py:83-86`: "the WAL write-lock is released before network I/O begins" |
| `Dump_cut` (Dump) | `DumpsAreImportable` | the asset was added after `assets` was read, its MAC is in the dump: the import fails on the foreign key (`export.py:68`) | `docs/development-plan.md:219`: "round-trips cleanly on a fresh DB" |
| `Dump_attribution` (Dump) | `ImportsAreAttributed` | a value is set between the SELECTs of `assets` and `field_provenance`: the dump gives the old value to the new setter | `core/provenance.py:36`: "A field's current value, plus who set it and when." |
| `Monitor_heartbeat` (MCMonitor) | `HeartbeatLands` | a secret that cannot be decoded ends every cycle before the heartbeat (`runner.py:293`) | `runner.py:179-180`: "Heartbeat must land even on a partially-failed cycle" |
| `Daemon_start` (DaemonControl) | `StartedRuns` | `monitor start` writes the child's id as soon as it has spawned it (`cli.py:1064`); the child finds a living process in the file, itself, and refuses to run (`cli.py:953`), unless it gets there before the parent's next statement | `cli.py:1001`: "Spawn the monitor daemon in a new session (backgrounded)." |
| `Daemon_overlap` (DaemonControl) | `OneDaemon` | two daemons find a stale file, both write it, both run (`cli.py:962`) | `cli.py:961`: "Stale PID files are safe to overwrite; a living daemon is not." |
| `Daemon_stop` (DaemonControl) | `RunningIsRecorded` | a stop clears a stale file that a new daemon has written meanwhile (`daemon_control.py:137`) | `daemon_control.py:11-12`: "The PID file … is the single source of truth" |
| `Upgrade_prune` (MCUpgrade) | `PreMigrationIsKept` | prune counts and drops pre-migration snapshots too (`backup.py:107`) | `docs/upgrading.md:28`: "They're never pruned by `backup prune`." |
| `Upgrade_two_inits` (MCUpgrade) | `SnapshotPrecedesDdl` | a second init's snapshot is copied after the first one's DDL (`migrate.py:294`) | `docs/adr/0005-schema-migration-discipline.md:68-69`: "Takes exclusive DB lock" |
| `Upgrade_old_daemon` (MCUpgrade) | `MismatchIsRefused` | only an older database is refused, a newer one is not (`migrate.py:148`) | ADR-0005:77: "mismatch = refuse to run with a clear error" |
| `Upgrade_torn_snapshot` (MCUpgrade) | `ScanIsSnapshotted` | the blank file of a scan that died suppresses the snapshots of an hour (`backup.py:79`) | `docs/specs/02-tech-stack-and-architecture.md:152`: "on every scan completion" |
| `Vault_set_twice` (Vault) | `SecretsOpen` | an init has passed `is_set` and derives its key; another init, or an import (`export.py:152-158`), sets salt and verifier, a secret is stored under them, and the first init overwrites them (`master_password.py:57`) | `master_password.py:56`: "Raises if already set." |

### Bounds, and why they are enough

- **As many processes as the longest known race needs.** In `Inventory_review` that is three scans (the trace
  above) and two sessions that hold one proposal; scans see the same batch, so that proposals about one field
  pile up. In `Inventory_import` each ingest meets an ingest of another kind, an add and a review. Whether four scans do
  something new no bounded run can say; the inventory theorems hold for any number.
- **Three checks of one host** in `HostKeys`: two can meet it at once and a third can find what they have left.
- **One MAC, two names, two addresses, batches of at most two rows.** Two rows are the
  first at which a row meets what an earlier one of its own batch has written; two addresses
  are what a UNIQUE conflict and a changed field need; `TwoHosts` has two hosts behind one MAC, `MCNetboxBatches`
  one address on two devices.
- **`MaxClock` 1–3.** An interval of 2 and a retention of 1 are outlived within 3 ticks.
  In `Monitor_overlap` one tick is enough for two overlapping cycles to have different clocks, and one sink besides
  the log for the order of announcements to matter.
- **Two checks, one slot.** One waits while another probes. With two checks one can
  fail and the other not.
- **Two hosts, one thread, two slots for three ports.** One lookup waits in the pool while
  the other is out for longer than its timeout; a port waits for a slot, and the second
  to finish must not keep it. `Snmp` is on: off, a scan has one stage fewer.
- **Four commits during an export, one field, one MAC.** A correction in a cut needs an asset, an
  entry and the correction; four let a scan start, end and be disposed of as well. One rival on the target is enough
  for a table to be filled after it was counted.
- **Two migrations, two releases, one edited copy.** The least at which versions differ,
  and at which a process can die between two migrations. `Keep` 0 and 1 are the boundaries of pruning.
- **`Overlapping`** in `DaemonControl`, `Upgrade` and `Vault` is an assumption, not a bound:
  FALSE means an operator does not give a second such command before the first ends (in `Vault`:
  starts neither another init nor an import while an init is under way). The passing
  runs of `Daemon_serial`, `Upgrade_snapshots` and `Vault_commands` rest on it, and the
  configurations above with TRUE show that they must.
- Symmetry is used in `Inventory_review` only, over scans and over sessions, which its definitions treat
  alike; it checks invariants and action properties, no liveness.

`CHECK_DEADLOCK FALSE` is set everywhere: commands end, and an instance in which all have
ended has nothing more to do.

### Fairness

- `Inventory!FairSpec`: weak fairness of "some ingest or add takes a step". The OS
  schedules runnable processes and each command has finitely many steps, so a fair choice
  among them runs them all. A reviewer is a person and gets none; `Crash` and
  `BusyTimeout` get none of their own. That waiting for a lock ends is then a fact about the
  holder, which must finish or die.
- `Monitor!FairSpec`: weak fairness of each runner's own cycle. An asyncio loop runs ready
  tasks, and every probe has a timeout, so `Answer` comes. Nothing is assumed of
  ticks, kills, restarts or operators.
- `Sweep!FairSpec`: weak fairness of `Proceeds`: the process is scheduled, and a ping, a
  connection, an SNMP query, the mDNS window and the wait for a name have timeouts. Nothing makes a DNS
  lookup return (`LookupReturns`) or anything fail (`Errs`); `CommandEnds` therefore assumes,
  within the formula, that no lookup runs for ever.
- `DaemonControl!FairSpec`: weak fairness of starting commands and of a booting daemon,
  which the violated `StartedRuns` needs to be about more than a process that never runs.

`CommandsEnd` says `[]<>`: again and again everyone is at rest. `CyclesEnd`, `ScanSettles`
and `CommandEnds` say `~>`: whoever has begun ends.

## Proofs

`tlapm` proves all obligations of the eight proof modules. Every safety invariant and
every action property of the passing runs is stated by a theorem, and so are the
refinements; what is left to TLC alone is liveness. Nothing is assumed but the named assumptions of the
modules' constants and the hypotheses named in the tables below. Each inductive
invariant was checked by TLC on the instance of a run before it was proved.

A hypothesis stands only where the code needs it; the configurations named beside it show what goes wrong without it:

| hypothesis | meaning | without it |
|---|---|---|
| `~Overlapping` | an operator gives a second such command only when the first has ended; in `Vault`, no init or import begins while an init is under way | `Daemon_overlap`, `Daemon_stop`, `Upgrade_two_inits`, `Vault_set_twice` |
| `Single` | one init at a time, and nobody prunes | `Upgrade_two_inits`, `Upgrade_prune` |
| `Alone` | one runner, killed and restarted as often as may be | `Monitor_two_cycles` |
| `Runnable` | each check has an address and needs no credential | `Monitor_no_target` |
| `[](lock \notin stale)` | no ingest holds the lock that was overtaken between its first read and its first write; only `HumansDispose` and `PromiseIsKeptInFull` need it | `Inventory_import_race` |
| `OneReviewer` | one review session; only `PromiseIsKeptInFull` and `RejectionsHold` need it | `Inventory_double_review` |
| `~cut` | nobody commits between two SELECTs of the export | `Dump_attribution` |

### `InventoryProofs`

| theorem | statement |
|---|---|
| `Invariance` | `Spec => []IInv` |
| `TypeCorrect` | `Spec => []TypeOK` |
| `CuratedInTxn` | `Spec => []TxnKeepsCurated` |
| `NoConflictWithoutRace` | `Spec => []ConflictOnlyByRace` |
| `RowsAreAttributed` | `Spec => []Attributed` |
| `UnfinishedLeaveNothing` | `Spec => []BatchIsAtomic` |
| `BoundMacsStay` | `Spec => MacNeverMoves` |
| `JournalIsComplete` | `Spec => ChangesAreJournalled` (no run checks it: change and entry share a transaction) |
| `NoSilentDrops` | `Spec => ConflictsAreProposed` |
| `ResolutionsAreFinal` | `Spec => ResolutionIsFinal` |
| `OnlyRacesOverrule` | `Spec => OnlyTheOvertakenOverrule` |
| `HumansDispose` | `Spec /\ [](lock \notin stale) => HumanDisposes` |
| `PinnedIngestsOverruleNobody` | `Scans \cup Netboxes = {}`: `Spec => HumanDisposes` |
| `SnapshotsAreFresh` | `Spec => []SnapshotIsFresh` |
| `PromiseIsKept` | `Spec => KeepsPromise` |
| `PromiseIsKeptInFull` | `OneReviewer`: `Spec /\ [](lock \notin stale) => Promise!Spec` |
| `RejectionsHold` | `OneReviewer`: `Spec => []RejectedIsNotApplied` |

Any number of commands, any batches of any length, any sets of names, addresses and MACs; the assumptions of
`Tables` and `Inventory` are that the kinds of processes are disjoint, that batches are sequences of
rows, and that NULL is no value and no resolution.

*`IInv`.* That a transaction keeps curated values must follow from what the process had
read, so the invariant says what a process knows at each phase:

- `Sound(db)`, `Sound(work)`: MACs and proposals refer to assets that exist (the foreign keys);
- `LockHeldInTxn`, `WorkExtendsDb`: only a process in its transaction has the lock, and assets
  are only added;
- `PlanUsable`, `AddUsable`, `ReviewUsable`: what a process holds is well formed for
  its next action;
- `PlanFresh`: unless the process is in `stale`, its plan is the resolver's
  answer on the *current* commit and what it knows of the asset is what is there. `stale` is
  a history variable: a commit puts in it every other process that holds a read;
- `TxnKeepsCurated`, `ConflictOnlyByRace`.

The lemmas under it are about the operators: what a plan of `Resolve` implies
(an insert shares no MAC, address or name with anything known; an update
names a known asset, and no other one shares a MAC or the address), what `ApplyRow` preserves, when it cannot conflict, and
that it leaves protected fields alone. Each action then keeps each conjunct.
Because `ApplyNext` resolves against `work` it is never stale, which is why the length of a batch does not
matter.

*`Attributed`.* Atomicity, journalling and the dispositions are about who wrote a row. The actions
are first sorted into seven kinds (`Quiet`, `Writes`, `Begins`, `CommitsBatch`, `Notes`, `AddsAsset`,
`Answers`), each with a lemma saying all that a step of its kind may change; from there on there is one step per
kind. `Attributed` says that a transaction only adds to the
commit it started from, under its own stamps (`TxnOnlyAdds`); that each row of a commit is a finished
ingest's or a reviewer's (`Settled`, of which `BatchIsAtomic` is a consequence: it speaks of ingests that have not
finished, not of the rows a finished Lansweeper import has skipped); that a proposal is known by its observation and
field (`Keyed`, which holds because a batch's rows are numbered, `Numbered`); that what a
reviewer holds is committed and still what the table has under its key, but for its resolution (`HeldIsCommitted`); that an answer on the
timeline is to a question that is not open any more (`AnsweredOnce`); and that
what a transaction has changed it has an entry for (`TxnIsJournalled`).

*Commits.* An action property is then a statement about the few kinds of step that change `db`. `OnlyRacesOverrule` is the
unconditional form of "the human disposes": the stale first row of a scan or of a NetBox import is the *only* way a
curated value is lost, which a bounded run cannot say. A Lansweeper import is not among them: its savepoint pins what it
read (`SnapshotsAreFresh`).

*The promise.* `PromiseIsKept` maps each commit to a step of `Curation` (a batch or an add to a `Discover`, an answer to
`Accept`, `Reject` or `Edit`) and everything else to a stutter, but for what the code does not keep: the batch of an overtaken
ingest is a `DiscoverBut` the fields it overrules, and the answer of a session whose question was answered
meanwhile is an `AnswerAgain`. It needs `TxnAsks` (a transaction adds open questions only) and holds for any number
of sessions. `PromiseIsKeptInFull` is the refinement without exceptions: with one session, `StillOpen` says that what it
holds is still open, and with no overtaken ingest nothing is overruled. `RejectionsHold` adds `AnswersStand`: the answer on the timeline
is the row's.

### `MonitorProofs`

| theorem | statement |
|---|---|
| `MonitorTypeCorrect` | `Spec => []TypeOK` |
| `LastStaysRecorded` | `Spec => []LastIsRecorded` |
| `EventsGoOutFirst` | `Spec => EventsAreAnnounced` |
| `IntervalsAreKept` | `Alone`: `Spec => IntervalIsKept` |
| `DaemonIsAnAlarm` | `Alone`, `Runnable`: `Spec => KeepsPromise` |

For any runners, checks, sinks, intervals and slots. The first three hold however cycles overlap. `Facts` says where a cycle is when it has
tasks, the lock or a time (`Timed`, `InCycle`); that a last status has its row in the commit and
in the transaction (`Recorded`), which pruning keeps because a cycle's time has come: what
its own clock finds too old is too old; and that a transaction has at most one new event per check, which is still being announced or which every place has
heard (`EventsArePending`).

With one runner, `OnTime` (a check in its cycle stays due until the commit) and `LastIsOld` (the transaction's last result is the
commit's, or has the cycle's time) give the intervals: of probes and of recorded results, each since the last *recorded*
one. A cycle that is killed leaves no result, so its probes are repeated as soon as the daemon is back, whatever the interval;
the theorem does not say otherwise. For the refinement of `Alarm`, `ReadIsLast` (the
status a check is judged by is the last one committed) and `AnswersAreJudged` say that when a cycle commits, each
of its checks goes down, comes up, comes back or stays, and a cycle that is killed committed nothing.

### `DumpProofs`

| theorem | statement |
|---|---|
| `DumpInvariance` | `Spec => []IInv` |
| `DumpTypeCorrect` | `Spec => []TypeOK` |
| `ReferencesAlwaysResolve` | `Spec => []ReferencesResolve` |
| `CorrectionsStay` | `Spec => []CorrectionsStayOnTheirAsset` |
| `DumpsRoundTrip` | `Spec => RoundTrips` |
| `OnlyCutsMisattribute` | `Spec => [](~cut => ImportsAreAttributed)` |

For any ids, values, setters and number of commits. `Sound` of a database is that rows fit their tables, references resolve and a
correction follows the entry it corrects, of the same asset (`Threaded`); each kind of commit keeps it. The buffer is not sound,
since it may be a cut, but the timeline is read last and in one SELECT, so it is threaded (`Read`).
An import fails if what it merges dangles or collides, so what it leaves is sound again, and
threaded because two timelines that are not empty collide: the merged one is the target's or the dump's. For the round trip, `OneMoment` says that a buffer read without a commit in between
is the source as it was, and `StillEmpty` that what was counted empty is still empty if nobody else wrote; then nothing dangles, because in one moment's database every
reference goes to a table that `TableOrder` has before it, or back within its own.

### `UpgradeProofs`

| theorem | statement |
|---|---|
| `UpgradeTypeCorrect` | `Spec => []TypeOK` |
| `TableMatchesVersion` | `Spec => []VersionIsApplied` |
| `MigrationsGoForward` | `Spec => VersionNeverFalls` |
| `InitLeavesItsSchema` | `Spec => []SchemaIsAsShipped` |
| `DataIsSafe` | `Single`: `Spec => []DataIsSnapshotted` |
| `SnapshotsAreWhatTheySay` | `~Overlapping`: `Spec => []SnapshotPrecedesDdl` |

For any migrations, releases, edited copies and processes. The first four hold however inits overlap: `RestIsApplied` says that of
what an init ships, all but what it still has to do is in the table from its own copy, whatever version it
read; the primary key of `_migrations` is what stops two inits from applying one migration twice. For the snapshots,
`VersionAsRead` says that with one init at a time nobody else changes the version between its reading and its copy, and
`Opened` that nobody removes the file it copies into (a pruner may: the copy then goes to a file without a name).
`UpgradeAssumption` says that a process is one command, as it is in the code.

### `DaemonControlProofs`

`DaemonTypeCorrect` for commands that overlap in any way; with `~Overlapping`, `DaemonIsRecorded` (`RunningIsRecorded`)
and, from it, `OneDaemonRuns` (`OneDaemon`), for any ids, starts and stops. `Facts` adds to the property that commands are alone
(`OneCommand`, `NoneBeside`); that a daemon which boots beside one that runs finds it in the file and will refuse
(`SeenByBooting`); that a start which found no daemon still finds none (`StartIsAlone`); and that while a stop
waits, the only daemon there can be is the one whose id it has read (`StopKnowsIt`), so the file it removes is no other's.

### `SweepProofs`

`TypesHold`, `LockHeldLocally` (`LockIsLocal`), `ScansAreAtomic` (`ScanIsAtomic`), for any hosts, ports,
threads and slots. Neither of the last two is inductive: `Course` adds that rows are pending
only while applying or, after an error, until the scan leaves, that applying begins only when every task is over (and no task begins after), and that
the scan's row is not finished before. A stage's step touches neither tables nor phase
(`StageKeepsFacts`), nor does an error touch tables or lock (`FailsKeepsFacts`); what it leaves of a transaction
is rolled back when the scan leaves. The rest
is one case per step of the transaction. That nothing at all is waited for with the lock in hand is *not* proved: it is
false (`Sweep_failed_apply`).

### `VaultProofs`

`VaultTypeCorrect`, `CredentialsStay` (`ChecksHaveCredentials`), `CredentialsAreNamed`
(`ChecksUseWhatWasNamed`), and, assuming `~Overlapping`, `SecretsAlwaysOpen`
(`SecretsOpen`). The first three hold however commands overlap. Their strengthening, `Facts`, says that ids
given out are not beyond the counter (`IdsGivenOut`), that an id is a key (`IdsAreKeys`), and
that what an enable has looked up may have gone but never means another credential
(`FoundStays`). For `SecretsOpen`, `Serial` adds that salt and verifier are set together (`SetTogether`, so that an
import brings both or neither), that at most one init is under way and no
password is set while it is (`OneInit`, `SetupIsFirst`), that until one is set there is nothing
to open (`NothingBefore`), and that whoever is unlocked has the stored verifier's key
(`UnlockedOpens`, `SaltedFirst`).

### `HostKeysProofs`

`HostKeysTypeCorrect`, `OnePinPerHost` (`OnePin`) and `ChangedKeysNeverAccepted` (`ChangedKeysAreRefused`), for any
hosts, keys and checks. `OnePin` is inductive with the types and `ShownIsKey`; `AddPin` looks and appends under one lock. A login is two
steps: what a connection has read of the file when it began may be outdated when the server's key arrives. So `ReadIsPinned` says that unless
an operator has edited the host's lines meanwhile, what it has read is still in the file, since no check ever removes a
line, and `AcceptedIsPinned` that what was accepted since the last edit is too. Where first use made the only
lines, `OnePin` makes all of that one key.

### Model-checked only

Liveness: `ScanSettles`, `CommandEnds` and `CyclesEnd` of the runs, `CommandsEnd` of `Inventory_desk`. They rest on
fairness, and so on ENABLED, which TLAPS does not reason about. The counterexamples
above are TLC's.

## Simplifications

- A NetBox import's page fetches are points between `ApplyNext`s where others may run; a
  failing fetch is a `Crash` (the transaction is rolled back either way).
- `BeginCycle` reads the clock and `list_due` in one step: they are adjacent and
  the SELECT is a snapshot of its own. Each SELECT of the inventory is one step,
  that of `list_identities` too.
- Dumps of a database with a master password carry both its salt and its verifier, or neither: `meta` is read in one
  SELECT. The verifier of a hand-made dump is not modelled.
- asyncssh is external: a connection trusts every line known_hosts has for the host when it begins, and compares after the key
  exchange and before it sends credentials. That the first connection's `connection_made` already has a server key is what
  the code relies on (`asyncssh_backend.py:146-148`); if it fires earlier the check fails ("server did not present a host key"), which in
  `HostKeys` is a `GiveUp`.
- A daemon's vault, if it opens at all, opens when the daemon starts.
- The notification log is assumed writable. Whether a send succeeds is left out: a failure is
  printed, the next sink is served and nothing depends on it.
- A scan's pings are one step (`SweepEnds`) whose result is any set of hosts. What a stage
  finds is left out of `Sweep`; the batch in `Inventory` is any the constants allow. Of mDNS
  only the browsing window is modelled; the records zeroconf collects in it are part of the batch.
- An export per behaviour, into a database of the same schema version; `meta` is
  left out of `Dump`, as its keys neither refer to anything nor are counted; what importing it does is in `Vault`. In `Dump` an
  asset's field is who set it, the value itself being irrelevant to what may go wrong.
- `langusta add` writes no timeline entry, in the code as in `Dump`'s `Added`.
- The PID file's `write_text` is one step: its instant of emptiness between truncation and write
  is not modelled. A child that `monitor start` spawned and that died is not a zombie.
- A snapshot's file that is removed while it is copied into is gone, unless another process has created one of that name
  since: then the copy is in it.
- The user's data in `Upgrade` is a set of rows that only grows.

## Not modelled

| part | why |
|---|---|
| Check implementations | I/O without state of its own; the answer is the choice of ok or fail, after any delay |
| Parsing of what the network says (`scan/oui.py`, `scan/snmp/auth.py`, ARP and SNMP output) | no state; the answer is the choice of a batch |
| SSH authentication, client protocol, stub | data classes and a test double |
| Search | a read-only query; its index is maintained by triggers inside the transactions modelled |
| `backup verify`, listings, `notify test`, SMTP settings | they read, or send one message, and change nothing |
| TUI rendering, platform services, release lints | no state of the system |
| SQLite's own failures (disk full, corruption) and the error path of a post-scan backup (`orchestrator.py:171-180`) | they are logged and nothing depends on them |
| `review_queue` after insertion | no operation in the program reads or resolves it |

## Plan

Built so far, in this order, most important behaviour first: `Identity`, `Provenance`, `Tables`,
`Inventory` and its promise `Curation`; `Monitor` and `Alarm`; `DaemonControl`;
`Upgrade`; `Vault`; `HostKeys`; the first proofs of the inventory, the vault and the host keys;
then `Dump` with the timeline's notes and corrections; the sinks, place-by-place announcements and the credential
cache of `Monitor`; `Sweep` and its proofs; the proofs of everything else.

Left on the model: `Resolve` against a reference definition on all small inventories (is an
ambiguity ever an artefact of order, does a repeated observation resolve to
what it created), and the scan's snapshot and the inventory's last commit in one module.

The proofs state every safety property of the runs. What is worth adding to them: the violated properties as theorems of the conditions
under which they do hold (`DownIsReported` with one runner and targets, `DumpsAreImportable` of an uncut dump).
