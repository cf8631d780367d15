------------------------------ MODULE Monitor -------------------------------
(***************************************************************************)
(* Monitoring cycles: monitor/runner.py run_once, the two commands that    *)
(* call it (`monitor daemon`, which loops, and `monitor run`), the tables  *)
(* of db/monitoring.py, and the operators who change checks meanwhile.     *)
(*                                                                         *)
(* A cycle is one transaction of one process, but an asyncio one: it reads *)
(* the due checks, prepares them in turn, probes them concurrently, takes  *)
(* the write lock when the first of them is recorded, and commits after    *)
(* the last.  What it read of a check is not read again, nor are the sinks *)
(* its notifications go to, one after the other and before the commit.     *)
(* Other processes run between any two of its steps and may be running a   *)
(* cycle themselves.                                                       *)
(*                                                                         *)
(* A database is a record, as in Tables: `work` is the lock holder's.      *)
(* Times are cycle numbers of a clock that ticks up to MaxClock.           *)
(***************************************************************************)
EXTENDS Integers, Sequences, FiniteSets, Nullable

CONSTANTS Daemons, Runs,     \* `monitor daemon` processes; `monitor run` ones
          Checks,            \* ids of monitoring_checks, naturals
          Cred,              \* per check: what its credential is worth
          CredId,            \* per check: which credential that is
          Addressless,       \* checks whose asset has no address at first
          Sinks,             \* ids of notification_sinks, positive naturals
          Webhooks,          \* those whose URL only the vault can decrypt
          Interval,          \* interval_seconds
          Retention,         \* check_results older than this are pruned
          MaxConcurrency,    \* probes in flight in one cycle
          MaxClock           \* bound of the model

Runners == Daemons \cup Runs

(* "none": an icmp, tcp or http check; "unusable": a credential of another *)
(* kind, which `monitor enable` does not look at; "corrupt": a secret the  *)
(* vault or the decoder raises on.                                         *)
CredStates == {"none", "good", "unusable", "corrupt"}

ASSUME MonitorAssumption ==
  /\ Checks \subseteq Nat
  /\ NULL \notin Nat \cup Runners \cup {"ok", "fail"}
  /\ Daemons \cap Runs = {}
  /\ Cred \in [Checks -> CredStates]
  /\ CredId \in [Checks -> Nat]
  /\ Addressless \subseteq Checks
  /\ Sinks \subseteq Nat \ {0} /\ Webhooks \subseteq Sinks
  /\ Interval \in Nat \ {0} /\ Retention \in Nat
  /\ MaxConcurrency \in Nat \ {0} /\ MaxClock \in Nat

VARIABLES
  db,         \* the last commit: the checks, reports, results, heartbeat, sinks
  work,       \* the lock holder's database
  lock,       \* who has the write lock, NULL if nobody
  clock,      \* the time
  phase,      \* of each runner
  vault,      \* runners that unlocked the credential vault when they started
  now,        \* when each runner's cycle began
  read,       \* last_status of each check as its cycle read it
  listed,     \* the sinks each cycle read
  job,        \* how far each check is in its cycle
  announced   \* what each runner's cycle, or its last, sent to the log and sinks

vars == <<db, work, lock, clock, phase, vault, now, read, listed, job, announced>>

Statuses == {"ok", "fail"}
Kinds    == {"failure", "recovery"}
Phases   == {"off", "ready", "listing", "preparing", "probing", "sleeping", "done", "failed", "dead"}
Jobs     == {"none", "config", "queued", "waiting", "probing", "failure",
             "recovery", "done", "error"}
SinkStates == {"none", "enabled", "disabled", "removed"}

(* Where notifications go: the log that is always on, and the sinks.       *)
LogFile == 0
Places  == {LogFile} \cup Sinks

EmptyDb ==
  [enabled |-> {}, addressless |-> Addressless,
   last |-> [c \in Checks |-> [at |-> NULL, status |-> NULL]],
   report |-> [c \in Checks |-> << >>], results |-> {}, heartbeat |-> NULL,
   sink |-> [s \in Sinks |-> "none"]]

-----------------------------------------------------------------------------
Init ==
  /\ db = EmptyDb /\ work = EmptyDb
  /\ lock = NULL
  /\ clock = 0
  /\ phase = [r \in Runners |-> "off"]
  /\ vault = {}
  /\ now = [r \in Runners |-> NULL]
  /\ read = [r \in Runners |-> [c \in Checks |-> NULL]]
  /\ listed = [r \in Runners |-> {}]
  /\ job = [r \in Runners |-> [c \in Checks |-> "none"]]
  /\ announced = {}

Goto(r, ph) == phase' = [phase EXCEPT ![r] = ph]
SetJob(r, c, j) == job' = [job EXCEPT ![r][c] = j]

(* What `r` sees, and whether it can write.                                *)
Seen(r)     == IF lock = r THEN work ELSE db
CanWrite(r) == lock \in {NULL, r}

(* A write of `r`; the first one takes the lock.                           *)
Write(r, d) ==
  /\ lock' = r
  /\ work' = d
  /\ UNCHANGED db

NoWrite == UNCHANGED <<db, work, lock>>

Commit(d) ==
  /\ db' = d
  /\ work' = EmptyDb
  /\ lock' = NULL

Rollback(r) ==
  IF lock = r THEN lock' = NULL /\ work' = EmptyDb /\ UNCHANGED db ELSE NoWrite

-----------------------------------------------------------------------------
(* record_result and _write_monitor_event.                                 *)

Record(d, r, c, status) ==
  [d EXCEPT !.results = @ \cup {<<c, now[r], status>>},
            !.last[c] = [at |-> now[r], status |-> status]]

\* Faulty: a check that is down is reported down again.
TransitionAnew(prior, status) ==
  IF status = "fail" THEN "failure" ELSE IF prior = "fail" THEN "recovery" ELSE "done"

(* The transition from the status the cycle read to the one it probed.     *)
Transition(prior, status) ==
  CASE prior \in {NULL, "ok"} /\ status = "fail" -> "failure"
    [] prior = "fail" /\ status = "ok" -> "recovery"
    [] OTHER -> "done"

\* Faulty: an entry whatever happened.
ReportAlways(d, c, kind) == [d EXCEPT !.report[c] = Append(@, kind)]

Report(d, c, kind) ==
  IF kind = "done" THEN d ELSE [d EXCEPT !.report[c] = Append(@, kind)]

\* Faulty: every cycle runs every check.
DueAlways(d, c, t) == c \in d.enabled

Due(d, c, t) ==
  /\ c \in d.enabled
  /\ d.last[c].at # NULL => t - d.last[c].at >= Interval

-----------------------------------------------------------------------------
(* One cycle.                                                              *)

(* has_cred_backed_check decides once, before the first cycle, whether the *)
(* vault is unlocked.                                                      *)
Start(r) ==
  /\ phase[r] = "off"
  /\ Goto(r, "ready")
  /\ vault' = IF \E c \in db.enabled : Cred[c] # "none" THEN vault \cup {r} ELSE vault
  /\ NoWrite
  /\ UNCHANGED <<clock, now, read, listed, job, announced>>

BeginCycle(r) ==
  /\ phase[r] = "ready"
  /\ Goto(r, "listing")
  /\ now' = [now EXCEPT ![r] = clock]
  /\ read' = [read EXCEPT ![r] = [c \in Checks |-> db.last[c].status]]
  /\ job' = [job EXCEPT ![r] =
               [c \in Checks |-> IF Due(db, c, clock) THEN "config" ELSE "none"]]
  /\ announced' = {n \in announced : n[5] # r}
  /\ NoWrite
  /\ UNCHANGED <<clock, vault, listed>>

EnabledSinks(d) == {s \in Sinks : d.sink[s] = "enabled"}

(* "Load sinks up-front": a SELECT of its own.                             *)
ListSinks(r) ==
  /\ phase[r] = "listing"
  /\ Goto(r, "preparing")
  /\ listed' = [listed EXCEPT ![r] = EnabledSinks(db)]
  /\ NoWrite
  /\ UNCHANGED <<clock, vault, now, read, job, announced>>

(* Checks are prepared in the order of their ids.                          *)
NextToPrepare(r, c) ==
  /\ phase[r] = "preparing"
  /\ job[r][c] = "config"
  /\ \A e \in Checks : job[r][e] = "config" => c <= e

(* cred_cache: a credential an earlier check of this cycle had decoded is  *)
(* handed over as it is, whatever this check's kind needs.                 *)
Cached(r, c) ==
  /\ Cred[c] # "none"
  /\ \E e \in Checks : CredId[e] = CredId[c] /\ Cred[e] = "good" /\ job[r][e] = "queued"

Usable(r, c) ==
  Cred[c] = "none" \/ (r \in vault /\ (Cred[c] = "good" \/ Cached(r, c)))
Undecodable(r, c) == Cred[c] = "corrupt" /\ r \in vault /\ ~Cached(r, c)

Prepare(r, c) ==
  /\ NextToPrepare(r, c)
  /\ Usable(r, c)
  /\ SetJob(r, c, "queued")
  /\ NoWrite
  /\ UNCHANGED <<clock, phase, vault, now, read, listed, announced>>

(* _ConfigError: a failed result, and no event.                            *)
ConfigError(r, c) ==
  /\ NextToPrepare(r, c)
  /\ ~Usable(r, c) /\ ~Undecodable(r, c)
  /\ CanWrite(r)
  /\ Write(r, Record(Seen(r), r, c, "fail"))
  /\ SetJob(r, c, "done")
  /\ UNCHANGED <<clock, phase, vault, now, read, listed, announced>>

StartProbing(r) ==
  /\ phase[r] = "preparing"
  /\ \A c \in Checks : job[r][c] # "config"
  /\ Goto(r, "probing")
  /\ NoWrite
  /\ UNCHANGED <<clock, vault, now, read, listed, job, announced>>

(* _run_one up to the semaphore.                                           *)
FindTarget(r, c) ==
  /\ phase[r] = "probing"
  /\ job[r][c] = "queued"
  /\ c \notin Seen(r).addressless
  /\ SetJob(r, c, "waiting")
  /\ NoWrite
  /\ UNCHANGED <<clock, phase, vault, now, read, listed, announced>>

NoTarget(r, c) ==
  /\ phase[r] = "probing"
  /\ job[r][c] = "queued"
  /\ c \in Seen(r).addressless
  /\ CanWrite(r)
  /\ Write(r, Record(Seen(r), r, c, "fail"))
  /\ SetJob(r, c, "done")
  /\ UNCHANGED <<clock, phase, vault, now, read, listed, announced>>

\* Faulty: a slot is not given back.
InFlightEver(r) == {c \in Checks : job[r][c] \notin {"none", "queued", "waiting"}}

InFlight(r) == {c \in Checks : job[r][c] = "probing"}

Probe(r, c) ==
  /\ job[r][c] = "waiting"
  /\ Cardinality(InFlight(r)) < MaxConcurrency
  /\ SetJob(r, c, "probing")
  /\ NoWrite
  /\ UNCHANGED <<clock, phase, vault, now, read, listed, announced>>

(* An answer, an exception or the 30 second timeout; the semaphore is      *)
(* released, and result and event are written without another await.  A    *)
(* probe with somebody else's credential object is an exception.           *)
Answer(r, c, status) ==
  /\ job[r][c] = "probing"
  /\ Cred[c] \notin {"none", "good"} => status = "fail"
  /\ CanWrite(r)
  /\ LET kind == Transition(read[r][c], status)
     IN  /\ Write(r, Report(Record(Seen(r), r, c, status), c, kind))
         /\ SetJob(r, c, kind)
  /\ UNCHANGED <<clock, phase, vault, now, read, listed, announced>>

(* The task cannot write: its exception is counted and goes no further.    *)
TaskLocked(r, c) ==
  /\ ~CanWrite(r)
  /\ \/ job[r][c] = "probing"
     \/ phase[r] = "probing" /\ job[r][c] = "queued" /\ c \in Seen(r).addressless
  /\ SetJob(r, c, "error")
  /\ NoWrite
  /\ UNCHANGED <<clock, phase, vault, now, read, listed, announced>>

(* dispatch: to the log file and then to each sink that was read, before   *)
(* the commit; a sink that fails is skipped.  Without the vault a webhook  *)
(* has no URL and nothing is sent.                                         *)
Reached(r) == {LogFile} \cup (IF r \in vault THEN listed[r] ELSE listed[r] \ Webhooks)

Notice(r, c, kind, p) == <<p, c, kind, now[r], r>>

Unannounced(r, c) == {p \in Reached(r) : Notice(r, c, job[r][c], p) \notin announced}

Announce(r, c) ==
  /\ job[r][c] \in Kinds
  /\ \E p \in Unannounced(r, c) :
       /\ \A q \in Unannounced(r, c) : p <= q
       /\ announced' = announced \cup {Notice(r, c, job[r][c], p)}
       /\ IF Unannounced(r, c) = {p} THEN SetJob(r, c, "done") ELSE UNCHANGED job
  /\ NoWrite
  /\ UNCHANGED <<clock, phase, vault, now, read, listed>>

\* Faulty: notifications are not waited for.
GatheredEarly(r) ==
  /\ phase[r] = "probing"
  /\ \A c \in Checks : job[r][c] \in {"none", "done", "error"} \cup Kinds

Gathered(r) ==
  /\ phase[r] = "probing"
  /\ \A c \in Checks : job[r][c] \in {"none", "done", "error"}

\* Faulty: off by one.
PruneEarly(d, t) == [d EXCEPT !.results = {x \in @ : x[2] > t - Retention}]

Prune(d, t) == [d EXCEPT !.results = {x \in @ : x[2] >= t - Retention}]

CycleOver(r, ok) ==
  /\ Goto(r, IF r \in Daemons THEN "sleeping" ELSE IF ok THEN "done" ELSE "failed")
  /\ job' = [job EXCEPT ![r] = [c \in Checks |-> "none"]]
  /\ UNCHANGED <<clock, vault, now, read, listed, announced>>

EndCycle(r) ==
  /\ Gathered(r)
  /\ CanWrite(r)
  /\ Commit(Prune([Seen(r) EXCEPT !.heartbeat = now[r]], now[r]))
  /\ CycleOver(r, TRUE)

(* An exception outside the tasks ends the cycle: a secret that cannot be  *)
(* decoded, or the lock when a configuration failure or the heartbeat is   *)
(* to be written.                                                          *)
CycleFails(r) ==
  /\ \/ \E c \in Checks : NextToPrepare(r, c) /\ Undecodable(r, c)
     \/ \E c \in Checks : NextToPrepare(r, c) /\ ~Usable(r, c) /\ ~CanWrite(r)
     \/ Gathered(r) /\ ~CanWrite(r)
  /\ Rollback(r)
  /\ CycleOver(r, FALSE)

(* The daemon sleeps for a tick at least.                                  *)
Wake(r) ==
  /\ phase[r] = "sleeping"
  /\ clock > now[r]
  /\ Goto(r, "ready")
  /\ NoWrite
  /\ UNCHANGED <<clock, vault, now, read, listed, job, announced>>

(* A signal or a crash: the transaction is gone, the notifications are not.*)
Kill(r) ==
  /\ phase[r] \in {"ready", "listing", "preparing", "probing", "sleeping"}
  /\ Goto(r, "dead")
  /\ Rollback(r)
  /\ job' = [job EXCEPT ![r] = [c \in Checks |-> "none"]]
  /\ vault' = vault \ {r}
  /\ UNCHANGED <<clock, now, read, listed, announced>>

Restart(r) ==
  /\ phase[r] = "dead"
  /\ Goto(r, "off")
  /\ NoWrite
  /\ UNCHANGED <<clock, vault, now, read, listed, job, announced>>

-----------------------------------------------------------------------------
(* Operators and scans, each a transaction of one statement.               *)

EnableCheck(c) ==
  /\ c \notin db.enabled
  /\ lock = NULL
  /\ Commit([db EXCEPT !.enabled = @ \cup {c}])
  /\ UNCHANGED <<clock, phase, vault, now, read, listed, job, announced>>

DisableCheck(c) ==
  /\ c \in db.enabled
  /\ lock = NULL
  /\ Commit([db EXCEPT !.enabled = @ \ {c}])
  /\ UNCHANGED <<clock, phase, vault, now, read, listed, job, announced>>

(* A scan gives the asset of a check its first address.                    *)
AddressFound(c) ==
  /\ c \in db.addressless
  /\ lock = NULL
  /\ Commit([db EXCEPT !.addressless = @ \ {c}])
  /\ UNCHANGED <<clock, phase, vault, now, read, listed, job, announced>>

(* notify add-*, notify disable and notify rm; nothing enables a sink      *)
(* again, and an id is not given twice.                                    *)
SinkBecomes(s, from, to) ==
  /\ db.sink[s] \in from
  /\ lock = NULL
  /\ Commit([db EXCEPT !.sink[s] = to])
  /\ UNCHANGED <<clock, phase, vault, now, read, listed, job, announced>>

AddSink(s)     == SinkBecomes(s, {"none"}, "enabled")
DisableSink(s) == SinkBecomes(s, {"enabled"}, "disabled")
RemoveSink(s)  == SinkBecomes(s, {"enabled", "disabled"}, "removed")

Tick ==
  /\ clock < MaxClock
  /\ clock' = clock + 1
  /\ UNCHANGED <<db, work, lock, phase, vault, now, read, listed, job, announced>>

-----------------------------------------------------------------------------
Task(r, c) ==
  \/ Prepare(r, c) \/ ConfigError(r, c) \/ FindTarget(r, c) \/ NoTarget(r, c)
  \/ Probe(r, c) \/ TaskLocked(r, c) \/ Announce(r, c)
  \/ \E status \in Statuses : Answer(r, c, status)

Cycle(r) ==
  \/ ListSinks(r) \/ StartProbing(r) \/ EndCycle(r) \/ CycleFails(r)
  \/ \E c \in Checks : Task(r, c)

Runner(r) ==
  Start(r) \/ BeginCycle(r) \/ Cycle(r) \/ Wake(r) \/ Kill(r) \/ Restart(r)

Operator(c) == EnableCheck(c) \/ DisableCheck(c) \/ AddressFound(c)

Notifying(s) == AddSink(s) \/ DisableSink(s) \/ RemoveSink(s)

Next ==
  \/ Tick
  \/ \E r \in Runners : Runner(r)
  \/ \E c \in Checks : Operator(c)
  \/ \E s \in Sinks : Notifying(s)

Spec == Init /\ [][Next]_vars

(* A running process is scheduled, a probe answers or times out, and a     *)
(* statement that waits for the lock gives up; nothing makes an operator   *)
(* act, a daemon start or a clock tick.                                    *)
FairSpec == Spec /\ \A r \in Runners : WF_vars(Cycle(r))

-----------------------------------------------------------------------------
Databases ==
  [enabled: SUBSET Checks, addressless: SUBSET Checks,
   last: [Checks -> [at: Nat \cup {NULL}, status: Statuses \cup {NULL}]],
   report: [Checks -> Seq(Kinds)], results: SUBSET (Checks \X Nat \X Statuses),
   heartbeat: Nat \cup {NULL}, sink: [Sinks -> SinkStates]]

TypeOK ==
  /\ db \in Databases /\ work \in Databases
  /\ lock \in Runners \cup {NULL}
  /\ clock \in Nat
  /\ phase \in [Runners -> Phases]
  /\ vault \subseteq Runners
  /\ now \in [Runners -> Nat \cup {NULL}]
  /\ read \in [Runners -> [Checks -> Statuses \cup {NULL}]]
  /\ job \in [Runners -> [Checks -> Jobs]]
  /\ listed \in [Runners -> SUBSET Sinks]
  /\ announced \subseteq Places \X Checks \X Kinds \X Nat \X Runners

(* No event reaches a timeline before it reached the notifications log and *)
(* every sink that was enabled when the cycle began and can be reached: a  *)
(* cycle that dies before its commit announces again, and none that        *)
(* commits has left a place out, whatever is done to the sinks meanwhile.  *)
Heard(r, c, kind, places) == \A p \in places : Notice(r, c, kind, p) \in announced

Reporting(c) == db'.report[c] # db.report[c]
Reported(c)  == db'.report[c][Len(db'.report[c])]

EventsAreAnnounced ==
  [][\A c \in Checks : Reporting(c) => Heard(lock, c, Reported(c), Reached(lock))]_vars

(* What the check's own row says of its last run is in check_results too,  *)
(* however cycles overlap, until it is older than the retention.           *)
LastIsRecorded ==
  \A c \in Checks :
    LET l == db.last[c]
    IN  l.at # NULL /\ l.at >= clock - Retention => <<c, l.at, l.status>> \in db.results

(* A lone daemon neither probes a check nor records a result of it before  *)
(* the interval since its last recorded result is over, whatever is killed *)
(* and started again, disabled and enabled.  A cycle that is killed leaves *)
(* nothing recorded: what it has probed is probed again at once, and this  *)
(* says nothing against it.                                                *)
Elapsed(last, t) == last # NULL => t - last >= Interval

IntervalIsKept ==
  [][\A c \in Checks :
       /\ \A r \in Runners : job'[r][c] = "probing" => Elapsed(db.last[c].at, now'[r])
       /\ db'.last[c].at # db.last[c].at => Elapsed(db.last[c].at, db'.last[c].at)]_vars

(* The daemon on its own, with checks it can run, is an alarm.             *)
Promise == INSTANCE Alarm WITH status <- [c \in Checks |-> db.last[c].status],
                               report <- db.report
KeepsPromise == Promise!Spec

(* A cycle that has begun ends, with few slots and many probes, unless it  *)
(* is killed.                                                              *)
CyclesEnd ==
  \A r \in Runners : phase[r] \in {"listing", "preparing", "probing"} ~>
                     phase[r] \notin {"listing", "preparing", "probing"}

-----------------------------------------------------------------------------
(* What documents say and the program does not do.                         *)

(* run_once's docstring: "On state transitions (ok<->fail), writes a       *)
(* `monitor_event` timeline entry": when a check that has a target and the *)
(* credential it needs was probed and found down, the last word on its     *)
(* timeline is that it failed.                                             *)
DownIsReported ==
  [][\A c \in Checks :
       /\ db'.last[c] # db.last[c] /\ db'.last[c].status = "fail"
       /\ c \notin db.addressless /\ Cred[c] = "none"
       => /\ db'.report[c] # << >>
          /\ db'.report[c][Len(db'.report[c])] = "failure"]_vars

(* "Heartbeat must land even on a partially-failed cycle": unless it is    *)
(* killed, a daemon's cycle leaves its heartbeat.                          *)
HeartbeatLands ==
  [][\A r \in Daemons :
       phase[r] \in {"preparing", "probing"} /\ phase'[r] = "sleeping" =>
         db'.heartbeat = now[r]]_vars

(* notify add-webhook's docstring: "Monitor events POST JSON to this URL": *)
(* every event is posted to every webhook that was there when the cycle    *)
(* began.                                                                  *)
WebhooksAreNotified ==
  [][\A c \in Checks :
       Reporting(c) => Heard(lock, c, Reported(c), listed[lock])]_vars

(* A credential of another kind is a configuration error (runner.py's      *)
(* "requires one of"): no check is probed with one.                        *)
WrongKindIsRefused ==
  \A r \in Runners, c \in Checks :
    Cred[c] = "unusable" => job[r][c] \notin {"queued", "waiting", "probing"}
=============================================================================
