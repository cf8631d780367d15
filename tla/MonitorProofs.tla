--------------------------- MODULE MonitorProofs ----------------------------
(***************************************************************************)
(* For any runners, checks, sinks, intervals and slots: events are         *)
(* announced before they are committed and last results keep their rows,   *)
(* however cycles overlap.  For a daemon on its own: no check runs early,  *)
(* and if it can run them all, it is an alarm.                             *)
(***************************************************************************)
EXTENDS Monitor, SequenceTheorems, TLAPS

(* A cycle has a time, which has come; its tasks and its transaction are   *)
(* its own.                                                                *)
Timed ==
  /\ \A r \in Runners :
       phase[r] \in {"listing", "preparing", "probing", "sleeping"} => now[r] \in Nat
  /\ \A r \in Runners : now[r] # NULL => now[r] <= clock

InCycle ==
  /\ \A r \in Runners, c \in Checks :
       /\ job[r][c] # "none" => phase[r] \in {"listing", "preparing", "probing"}
       /\ job[r][c] \notin {"none", "config"} => phase[r] \in {"preparing", "probing"}
  /\ lock # NULL => phase[lock] \in {"preparing", "probing"}

Recorded(d) ==
  \A c \in Checks :
    LET l == d.last[c]
    IN  l.at # NULL /\ l.at >= clock - Retention => <<c, l.at, l.status>> \in d.results

(* What a transaction has added to a timeline: at most one event of each   *)
(* check, which is being announced or has been.                            *)
EventIsPending(r, c) ==
  \/ work.report[c] = db.report[c]
  \/ \E kind \in Kinds :
       /\ work.report[c] = Append(db.report[c], kind)
       /\ \/ job[r][c] = kind
          \/ job[r][c] = "done" /\ Heard(r, c, kind, Reached(r))

EventsArePending == \A r \in Runners, c \in Checks : lock = r => EventIsPending(r, c)

Facts ==
  /\ TypeOK /\ Timed /\ InCycle
  /\ Recorded(db) /\ Recorded(work)
  /\ EventsArePending

-----------------------------------------------------------------------------
(* One runner.                                                             *)

Alone == \A r, s \in Runners : r = s

(* A check in its cycle is due, and stays so until the cycle commits.      *)
OnTime ==
  \A r \in Runners, c \in Checks :
    job[r][c] # "none" /\ db.last[c].at # NULL => now[r] - db.last[c].at >= Interval

LastIsOld ==
  lock # NULL =>
    \A c \in Checks :
      \/ work.last[c] = db.last[c]
      \/ job[lock][c] # "none" /\ work.last[c].at = now[lock]

Punctual == OnTime /\ LastIsOld

-----------------------------------------------------------------------------
(* One runner, and checks it can run.                                      *)

Runnable == Addressless = {} /\ \A c \in Checks : Cred[c] = "none"

ReadIsLast ==
  \A r \in Runners, c \in Checks : job[r][c] # "none" => read[r][c] = db.last[c].status

Judged(c, status) ==
  LET kind == Transition(db.last[c].status, status)
  IN  /\ work.last[c].status = status
      /\ work.report[c] = IF kind = "done" THEN db.report[c] ELSE Append(db.report[c], kind)

(* A check has been answered in this transaction, and judged by the last   *)
(* status committed, or nothing was written about it.                      *)
AnswersAreJudged ==
  /\ db.addressless = {} /\ work.addressless = {}
  /\ \A r \in Runners, c \in Checks : job[r][c] \in Kinds \cup {"done"} => lock = r
  /\ lock # NULL =>
       \A c \in Checks :
         \/ work.last[c] = db.last[c] /\ work.report[c] = db.report[c]
         \/ job[lock][c] \in Kinds \cup {"done"} /\ \E status \in Statuses : Judged(c, status)

Alarming == ReadIsLast /\ AnswersAreJudged

-----------------------------------------------------------------------------
(* The writes of a cycle, and types.                                       *)

(* The database begins well formed.                                        *)
LEMMA EmptyDbType == EmptyDb \in Databases
BY MonitorAssumption DEF EmptyDb, Databases, SinkStates

(* Recording a result keeps the database's shape.                          *)
LEMMA RecordType ==
  ASSUME NEW d \in Databases, NEW r \in Runners, NEW c \in Checks,
         NEW status \in Statuses, now[r] \in Nat
  PROVE  Record(d, r, c, status) \in Databases
<1> DEFINE last    == [d.last EXCEPT ![c] = [at |-> now[r], status |-> status]]
           results == d.results \cup {<<c, now[r], status>>}
<1>1. last \in [Checks -> [at: Nat \cup {NULL}, status: Statuses \cup {NULL}]]
  BY DEF Databases
<1>2. results \in SUBSET (Checks \X Nat \X Statuses)
  BY DEF Databases
<1>3. Record(d, r, c, status) = [d EXCEPT !.results = results, !.last = last]
  BY DEF Record, Databases
<1> HIDE DEF last, results
<1> QED BY <1>1, <1>2, <1>3 DEF Databases

(* Reporting a transition keeps the database's shape.                      *)
LEMMA ReportType ==
  ASSUME NEW d \in Databases, NEW c \in Checks, NEW kind \in Kinds \cup {"done"}
  PROVE  Report(d, c, kind) \in Databases
<1>1. CASE kind \in Kinds
  <2> DEFINE report == [d.report EXCEPT ![c] = Append(@, kind)]
  <2>1. Append(d.report[c], kind) \in Seq(Kinds)
    BY <1>1, AppendProperties DEF Databases
  <2>2. report \in [Checks -> Seq(Kinds)]
    BY <2>1 DEF Databases
  <2>3. Report(d, c, kind) = [d EXCEPT !.report = report]
    BY <1>1 DEF Report, Databases, Kinds
  <2> HIDE DEF report
  <2> QED BY <2>2, <2>3 DEF Databases
<1>2. CASE kind = "done"
  BY <1>2 DEF Report
<1> QED BY <1>1, <1>2

(* Pruning keeps the database's shape.                                     *)
LEMMA PruneType ==
  ASSUME NEW d \in Databases, NEW t \in Nat
  PROVE  Prune([d EXCEPT !.heartbeat = t], t) \in Databases
BY DEF Prune, Databases

(* What a result makes of the status before it.                            *)
LEMMA TransitionType ==
  ASSUME NEW prior, NEW status
  PROVE  Transition(prior, status) \in Kinds \cup {"done"}
BY DEF Transition, Kinds

(* What a cycle sees is a database.                                        *)
LEMMA SeenType == ASSUME TypeOK, NEW r PROVE Seen(r) \in Databases
BY DEF Seen, TypeOK

(* What the invariant says of one runner's place in its cycle.             *)
Typed == TypeOK /\ Timed /\ InCycle

(* Nobody runs yet.                                                        *)
LEMMA InitTyped == Init => Typed
BY EmptyDbType, MonitorAssumption
   DEF Init, Typed, TypeOK, Timed, InCycle, Phases, Jobs

(* The steps that lead into a cycle keep the types.                        *)
LEMMA BeginKeepsTyped ==
  ASSUME Typed, NEW r \in Runners,
         Start(r) \/ BeginCycle(r) \/ ListSinks(r) \/ Wake(r) \/ Restart(r)
  PROVE  Typed'
<1> USE MonitorAssumption
    DEF Typed, TypeOK, Timed, InCycle, Phases, Jobs, Goto, NoWrite
<1>1. CASE Start(r)
  BY <1>1 DEF Start
<1>2. CASE BeginCycle(r)
  <2>1. \A c \in Checks : db.last[c].status \in Statuses \cup {NULL}
    BY DEF Databases
  <2> QED BY <1>2, <2>1 DEF BeginCycle
<1>3. CASE ListSinks(r)
  BY <1>3 DEF ListSinks, EnabledSinks
<1>4. CASE Wake(r)
  BY <1>4 DEF Wake
<1>5. CASE Restart(r)
  BY <1>5 DEF Restart
<1> QED BY <1>1, <1>2, <1>3, <1>4, <1>5

(* A task's step goes on with one check, and writes or does not.           *)
JobGoesOn(r, c) == job' = job \/ \E j \in Jobs : SetJob(r, c, j)

(* What one task of a cycle may change: its own job, and the transaction   *)
(* it has or may open.                                                     *)
LEMMA TaskSteps ==
  ASSUME Typed, NEW r \in Runners, NEW c \in Checks, Task(r, c)
  PROVE  /\ phase[r] \in {"preparing", "probing"}
         /\ JobGoesOn(r, c)
         /\ NoWrite \/ (CanWrite(r) /\ \E d \in Databases : Write(r, d))
         /\ announced' \in SUBSET (Places \X Checks \X Kinds \X Nat \X Runners)
         /\ UNCHANGED <<clock, phase, vault, now, read, listed>>
<1>1. phase[r] \in {"preparing", "probing"} /\ now[r] \in Nat
  BY DEF Typed, TypeOK, Timed, InCycle, Task, Prepare, ConfigError, NextToPrepare,
         FindTarget, NoTarget, Probe, TaskLocked, Announce, Answer, Kinds
<1>2. Seen(r) \in Databases /\ announced \in SUBSET (Places \X Checks \X Kinds \X Nat \X Runners)
  BY SeenType DEF Typed, TypeOK
<1>3. CASE Prepare(r, c) \/ FindTarget(r, c) \/ Probe(r, c) \/ TaskLocked(r, c)
  BY <1>1, <1>2, <1>3 DEF Prepare, FindTarget, Probe, TaskLocked, JobGoesOn, Jobs
<1>4. CASE ConfigError(r, c) \/ NoTarget(r, c)
  <2>1. Record(Seen(r), r, c, "fail") \in Databases
    BY <1>1, <1>2, RecordType DEF Statuses
  <2> QED BY <1>1, <1>2, <1>4, <2>1 DEF ConfigError, NoTarget, JobGoesOn, Jobs
<1>5. CASE Announce(r, c)
  <2>1. PICK p \in Unannounced(r, c) :
          /\ announced' = announced \cup {Notice(r, c, job[r][c], p)}
          /\ SetJob(r, c, "done") \/ UNCHANGED job
    BY <1>5 DEF Announce
  <2>2. p \in Places /\ job[r][c] \in Kinds
    BY <1>5 DEF Announce, Unannounced, Reached, Places, Typed, TypeOK
  <2>3. Notice(r, c, job[r][c], p) \in Places \X Checks \X Kinds \X Nat \X Runners
    BY <1>1, <2>2 DEF Notice
  <2> QED BY <1>1, <1>2, <1>5, <2>1, <2>3 DEF Announce, JobGoesOn, Jobs
<1>6. ASSUME NEW status \in Statuses, Answer(r, c, status)
      PROVE  /\ JobGoesOn(r, c)
             /\ CanWrite(r) /\ \E d \in Databases : Write(r, d)
             /\ UNCHANGED <<announced, clock, phase, vault, now, read, listed>>
  <2> DEFINE kind == Transition(read[r][c], status)
             d    == Report(Record(Seen(r), r, c, status), c, kind)
  <2>1. d \in Databases
    BY <1>1, <1>2, RecordType, ReportType, TransitionType
  <2>2. kind \in Jobs
    BY TransitionType DEF Kinds, Jobs
  <2>3. Write(r, d) /\ SetJob(r, c, kind)
    BY <1>6 DEF Answer
  <2> HIDE DEF kind, d
  <2> QED BY <1>6, <2>1, <2>2, <2>3 DEF Answer, JobGoesOn
<1> QED BY <1>1, <1>2, <1>3, <1>4, <1>5, <1>6 DEF Task

(* So a task keeps the types.                                              *)
LEMMA TaskKeepsTyped ==
  ASSUME Typed, NEW r \in Runners, NEW c \in Checks, Task(r, c)
  PROVE  Typed'
<1> USE DEF Typed, TypeOK, Timed, InCycle
<1>1. \A q \in Runners, e \in Checks :
        job'[q][e] = job[q][e] \/ (q = r /\ job'[q][e] \in Jobs)
  BY TaskSteps DEF JobGoesOn, SetJob
<1>2. job' \in [Runners -> [Checks -> Jobs]]
  <2>1. ASSUME NEW j \in Jobs, SetJob(r, c, j)
        PROVE  job' \in [Runners -> [Checks -> Jobs]]
    <3>1. [job[r] EXCEPT ![c] = j] \in [Checks -> Jobs]
      OBVIOUS
    <3> QED BY <2>1, <3>1 DEF SetJob
  <2> QED BY <2>1, TaskSteps DEF JobGoesOn
<1>3. /\ db' \in Databases /\ work' \in Databases
      /\ lock' = lock \/ lock' = r
  BY TaskSteps DEF NoWrite, Write
<1> QED BY <1>1, <1>2, <1>3, TaskSteps

(* A cycle that is over leaves its runner with no tasks and no lock.       *)
LEMMA LeavesCycle ==
  ASSUME Typed, NEW r \in Runners, NEW ph \in Phases \ {"listing", "preparing", "probing"},
         ph = "sleeping" => now[r] \in Nat, Goto(r, ph),
         job' = [job EXCEPT ![r] = [c \in Checks |-> "none"]],
         lock' = NULL \/ (lock' = lock /\ lock # r),
         db' \in Databases, work' \in Databases, vault' \subseteq vault,
         UNCHANGED <<clock, now, read, listed, announced>>
  PROVE  Typed'
<1> USE MonitorAssumption DEF Typed, TypeOK
<1>1. /\ phase' \in [Runners -> Phases] /\ phase'[r] = ph
      /\ \A q \in Runners \ {r} : phase'[q] = phase[q]
  BY DEF Goto
<1>2. /\ job' \in [Runners -> [Checks -> Jobs]] /\ \A c \in Checks : job'[r][c] = "none"
      /\ \A q \in Runners \ {r} : job'[q] = job[q]
  BY DEF Jobs
<1>3. Timed'
  BY <1>1 DEF Timed
<1>4. InCycle'
  BY <1>1, <1>2 DEF InCycle
<1> QED BY <1>1, <1>2, <1>3, <1>4

(* The steps that end or leave a cycle keep the types.                     *)
LEMMA CycleKeepsTyped ==
  ASSUME Typed, NEW r \in Runners,
         StartProbing(r) \/ EndCycle(r) \/ CycleFails(r) \/ Kill(r)
  PROVE  Typed'
<1> USE MonitorAssumption DEF Typed, TypeOK, Timed, InCycle, Phases
<1>1. CASE StartProbing(r)
  BY <1>1 DEF StartProbing, Goto, NoWrite
<1>2. CASE EndCycle(r)
  <2>1. now[r] \in Nat
    BY <1>2 DEF EndCycle, Gathered
  <2>2. db' \in Databases /\ work' \in Databases /\ lock' = NULL
    BY <1>2, <2>1, PruneType, SeenType, EmptyDbType DEF EndCycle, Commit
  <2> QED BY <1>2, <2>1, <2>2, LeavesCycle DEF EndCycle, CycleOver
<1>3. CASE CycleFails(r)
  <2>1. phase[r] \in {"preparing", "probing"} /\ now[r] \in Nat
    BY <1>3 DEF CycleFails, NextToPrepare, Gathered
  <2>2. /\ db' = db /\ work' \in Databases
        /\ (lock' = lock /\ lock # r) \/ lock' = NULL
    BY <1>3, EmptyDbType DEF CycleFails, Rollback, NoWrite
  <2> QED BY <1>3, <2>1, <2>2, LeavesCycle DEF CycleFails, CycleOver
<1>4. CASE Kill(r)
  <2>1. /\ db' = db /\ work' \in Databases
        /\ (lock' = lock /\ lock # r) \/ lock' = NULL
    BY <1>4, EmptyDbType DEF Kill, Rollback, NoWrite
  <2> QED BY <1>4, <2>1, LeavesCycle DEF Kill
<1> QED BY <1>1, <1>2, <1>3, <1>4

(* What operators and scans commit leaves statuses, results and timelines  *)
(* alone.                                                                  *)
Outside == (\E c \in Checks : Operator(c)) \/ (\E s \in Sinks : Notifying(s))

Harmless ==
  /\ lock = NULL /\ lock' = NULL /\ work' = EmptyDb
  /\ db' \in Databases /\ db'.addressless \subseteq db.addressless
  /\ db'.last = db.last /\ db'.report = db.report /\ db'.results = db.results
  /\ UNCHANGED <<clock, phase, vault, now, read, listed, job, announced>>

(* What operators and the clock do leaves cycles alone.                    *)
LEMMA OutsideSteps ==
  ASSUME Typed, Outside
  PROVE  Harmless
<1> USE DEF Typed, TypeOK, Databases, Harmless
<1>1. ASSUME NEW c \in Checks, EnableCheck(c) PROVE Harmless
  BY <1>1 DEF EnableCheck, Commit
<1>2. ASSUME NEW c \in Checks, DisableCheck(c) PROVE Harmless
  BY <1>2 DEF DisableCheck, Commit
<1>3. ASSUME NEW c \in Checks, AddressFound(c) PROVE Harmless
  BY <1>3 DEF AddressFound, Commit
<1>4. ASSUME NEW s \in Sinks, NEW from, NEW to \in SinkStates, SinkBecomes(s, from, to)
      PROVE  Harmless
  <2>1. [db.sink EXCEPT ![s] = to] \in [Sinks -> SinkStates]
    OBVIOUS
  <2> QED BY <1>4, <2>1 DEF SinkBecomes, Commit
<1> QED
  BY <1>1, <1>2, <1>3, <1>4
  DEF Outside, Operator, Notifying, AddSink, DisableSink, RemoveSink, SinkStates

(* The types, and what they rest on, are inductive.                        *)
LEMMA TypedKept == Typed /\ [Next]_vars => Typed'
<1> SUFFICES ASSUME Typed, [Next]_vars PROVE Typed'
  OBVIOUS
<1>1. ASSUME NEW r \in Runners, Runner(r) PROVE Typed'
  BY <1>1, BeginKeepsTyped, CycleKeepsTyped, TaskKeepsTyped DEF Runner, Cycle
<1>2. CASE Outside
  BY <1>2, OutsideSteps, EmptyDbType DEF Harmless, Typed, TypeOK, Timed, InCycle
<1>3. CASE Tick
  BY <1>3 DEF Tick, Typed, TypeOK, Timed, InCycle
<1>4. CASE UNCHANGED vars
  BY <1>4 DEF vars, Typed, TypeOK, Timed, InCycle
<1> QED BY <1>1, <1>2, <1>3, <1>4 DEF Next, Outside

-----------------------------------------------------------------------------
(* What a task's step writes.                                              *)

Ended == Kinds \cup {"done"}

Written(r, c, status, kind) == Report(Record(Seen(r), r, c, status), c, kind)

GoesOn(r, c) ==
  /\ job[r][c] \notin Ended \cup {"none"}
  /\ \E j \in Jobs \ (Ended \cup {"none"}) : SetJob(r, c, j)
  /\ NoWrite /\ UNCHANGED announced

IsRecorded(r, c, status, kind) ==
  /\ CanWrite(r)
  /\ job[r][c] \notin Ended \cup {"none"}
  /\ Write(r, Written(r, c, status, kind))
  /\ SetJob(r, c, kind)
  /\ UNCHANGED announced

(* A task goes on, announces, or records one result of its check.          *)
LEMMA TaskCases ==
  ASSUME Typed, NEW r \in Runners, NEW c \in Checks, Task(r, c)
  PROVE  \/ GoesOn(r, c)
         \/ Announce(r, c)
         \/ ConfigError(r, c) /\ IsRecorded(r, c, "fail", "done")
         \/ NoTarget(r, c) /\ IsRecorded(r, c, "fail", "done")
         \/ \E status \in Statuses :
              IsRecorded(r, c, status, Transition(read[r][c], status))
<1>1. CASE Prepare(r, c) \/ FindTarget(r, c) \/ Probe(r, c) \/ TaskLocked(r, c)
  BY <1>1 DEF Prepare, NextToPrepare, FindTarget, Probe, TaskLocked, GoesOn, Ended, Kinds, Jobs
<1>2. CASE ConfigError(r, c) \/ NoTarget(r, c)
  BY <1>2 DEF ConfigError, NextToPrepare, NoTarget, IsRecorded, Ended, Kinds, Written, Report
<1>3. ASSUME NEW status \in Statuses, Answer(r, c, status)
      PROVE  IsRecorded(r, c, status, Transition(read[r][c], status))
  BY <1>3 DEF Answer, IsRecorded, Ended, Kinds, Written
<1> QED BY <1>1, <1>2, <1>3 DEF Task

(* What recording a result writes of its check, and nothing of another.    *)
LEMMA WhatIsWritten ==
  ASSUME Typed, NEW r \in Runners, NEW c \in Checks,
         NEW status \in Statuses, NEW kind \in Ended, now[r] \in Nat
  PROVE  /\ Written(r, c, status, kind).results = Seen(r).results \cup {<<c, now[r], status>>}
         /\ Written(r, c, status, kind).last[c] = [at |-> now[r], status |-> status]
         /\ kind = "done" => Written(r, c, status, kind).report[c] = Seen(r).report[c]
         /\ kind # "done" => Written(r, c, status, kind).report[c] = Append(Seen(r).report[c], kind)
         /\ \A e \in Checks \ {c} :
              /\ Written(r, c, status, kind).last[e] = Seen(r).last[e]
              /\ Written(r, c, status, kind).report[e] = Seen(r).report[e]
         /\ Written(r, c, status, kind).addressless = Seen(r).addressless
<1> DEFINE d == Seen(r)
<1>0. d \in Databases
  BY SeenType DEF Typed
<1> HIDE DEF d
<1> DEFINE x == Record(d, r, c, status)
<1>1. /\ x \in Databases
      /\ x.results = d.results \cup {<<c, now[r], status>>}
      /\ x.last[c] = [at |-> now[r], status |-> status]
      /\ \A e \in Checks \ {c} : x.last[e] = d.last[e]
      /\ x.report = d.report /\ x.addressless = d.addressless
  <2>1. x \in Databases
    BY <1>0, RecordType
  <2>2. /\ x.results = d.results \cup {<<c, now[r], status>>}
        /\ x.report = d.report /\ x.addressless = d.addressless
    BY <1>0 DEF Record, Databases
  <2>3. /\ x.last[c] = [at |-> now[r], status |-> status]
        /\ \A e \in Checks \ {c} : x.last[e] = d.last[e]
    BY <1>0 DEF Record, Databases
  <2> QED BY <2>1, <2>2, <2>3
<1> DEFINE w == Report(x, c, kind)
<1> HIDE DEF x
<1>2. /\ w.results = x.results /\ w.last = x.last /\ w.addressless = x.addressless
      /\ w.report[c] = IF kind = "done" THEN x.report[c] ELSE Append(x.report[c], kind)
      /\ \A e \in Checks \ {c} : w.report[e] = x.report[e]
  <2>1. CASE kind = "done"
    BY <2>1 DEF Report
  <2>2. CASE kind # "done"
    BY <1>1, <2>2 DEF Report, Databases
  <2> QED BY <2>1, <2>2
<1> HIDE DEF w
<1>3. Written(r, c, status, kind) = w
  BY DEF Written, w, x, d
<1> QED BY <1>1, <1>2, <1>3 DEF d

-----------------------------------------------------------------------------
(* Results.                                                                *)

(* An empty database has no last status to account for.                    *)
LEMMA EmptyIsRecorded == Recorded(EmptyDb)
BY DEF Recorded, EmptyDb

(* What a cycle sees is accounted for.                                     *)
LEMMA SeenIsRecorded ==
  ASSUME Recorded(db), Recorded(work), NEW r PROVE Recorded(Seen(r))
BY DEF Seen

(* Pruning drops no row that a last status younger than the horizon stands *)
(* for.                                                                    *)
LEMMA PruneSpares ==
  ASSUME Typed, NEW d \in Databases, Recorded(d), NEW r \in Runners, now[r] \in Nat
  PROVE  Recorded(Prune([d EXCEPT !.heartbeat = now[r]], now[r]))
<1> DEFINE w == Prune([d EXCEPT !.heartbeat = now[r]], now[r])
<1>1. w.last = d.last /\ w.results = {x \in d.results : x[2] >= now[r] - Retention}
  BY DEF Prune, Databases
<1>2. now[r] <= clock /\ clock \in Nat /\ Retention \in Nat
  BY MonitorAssumption DEF Typed, Timed, TypeOK
<1>3. \A c \in Checks : d.last[c].at \in Nat \cup {NULL}
  BY DEF Databases
<1> HIDE DEF w
<1>4. Recorded(w)
  BY <1>1, <1>2, <1>3, MonitorAssumption DEF Recorded
<1> QED BY <1>4 DEF w

(* Every last status stays accounted for, committed or not.                *)
LEMMA RecordedKept ==
  ASSUME Typed, Recorded(db), Recorded(work), [Next]_vars
  PROVE  Recorded(db)' /\ Recorded(work)'
<1> USE DEF Recorded
<1>1. ASSUME NEW r \in Runners, Start(r) \/ BeginCycle(r) \/ ListSinks(r) \/ StartProbing(r)
                                 \/ Wake(r) \/ Restart(r)
      PROVE  Recorded(db)' /\ Recorded(work)'
  BY <1>1 DEF Start, BeginCycle, ListSinks, StartProbing, Wake, Restart, NoWrite
<1>2. ASSUME NEW r \in Runners, NEW c \in Checks, Task(r, c)
      PROVE  Recorded(db)' /\ Recorded(work)'
  <2>1. now[r] \in Nat /\ clock' = clock
    BY <1>2, TaskSteps DEF Typed, Timed
  <2>2. ASSUME NEW status \in Statuses, NEW kind \in Ended, IsRecorded(r, c, status, kind)
        PROVE  Recorded(db)' /\ Recorded(work)'
    <3>1. db' = db /\ work' = Written(r, c, status, kind)
      BY <2>2 DEF IsRecorded, Write
    <3>2. Seen(r) \in Databases /\ Recorded(Seen(r))
      BY SeenType, SeenIsRecorded DEF Typed
    <3>3. Recorded(Written(r, c, status, kind))
      <4> DEFINE w == Written(r, c, status, kind)
      <4>1. /\ w.results = Seen(r).results \cup {<<c, now[r], status>>}
            /\ w.last[c] = [at |-> now[r], status |-> status]
            /\ \A e \in Checks \ {c} : w.last[e] = Seen(r).last[e]
        BY <2>1, WhatIsWritten
      <4> HIDE DEF w
      <4>2. Recorded(w)
        BY <3>2, <4>1
      <4> QED BY <4>2 DEF w
    <3> QED BY <2>1, <3>1, <3>3
  <2>3. CASE GoesOn(r, c) \/ Announce(r, c)
    BY <2>1, <2>3 DEF GoesOn, Announce, NoWrite
  <2> QED
    BY <1>2, <2>2, <2>3, TaskCases, TransitionType DEF Statuses, Ended
<1>3. ASSUME NEW r \in Runners, EndCycle(r) PROVE Recorded(db)' /\ Recorded(work)'
  <2>1. now[r] \in Nat
    BY <1>3 DEF EndCycle, Gathered, Typed, Timed
  <2>2. Recorded(Prune([Seen(r) EXCEPT !.heartbeat = now[r]], now[r]))
    BY <2>1, PruneSpares, SeenType, SeenIsRecorded DEF Typed
  <2> QED BY <1>3, <2>2, EmptyIsRecorded DEF EndCycle, Commit, CycleOver
<1>4. ASSUME NEW r \in Runners, CycleFails(r) \/ Kill(r) PROVE Recorded(db)' /\ Recorded(work)'
  BY <1>4, EmptyIsRecorded DEF CycleFails, CycleOver, Kill, Rollback, NoWrite
<1>5. CASE Outside
  BY <1>5, OutsideSteps, EmptyIsRecorded DEF Harmless
<1>6. CASE Tick
  <2>1. \A c \in Checks : db.last[c].at \in Nat \cup {NULL} /\ work.last[c].at \in Nat \cup {NULL}
    BY DEF Typed, TypeOK, Databases
  <2> QED BY <1>6, <2>1, MonitorAssumption DEF Tick, Typed, TypeOK
<1>7. CASE UNCHANGED vars
  BY <1>7 DEF vars
<1> QED
  BY <1>1, <1>2, <1>3, <1>4, <1>5, <1>6, <1>7 DEF Next, Outside, Runner, Cycle

-----------------------------------------------------------------------------
(* Events.                                                                 *)

(* Nothing a pending event of `q` rests on changes, but that announcements *)
(* are added, or another runner's forgotten.                               *)
LEMMA StaysPending ==
  ASSUME NEW q \in Runners, NEW c \in Checks, EventIsPending(q, c),
         db' = db, work' = work, job'[q][c] = job[q][c],
         \A n \in announced : n[5] = q => n \in announced',
         now'[q] = now[q], listed'[q] = listed[q], q \in vault' <=> q \in vault
  PROVE  EventIsPending(q, c)'
<1>1. Reached(q)' = Reached(q)
  BY DEF Reached
<1> QED BY <1>1 DEF EventIsPending, Heard, Notice

(* An event sent is one place less to wait for.                            *)
LEMMA AnnounceKeepsPending ==
  ASSUME Typed, EventsArePending, NEW r \in Runners, NEW c \in Checks, Announce(r, c)
  PROVE  EventsArePending'
<1>1. /\ db' = db /\ work' = work /\ lock' = lock
      /\ UNCHANGED <<now, listed, vault>> /\ job[r][c] \in Kinds
  BY DEF Announce, NoWrite
<1>2. PICK p \in Unannounced(r, c) :
        /\ announced' = announced \cup {Notice(r, c, job[r][c], p)}
        /\ IF Unannounced(r, c) = {p} THEN SetJob(r, c, "done") ELSE UNCHANGED job
  BY DEF Announce
<1> SUFFICES ASSUME NEW q \in Runners, NEW e \in Checks, lock' = q PROVE EventIsPending(q, e)'
  BY DEF EventsArePending
<1>3. EventIsPending(q, e)
  BY <1>1 DEF EventsArePending
<1>4. CASE job'[q][e] = job[q][e]
  BY <1>1, <1>2, <1>3, <1>4, StaysPending
<1>5. CASE job'[q][e] # job[q][e]
  <2>1. q = r /\ e = c /\ Unannounced(r, c) = {p} /\ job'[r][c] = "done"
    BY <1>2, <1>5 DEF SetJob, Typed, TypeOK
  <2>2. \A x \in Reached(r) : Notice(r, c, job[r][c], x) \in announced'
    BY <1>2, <2>1 DEF Unannounced
  <2>3. Heard(r, c, job[r][c], Reached(r))'
        <=> \A x \in Reached(r) : Notice(r, c, job'[r][c], x) \in announced'
    BY <1>1 DEF Heard, Reached, Notice
  <2>4. ASSUME NEW kind \in Kinds, job[r][c] = kind PROVE Heard(r, c, kind, Reached(r))'
    BY <1>1, <2>2, <2>4 DEF Heard, Reached, Notice
  <2> QED BY <1>1, <1>3, <2>1, <2>4 DEF EventIsPending, Kinds
<1> QED BY <1>4, <1>5

(* A result recorded makes its event pending.                              *)
LEMMA RecordKeepsPending ==
  ASSUME Typed, EventsArePending, NEW r \in Runners, NEW c \in Checks,
         NEW status \in Statuses, NEW kind \in Ended, now[r] \in Nat
  PROVE  IsRecorded(r, c, status, kind) /\ UNCHANGED <<now, listed, vault>> => EventsArePending'
<1> DEFINE w == Written(r, c, status, kind)
<1>2. /\ w.last[c] = [at |-> now[r], status |-> status]
      /\ kind = "done" => w.report[c] = Seen(r).report[c]
      /\ kind # "done" => w.report[c] = Append(Seen(r).report[c], kind)
      /\ \A e \in Checks \ {c} : w.report[e] = Seen(r).report[e]
  BY WhatIsWritten
<1> SUFFICES ASSUME IsRecorded(r, c, status, kind), UNCHANGED <<now, listed, vault>>
             PROVE  EventsArePending'
  OBVIOUS
<1>1. /\ db' = db /\ work' = w /\ lock' = r /\ announced' = announced
      /\ job[r][c] \notin Ended /\ lock \in {NULL, r}
      /\ job'[r][c] = kind /\ \A e \in Checks \ {c} : job'[r][e] = job[r][e]
  BY DEF IsRecorded, Write, CanWrite, SetJob, Typed, TypeOK
<1> HIDE DEF w
<1> SUFFICES ASSUME NEW e \in Checks PROVE EventIsPending(r, e)'
  BY <1>1 DEF EventsArePending
<1>3. e = c => Seen(r).report[e] = db.report[e]
  BY <1>1 DEF Seen, EventsArePending, EventIsPending, Ended
<1>4. CASE e = c
  BY <1>1, <1>2, <1>3, <1>4 DEF EventIsPending, Ended
<1>5. CASE e # c /\ lock = r
  <2>1. work'.report[e] = work.report[e] /\ EventIsPending(r, e)
    BY <1>1, <1>2, <1>5 DEF Seen, EventsArePending
  <2>2. Reached(r)' = Reached(r)
    BY DEF Reached
  <2> QED BY <1>1, <1>5, <2>1, <2>2 DEF EventIsPending, Heard, Notice
<1>6. CASE e # c /\ lock # r
  BY <1>1, <1>2, <1>6 DEF Seen, EventIsPending
<1> QED BY <1>4, <1>5, <1>6

(* An event recorded stays pending until every place has heard of it.      *)
LEMMA PendingKept ==
  ASSUME Typed, EventsArePending, [Next]_vars
  PROVE  EventsArePending'
<1>1. ASSUME NEW r \in Runners, Start(r) \/ BeginCycle(r) \/ ListSinks(r) \/ StartProbing(r)
                                 \/ Wake(r) \/ Restart(r)
      PROVE  EventsArePending'
  <2> SUFFICES ASSUME NEW q \in Runners, NEW c \in Checks, lock' = q PROVE EventIsPending(q, c)'
    BY DEF EventsArePending
  <2>1. lock' = lock /\ db' = db /\ work' = work
    BY <1>1 DEF Start, BeginCycle, ListSinks, StartProbing, Wake, Restart, NoWrite
  <2>2. /\ job'[q][c] = job[q][c] /\ now'[q] = now[q] /\ listed'[q] = listed[q]
        /\ q \in vault' <=> q \in vault
    BY <1>1, <2>1, MonitorAssumption
    DEF Typed, TypeOK, InCycle, Start, BeginCycle, ListSinks, StartProbing, Wake, Restart
  <2>3. \A n \in announced : n[5] = q => n \in announced'
    BY <1>1, <2>1, MonitorAssumption
    DEF Typed, TypeOK, InCycle, Start, BeginCycle, ListSinks, StartProbing, Wake, Restart
  <2> QED BY <2>1, <2>2, <2>3, StaysPending DEF EventsArePending
<1>2. ASSUME NEW r \in Runners, NEW c \in Checks, Task(r, c) PROVE EventsArePending'
  <2>1. now[r] \in Nat /\ UNCHANGED <<now, listed, vault>>
    BY <1>2, TaskSteps DEF Typed, Timed
  <2>2. CASE GoesOn(r, c)
    <3> SUFFICES ASSUME NEW q \in Runners, NEW e \in Checks, lock' = q PROVE EventIsPending(q, e)'
      BY DEF EventsArePending
    <3>1. lock' = lock /\ db' = db /\ work' = work /\ announced' = announced
      BY <2>2 DEF GoesOn, NoWrite
    <3>2. CASE job'[q][e] = job[q][e]
      BY <2>1, <3>1, <3>2, StaysPending DEF EventsArePending
    <3>3. CASE job'[q][e] # job[q][e]
      <4>1. job[q][e] \notin Ended
        BY <2>2, <3>3 DEF GoesOn, SetJob, Typed, TypeOK
      <4> QED BY <3>1, <4>1 DEF EventsArePending, EventIsPending, Ended
    <3> QED BY <3>2, <3>3
  <2> QED
    BY <1>2, <2>1, <2>2, TaskCases, AnnounceKeepsPending, RecordKeepsPending, TransitionType
    DEF Statuses, Ended
<1>3. ASSUME NEW r \in Runners, EndCycle(r) PROVE EventsArePending'
  BY <1>3, MonitorAssumption DEF EndCycle, Commit, EventsArePending
<1>4. ASSUME NEW r \in Runners, CycleFails(r) \/ Kill(r) PROVE EventsArePending'
  <2> SUFFICES ASSUME NEW q \in Runners, NEW c \in Checks, lock' = q PROVE EventIsPending(q, c)'
    BY DEF EventsArePending
  <2>1. /\ q # r /\ lock' = lock /\ db' = db /\ work' = work /\ announced' = announced
        /\ UNCHANGED <<now, listed>>
        /\ q \in vault' <=> q \in vault
    BY <1>4, MonitorAssumption DEF CycleFails, CycleOver, Kill, Rollback, NoWrite
  <2>2. job'[q] = job[q]
    BY <1>4, <2>1 DEF CycleFails, CycleOver, Kill, Typed, TypeOK
  <2>3. EventIsPending(q, c) /\ now'[q] = now[q] /\ listed'[q] = listed[q]
    BY <2>1 DEF EventsArePending
  <2> QED BY <2>1, <2>2, <2>3, StaysPending
<1>5. CASE Outside
  BY <1>5, OutsideSteps, MonitorAssumption DEF Harmless, EventsArePending
<1>6. CASE Tick \/ UNCHANGED vars
  BY <1>6, StaysPending DEF Tick, vars, EventsArePending
<1> QED
  BY <1>1, <1>2, <1>3, <1>4, <1>5, <1>6 DEF Next, Outside, Runner, Cycle

-----------------------------------------------------------------------------
(* The invariant holds before any cycle.                                   *)
LEMMA InitFacts == Init => Facts
BY InitTyped, EmptyIsRecorded, MonitorAssumption
   DEF Init, Facts, Typed, EventsArePending, EmptyDb

(* The invariant is inductive.                                             *)
LEMMA NextFacts == Facts /\ [Next]_vars => Facts'
BY TypedKept, RecordedKept, PendingKept DEF Facts, Typed

(* The invariant holds in every reachable state.                           *)
LEMMA AlwaysFacts == Spec => []Facts
BY InitFacts, NextFacts, PTL DEF Spec

(* The variables keep their types.                                         *)
THEOREM MonitorTypeCorrect == Spec => []TypeOK
<1>1. Facts => TypeOK
  BY DEF Facts
<1> QED BY <1>1, AlwaysFacts, PTL

(* However many cycles overlap and however their clocks differ, pruning    *)
(* spares the row behind a last status until it is too old.                *)
THEOREM LastStaysRecorded == Spec => []LastIsRecorded
<1>1. Facts => LastIsRecorded
  BY DEF Facts, Recorded, LastIsRecorded
<1> QED BY <1>1, AlwaysFacts, PTL

(* A cycle commits no event that a place it could reach has not heard of.  *)
THEOREM EventsGoOutFirst == Spec => EventsAreAnnounced
<1> DEFINE Out == \A c \in Checks :
             Reporting(c) => Heard(lock, c, Reported(c), Reached(lock))
<1>1. Facts /\ [Next]_vars => [Out]_vars
  <2> SUFFICES ASSUME Facts, Next, NEW c \in Checks, Reporting(c)
               PROVE  Heard(lock, c, Reported(c), Reached(lock))
    BY DEF vars
  <2>1. PICK r \in Runners : EndCycle(r)
    <3>1. ASSUME NEW r \in Runners, Runner(r), ~EndCycle(r) PROVE db' = db
      <4>1. ASSUME NEW e \in Checks, Task(r, e) PROVE db' = db
        BY <4>1, TaskSteps DEF Facts, Typed, NoWrite, Write
      <4> QED
        BY <3>1, <4>1 DEF Runner, Cycle, Start, BeginCycle, ListSinks, StartProbing, CycleFails, Wake,
           Kill, Restart, NoWrite, Rollback
    <3>2. CASE Outside
      BY <3>2, OutsideSteps DEF Facts, Typed, Harmless, Reporting
    <3> QED BY <3>1, <3>2 DEF Next, Outside, Tick, Reporting
  <2>2. db'.report = Seen(r).report
    BY <2>1, SeenType DEF EndCycle, Commit, Prune, Facts, Databases
  <2>3. lock = r /\ work.report[c] # db.report[c]
    BY <2>2 DEF Seen, Reporting
  <2>4. PICK kind \in Kinds :
          /\ work.report[c] = Append(db.report[c], kind)
          /\ job[r][c] = "done" => Heard(r, c, kind, Reached(r))
    BY <2>3 DEF Facts, EventsArePending, EventIsPending, Kinds
  <2>5. job[r][c] \in {"none", "done", "error"}
    BY <2>1 DEF EndCycle, Gathered
  <2>6. job[r][c] = "done"
    BY <2>3, <2>5 DEF Facts, EventsArePending, EventIsPending, Kinds
  <2>7. Reported(c) = kind
    <3>1. db.report[c] \in Seq(Kinds)
      BY DEF Facts, TypeOK, Databases
    <3>2. db'.report[c] = Append(db.report[c], kind)
      BY <2>2, <2>3, <2>4 DEF Seen
    <3> QED BY <3>1, <3>2, AppendProperties DEF Reported
  <2> QED BY <2>3, <2>4, <2>6, <2>7
<1> QED BY <1>1, AlwaysFacts, PTL DEF Spec, EventsAreAnnounced

-----------------------------------------------------------------------------
(* A runner on its own.                                                    *)

(* A daemon on its own waits for nobody's lock.                            *)
LEMMA LoneLock == ASSUME Alone, Typed, NEW r \in Runners PROVE lock \in {NULL, r}
BY DEF Alone, Typed, TypeOK

(* Its tasks are the jobs there are, and stay so.                          *)
LEMMA TaskMoves ==
  ASSUME Typed, NEW r \in Runners, NEW c \in Checks, Task(r, c)
  PROVE  /\ job[r][c] # "none" /\ job'[r][c] # "none"
         /\ \A e \in Checks \ {c} : job'[r][e] = job[r][e]
         /\ db' = db /\ UNCHANGED <<now, read>>
<1>1. ASSUME NEW status \in Statuses, NEW kind \in Ended, IsRecorded(r, c, status, kind)
      PROVE  /\ job[r][c] # "none" /\ job'[r][c] # "none"
             /\ \A e \in Checks \ {c} : job'[r][e] = job[r][e]
  BY <1>1 DEF IsRecorded, SetJob, Ended, Kinds, Typed, TypeOK
<1>2. CASE GoesOn(r, c)
  BY <1>2, TaskSteps DEF GoesOn, SetJob, NoWrite, Typed, TypeOK
<1>3. CASE Announce(r, c)
  BY <1>3 DEF Announce, SetJob, NoWrite, Kinds, Typed, TypeOK
<1>4. db' = db /\ UNCHANGED <<now, read>>
  BY TaskSteps DEF NoWrite, Write
<1> QED BY <1>1, <1>2, <1>3, <1>4, TaskCases, TransitionType DEF Statuses, Ended

(* The steps that are not a cycle's beginning, a task's or a cycle's end   *)
(* leave alone what these invariants relate.                               *)
Quiet ==
  /\ UNCHANGED <<job, now, read>>
  /\ lock' = lock /\ db'.last = db.last /\ db'.report = db.report
  /\ db'.addressless \subseteq db.addressless
  /\ work' = work \/ (lock = NULL /\ work' = EmptyDb)

Over(r) ==
  /\ \A c \in Checks : job'[r][c] = "none"
  /\ lock' = NULL
  /\ now' = now

(* The steps there are with one daemon, by what they do to the last        *)
(* statuses.                                                               *)
LEMMA LoneSteps ==
  ASSUME Alone, Typed, [Next]_vars
  PROVE  \/ Quiet
         \/ \E r \in Runners : BeginCycle(r)
         \/ \E r \in Runners, c \in Checks : Task(r, c)
         \/ \E r \in Runners : EndCycle(r) /\ Over(r)
         \/ \E r \in Runners : db' = db /\ work' \in {work, EmptyDb} /\ Over(r)
<1>1. ASSUME NEW r \in Runners,
             Start(r) \/ ListSinks(r) \/ StartProbing(r) \/ Wake(r) \/ Restart(r)
      PROVE  Quiet
  BY <1>1 DEF Start, ListSinks, StartProbing, Wake, Restart, NoWrite, Quiet
<1>2. ASSUME NEW r \in Runners, EndCycle(r) PROVE Over(r)
  BY <1>2 DEF EndCycle, Commit, CycleOver, Over, Typed, TypeOK
<1>3. ASSUME NEW r \in Runners, CycleFails(r) \/ Kill(r)
      PROVE  db' = db /\ work' \in {work, EmptyDb} /\ Over(r)
  BY <1>3, LoneLock DEF CycleFails, Kill, Rollback, NoWrite, CycleOver, Over, Typed, TypeOK
<1>4. CASE Outside
  BY <1>4, OutsideSteps DEF Harmless, Quiet
<1>5. CASE Tick \/ UNCHANGED vars
  BY <1>5 DEF Tick, vars, Quiet
<1> QED BY <1>1, <1>2, <1>3, <1>4, <1>5 DEF Next, Outside, Runner, Cycle

(* The end of a cycle commits what it has seen, but for what it prunes.    *)
LEMMA EndCommits ==
  ASSUME Typed, NEW r \in Runners, EndCycle(r)
  PROVE  /\ db'.last = Seen(r).last /\ db'.report = Seen(r).report
         /\ db'.addressless = Seen(r).addressless /\ work' = EmptyDb
BY SeenType DEF EndCycle, Commit, Prune, Typed, Databases

(* A check that is due has been due long enough, in every step.            *)
LEMMA PunctualKept ==
  ASSUME Alone, Typed, Punctual, [Next]_vars
  PROVE  Punctual'
<1> USE DEF Punctual, OnTime, LastIsOld
<1>1. CASE Quiet
  BY <1>1 DEF Quiet
<1>2. ASSUME NEW r \in Runners, BeginCycle(r) PROVE Punctual'
  <2>1. \A q \in Runners : q = r
    BY DEF Alone
  <2>2. lock' = NULL
    BY <1>2, <2>1 DEF BeginCycle, NoWrite, Typed, TypeOK, InCycle
  <2>3. /\ db' = db /\ now'[r] = clock
        /\ \A c \in Checks : job'[r][c] # "none" => Due(db, c, clock)
    BY <1>2 DEF BeginCycle, NoWrite, Typed, TypeOK
  <2> QED BY <2>1, <2>2, <2>3 DEF Due
<1>3. ASSUME NEW r \in Runners, NEW c \in Checks, Task(r, c) PROVE Punctual'
  <2>1. OnTime'
    BY <1>3, TaskMoves DEF Alone
  <2>2. ASSUME NEW status \in Statuses, NEW kind \in Ended, IsRecorded(r, c, status, kind)
        PROVE  LastIsOld'
    <3> DEFINE w == Written(r, c, status, kind)
    <3>1. now[r] \in Nat
      BY <1>3, TaskSteps DEF Typed, Timed
    <3>2. /\ w.results = Seen(r).results \cup {<<c, now[r], status>>}
          /\ w.last[c] = [at |-> now[r], status |-> status]
          /\ \A e \in Checks \ {c} : w.last[e] = Seen(r).last[e]
      BY <3>1, WhatIsWritten
    <3>3. lock' = r /\ work' = w
      BY <2>2 DEF IsRecorded, Write
    <3> HIDE DEF w
    <3>4. lock \in {NULL, r}
      BY LoneLock
    <3> QED BY <1>3, <3>2, <3>3, <3>4, TaskMoves DEF Seen
  <2>3. CASE GoesOn(r, c) \/ Announce(r, c)
    BY <1>3, <2>3, TaskMoves DEF GoesOn, Announce, NoWrite, Alone, Typed, TypeOK
  <2> QED
    BY <1>3, <2>1, <2>2, <2>3, TaskCases, TransitionType DEF Statuses, Ended
<1>4. ASSUME NEW r \in Runners, Over(r) PROVE Punctual'
  BY <1>4 DEF Over, Alone
<1> QED BY <1>1, <1>2, <1>3, <1>4, LoneSteps

(* No check has run yet.                                                   *)
LEMMA InitPunctual == Init => Punctual
BY DEF Init, Punctual, OnTime, LastIsOld

(* A daemon on its own neither probes a check nor records a result of it   *)
(* before the interval since its last recorded result is over, however     *)
(* often it dies and comes back and whatever operators disable and enable. *)
THEOREM IntervalsAreKept == ASSUME Alone PROVE Spec => IntervalIsKept
<1> DEFINE Probed(c)   == \A r \in Runners :
                            job'[r][c] = "probing" => Elapsed(db.last[c].at, now'[r])
           Recording(c) == db'.last[c].at # db.last[c].at
                             => Elapsed(db.last[c].at, db'.last[c].at)
           InTime == \A c \in Checks :
             /\ \A r \in Runners : job'[r][c] = "probing" => Elapsed(db.last[c].at, now'[r])
             /\ db'.last[c].at # db.last[c].at => Elapsed(db.last[c].at, db'.last[c].at)
           Kept == Typed /\ Punctual
<1>1. Init => Kept
  BY InitTyped, InitPunctual
<1>2. Kept /\ [Next]_vars => Kept'
  BY TypedKept, PunctualKept
<1>3. ASSUME Kept, [Next]_vars, NEW c \in Checks PROVE Probed(c)
  <2>1. OnTime'
    BY <1>2, <1>3 DEF Punctual
  <2>2. (\A r \in Runners : job'[r][c] = "none") \/ db'.last = db.last
    <3>1. ASSUME NEW r \in Runners, BeginCycle(r) PROVE db' = db
      BY <3>1 DEF BeginCycle, NoWrite
    <3>2. ASSUME NEW r \in Runners, NEW e \in Checks, Task(r, e) PROVE db' = db
      BY <1>3, <3>2, TaskMoves
    <3> QED BY <1>3, <3>1, <3>2, LoneSteps DEF Quiet, Over, Alone
  <2> QED BY <2>1, <2>2 DEF OnTime, Elapsed
<1>4. ASSUME Kept, [Next]_vars, NEW c \in Checks PROVE Recording(c)
  <2> SUFFICES ASSUME db.last[c].at # NULL, db'.last[c].at # db.last[c].at
               PROVE  db'.last[c].at - db.last[c].at >= Interval
    BY DEF Elapsed
  <2>1. PICK r \in Runners : EndCycle(r)
    <3>1. ASSUME NEW r \in Runners, BeginCycle(r) PROVE db' = db
      BY <3>1 DEF BeginCycle, NoWrite
    <3>2. ASSUME NEW r \in Runners, NEW e \in Checks, Task(r, e) PROVE db' = db
      BY <1>4, <3>2, TaskMoves
    <3>3. CASE Quiet
      BY <3>3 DEF Quiet
    <3> QED BY <1>4, <3>1, <3>2, <3>3, LoneSteps
  <2>2. db'.last = Seen(r).last
    BY <1>4, <2>1, EndCommits
  <2>3. lock = r /\ work.last[c] # db.last[c]
    BY <2>2 DEF Seen
  <2>4. job[r][c] # "none" /\ db'.last[c].at = now[r]
    BY <1>4, <2>2, <2>3, MonitorAssumption DEF Seen, Punctual, LastIsOld
  <2> QED BY <1>4, <2>4 DEF Punctual, OnTime
<1>5. Kept /\ [Next]_vars => [InTime]_vars
  BY <1>3, <1>4
<1> HIDE DEF Kept
<1> QED BY <1>1, <1>2, <1>5, PTL DEF Spec, IntervalIsKept

-----------------------------------------------------------------------------
(* An alarm.                                                               *)

(* Every check has a target and needs no secret: no task fails unprobed.   *)
LEMMA RunnableTasks ==
  ASSUME Runnable, AnswersAreJudged, NEW r \in Runners, NEW c \in Checks
  PROVE  ~ConfigError(r, c) /\ ~NoTarget(r, c)
BY DEF Runnable, AnswersAreJudged, ConfigError, Usable, NoTarget, Seen

(* What a cycle read of the statuses stays the last commit's while it      *)
(* runs.                                                                   *)
LEMMA ReadIsLastKept ==
  ASSUME Alone, Typed, ReadIsLast, [Next]_vars
  PROVE  ReadIsLast'
<1> USE DEF ReadIsLast
<1>1. ASSUME NEW r \in Runners, BeginCycle(r) PROVE ReadIsLast'
  BY <1>1 DEF BeginCycle, NoWrite, Alone, Typed, TypeOK
<1>2. ASSUME NEW r \in Runners, NEW c \in Checks, Task(r, c) PROVE ReadIsLast'
  BY <1>2, TaskMoves DEF Alone
<1>3. ASSUME NEW r \in Runners, Over(r) PROVE ReadIsLast'
  BY <1>3 DEF Over, Alone
<1>4. CASE Quiet
  BY <1>4 DEF Quiet
<1> QED BY <1>1, <1>2, <1>3, <1>4, LoneSteps

(* A result recorded is judged by the status before it.                    *)
LEMMA AnswerIsJudged ==
  ASSUME Alone, Typed, Alarming, NEW r \in Runners, NEW c \in Checks, NEW status \in Statuses,
         now[r] \in Nat
  PROVE  IsRecorded(r, c, status, Transition(read[r][c], status)) => AnswersAreJudged'
<1> DEFINE kind == Transition(read[r][c], status)
           w    == Written(r, c, status, kind)
<1>1. kind \in Ended
  BY TransitionType DEF Ended
<1> HIDE DEF kind
<1>2. /\ w.last[c] = [at |-> now[r], status |-> status]
      /\ kind = "done" => w.report[c] = Seen(r).report[c]
      /\ kind # "done" => w.report[c] = Append(Seen(r).report[c], kind)
      /\ \A e \in Checks \ {c} : /\ w.last[e] = Seen(r).last[e]
                                 /\ w.report[e] = Seen(r).report[e]
      /\ w.addressless = Seen(r).addressless
  BY <1>1, WhatIsWritten
<1> SUFFICES ASSUME IsRecorded(r, c, status, kind) PROVE AnswersAreJudged'
  BY DEF kind
<1>3. /\ db' = db /\ work' = w /\ lock' = r
      /\ job[r][c] \notin Ended \cup {"none"} /\ lock \in {NULL, r}
      /\ job'[r][c] = kind /\ \A e \in Checks \ {c} : job'[r][e] = job[r][e]
  BY DEF IsRecorded, Write, CanWrite, SetJob, Typed, TypeOK
<1> HIDE DEF w
<1>4. kind = Transition(db.last[c].status, status)
  BY <1>3 DEF kind, Alarming, ReadIsLast
<1>5. Seen(r).last[c] = db.last[c] /\ Seen(r).report[c] = db.report[c]
  BY <1>3, MonitorAssumption DEF Seen, Alarming, AnswersAreJudged, Ended
<1>6. Judged(c, status)'
  <2>1. w.report[c] = IF kind = "done" THEN db.report[c] ELSE Append(db.report[c], kind)
    BY <1>2, <1>5
  <2> QED BY <1>2, <1>3, <1>4, <2>1 DEF Judged, Transition
<1>7. ASSUME NEW e \in Checks \ {c}
      PROVE  (\/ work.last[e] = db.last[e] /\ work.report[e] = db.report[e]
              \/ job[lock][e] \in Kinds \cup {"done"} /\ \E st \in Statuses : Judged(e, st))'
  <2>1. CASE lock = NULL
    BY <1>2, <1>3, <2>1, MonitorAssumption DEF Seen
  <2>2. CASE lock = r
    <3>1. work'.last[e] = work.last[e] /\ work'.report[e] = work.report[e]
      BY <1>2, <1>3, <2>2 DEF Seen
    <3>2. ASSUME NEW st \in Statuses, Judged(e, st) PROVE Judged(e, st)'
      BY <1>3, <3>1, <3>2 DEF Judged, Transition
    <3> QED BY <1>3, <2>2, <3>1, <3>2, MonitorAssumption DEF Alarming, AnswersAreJudged
  <2> QED BY <1>3, <2>1, <2>2
<1>8. db'.addressless = {} /\ work'.addressless = {}
  BY <1>2, <1>3 DEF Seen, Alarming, AnswersAreJudged
<1> QED BY <1>1, <1>3, <1>6, <1>7, <1>8 DEF AnswersAreJudged, Alone, Ended

(* What a transaction has recorded stays judged by the last commit.        *)
LEMMA AnswersAreJudgedKept ==
  ASSUME Alone, Runnable, Typed, Alarming, [Next]_vars
  PROVE  AnswersAreJudged'
<1> USE DEF Alarming, AnswersAreJudged
<1>1. ASSUME NEW r \in Runners, BeginCycle(r) PROVE AnswersAreJudged'
  <2>1. /\ db' = db /\ work' = work /\ lock' = NULL
        /\ \A c \in Checks : job'[r][c] \in {"none", "config"}
    BY <1>1, LoneLock DEF BeginCycle, NoWrite, Typed, TypeOK, InCycle
  <2> QED BY <2>1 DEF Alone, Kinds
<1>2. ASSUME NEW r \in Runners, NEW c \in Checks, Task(r, c) PROVE AnswersAreJudged'
  <2>1. CASE GoesOn(r, c)
    <3>1. /\ db' = db /\ work' = work /\ lock' = lock
          /\ job[r][c] \notin Ended /\ job'[r][c] \notin Ended
          /\ \A e \in Checks \ {c} : job'[r][e] = job[r][e]
      BY <2>1 DEF GoesOn, NoWrite, SetJob, Typed, TypeOK
    <3> QED BY <3>1, LoneLock, MonitorAssumption DEF Alone, Ended, Judged, Transition
  <2>2. CASE Announce(r, c)
    <3>1. /\ db' = db /\ work' = work /\ lock' = lock
          /\ job[r][c] \in Ended /\ job'[r][c] \in Ended
          /\ \A e \in Checks \ {c} : job'[r][e] = job[r][e]
      BY <2>2 DEF Announce, NoWrite, SetJob, Ended, Kinds, Typed, TypeOK
    <3> QED BY <3>1, LoneLock, MonitorAssumption DEF Alone, Ended, Judged, Transition
  <2>3. now[r] \in Nat
    BY <1>2, TaskSteps DEF Typed, Timed
  <2> QED BY <1>2, <2>1, <2>2, <2>3, TaskCases, RunnableTasks, AnswerIsJudged
<1>3. ASSUME NEW r \in Runners, Over(r), db'.addressless = {}, work'.addressless = {}
      PROVE  AnswersAreJudged'
  BY <1>3 DEF Over, Alone, Kinds
<1>4. ASSUME NEW r \in Runners, EndCycle(r)
      PROVE  db'.addressless = {} /\ work'.addressless = {}
  BY <1>4, EndCommits DEF Seen, EmptyDb, Runnable
<1>5. EmptyDb.addressless = {}
  BY DEF EmptyDb, Runnable
<1>6. CASE Quiet
  BY <1>5, <1>6 DEF Quiet, Judged, Transition
<1> QED BY <1>1, <1>2, <1>3, <1>4, <1>5, <1>6, LoneSteps

(* Nothing is recorded yet.                                                *)
LEMMA InitAlarming == ASSUME Runnable PROVE Init => Alarming
BY DEF Init, Runnable, Alarming, ReadIsLast, AnswersAreJudged, EmptyDb, Kinds

(* What was judged is a step of the alarm.                                 *)
LEMMA JudgedSteps ==
  ASSUME NEW c \in Checks, NEW status \in Statuses, Judged(c, status),
         db.last[c].status \in Statuses \cup {NULL},
         db'.last[c] = work.last[c], db'.report[c] = work.report[c]
  PROVE  \/ Promise!GoesDown(c) \/ Promise!ComesBack(c)
         \/ Promise!ComesUp(c) \/ Promise!Stays(c)
BY MonitorAssumption
   DEF Judged, Transition, Statuses, Promise!GoesDown, Promise!ComesBack, Promise!ComesUp,
       Promise!Stays

(* The daemon on its own, with checks it can run, is an alarm: going down  *)
(* is reported once, coming back is reported once, and nothing else is,    *)
(* whatever the cycle was killed in the middle of.                         *)
THEOREM DaemonIsAnAlarm == ASSUME Alone, Runnable PROVE Spec => KeepsPromise
<1> DEFINE Kept == Typed /\ Alarming
<1>1. Init => Kept /\ Promise!Init
  <2>1. Init => Promise!Init
    BY DEF Init, EmptyDb, Promise!Init
  <2> QED BY <2>1, InitTyped, InitAlarming
<1>2. Kept /\ [Next]_vars => Kept'
  BY TypedKept, ReadIsLastKept, AnswersAreJudgedKept DEF Alarming
<1>3. Kept /\ [Next]_vars => [Promise!Next]_(Promise!alarm)
  <2> SUFFICES ASSUME Kept, [Next]_vars PROVE Promise!Next \/ UNCHANGED Promise!alarm
    OBVIOUS
  <2>1. ASSUME NEW r \in Runners, EndCycle(r) PROVE Promise!Next
    <3> SUFFICES ASSUME NEW c \in Checks
                 PROVE  \/ Promise!GoesDown(c) \/ Promise!ComesBack(c)
                        \/ Promise!ComesUp(c) \/ Promise!Stays(c)
      BY DEF Promise!Next
    <3>1. db'.last = Seen(r).last /\ db'.report = Seen(r).report
      BY <2>1, EndCommits
    <3>2. db.last[c].status \in Statuses \cup {NULL}
      BY DEF Typed, TypeOK, Databases
    <3>3. CASE Seen(r).last[c] = db.last[c] /\ Seen(r).report[c] = db.report[c]
      BY <3>1, <3>3 DEF Promise!Stays
    <3>4. CASE lock = r /\ \E status \in Statuses : Judged(c, status)
      BY <3>1, <3>2, <3>4, JudgedSteps DEF Seen
    <3>5. lock = r \/ lock # r
      OBVIOUS
    <3> QED BY <3>3, <3>4, <3>5, MonitorAssumption DEF Seen, Alarming, AnswersAreJudged
  <2>2. ASSUME db'.last = db.last, db'.report = db.report PROVE UNCHANGED Promise!alarm
    BY <2>2 DEF Promise!alarm
  <2>3. ASSUME NEW r \in Runners, BeginCycle(r) PROVE db' = db
    BY <2>3 DEF BeginCycle, NoWrite
  <2> QED BY <2>1, <2>2, <2>3, TaskMoves, LoneSteps DEF Quiet
<1> HIDE DEF Kept
<1> QED BY <1>1, <1>2, <1>3, PTL DEF Spec, KeepsPromise, Promise!Spec
=============================================================================
