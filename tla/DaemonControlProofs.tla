------------------------ MODULE DaemonControlProofs -------------------------
(***************************************************************************)
(* For any number of processes, starts and stops, daemons that die         *)
(* anywhere and ids that are reused: if no command is given while another  *)
(* is under way, there is one daemon and the PID file names it.            *)
(***************************************************************************)
EXTENDS DaemonControl, TLAPS

Starts(s) == start[s] \in {"checked", "cleared", "spawned"}
Stops(k)  == stop[k] \in {"stale", "alive", "reread", "guarded", "waiting"}

(* One command at a time; a daemon that has been spawned is its own.       *)
OneCommand ==
  /\ \A s, t \in Starters : Starts(s) /\ Starts(t) => s = t
  /\ \A k, l \in Stoppers : Stops(k) /\ Stops(l) => k = l
  /\ \A s \in Starters, k \in Stoppers : ~(Starts(s) /\ Stops(k))

(* Who may be there beside a daemon that boots or leaves.                  *)
NoneBeside ==
  /\ \A p, q \in Pids : proc[p] = "checked" /\ proc[q] \in Daemonic => p = q
  /\ \A p, q \in Pids : proc[p] = "closing" /\ proc[q] \in {"looping", "closing"} => p = q
  /\ \A p, q \in Pids : proc[p] = "booting" /\ proc[q] = "booting" => p = q

(* What makes a daemon that boots refuse beside one that runs or leaves.   *)
SeenByBooting ==
  \A p, q \in Pids : proc[p] = "booting" /\ proc[q] \in {"looping", "closing"} => file = q

(* What a `monitor start` that has found no daemon may rely on.            *)
StartIsAlone ==
  \A s \in Starters :
    /\ start[s] \in {"checked", "cleared"} => \A p \in Pids : proc[p] \notin Daemonic
    /\ start[s] = "spawned" =>
         /\ child[s] \in Pids
         /\ \A p \in Pids : proc[p] \in Daemonic => p = child[s]

(* What a `monitor stop` knows: nobody starts beside it, and a daemon that *)
(* still runs is the one whose id it has read.                             *)
StopKnowsIt ==
  \A k \in Stoppers :
    /\ Stops(k) => \A p \in Pids : proc[p] \notin {"booting", "checked"}
    /\ stop[k] = "stale" => \A p \in Pids : proc[p] # "looping"
    /\ stop[k] \in {"reread", "guarded", "waiting"} =>
         \A p \in Pids : proc[p] = "looping" => p = target[k]

Facts ==
  /\ TypeOK /\ RunningIsRecorded
  /\ OneCommand /\ NoneBeside /\ SeenByBooting /\ StartIsAlone /\ StopKnowsIt

(* Before any command there is nothing to record.                          *)
LEMMA InitFacts == Init => Facts
BY DaemonAssumption DEF Init, Facts, TypeOK, ProcStates, StartSteps, StopSteps, Daemonic,
   RunningIsRecorded, OneCommand, NoneBeside, SeenByBooting, StartIsAlone, StopKnowsIt,
   Starts, Stops

(* Every step keeps the types, commands overlapping or not.                *)
LEMMA TypesKept == TypeOK /\ [Next]_vars => TypeOK'
<1> SUFFICES ASSUME TypeOK, [Next]_vars PROVE TypeOK'
  OBVIOUS
<1> USE DEF TypeOK, ProcStates, StartSteps, StopSteps, Daemonic, Become, StartAt, StopAt
<1>1. ASSUME NEW p \in Pids, RunInForeground(p) \/ Booting(p) \/ Mishap(p) PROVE TypeOK'
  BY <1>1 DEF RunInForeground, Booting, Refuse, FindStale, WritePid, ClearOnExit,
              Mishap, Interrupt, Die, Reuse
<1>2. ASSUME NEW s \in Starters, Starting(s) PROVE TypeOK'
  BY <1>2 DEF Starting, CheckStart, ClearBeforeSpawn, Spawn, RecordChild
<1>3. ASSUME NEW k \in Stoppers, Stopping(k) PROVE TypeOK'
  BY <1>3 DEF Stopping, CheckStop, ReadAgain, Guard, Signal, Alive, SeeItGone, TimeOut,
              ClearStale
<1>4. CASE UNCHANGED vars
  BY <1>4 DEF vars
<1> QED BY <1>1, <1>2, <1>3, <1>4 DEF Next

-----------------------------------------------------------------------------
(* The daemon's own steps.                                                 *)

(* The steps of a daemon, its deaths included.                             *)
LEMMA DaemonKeepsFacts ==
  ASSUME ~Overlapping, Facts, TypeOK', NEW p \in Pids,
         RunInForeground(p) \/ Booting(p) \/ Mishap(p)
  PROVE  Facts'
<1> USE DaemonAssumption
    DEF Facts, TypeOK, ProcStates, Daemonic, Become, Alive,
        RunningIsRecorded, OneCommand, NoneBeside, SeenByBooting, StartIsAlone,
        StopKnowsIt, Starts, Stops
<1>1. CASE RunInForeground(p)
  BY <1>1 DEF RunInForeground, MayBegin, Quiet, StartSteps, StopSteps
<1>2. CASE Refuse(p)
  BY <1>2 DEF Refuse
<1>3. CASE FindStale(p)
  BY <1>3 DEF FindStale
<1>4. CASE WritePid(p)
  BY <1>4 DEF WritePid
<1>5. CASE ClearOnExit(p)
  BY <1>5 DEF ClearOnExit
<1>6. CASE Interrupt(p)
  BY <1>6 DEF Interrupt
<1>7. CASE Die(p)
  BY <1>7 DEF Die
<1>8. CASE Reuse(p)
  BY <1>8 DEF Reuse
<1> QED BY <1>1, <1>2, <1>3, <1>4, <1>5, <1>6, <1>7, <1>8 DEF Booting, Mishap

(* The steps of `daemon start`, which is alone while it runs.              *)
LEMMA StartKeepsFacts ==
  ASSUME ~Overlapping, Facts, TypeOK', NEW s \in Starters, Starting(s)
  PROVE  Facts'
<1> USE DaemonAssumption
    DEF Facts, TypeOK, ProcStates, Daemonic, Become, StartAt, Alive,
        RunningIsRecorded, OneCommand, NoneBeside, SeenByBooting, StartIsAlone,
        StopKnowsIt, Starts, Stops
<1>1. CASE CheckStart(s)
  BY <1>1 DEF CheckStart, MayBegin, Quiet, StartSteps, StopSteps
<1>2. CASE ClearBeforeSpawn(s)
  BY <1>2 DEF ClearBeforeSpawn
<1>3. CASE Spawn(s)
  BY <1>3 DEF Spawn
<1>4. CASE RecordChild(s)
  BY <1>4 DEF RecordChild
<1> QED BY <1>1, <1>2, <1>3, <1>4 DEF Starting

(* The steps of `daemon stop`: what it waits for is the recorded one.      *)
LEMMA StopKeepsFacts ==
  ASSUME ~Overlapping, Facts, TypeOK', NEW k \in Stoppers, Stopping(k)
  PROVE  Facts'
<1> USE DaemonAssumption
    DEF Facts, TypeOK, ProcStates, Daemonic, StopAt, Alive,
        RunningIsRecorded, OneCommand, NoneBeside, SeenByBooting, StartIsAlone,
        StopKnowsIt, Starts, Stops
<1>1. CASE CheckStop(k)
  BY <1>1 DEF CheckStop, MayBegin, Quiet, StartSteps, StopSteps
<1>2. CASE ReadAgain(k)
  BY <1>2 DEF ReadAgain
<1>3. CASE Guard(k)
  BY <1>3 DEF Guard
<1>4. CASE Signal(k)
  BY <1>4 DEF Signal
<1>5. CASE SeeItGone(k)
  BY <1>5 DEF SeeItGone
<1>6. CASE TimeOut(k)
  BY <1>6 DEF TimeOut
<1>7. CASE ClearStale(k)
  BY <1>7 DEF ClearStale
<1> QED BY <1>1, <1>2, <1>3, <1>4, <1>5, <1>6, <1>7 DEF Stopping

(* The invariant is inductive where commands do not overlap.               *)
LEMMA NextFacts == ~Overlapping /\ Facts /\ [Next]_vars => Facts'
<1> SUFFICES ASSUME ~Overlapping, Facts, [Next]_vars PROVE Facts'
  OBVIOUS
<1>1. TypeOK'
  BY TypesKept DEF Facts
<1>2. CASE UNCHANGED vars
  BY <1>2 DEF vars, Facts, TypeOK, RunningIsRecorded, OneCommand, NoneBeside,
              SeenByBooting, StartIsAlone, StopKnowsIt, Starts, Stops
<1> QED
  BY <1>1, <1>2, DaemonKeepsFacts, StartKeepsFacts, StopKeepsFacts DEF Next

-----------------------------------------------------------------------------
(* The variables keep their types, however commands overlap.               *)
THEOREM DaemonTypeCorrect == Spec => []TypeOK
<1>1. Init => TypeOK
  BY InitFacts DEF Facts
<1> QED BY <1>1, TypesKept, PTL DEF Spec

(* A daemon in its loop is the one the PID file names, whatever dies       *)
(* where, if commands are given one at a time.                             *)
THEOREM DaemonIsRecorded == ASSUME ~Overlapping PROVE Spec => []RunningIsRecorded
<1>1. Facts /\ [Next]_vars => Facts'
  BY NextFacts
<1>2. Facts => RunningIsRecorded
  BY DEF Facts
<1> QED BY <1>1, <1>2, InitFacts, PTL DEF Spec

(* And so there are never two.                                             *)
THEOREM OneDaemonRuns == ASSUME ~Overlapping PROVE Spec => []OneDaemon
<1>1. RunningIsRecorded => OneDaemon
  BY DEF RunningIsRecorded, OneDaemon
<1> QED BY <1>1, DaemonIsRecorded, PTL
=============================================================================
