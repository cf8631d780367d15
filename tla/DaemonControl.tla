--------------------------- MODULE DaemonControl ----------------------------
(***************************************************************************)
(* monitor/daemon_control.py and the commands around it: the PID file that *)
(* `monitor daemon`, `monitor start` and `monitor stop` look at, write and *)
(* remove, and the processes whose ids it holds.                           *)
(*                                                                         *)
(* Nothing locks the file: every command reads it, decides, and acts on it *)
(* later.  An id of a process that has gone may be given to any other one. *)
(***************************************************************************)
EXTENDS Nullable

CONSTANTS Pids,         \* process ids
          Starters,     \* `monitor start` commands
          Stoppers,     \* `monitor stop` commands
          Foreground,   \* may a supervisor or a user start `monitor daemon`?
          Mortal,       \* ids of processes that may be killed or interrupted
          Overlapping   \* may a command begin while another one is under way?

ASSUME DaemonAssumption ==
  /\ NULL \notin Pids
  /\ Mortal \subseteq Pids
  /\ Foreground \in BOOLEAN /\ Overlapping \in BOOLEAN

VARIABLES
  file,       \* the id in the PID file, NULL if there is none
  proc,       \* what runs under each id
  signalled,  \* ids that were sent SIGTERM and have not died of it yet
  start,      \* how far each `monitor start` is
  child,      \* the process it has spawned
  stop,       \* how far each `monitor stop` is
  target      \* the id it has read

vars == <<file, proc, signalled, start, child, stop, target>>

Daemonic   == {"booting", "checked", "looping", "closing"}
ProcStates == {"free", "other"} \cup Daemonic
StartSteps == {"idle", "checked", "cleared", "spawned", "done", "refused"}
StopSteps  == {"idle", "stale", "alive", "reread", "guarded", "waiting", "gone",
               "ended"}

Alive(p) == p # NULL /\ proc[p] # "free"

Init ==
  /\ file = NULL
  /\ proc = [p \in Pids |-> "free"]
  /\ signalled = {}
  /\ start = [s \in Starters |-> "idle"]
  /\ child = [s \in Starters |-> NULL]
  /\ stop = [k \in Stoppers |-> "idle"]
  /\ target = [k \in Stoppers |-> NULL]

Become(p, state) == proc' = [proc EXCEPT ![p] = state]
StartAt(s, step) == start' = [start EXCEPT ![s] = step]
StopAt(k, step)  == stop' = [stop EXCEPT ![k] = step]

(* A daemon that boots, and a command between its steps, are under way.    *)
Quiet ==
  /\ \A p \in Pids : proc[p] \notin {"booting", "checked", "closing"}
  /\ \A s \in Starters : start[s] \in {"idle", "done", "refused"}
  /\ \A k \in Stoppers : stop[k] \in {"idle", "ended"}
MayBegin == Overlapping \/ Quiet

-----------------------------------------------------------------------------
(* `monitor daemon --foreground`.                                          *)

RunInForeground(p) ==
  /\ Foreground
  /\ MayBegin
  /\ proc[p] = "free"
  /\ Become(p, "booting")
  /\ UNCHANGED <<file, signalled, start, child, stop, target>>

(* The file names a living process: this one exits, without clearing it.   *)
Refuse(p) ==
  /\ proc[p] = "booting"
  /\ Alive(file)
  /\ Become(p, "free")
  /\ signalled' = signalled \ {p}
  /\ UNCHANGED <<file, start, child, stop, target>>

(* Faulty: a file that names a process is taken for stale all the same.     *)
FindAnything(p) ==
  /\ proc[p] = "booting"
  /\ Become(p, "checked")
  /\ UNCHANGED <<file, signalled, start, child, stop, target>>

(* A missing file and one that names no living process are the same to it.  *)
FindStale(p) ==
  /\ proc[p] = "booting"
  /\ ~Alive(file)
  /\ Become(p, "checked")
  /\ UNCHANGED <<file, signalled, start, child, stop, target>>

WritePid(p) ==
  /\ proc[p] = "checked"
  /\ file' = p
  /\ Become(p, "looping")
  /\ UNCHANGED <<signalled, start, child, stop, target>>

(* Ctrl+C leaves the loop; the `finally` clears the file, whoever is in it.*)
Interrupt(p) ==
  /\ p \in Mortal
  /\ proc[p] = "looping"
  /\ Become(p, "closing")
  /\ UNCHANGED <<file, signalled, start, child, stop, target>>

ClearOnExit(p) ==
  /\ proc[p] = "closing"
  /\ file' = NULL
  /\ Become(p, "free")
  /\ signalled' = signalled \ {p}
  /\ UNCHANGED <<start, child, stop, target>>

(* SIGTERM and SIGKILL have no handler: the process is gone, its file not. *)
(* So ends a daemon whose schema lags or whose vault stays locked, too.    *)
Die(p) ==
  /\ proc[p] # "free"
  /\ p \in signalled \/ p \in Mortal
  /\ Become(p, "free")
  /\ signalled' = signalled \ {p}
  /\ UNCHANGED <<file, start, child, stop, target>>

(* The system gives a free id to a program of its own.                     *)
Reuse(p) ==
  /\ p \in Mortal
  /\ proc[p] = "free"
  /\ Become(p, "other")
  /\ UNCHANGED <<file, signalled, start, child, stop, target>>

-----------------------------------------------------------------------------
(* `monitor start`.                                                        *)

CheckStart(s) ==
  /\ start[s] = "idle"
  /\ MayBegin
  /\ StartAt(s, IF Alive(file) THEN "refused" ELSE "checked")
  /\ UNCHANGED <<file, proc, signalled, child, stop, target>>

ClearBeforeSpawn(s) ==
  /\ start[s] = "checked"
  /\ file' = NULL
  /\ StartAt(s, "cleared")
  /\ UNCHANGED <<proc, signalled, child, stop, target>>

Spawn(s) ==
  /\ start[s] = "cleared"
  /\ \E p \in Pids :
       /\ proc[p] = "free"
       /\ Become(p, "booting")
       /\ child' = [child EXCEPT ![s] = p]
  /\ StartAt(s, "spawned")
  /\ UNCHANGED <<file, signalled, stop, target>>

(* The parent records the child's id too, so that `stop` works even if the *)
(* child has not got that far.                                             *)
RecordChild(s) ==
  /\ start[s] = "spawned"
  /\ file' = child[s]
  /\ StartAt(s, "done")
  /\ UNCHANGED <<proc, signalled, child, stop, target>>

-----------------------------------------------------------------------------
(* `monitor stop`, and stop_via_pid_file, which reads the file once more.  *)

CheckStop(k) ==
  /\ stop[k] = "idle"
  /\ MayBegin
  /\ StopAt(k, IF file = NULL THEN "ended" ELSE IF Alive(file) THEN "alive" ELSE "stale")
  /\ UNCHANGED <<file, proc, signalled, start, child, target>>

ReadAgain(k) ==
  /\ stop[k] = "alive"
  /\ target' = [target EXCEPT ![k] = file]
  /\ StopAt(k, IF file = NULL THEN "ended" ELSE IF Alive(file) THEN "reread" ELSE "stale")
  /\ UNCHANGED <<file, proc, signalled, start, child>>

(* A process that is no langusta is not signalled, where /proc tells; where *)
(* it cannot be read the id is trusted.                                     *)
Guard(k) ==
  /\ stop[k] = "reread"
  /\ \/ StopAt(k, "guarded")
     \/ proc[target[k]] = "other" /\ StopAt(k, "stale")
  /\ UNCHANGED <<file, proc, signalled, start, child, target>>

(* Faulty: the id is taken from the file again.                            *)
SignalWhatIsThere(k) ==
  /\ stop[k] = "guarded"
  /\ IF Alive(target[k])
     THEN signalled' = signalled \cup {file} /\ StopAt(k, "waiting")
     ELSE StopAt(k, "stale") /\ UNCHANGED signalled
  /\ UNCHANGED <<file, proc, start, child, target>>

Signal(k) ==
  /\ stop[k] = "guarded"
  /\ IF Alive(target[k])
     THEN signalled' = signalled \cup {target[k]} /\ StopAt(k, "waiting")
     ELSE StopAt(k, "stale") /\ UNCHANGED signalled
  /\ UNCHANGED <<file, proc, start, child, target>>

SeeItGone(k) ==
  /\ stop[k] = "waiting"
  /\ ~Alive(target[k])
  /\ StopAt(k, "stale")
  /\ UNCHANGED <<file, proc, signalled, start, child, target>>

(* Faulty: the file goes although the daemon has not.                      *)
TimeOutAndClear(k) ==
  /\ stop[k] = "waiting"
  /\ Alive(target[k])
  /\ file' = NULL
  /\ StopAt(k, "ended")
  /\ UNCHANGED <<proc, signalled, start, child, target>>

(* The file is left for diagnosis.                                         *)
TimeOut(k) ==
  /\ stop[k] = "waiting"
  /\ Alive(target[k])
  /\ StopAt(k, "ended")
  /\ UNCHANGED <<file, proc, signalled, start, child, target>>

(* Whatever the file holds by now is removed.                              *)
ClearStale(k) ==
  /\ stop[k] = "stale"
  /\ file' = NULL
  /\ StopAt(k, "ended")
  /\ UNCHANGED <<proc, signalled, start, child, target>>

-----------------------------------------------------------------------------
Booting(p)  == Refuse(p) \/ FindStale(p) \/ WritePid(p) \/ ClearOnExit(p)
Mishap(p)   == Interrupt(p) \/ Die(p) \/ Reuse(p)
Starting(s) == CheckStart(s) \/ ClearBeforeSpawn(s) \/ Spawn(s) \/ RecordChild(s)
Stopping(k) == \/ CheckStop(k) \/ ReadAgain(k) \/ Guard(k) \/ Signal(k)
               \/ SeeItGone(k) \/ TimeOut(k) \/ ClearStale(k)

Next ==
  \/ \E p \in Pids : RunInForeground(p) \/ Booting(p) \/ Mishap(p)
  \/ \E s \in Starters : Starting(s)
  \/ \E k \in Stoppers : Stopping(k)

Spec == Init /\ [][Next]_vars

(* Processes that have begun are scheduled.                                *)
FairSpec ==
  /\ Spec
  /\ \A p \in Pids : WF_vars(Booting(p))
  /\ \A s \in Starters : WF_vars(Starting(s) /\ start[s] # "idle")

-----------------------------------------------------------------------------
TypeOK ==
  /\ file \in Pids \cup {NULL}
  /\ proc \in [Pids -> ProcStates]
  /\ signalled \subseteq Pids
  /\ start \in [Starters -> StartSteps]
  /\ child \in [Starters -> Pids \cup {NULL}]
  /\ stop \in [Stoppers -> StopSteps]
  /\ target \in [Stoppers -> Pids \cup {NULL}]

(* cli.py: "Stale PID files are safe to overwrite; a living daemon is      *)
(* not": there are never two daemons in their loop.                        *)
OneDaemon ==
  \A p, q \in Pids : proc[p] = "looping" /\ proc[q] = "looping" => p = q

(* "The PID file is the single source of truth for `is my LANgusta monitor *)
(* running`" (daemon_control.py): a daemon in its loop is the one the file *)
(* names, so that stop finds it and a second one is refused.               *)
RunningIsRecorded ==
  \A p \in Pids : proc[p] = "looping" => file = p

(* What `monitor start` says it has started runs, unless it is killed.     *)
StartedRuns ==
  \A s \in Starters :
    start[s] = "done" ~> \E p \in Pids : child[s] = p /\ proc[p] = "looping"
=============================================================================
