------------------------------- MODULE Sweep --------------------------------
(***************************************************************************)
(* What one `langusta scan` does on the network before its observations    *)
(* reach the inventory: scan/orchestrator.py run_scan with the stages of   *)
(* scan/icmp.py, arp.py, rdns.py, tcp.py, mdns.py and the SNMP client.     *)
(*                                                                         *)
(* The scans row is committed first.  The ping sweep and the ARP table say *)
(* who is there; then reverse DNS, TCP probes, mDNS and SNMP run as tasks  *)
(* of one event loop, all of them awaited together: if one raises, the     *)
(* scan is over and the others are cancelled.  A DNS lookup is a blocking  *)
(* call in a thread of the loop's default pool: it is asked for all hosts  *)
(* at once, and its timeout, which counts from then, gives up the answer   *)
(* but cannot stop the thread.  When all are over, rows are written under  *)
(* the write lock and committed at once.  In the end, also when an error   *)
(* has ended run_scan, asyncio.run joins the pool; an error then reaches   *)
(* connect(), which rolls back.                                            *)
(*                                                                         *)
(* What is written per host is in Inventory; here a host's rows are the    *)
(* host.                                                                   *)
(***************************************************************************)
EXTENDS Integers, FiniteSets

CONSTANTS Hosts,     \* the addresses of the target
          Ports,     \* the ports probed on each
          Workers,   \* threads of the default pool
          Slots,     \* connections at a time to one host
          Snmp       \* whether --snmp was given

ASSUME SweepAssumption ==
  /\ Workers \in Nat \ {0} /\ Slots \in Nat \ {0}
  /\ Snmp \in BOOLEAN

VARIABLES
  phase,      \* where run_scan is
  row,        \* the scans row: none, started, finished
  locked,     \* whether the scan has the write lock
  alive,      \* hosts that answered a ping
  name,       \* per host: the future of its DNS name
  thread,     \* per host: the blocking lookup
  port,       \* per host and port: the TCP probe
  mdns,       \* the mDNS browser
  snmp,       \* per host: the SNMP query
  work,       \* hosts written in the open transaction
  stored      \* hosts committed

vars == <<phase, row, locked, alive, name, thread, port, mdns, snmp, work, stored>>
stages == <<name, thread, port, mdns, snmp>>
tables == <<row, locked, work, stored>>

Phases    == {"idle", "pinging", "enriching", "applying", "backup", "leaving",
              "ended", "killed"}
TaskState == {"none", "waiting", "running", "over"}

-----------------------------------------------------------------------------
Init ==
  /\ phase = "idle" /\ row = "none" /\ locked = FALSE
  /\ alive = {}
  /\ name = [h \in Hosts |-> "none"]
  /\ thread = [h \in Hosts |-> "none"]
  /\ port = [h \in Hosts |-> [p \in Ports |-> "none"]]
  /\ mdns = "none"
  /\ snmp = [h \in Hosts |-> "none"]
  /\ work = {} /\ stored = {}

\* Faulty: the transaction stays open until the scan ends.
HeldThroughout == TRUE

(* conn.commit() right after start_scan.                                   *)
HeldAfterStart == FALSE

StartScan ==
  /\ phase = "idle"
  /\ phase' = "pinging"
  /\ row' = "started"
  /\ locked' = HeldAfterStart
  /\ UNCHANGED <<alive, stages, work, stored>>

(* An exception leaves run_scan: it goes to asyncio.run first.             *)
Fails ==
  /\ phase' = "leaving"
  /\ UNCHANGED <<alive, tables>>

(* The target cannot be parsed, ICMP is not permitted, or the ARP table    *)
(* cannot be read: the row is there already.                               *)
SweepFails ==
  /\ phase = "pinging"
  /\ Fails
  /\ UNCHANGED stages

\* Faulty: every address probed is asked about, not those that answered.
ForEvery(up, state) == [h \in Hosts |-> state]

(* Tasks for the hosts of `up`, none of them begun.                        *)
For(up, state) == [h \in Hosts |-> IF h \in up THEN state ELSE "none"]

SweepEnds ==
  /\ phase = "pinging"
  /\ phase' = "enriching"
  /\ \E up \in SUBSET Hosts :
       /\ alive' = up
       /\ name' = For(up, "running")
       /\ thread' = For(up, "waiting")
       /\ port' = [h \in Hosts |-> [p \in Ports |->
                     IF h \in up THEN "waiting" ELSE "none"]]
       /\ mdns' = IF up = {} THEN "none" ELSE "running"
       /\ snmp' = For(IF Snmp THEN up ELSE {}, "running")
  /\ UNCHANGED tables

-----------------------------------------------------------------------------
(* The stages.                                                             *)

Enriching == phase = "enriching"

RunningThreads == {h \in Hosts : thread[h] = "running"}

(* A thread of the pool takes a lookup; it may do so while the loop is     *)
(* busy or gone.                                                           *)
TakeLookup(h) ==
  /\ phase \in {"enriching", "applying", "backup", "leaving"}
  /\ thread[h] = "waiting"
  /\ Cardinality(RunningThreads) < Workers
  /\ thread' = [thread EXCEPT ![h] = "running"]
  /\ UNCHANGED <<phase, alive, name, port, mdns, snmp, tables>>

(* gethostbyaddr returns or raises; nobody may be waiting for it any more. *)
LookupReturns(h) ==
  /\ phase # "killed"
  /\ thread[h] = "running"
  /\ thread' = [thread EXCEPT ![h] = "over"]
  /\ name' = [name EXCEPT ![h] = "over"]
  /\ UNCHANGED <<phase, alive, port, mdns, snmp, tables>>

(* A lookup no thread has taken is withdrawn; a running one goes on.       *)
GivenUp(h) == IF thread[h] = "waiting" THEN "over" ELSE thread[h]

\* Faulty: a lookup is waited for as long as it takes.
NeverTimesOut(h) == FALSE /\ UNCHANGED vars

LookupTimesOut(h) ==
  /\ Enriching
  /\ name[h] = "running"
  /\ name' = [name EXCEPT ![h] = "over"]
  /\ thread' = [thread EXCEPT ![h] = GivenUp(h)]
  /\ UNCHANGED <<phase, alive, port, mdns, snmp, tables>>

\* Faulty: a slot is not given back.
Used(h) == {p \in Ports : port[h][p] \in {"running", "over"}}

Connecting(h) == {p \in Ports : port[h][p] = "running"}

Connect(h, p) ==
  /\ Enriching
  /\ port[h][p] = "waiting"
  /\ Cardinality(Connecting(h)) < Slots
  /\ port' = [port EXCEPT ![h][p] = "running"]
  /\ UNCHANGED <<phase, alive, name, thread, mdns, snmp, tables>>

(* Open, refused, or not answered within the timeout.                      *)
ConnectEnds(h, p) ==
  /\ Enriching
  /\ port[h][p] = "running"
  /\ port' = [port EXCEPT ![h][p] = "over"]
  /\ UNCHANGED <<phase, alive, name, thread, mdns, snmp, tables>>

(* The browser's window is over, or zeroconf failed: no records then.      *)
MdnsEnds ==
  /\ Enriching
  /\ mdns = "running"
  /\ mdns' = "over"
  /\ UNCHANGED <<phase, alive, name, thread, port, snmp, tables>>

(* An answer, none, or an exception, which _snmp_one catches.              *)
SnmpEnds(h) ==
  /\ Enriching
  /\ snmp[h] = "running"
  /\ snmp' = [snmp EXCEPT ![h] = "over"]
  /\ UNCHANGED <<phase, alive, name, thread, port, mdns, tables>>

Over(state) == state \in {"none", "over"}

AllOver ==
  /\ \A h \in Hosts : Over(name[h]) /\ Over(snmp[h]) /\ \A p \in Ports : Over(port[h][p])
  /\ Over(mdns)

(* Reverse DNS and TCP let what they do not expect through; gather raises  *)
(* it and the finally clause cancels the other tasks.                      *)
StageRaises ==
  /\ Enriching
  /\ \E h \in Hosts : ~Over(name[h]) \/ \E p \in Ports : ~Over(port[h][p])
  /\ Fails
  /\ name' = [h \in Hosts |-> IF Over(name[h]) THEN name[h] ELSE "over"]
  /\ thread' = [h \in Hosts |-> GivenUp(h)]
  /\ port' = [h \in Hosts |-> [p \in Ports |->
                IF Over(port[h][p]) THEN port[h][p] ELSE "over"]]
  /\ mdns' = IF Over(mdns) THEN mdns ELSE "over"
  /\ snmp' = [h \in Hosts |-> IF Over(snmp[h]) THEN snmp[h] ELSE "over"]

-----------------------------------------------------------------------------
(* The transaction.                                                        *)

Gathered == Enriching /\ AllOver

(* From here no await: the next thing is the first write.                  *)
BeginApplying ==
  /\ Gathered
  /\ phase' = "applying"
  /\ UNCHANGED <<alive, stages, tables>>

ApplyHost(h) ==
  /\ phase = "applying"
  /\ h \in alive \ work
  /\ locked' = TRUE
  /\ work' = work \cup {h}
  /\ UNCHANGED <<phase, row, alive, stages, stored>>

(* The lock cannot be had, or a row collides with a concurrent command's.  *)
ApplyFails ==
  /\ phase = "applying"
  /\ Fails
  /\ UNCHANGED stages

(* finish_scan and the commit before the backup.                           *)
FinishScan ==
  /\ phase = "applying"
  /\ work = alive
  /\ phase' = "backup"
  /\ row' = "finished"
  /\ locked' = FALSE
  /\ stored' = stored \cup work
  /\ work' = {}
  /\ UNCHANGED <<alive, stages>>

(* A snapshot, a recent one found, or an error of the disk, which is       *)
(* suppressed, or of SQLite, which is not: the scan is stored either way.  *)
BackUp ==
  /\ phase = "backup"
  /\ phase' = "leaving"
  /\ UNCHANGED <<alive, stages, tables>>

\* Faulty: what was written before the error is kept.
KeepWritten == stored' = stored \cup work

RollBack == stored' = stored

(* asyncio.run joins the threads of the default pool; then connect() rolls *)
(* back what an error has left of a transaction and closes the database.   *)
Leave ==
  /\ phase = "leaving"
  /\ \A h \in Hosts : thread[h] \notin {"waiting", "running"}
  /\ phase' = "ended"
  /\ RollBack
  /\ work' = {}
  /\ locked' = FALSE
  /\ UNCHANGED <<row, alive, stages>>

Kill ==
  /\ phase \notin {"idle", "ended", "killed"}
  /\ phase' = "killed"
  /\ locked' = FALSE
  /\ work' = {}
  /\ thread' = [h \in Hosts |-> IF thread[h] = "none" THEN "none" ELSE "over"]
  /\ UNCHANGED <<row, alive, name, port, mdns, snmp, stored>>

-----------------------------------------------------------------------------
(* What the process and the timeouts bring about by themselves.            *)
Proceeds ==
  \/ SweepEnds \/ MdnsEnds \/ BeginApplying \/ FinishScan \/ BackUp \/ Leave
  \/ \E h \in Hosts :
       \/ TakeLookup(h) \/ LookupTimesOut(h) \/ SnmpEnds(h) \/ ApplyHost(h)
       \/ \E p \in Ports : Connect(h, p) \/ ConnectEnds(h, p)

Errs == SweepFails \/ StageRaises \/ ApplyFails

Next ==
  \/ StartScan \/ Proceeds \/ Errs \/ Kill
  \/ \E h \in Hosts : LookupReturns(h)

Spec == Init /\ [][Next]_vars

(* The process is scheduled, a ping, a connection and a query time out;    *)
(* nothing makes a DNS lookup return, or anything fail.                    *)
FairSpec == Spec /\ WF_vars(Proceeds)

-----------------------------------------------------------------------------
(* The variables' types, and that only hosts that answered a ping are      *)
(* looked up, asked and written.                                           *)
TypeOK ==
  /\ phase \in Phases
  /\ row \in {"none", "started", "finished"}
  /\ locked \in BOOLEAN
  /\ alive \subseteq Hosts /\ work \subseteq Hosts /\ stored \subseteq Hosts
  /\ name \in [Hosts -> TaskState] /\ thread \in [Hosts -> TaskState]
  /\ port \in [Hosts -> [Ports -> TaskState]]
  /\ mdns \in TaskState /\ snmp \in [Hosts -> TaskState]
  /\ work \subseteq alive
  /\ \A h \in Hosts \ alive : name[h] = "none" /\ thread[h] = "none" /\ snmp[h] = "none"

(* No stage is awaited with the write lock in hand (orchestrator.py,       *)
(* "Commit immediately so the WAL write-lock is released before network    *)
(* I/O begins"): while the scan has it every task is over, and it keeps it *)
(* beyond its writes only if one of them failed.                           *)
LockIsLocal == locked => AllOver /\ phase \in {"applying", "leaving"}

(* A scan is finished in the database exactly when all its hosts are; a    *)
(* scan that failed, was killed or is still under way has left none.       *)
ScanIsAtomic ==
  /\ row = "finished" => stored = alive
  /\ row # "finished" => stored = {}

(* However long DNS takes, "a slow DNS server can't stall the scan"        *)
(* (scan/rdns.py): a scan that has begun is stored, fails or is killed.    *)
ScanSettles ==
  phase = "pinging" ~> row = "finished" \/ phase \in {"leaving", "ended", "killed"}

(* The command ends if every lookup does.                                  *)
CommandEnds ==
  (\A h \in Hosts : []<>(thread[h] # "running")) =>
    (phase = "pinging" ~> phase \in {"ended", "killed"})

-----------------------------------------------------------------------------
(* What a reader may take these words for and is not so.                   *)

(* "released before network I/O begins" (orchestrator.py): nothing of the  *)
(* network is waited for with the lock in hand, a given-up lookup either.  *)
WaitsWithoutLock ==
  phase = "leaving" /\ RunningThreads # {} => ~locked

(* "can't stall the scan" (scan/rdns.py): the command ends, and prints its *)
(* report, whatever DNS does.                                              *)
CommandEndsAnyway == phase = "pinging" ~> phase \in {"ended", "killed"}
=============================================================================
