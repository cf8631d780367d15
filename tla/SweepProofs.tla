----------------------------- MODULE SweepProofs -----------------------------
(***************************************************************************)
(* For any number of hosts, ports, threads and connections: a scan awaits  *)
(* no stage with the write lock in hand, and stores all of its hosts or    *)
(* none.                                                                   *)
(***************************************************************************)
EXTENDS Sweep, TLAPS

(* Where things happen: rows are written while applying, which begins when *)
(* every task is over, and stay open after an error until the scan leaves; *)
(* the scans row is finished at the end of applying.                       *)
Course ==
  /\ work # {} => phase \in {"applying", "leaving"}
  /\ phase = "applying" => AllOver
  /\ phase \in {"idle", "pinging", "enriching", "applying"} => row # "finished"

Facts == TypeOK /\ LockIsLocal /\ ScanIsAtomic /\ Course

(* The invariant holds before the sweep.                                   *)
LEMMA InitFacts == Init => Facts
<1> SUFFICES ASSUME Init PROVE Facts
  OBVIOUS
<1>1. port \in [Hosts -> [Ports -> TaskState]]
  BY DEF Init, TaskState
<1>2. TypeOK
  BY <1>1 DEF Init, TypeOK, Phases, TaskState
<1> QED BY <1>2 DEF Init, Facts, LockIsLocal, ScanIsAtomic, Course

(* A task's step while the loop runs the stages: neither the tables nor    *)
(* the phase are touched.                                                  *)
LEMMA StageKeepsFacts ==
  ASSUME Facts, TypeOK', UNCHANGED <<phase, alive, tables>>, Enriching
  PROVE  Facts'
BY DEF Facts, LockIsLocal, ScanIsAtomic, Course, Enriching, tables

(* An error leaves the tables as they are, and the lock where it is.       *)
LEMMA FailsKeepsFacts ==
  ASSUME Facts, TypeOK', Fails, locked => AllOver'
  PROVE  Facts'
BY DEF Facts, LockIsLocal, ScanIsAtomic, Course, Fails, tables

-----------------------------------------------------------------------------
(* Types.                                                                  *)

(* A task's step keeps the types.                                          *)
LEMMA TasksKeepTypes ==
  ASSUME TypeOK, NEW h \in Hosts,
         \/ TakeLookup(h) \/ LookupReturns(h) \/ LookupTimesOut(h) \/ SnmpEnds(h)
  PROVE  TypeOK'
<1> USE DEF TypeOK, TaskState, tables
<1>1. CASE TakeLookup(h)
  BY <1>1 DEF TakeLookup
<1>2. CASE LookupReturns(h)
  BY <1>2 DEF LookupReturns
<1>3. CASE LookupTimesOut(h)
  BY <1>3 DEF LookupTimesOut, GivenUp
<1>4. CASE SnmpEnds(h)
  BY <1>4 DEF SnmpEnds
<1> QED BY <1>1, <1>2, <1>3, <1>4

(* A probe's answer or its timeout keeps the types.                        *)
LEMMA ProbesKeepTypes ==
  ASSUME TypeOK, NEW h \in Hosts, NEW p \in Ports, Connect(h, p) \/ ConnectEnds(h, p)
  PROVE  TypeOK'
<1>1. PICK s \in TaskState : port' = [port EXCEPT ![h][p] = s]
  BY DEF Connect, ConnectEnds, TaskState
<1>2. port' \in [Hosts -> [Ports -> TaskState]]
  BY <1>1 DEF TypeOK
<1> QED BY <1>2 DEF TypeOK, Connect, ConnectEnds, tables

(* The end of the sweep keeps the types.                                   *)
LEMMA SweepEndsKeepsTypes == TypeOK /\ Course /\ SweepEnds => TypeOK'
<1> SUFFICES ASSUME TypeOK, Course, SweepEnds PROVE TypeOK'
  OBVIOUS
<1>1. \A up \in SUBSET Hosts : \A s \in TaskState : For(up, s) \in [Hosts -> TaskState]
  BY DEF For, TaskState
<1>2. \A up \in SUBSET Hosts : \A s \in TaskState :
        \A h \in Hosts \ up : For(up, s)[h] = "none"
  BY DEF For
<1>3. PICK up \in SUBSET Hosts :
        /\ alive' = up
        /\ name' = For(up, "running")
        /\ thread' = For(up, "waiting")
        /\ port' = [h \in Hosts |-> [p \in Ports |-> IF h \in up THEN "waiting" ELSE "none"]]
        /\ mdns' = (IF up = {} THEN "none" ELSE "running")
        /\ snmp' = For(IF Snmp THEN up ELSE {}, "running")
  BY DEF SweepEnds
<1>4. port' \in [Hosts -> [Ports -> TaskState]]
  <2>1. \A h \in Hosts : [p \in Ports |-> IF h \in up THEN "waiting" ELSE "none"]
                           \in [Ports -> TaskState]
    BY DEF TaskState
  <2> QED BY <1>3, <2>1
<1>5. PICK asked \in SUBSET up : snmp' = For(asked, "running")
  BY <1>3
<1>6. /\ name' \in [Hosts -> TaskState]
      /\ thread' \in [Hosts -> TaskState]
      /\ snmp' \in [Hosts -> TaskState]
      /\ mdns' \in TaskState
  BY <1>1, <1>3, <1>5 DEF TaskState
<1>7. \A h \in Hosts \ up : name'[h] = "none" /\ thread'[h] = "none" /\ snmp'[h] = "none"
  BY <1>2, <1>3, <1>5 DEF TaskState
<1>8. /\ phase' = "enriching" /\ work' = work /\ work = {}
      /\ UNCHANGED <<row, locked, stored>>
  BY DEF SweepEnds, tables, Course
<1> QED BY <1>3, <1>4, <1>6, <1>7, <1>8 DEF TypeOK, Phases

(* A stage that raises keeps the types.                                    *)
LEMMA StageRaisesKeepsTypes == TypeOK /\ StageRaises => TypeOK'
<1> SUFFICES ASSUME TypeOK, StageRaises PROVE TypeOK'
  OBVIOUS
<1>1. port' \in [Hosts -> [Ports -> TaskState]]
  <2>1. \A h \in Hosts : [p \in Ports |-> IF Over(port[h][p]) THEN port[h][p] ELSE "over"]
                           \in [Ports -> TaskState]
    BY DEF TypeOK, TaskState
  <2> QED BY <2>1 DEF StageRaises
<1>2. /\ name' \in [Hosts -> TaskState] /\ thread' \in [Hosts -> TaskState]
      /\ snmp' \in [Hosts -> TaskState] /\ mdns' \in TaskState
  BY DEF TypeOK, StageRaises, GivenUp, TaskState
<1>3. \A h \in Hosts \ alive : name'[h] = "none" /\ thread'[h] = "none" /\ snmp'[h] = "none"
  BY DEF TypeOK, StageRaises, GivenUp, Over
<1> QED BY <1>1, <1>2, <1>3 DEF TypeOK, StageRaises, Fails, tables, Phases

(* An interrupt keeps the types.                                           *)
LEMMA KillKeepsTypes == TypeOK /\ Kill => TypeOK'
BY DEF TypeOK, Kill, Phases, TaskState

-----------------------------------------------------------------------------
(* The invariant is inductive.                                             *)
LEMMA NextFacts == Facts /\ [Next]_vars => Facts'
<1> SUFFICES ASSUME Facts, [Next]_vars PROVE Facts'
  OBVIOUS
<1>0. TypeOK /\ LockIsLocal /\ ScanIsAtomic /\ Course
  BY DEF Facts
<1>1. CASE StartScan
  BY <1>0, <1>1 DEF StartScan, HeldAfterStart, Facts, TypeOK, LockIsLocal, ScanIsAtomic,
                    Course, stages, Phases
<1>2. CASE SweepFails
  <2>1. TypeOK'
    BY <1>0, <1>2 DEF SweepFails, Fails, tables, TypeOK, stages, Phases
  <2> QED BY <1>0, <1>2, <2>1, FailsKeepsFacts DEF SweepFails, LockIsLocal
<1>3. CASE SweepEnds
  <2>1. TypeOK'
    BY <1>0, <1>3, SweepEndsKeepsTypes
  <2> QED BY <1>0, <1>3, <2>1 DEF SweepEnds, tables, Facts, LockIsLocal, ScanIsAtomic, Course
<1>4. ASSUME NEW h \in Hosts, TakeLookup(h) PROVE Facts'
  <2>1. TypeOK'
    BY <1>0, <1>4, TasksKeepTypes
  <2> QED BY <1>0, <1>4, <2>1 DEF TakeLookup, tables, Facts, LockIsLocal, ScanIsAtomic,
                                  Course, AllOver
<1>5. ASSUME NEW h \in Hosts, LookupReturns(h) PROVE Facts'
  <2>1. TypeOK'
    BY <1>0, <1>5, TasksKeepTypes
  <2>2. AllOver => AllOver'
    BY <1>0, <1>5 DEF LookupReturns, AllOver, Over, TypeOK
  <2> QED BY <1>0, <1>5, <2>1, <2>2 DEF LookupReturns, tables, Facts, LockIsLocal,
                                        ScanIsAtomic, Course
<1>6. ASSUME NEW h \in Hosts, LookupTimesOut(h) \/ SnmpEnds(h) PROVE Facts'
  <2>1. TypeOK'
    BY <1>0, <1>6, TasksKeepTypes
  <2> QED BY <1>6, <2>1, StageKeepsFacts DEF LookupTimesOut, SnmpEnds
<1>7. ASSUME NEW h \in Hosts, NEW p \in Ports, Connect(h, p) \/ ConnectEnds(h, p)
      PROVE  Facts'
  <2>1. TypeOK'
    BY <1>0, <1>7, ProbesKeepTypes
  <2> QED BY <1>7, <2>1, StageKeepsFacts DEF Connect, ConnectEnds
<1>8. CASE MdnsEnds
  <2>1. TypeOK'
    BY <1>0, <1>8 DEF MdnsEnds, TypeOK, TaskState, tables
  <2> QED BY <1>8, <2>1, StageKeepsFacts DEF MdnsEnds
<1>9. CASE StageRaises
  <2>1. TypeOK'
    BY <1>0, <1>9, StageRaisesKeepsTypes
  <2> QED BY <1>0, <1>9, <2>1, FailsKeepsFacts DEF StageRaises, Enriching, LockIsLocal
<1>10. CASE BeginApplying
  BY <1>0, <1>10 DEF BeginApplying, Gathered, Enriching, Facts, TypeOK, LockIsLocal,
                     ScanIsAtomic, Course, AllOver, stages, tables, Phases
<1>11. ASSUME NEW h \in Hosts, ApplyHost(h) PROVE Facts'
  BY <1>0, <1>11 DEF ApplyHost, Facts, TypeOK, LockIsLocal, ScanIsAtomic, Course,
                     AllOver, stages
<1>12. CASE ApplyFails
  <2>1. TypeOK'
    BY <1>0, <1>12 DEF ApplyFails, Fails, tables, TypeOK, stages, Phases
  <2>2. locked => AllOver'
    BY <1>0, <1>12 DEF ApplyFails, LockIsLocal, AllOver, stages
  <2> QED BY <1>12, <2>1, <2>2, FailsKeepsFacts DEF ApplyFails
<1>13. CASE FinishScan
  BY <1>0, <1>13 DEF FinishScan, Facts, TypeOK, LockIsLocal, ScanIsAtomic, Course,
                     stages, Phases
<1>14. CASE BackUp \/ Leave
  <2>1. CASE BackUp
    BY <1>0, <2>1 DEF BackUp, Facts, TypeOK, LockIsLocal, ScanIsAtomic, Course, stages,
                      tables, Phases
  <2>2. CASE Leave
    BY <1>0, <2>2 DEF Leave, RollBack, Facts, TypeOK, LockIsLocal, ScanIsAtomic, Course,
                      stages, Phases
  <2> QED BY <1>14, <2>1, <2>2
<1>15. CASE Kill
  <2>1. TypeOK'
    BY <1>0, <1>15, KillKeepsTypes
  <2> QED BY <1>0, <1>15, <2>1 DEF Kill, Facts, LockIsLocal, ScanIsAtomic, Course
<1>16. CASE UNCHANGED vars
  BY <1>0, <1>16 DEF vars, stages, Facts, TypeOK, LockIsLocal, ScanIsAtomic, Course, AllOver
<1> QED
  BY <1>1, <1>2, <1>3, <1>4, <1>5, <1>6, <1>7, <1>8, <1>9, <1>10, <1>11, <1>12, <1>13,
     <1>14, <1>15, <1>16 DEF Next, Proceeds, Errs

-----------------------------------------------------------------------------
(* Everything below follows from this.                                     *)
LEMMA AlwaysFacts == Spec => []Facts
  BY InitFacts, NextFacts, PTL DEF Spec

(* The variables keep to their types, and only hosts that answered a ping  *)
(* are looked up, asked and written.                                       *)
THEOREM TypesHold == Spec => []TypeOK
<1>1. Facts => TypeOK
  BY DEF Facts
<1> QED BY <1>1, AlwaysFacts, PTL

(* No stage is awaited with the write lock in hand (scan/orchestrator.py,  *)
(* the commit right after start_scan): who has it has seen every task end, *)
(* and keeps it beyond the writes only if one of them failed.              *)
THEOREM LockHeldLocally == Spec => []LockIsLocal
<1>1. Facts => LockIsLocal
  BY DEF Facts
<1> QED BY <1>1, AlwaysFacts, PTL

(* However a scan ends, it has stored all of its hosts or none.            *)
THEOREM ScansAreAtomic == Spec => []ScanIsAtomic
<1>1. Facts => ScanIsAtomic
  BY DEF Facts
<1> QED BY <1>1, AlwaysFacts, PTL
=============================================================================
