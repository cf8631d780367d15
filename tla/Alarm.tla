------------------------------- MODULE Alarm --------------------------------
(***************************************************************************)
(* What monitoring promises about each check, whatever cycles, probes and  *)
(* commits bring it about: going down is reported once, coming back is     *)
(* reported once, and nothing else is.  Cycles report several checks at a  *)
(* time, so a step is one for every check.                                 *)
(***************************************************************************)
EXTENDS Sequences, Nullable

CONSTANT Checks

VARIABLES status,   \* last known status of each check, NULL before the first
          report    \* what was reported about it, oldest first

alarm == <<status, report>>

Init == /\ status = [c \in Checks |-> NULL]
        /\ report = [c \in Checks |-> << >>]

GoesDown(c) ==
  /\ status[c] \in {NULL, "ok"}
  /\ status'[c] = "fail"
  /\ report'[c] = Append(report[c], "failure")

ComesBack(c) ==
  /\ status[c] = "fail"
  /\ status'[c] = "ok"
  /\ report'[c] = Append(report[c], "recovery")

(* A check that works the first time is not news.                          *)
ComesUp(c) ==
  /\ status[c] = NULL
  /\ status'[c] = "ok"
  /\ report'[c] = report[c]

Stays(c) == status'[c] = status[c] /\ report'[c] = report[c]

Next == \A c \in Checks : GoesDown(c) \/ ComesBack(c) \/ ComesUp(c) \/ Stays(c)

Spec == Init /\ [][Next]_alarm
=============================================================================
