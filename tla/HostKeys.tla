------------------------------ MODULE HostKeys ------------------------------
(***************************************************************************)
(* Trust on first use: monitor/ssh/known_hosts.py and the ssh_command      *)
(* checks that run through monitor/ssh/asyncssh_backend.py.                *)
(*                                                                         *)
(* A check of a host without a pin connects once without credentials,      *)
(* records the key it was shown, and connects again; that connection reads *)
(* the file as it begins and compares the server's key with what it has    *)
(* read once keys are exchanged.  Checks are tasks of one cycle, of two    *)
(* processes even, and know nothing of each other; the file is locked      *)
(* while a pin is added and at no other time.  Servers change their keys,  *)
(* and operators edit the file, or fill it in before the first check.      *)
(***************************************************************************)
CONSTANTS Hosts, Keys,
          Checks,       \* the checks of each host
          NULL          \* no key

ASSUME HostKeysAssumption == NULL \notin Keys

VARIABLES
  pins,      \* the lines of known_hosts
  server,    \* the key each host shows
  phase,     \* how far each task is
  shown,     \* the key a task was shown on first use
  trusted,   \* the keys its connection has read from the file
  overtaken, \* history: connections begun before an operator's last edit
  accepted   \* history: keys logged in against since the last edit

files   == <<pins, accepted>>
reads   == <<shown, trusted, overtaken>>
vars    == <<files, server, phase, reads>>

Tasks     == Hosts \X Checks
HostOf(t) == t[1]

Phases == {"idle", "unknown", "shown", "recorded", "pinned", "connecting", "done", "failed"}
Pins   == [host: Hosts, key: Keys, by: {"first use", "hand"}]

PinsOf(h)   == {l \in pins : l.host = h}
KeysOf(h)   == {l.key : l \in PinsOf(h)}
Contains(h) == PinsOf(h) # {}

(* The file may have been filled in by hand.                               *)
Init ==
  /\ pins \in SUBSET {l \in Pins : l.by = "hand"}
  /\ server \in [Hosts -> Keys]
  /\ phase = [t \in Tasks |-> "idle"]
  /\ shown = [t \in Tasks |-> NULL]
  /\ trusted = [t \in Tasks |-> {}]
  /\ overtaken = {}
  /\ accepted = [h \in Hosts |-> {}]

Goto(t, ph) == phase' = [phase EXCEPT ![t] = ph]

-----------------------------------------------------------------------------
Begin(t) ==
  /\ phase[t] \in {"idle", "done", "failed"}
  /\ Goto(t, IF Contains(HostOf(t)) THEN "pinned" ELSE "unknown")
  /\ UNCHANGED <<files, server, reads>>

\* Faulty: a server that shows no key has one.
SeeNothing(t) ==
  /\ phase[t] = "unknown"
  /\ Goto(t, "shown")
  /\ trusted' = [trusted EXCEPT ![t] = {shown[t]}]
  /\ UNCHANGED <<files, server, shown, overtaken>>

(* _tofu_record_key: a connection that ends after the key exchange.        *)
SeeKey(t) ==
  /\ phase[t] = "unknown"
  /\ shown' = [shown EXCEPT ![t] = server[HostOf(t)]]
  /\ Goto(t, "shown")
  /\ UNCHANGED <<files, server, trusted, overtaken>>

Line(h, k, by) == [host |-> h, key |-> k, by |-> by]

\* Faulty: the file is not read again under the lock.
AddAnyway(t) ==
  /\ phase[t] = "shown"
  /\ pins' = pins \cup {Line(HostOf(t), shown[t], "first use")}
  /\ Goto(t, "recorded")
  /\ UNCHANGED <<accepted, server, reads>>

(* add, under the file lock: a pin that has appeared meanwhile stands.     *)
AddPin(t) ==
  /\ phase[t] = "shown"
  /\ pins' = IF Contains(HostOf(t)) THEN pins
             ELSE pins \cup {Line(HostOf(t), shown[t], "first use")}
  /\ Goto(t, "recorded")
  /\ UNCHANGED <<accepted, server, reads>>

LookAgain(t) ==
  /\ phase[t] = "recorded"
  /\ Goto(t, IF Contains(HostOf(t)) THEN "pinned" ELSE "failed")
  /\ UNCHANGED <<files, server, reads>>

\* Faulty: the key shown on first use is trusted, whatever was recorded.
TrustShown(t) == IF shown[t] = NULL THEN KeysOf(HostOf(t)) ELSE {shown[t]}

(* known_hosts=...: a connection trusts every key the file has for it.     *)
Trusts(t) == KeysOf(HostOf(t))

(* The second connection begins: it reads the file, without the lock.      *)
Connect(t) ==
  /\ phase[t] = "pinned"
  /\ Goto(t, "connecting")
  /\ trusted' = [trusted EXCEPT ![t] = Trusts(t)]
  /\ UNCHANGED <<files, server, shown, overtaken>>

(* The task is over; what it had read is gone.                             *)
Ends(t, ph) ==
  /\ Goto(t, ph)
  /\ shown' = [shown EXCEPT ![t] = NULL]
  /\ trusted' = [trusted EXCEPT ![t] = {}]
  /\ overtaken' = overtaken \ {t}
  /\ UNCHANGED <<pins, server>>

(* Keys are exchanged: the server's is checked before any credential is    *)
(* sent, against the file as the connection has read it.                   *)
LogIn(t) ==
  /\ phase[t] = "connecting"
  /\ server[HostOf(t)] \in trusted[t]
  /\ Ends(t, "done")
  /\ accepted' = IF t \in overtaken THEN accepted
                 ELSE [accepted EXCEPT ![HostOf(t)] = @ \cup {server[HostOf(t)]}]

KeyChanged(t) ==
  /\ phase[t] = "connecting"
  /\ server[HostOf(t)] \notin trusted[t]
  /\ Ends(t, "failed")
  /\ UNCHANGED accepted

(* A timeout, a server that shows no key or is not there, a crash.         *)
GiveUp(t) ==
  /\ phase[t] \notin {"idle", "done", "failed"}
  /\ Ends(t, "failed")
  /\ UNCHANGED accepted

ChangeKey(h) ==
  /\ \E k \in Keys \ {server[h]} : server' = [server EXCEPT ![h] = k]
  /\ UNCHANGED <<files, phase, reads>>

(* What an operator does to the lines of `h`.                              *)
Edits(h) ==
  /\ accepted' = [accepted EXCEPT ![h] = {}]
  /\ overtaken' = overtaken \cup {t \in Tasks : HostOf(t) = h /\ phase[t] = "connecting"}
  /\ UNCHANGED <<server, phase, shown, trusted>>

(* "remove it from ~/.langusta/known_hosts before re-pinning"              *)
RemovePin(h) ==
  /\ Contains(h)
  /\ pins' = pins \ PinsOf(h)
  /\ Edits(h)

(* "advanced users can edit it with a text editor"                         *)
PinByHand(h, k) ==
  /\ pins' = pins \cup {Line(h, k, "hand")}
  /\ Edits(h)

Checking(t) ==
  \/ Begin(t) \/ SeeKey(t) \/ AddPin(t) \/ LookAgain(t) \/ Connect(t)
  \/ LogIn(t) \/ KeyChanged(t) \/ GiveUp(t)

Next ==
  \/ \E t \in Tasks : Checking(t)
  \/ \E h \in Hosts : ChangeKey(h) \/ RemovePin(h) \/ \E k \in Keys : PinByHand(h, k)

Spec == Init /\ [][Next]_vars

-----------------------------------------------------------------------------
(* The variables' types.                                                   *)
TypeOK ==
  /\ pins \subseteq Pins
  /\ server \in [Hosts -> Keys]
  /\ phase \in [Tasks -> Phases]
  /\ shown \in [Tasks -> Keys \cup {NULL}]
  /\ trusted \in [Tasks -> SUBSET Keys]
  /\ overtaken \subseteq Tasks
  /\ accepted \in [Hosts -> SUBSET Keys]

(* First use gives a host one pin, though two checks met it for the first  *)
(* time at once and were shown different keys (add: "prevent TOCTOU races  *)
(* where two concurrent first-use checks ... both append").                *)
OnePin ==
  \A l, m \in pins :
    l.host = m.host /\ l.by = "first use" /\ m.by = "first use" => l = m

(* "never auto-accepting a changed key" (known_hosts.py): as long as no    *)
(* operator touches a host's lines, whoever logs in to it does so against  *)
(* a key that is pinned, and against one and the same if first use has     *)
(* pinned it, whatever keys the checks were shown when they first met it   *)
(* and however it changes them while they connect.                         *)
ChangedKeysAreRefused ==
  \A h \in Hosts :
    /\ accepted[h] \subseteq KeysOf(h)
    /\ (\A l \in PinsOf(h) : l.by = "first use") => \A j, k \in accepted[h] : j = k
=============================================================================
