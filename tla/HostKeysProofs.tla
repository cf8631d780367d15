--------------------------- MODULE HostKeysProofs ---------------------------
(* Trust on first use, for any number of hosts, keys and concurrent checks.*)
EXTENDS HostKeys, TLAPS

ShownIsKey == \A t \in Tasks : phase[t] = "shown" => shown[t] \in Keys

(* What a connection has read is still there unless an operator came.      *)
ReadIsPinned ==
  \A t \in Tasks : phase[t] = "connecting" /\ t \notin overtaken =>
    trusted[t] \subseteq KeysOf(HostOf(t))

AcceptedIsPinned == \A h \in Hosts : accepted[h] \subseteq KeysOf(h)

Facts == TypeOK /\ OnePin /\ ShownIsKey /\ ReadIsPinned /\ AcceptedIsPinned

(* A task is of a host.                                                    *)
LEMMA TaskOfHost == \A t \in Tasks : HostOf(t) \in Hosts
  BY DEF Tasks, HostOf

(* A host's keys are keys.                                                 *)
LEMMA KeysOfType == TypeOK => \A h \in Hosts : KeysOf(h) \subseteq Keys
  BY DEF TypeOK, Pins, KeysOf, PinsOf

(* Lines by hand only, and nobody has connected.                           *)
LEMMA InitFacts == Init => Facts
<1> SUFFICES ASSUME Init PROVE Facts
  OBVIOUS
<1>1. TypeOK
  BY DEF Init, TypeOK, Phases
<1>2. OnePin
  BY DEF Init, OnePin, Pins
<1>3. ShownIsKey /\ ReadIsPinned /\ AcceptedIsPinned
  BY DEF Init, ShownIsKey, ReadIsPinned, AcceptedIsPinned
<1> QED
  BY <1>1, <1>2, <1>3 DEF Facts

(* A step that leaves the file alone and the connections' reads with it.   *)
LEMMA FileUntouched ==
  ASSUME Facts, TypeOK', ShownIsKey', UNCHANGED <<files, trusted, overtaken>>,
         \A t \in Tasks : phase'[t] = "connecting" => phase[t] = "connecting"
  PROVE  Facts'
BY DEF Facts, OnePin, ReadIsPinned, AcceptedIsPinned, files, KeysOf, PinsOf

(* A pin is added under the file lock: only to a host that has none.       *)
LEMMA AddPinKeepsFacts ==
  ASSUME Facts, NEW t \in Tasks, AddPin(t)
  PROVE  Facts'
<1> DEFINE h == HostOf(t)
           line == Line(h, shown[t], "first use")
<1>1. h \in Hosts /\ shown[t] \in Keys
  BY TaskOfHost DEF AddPin, Facts, ShownIsKey
<1>2. line \in Pins /\ line.host = h /\ line.by = "first use"
  BY <1>1 DEF Pins, Line
<1>3. /\ phase' = [phase EXCEPT ![t] = "recorded"]
      /\ pins' = IF Contains(h) THEN pins ELSE pins \cup {line}
      /\ UNCHANGED <<accepted, server, reads>>
  BY DEF AddPin, Goto
<1> HIDE DEF line
<1>4. TypeOK'
  BY <1>2, <1>3 DEF TypeOK, Phases, Facts, reads
<1>5. OnePin'
  <2>1. CASE Contains(h)
    BY <2>1, <1>3 DEF OnePin, Facts
  <2>2. CASE ~Contains(h)
    <3>1. \A l \in pins : l.host # h
      BY <2>2 DEF Contains, PinsOf
    <3> QED BY <3>1, <1>2, <2>2, <1>3 DEF OnePin, Facts
  <2> QED BY <2>1, <2>2
<1>6. pins \subseteq pins'
  BY <1>3
<1>7. \A g : KeysOf(g) \subseteq KeysOf(g)'
  BY <1>6 DEF KeysOf, PinsOf
<1>8. \A u \in Tasks : phase'[u] \in {"shown", "connecting"} => phase'[u] = phase[u]
  BY <1>3 DEF Facts, TypeOK
<1> QED
  BY <1>3, <1>4, <1>5, <1>7, <1>8 DEF Facts, ShownIsKey, ReadIsPinned, AcceptedIsPinned, reads, HostOf

(* A connection begins with the file as it is.                             *)
LEMMA ConnectKeepsFacts ==
  ASSUME Facts, NEW t \in Tasks, Connect(t)
  PROVE  Facts'
<1>1. /\ phase' = [phase EXCEPT ![t] = "connecting"]
      /\ trusted' = [trusted EXCEPT ![t] = KeysOf(HostOf(t))]
      /\ UNCHANGED <<pins, accepted, server, shown, overtaken>>
  BY DEF Connect, Goto, Trusts, files
<1>2. \A g : KeysOf(g)' = KeysOf(g)
  BY <1>1 DEF KeysOf, PinsOf
<1>3. TypeOK'
  BY <1>1, TaskOfHost, KeysOfType DEF Facts, TypeOK, Phases
<1>4. ReadIsPinned'
  BY <1>1, <1>2 DEF Facts, TypeOK, ReadIsPinned, HostOf
<1> QED
  BY <1>1, <1>2, <1>3, <1>4 DEF Facts, TypeOK, OnePin, ShownIsKey, AcceptedIsPinned

(* A check that ends leaves what the others have read.                     *)
LEMMA EndKeepsFacts ==
  ASSUME Facts, NEW t \in Tasks, NEW ph \in {"done", "failed"}, Ends(t, ph),
         \A h \in Hosts : accepted'[h] \subseteq KeysOf(h),
         accepted' \in [Hosts -> SUBSET Keys]
  PROVE  Facts'
<1>1. /\ phase' = [phase EXCEPT ![t] = ph]
      /\ shown' = [shown EXCEPT ![t] = NULL]
      /\ trusted' = [trusted EXCEPT ![t] = {}]
      /\ overtaken' = overtaken \ {t}
      /\ UNCHANGED <<pins, server>>
  BY DEF Ends, Goto
<1>2. \A g : KeysOf(g)' = KeysOf(g)
  BY <1>1 DEF KeysOf, PinsOf
<1>3. TypeOK'
  BY <1>1 DEF Facts, TypeOK, Phases
<1>4. \A u \in Tasks : phase'[u] \in {"shown", "connecting"} =>
        u # t /\ phase[u] = phase'[u] /\ shown'[u] = shown[u] /\ trusted'[u] = trusted[u]
  BY <1>1 DEF Facts, TypeOK
<1>5. ShownIsKey' /\ ReadIsPinned'
  BY <1>1, <1>2, <1>4 DEF Facts, ShownIsKey, ReadIsPinned, HostOf
<1> QED
  BY <1>1, <1>2, <1>3, <1>5 DEF Facts, OnePin, AcceptedIsPinned

(* A login is against a key read from the file, which is still pinned if   *)
(* no operator came.                                                       *)
LEMMA LogInKeepsFacts ==
  ASSUME Facts, NEW t \in Tasks, LogIn(t)
  PROVE  Facts'
<1> DEFINE h == HostOf(t)
<1>1. h \in Hosts /\ server[h] \in Keys
  BY TaskOfHost DEF Facts, TypeOK
<1>2. t \notin overtaken => server[h] \in KeysOf(h)
  BY DEF LogIn, Facts, ReadIsPinned
<1>3. accepted' \in [Hosts -> SUBSET Keys] /\ \A g \in Hosts : accepted'[g] \subseteq KeysOf(g)
  BY <1>1, <1>2 DEF LogIn, Facts, TypeOK, AcceptedIsPinned
<1> QED
  BY <1>3, EndKeepsFacts DEF LogIn

(* After an edit nothing counts that was read or accepted before it.       *)
LEMMA EditKeepsFacts ==
  ASSUME Facts, NEW h \in Hosts, Edits(h), pins' \subseteq Pins, OnePin',
         \A g \in Hosts \ {h} : KeysOf(g)' = KeysOf(g)
  PROVE  Facts'
<1>1. TypeOK'
  BY DEF Edits, Facts, TypeOK
<1>2. ShownIsKey'
  BY DEF Edits, Facts, ShownIsKey
<1>3. ReadIsPinned'
  <2> SUFFICES ASSUME NEW t \in Tasks, phase'[t] = "connecting", t \notin overtaken'
               PROVE  trusted'[t] \subseteq KeysOf(HostOf(t))'
    BY DEF ReadIsPinned, HostOf
  <2>1. phase[t] = "connecting" /\ t \notin overtaken /\ trusted'[t] = trusted[t] /\ HostOf(t) # h
    BY DEF Edits
  <2>2. KeysOf(HostOf(t))' = KeysOf(HostOf(t))
    BY <2>1, TaskOfHost DEF HostOf
  <2> QED
    BY <2>1, <2>2 DEF Facts, ReadIsPinned
<1>4. AcceptedIsPinned'
  BY DEF Edits, Facts, TypeOK, AcceptedIsPinned
<1> QED
  BY <1>1, <1>2, <1>3, <1>4 DEF Facts

(* The invariant is inductive.                                             *)
LEMMA NextFacts == Facts /\ [Next]_vars => Facts'
<1> SUFFICES ASSUME Facts, [Next]_vars PROVE Facts'
  OBVIOUS
<1>1. ASSUME NEW t \in Tasks, Begin(t) \/ LookAgain(t) PROVE Facts'
  <2>1. TypeOK' /\ ShownIsKey' /\ \A u \in Tasks : phase'[u] = "connecting" => phase[u] = "connecting"
    BY <1>1 DEF Begin, LookAgain, Goto, Facts, TypeOK, Phases, ShownIsKey, files, reads
  <2> QED BY <1>1, <2>1, FileUntouched DEF Begin, LookAgain, reads
<1>2. ASSUME NEW t \in Tasks, SeeKey(t) PROVE Facts'
  <2>1. TypeOK' /\ ShownIsKey' /\ \A u \in Tasks : phase'[u] = "connecting" => phase[u] = "connecting"
    BY <1>2, TaskOfHost DEF SeeKey, Goto, Facts, TypeOK, Phases, ShownIsKey, files
  <2> QED BY <1>2, <2>1, FileUntouched DEF SeeKey
<1>3. ASSUME NEW t \in Tasks, AddPin(t) PROVE Facts'
  BY <1>3, AddPinKeepsFacts
<1>4. ASSUME NEW t \in Tasks, Connect(t) PROVE Facts'
  BY <1>4, ConnectKeepsFacts
<1>5. ASSUME NEW t \in Tasks, LogIn(t) PROVE Facts'
  BY <1>5, LogInKeepsFacts
<1>6. ASSUME NEW t \in Tasks, KeyChanged(t) \/ GiveUp(t) PROVE Facts'
  BY <1>6, EndKeepsFacts DEF KeyChanged, GiveUp, Facts, TypeOK, AcceptedIsPinned
<1>7. ASSUME NEW h \in Hosts, ChangeKey(h) PROVE Facts'
  <2>1. TypeOK' /\ ShownIsKey' /\ UNCHANGED <<files, phase, trusted, overtaken>>
    BY <1>7 DEF ChangeKey, Facts, TypeOK, ShownIsKey, files, reads
  <2> QED BY <2>1, FileUntouched
<1>8. ASSUME NEW h \in Hosts, RemovePin(h) PROVE Facts'
  <2>1. pins' = {l \in pins : l.host # h}
    BY <1>8 DEF RemovePin, PinsOf
  <2>2. pins' \subseteq Pins /\ OnePin' /\ \A g \in Hosts \ {h} : KeysOf(g)' = KeysOf(g)
    BY <2>1 DEF Facts, TypeOK, OnePin, KeysOf, PinsOf
  <2> QED BY <1>8, <2>2, EditKeepsFacts DEF RemovePin
<1>9. ASSUME NEW h \in Hosts, NEW k \in Keys, PinByHand(h, k) PROVE Facts'
  <2> DEFINE line == Line(h, k, "hand")
  <2>1. pins' = pins \cup {line}
    BY <1>9 DEF PinByHand
  <2>2. line \in Pins /\ line.host = h /\ line.by # "first use"
    BY DEF Line, Pins
  <2> HIDE DEF line
  <2>3. pins' \subseteq Pins /\ OnePin'
    BY <2>1, <2>2 DEF Facts, TypeOK, OnePin
  <2>4. \A g \in Hosts \ {h} : PinsOf(g)' = PinsOf(g)
    BY <2>1, <2>2 DEF PinsOf
  <2>5. \A g \in Hosts \ {h} : KeysOf(g)' = KeysOf(g)
    BY <2>4 DEF KeysOf
  <2> QED BY <1>9, <2>3, <2>5, EditKeepsFacts DEF PinByHand
<1>10. CASE UNCHANGED vars
  BY <1>10, FileUntouched DEF vars, reads, Facts, TypeOK, ShownIsKey, files
<1> QED
  BY <1>1, <1>2, <1>3, <1>4, <1>5, <1>6, <1>7, <1>8, <1>9, <1>10 DEF Next, Checking

(* The invariant holds in every reachable state.                           *)
LEMMA AlwaysFacts == Spec => []Facts
  BY InitFacts, NextFacts, PTL DEF Spec

(* The variables keep their types.                                         *)
THEOREM HostKeysTypeCorrect == Spec => []TypeOK
<1>1. Facts => TypeOK
  BY DEF Facts
<1> QED BY <1>1, AlwaysFacts, PTL

(* However many checks meet a host for the first time at once, first use   *)
(* gives it one pin.                                                       *)
THEOREM OnePinPerHost == Spec => []OnePin
<1>1. Facts => OnePin
  BY DEF Facts
<1> QED BY <1>1, AlwaysFacts, PTL

(* Between two edits of a host's lines by an operator, every login to it   *)
(* that began there is against a pinned key, and against one only where    *)
(* first use pinned it, however servers change keys between a check's      *)
(* steps.                                                                  *)
THEOREM ChangedKeysNeverAccepted == Spec => []ChangedKeysAreRefused
<1>1. Facts => ChangedKeysAreRefused
  <2> SUFFICES ASSUME Facts, NEW h \in Hosts, \A l \in PinsOf(h) : l.by = "first use",
                      NEW j \in accepted[h], NEW k \in accepted[h]
               PROVE  j = k
    BY DEF Facts, ChangedKeysAreRefused, AcceptedIsPinned
  <2>1. PICK l \in PinsOf(h) : j = l.key
    BY DEF Facts, AcceptedIsPinned, KeysOf
  <2>2. PICK m \in PinsOf(h) : k = m.key
    BY DEF Facts, AcceptedIsPinned, KeysOf
  <2>3. l = m
    BY DEF Facts, OnePin, PinsOf
  <2> QED BY <2>1, <2>2, <2>3
<1> QED BY <1>1, AlwaysFacts, PTL
=============================================================================
