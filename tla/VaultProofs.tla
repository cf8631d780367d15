----------------------------- MODULE VaultProofs ----------------------------
(***************************************************************************)
(* Credentials and their checks, for any number of commands: first what    *)
(* holds however the commands overlap, then, if neither another init nor   *)
(* an import runs beside an init, that every stored secret opens with the  *)
(* master password that is set.                                            *)
(***************************************************************************)
EXTENDS Vault, TLAPS

IdsGivenOut == \A c \in creds : c.id <= last
IdsAreKeys  == \A c, d \in creds : c.id = d.id => c = d

(* What an enable has looked up may have gone, but never means another one.*)
FoundStays ==
  \A e \in Enablers : phase[e] = "found" =>
    /\ found[e] \in Labels \X Nat
    /\ found[e][2] <= last
    /\ \A c \in creds : c.id = found[e][2] => c.label = found[e][1]

(* Whoever needs a password has typed one; unlocked openers have a key.    *)
KeysAreKeys ==
  /\ \A i \in Inits : phase[i] \in {"prompted", "deriving"} => typed[i] \in Passwords
  /\ \A p \in Openers : phase[p] = "unlocked" => Key(p) \in Keys

Tables == IdsGivenOut /\ IdsAreKeys /\ FoundStays
            /\ ChecksHaveCredentials /\ ChecksUseWhatWasNamed

Facts == TypeOK /\ KeysAreKeys /\ Tables

(* A command is of one kind.                                               *)
LEMMA Disjoint ==
  /\ Setters \cap Openers = {} /\ Setters \cap Enablers = {}
  /\ Inits \cap Importers = {} /\ Inits \cap Openers = {} /\ Inits \cap Enablers = {}
  /\ Openers \cap (Removers \cup Enablers) = {} /\ Removers \cap Enablers = {}
  /\ Adders \cap Users = {}
  BY VaultAssumption DEF Openers, Setters

(* The invariant holds before any command.                                 *)
LEMMA InitFacts == Init => Facts
  BY DEF Init, Facts, TypeOK, Phases, Tables, IdsGivenOut, IdsAreKeys, FoundStays,
         KeysAreKeys, ChecksHaveCredentials, ChecksUseWhatWasNamed, Openers, Procs, Setters

(* A step that touches no table and puts no enable in phase "found".       *)
LEMMA TablesUntouched ==
  ASSUME Tables, UNCHANGED <<creds, last, checks, found>>,
         \A e \in Enablers : phase'[e] = "found" => phase[e] = "found"
  PROVE  Tables'
  BY DEF Tables, IdsGivenOut, IdsAreKeys, FoundStays, ChecksHaveCredentials,
         ChecksUseWhatWasNamed

(* The steps of a set-up keep the invariant.                               *)
LEMMA InitSteps ==
  ASSUME Facts, NEW i \in Inits, CheckSet(i) \/ CheckAgain(i) \/ StoreVerifier(i)
  PROVE  Facts'
<1> USE DEF Facts, CheckSet, CheckAgain, StoreVerifier, Goto
<1>1. TypeOK'
  <2>1. i \in Procs
    BY DEF Procs, Setters
  <2>2. CASE CheckSet(i)
    <3>1. typed' \in [Inits \cup Openers -> Passwords \cup {NULL}]
      BY <2>2 DEF TypeOK
    <3>2. phase' \in [Procs -> Phases]
      BY <2>1, <2>2 DEF TypeOK, Phases
    <3> QED BY <2>2, <3>1, <3>2 DEF TypeOK
  <2>3. CASE CheckAgain(i)
    BY <2>1, <2>3 DEF TypeOK, Phases
  <2>4. CASE StoreVerifier(i)
    <3>1. i \in Inits \cup Openers /\ phase[i] = "deriving"
      BY <2>4
    <3>2. typed[i] \in Passwords
      BY <3>1 DEF KeysAreKeys
    <3>3. meta' \in [salt: Setters \cup {NULL}, verifier: Keys \cup {NULL}]
      BY <2>4, <3>2 DEF Keys, Setters
    <3>4. phase' \in [Procs -> Phases]
      BY <2>1, <2>4 DEF TypeOK, Phases
    <3> QED BY <2>4, <3>3, <3>4 DEF TypeOK
  <2> QED BY <2>2, <2>3, <2>4
<1>2. KeysAreKeys'
  BY Disjoint DEF KeysAreKeys, Key, TypeOK, Procs, Setters
<1>3. \A e \in Enablers : phase'[e] = "found" => phase[e] = "found"
  BY Disjoint DEF TypeOK, Procs, Setters
<1> QED BY <1>1, <1>2, <1>3, TablesUntouched

(* What an import sets is a salt and a verifier of its dump.               *)
LEMMA ImportStep == ASSUME Facts, NEW m \in Importers, ImportMeta(m) PROVE Facts'
<1> USE DEF Facts, Goto
<1>1. /\ phase' = [phase EXCEPT ![m] = "done"] /\ m \in Setters /\ m \in Procs
      /\ UNCHANGED <<creds, last, checks, typed, salt, found>>
  BY DEF ImportMeta, Procs, Setters
<1>2. meta' \in [salt: Setters \cup {NULL}, verifier: Keys \cup {NULL}]
  BY <1>1 DEF ImportMeta, IfAbsent, Keys, TypeOK
<1>3. TypeOK'
  BY <1>1, <1>2 DEF TypeOK, Phases
<1>4. \A q \in Procs : phase'[q] \in {"prompted", "deriving", "unlocked", "found"} => phase'[q] = phase[q]
  BY <1>1 DEF TypeOK
<1>5. KeysAreKeys'
  BY <1>1, <1>4 DEF KeysAreKeys, Key, Keys, Procs, Setters
<1> QED BY <1>1, <1>3, <1>4, <1>5, TablesUntouched DEF Procs

(* The steps that open the vault keep the invariant.                       *)
LEMMA OpenSteps ==
  ASSUME Facts, NEW p \in Openers, ReadSalt(p) \/ ReadVerifier(p)
  PROVE  Facts'
<1> USE DEF Facts, ReadSalt, ReadVerifier, Goto
<1>1. TypeOK'
  BY DEF TypeOK, Phases, Procs
<1>2. KeysAreKeys'
  <2>1. CASE ReadSalt(p)
    BY <2>1, Disjoint DEF KeysAreKeys, Key, TypeOK, Procs
  <2>2. CASE ReadVerifier(p)
    <3>1. phase'[p] = "unlocked" => meta.verifier = Key(p) /\ meta.verifier # NULL
      BY <2>2 DEF TypeOK, Procs
    <3>2. phase'[p] = "unlocked" => Key(p) \in Keys
      BY <3>1 DEF TypeOK
    <3>3. \A q \in Openers : Key(q)' = Key(q)
      BY <2>2 DEF Key
    <3>4. \A q \in Openers : phase'[q] = "unlocked" => q = p \/ phase[q] = "unlocked"
      BY <2>2 DEF TypeOK, Procs
    <3>5. \A i \in Inits : phase'[i] = phase[i] /\ typed' = typed
      BY <2>2, Disjoint DEF TypeOK, Procs
    <3> QED BY <3>2, <3>3, <3>4, <3>5 DEF KeysAreKeys, Keys
  <2> QED BY <2>1, <2>2
<1>3. \A e \in Enablers : phase'[e] = "found" => phase[e] = "found"
  BY Disjoint DEF TypeOK, Procs
<1> QED BY <1>1, <1>2, <1>3, TablesUntouched

(* A new id is above every id a check or an enable can have.               *)
LEMMA AddStep ==
  ASSUME Facts, NEW p \in Adders, NEW l \in Labels, AddCredential(p, l)
  PROVE  Facts'
<1> USE DEF Facts
<1>1. p \in Openers /\ p \in Procs
  BY DEF Openers, Procs
<1>2. Key(p) \in Keys
  BY <1>1 DEF AddCredential, KeysAreKeys
<1>3. \A q \in Procs : phase'[q] \in {"prompted", "deriving", "unlocked", "found"} => phase'[q] = phase[q]
  BY DEF AddCredential, Goto, TypeOK
<1>4. KeysAreKeys'
  BY <1>3 DEF KeysAreKeys, Key, Keys, AddCredential, Procs, Setters
<1>5. CASE Labelled(l) # {}
  <2>1. TypeOK' /\ UNCHANGED <<creds, last, checks, found>>
    BY <1>5 DEF AddCredential, Goto, TypeOK, Phases
  <2> QED BY <2>1, <1>3, <1>4, TablesUntouched DEF Procs
<1>6. CASE Labelled(l) = {}
  <2> DEFINE new == [id |-> NextId, label |-> l, key |-> Key(p)]
  <2>1. /\ creds' = creds \cup {new} /\ last' = last + 1 /\ new.id = last + 1
        /\ new \in [id: Nat, label: Labels, key: Keys]
        /\ UNCHANGED <<meta, checks, typed, salt, found>>
    BY <1>6, <1>2 DEF AddCredential, NextId, TypeOK
  <2>2. TypeOK'
    BY <2>1 DEF TypeOK, AddCredential, Goto, Phases
  <2>3. \A c \in creds : c.id \in Nat /\ c.id <= last /\ last \in Nat
    BY DEF TypeOK, Tables, IdsGivenOut
  <2>4. IdsGivenOut' /\ IdsAreKeys'
    BY <2>1, <2>3 DEF Tables, IdsGivenOut, IdsAreKeys
  <2>5. FoundStays'
    <3> SUFFICES ASSUME NEW e \in Enablers, phase'[e] = "found"
                 PROVE  /\ found'[e] \in Labels \X Nat
                        /\ found'[e][2] <= last'
                        /\ \A c \in creds' : c.id = found'[e][2] => c.label = found'[e][1]
      BY DEF FoundStays
    <3>1. /\ found[e] \in Labels \X Nat /\ found[e][2] <= last /\ found[e][2] \in Nat
          /\ \A c \in creds : c.id = found[e][2] => c.label = found[e][1]
      BY <1>3 DEF Tables, FoundStays, Procs
    <3> QED BY <3>1, <2>1, <2>3 DEF TypeOK
  <2>6. ChecksHaveCredentials'
    BY <2>1 DEF Tables, ChecksHaveCredentials
  <2>7. ChecksUseWhatWasNamed'
    <3>1. \A k \in checks : k.cred \in Nat /\ k.cred <= last
      BY <2>3 DEF Tables, ChecksHaveCredentials, TypeOK
    <3> QED BY <3>1, <2>1 DEF Tables, ChecksUseWhatWasNamed, TypeOK
  <2> QED BY <2>2, <2>4, <2>5, <2>6, <2>7, <1>4 DEF Tables
<1> QED BY <1>5, <1>6

(* A secret used is one that was decrypted.                                *)
LEMMA UseStep == ASSUME Facts, NEW p \in Users, UseCredential(p) PROVE Facts'
<1> USE DEF Facts, UseCredential, Goto
<1>1. TypeOK'
  BY DEF TypeOK, Phases
<1>2. KeysAreKeys'
  BY DEF KeysAreKeys, Key, Keys, TypeOK, Openers, Procs
<1>3. \A e \in Enablers : phase'[e] = "found" => phase[e] = "found"
  BY DEF TypeOK, Procs
<1> QED BY <1>1, <1>2, <1>3, TablesUntouched

(* ON DELETE RESTRICT keeps what a check refers to.                        *)
LEMMA RemoveStep == ASSUME Facts, NEW r \in Removers, Remove(r) PROVE Facts'
<1> USE DEF Facts
<1>1. r \in Procs
  BY DEF Procs
<1>2. TypeOK' /\ UNCHANGED <<last, checks, found, typed, salt>> /\ creds' \subseteq creds
  BY <1>1 DEF Remove, Goto, TypeOK, Phases
<1>3. \A q \in Procs : phase'[q] \in {"prompted", "deriving", "unlocked", "found"} => phase'[q] = phase[q]
  BY <1>1 DEF Remove, Goto, TypeOK
<1>4. KeysAreKeys'
  BY <1>2, <1>3 DEF KeysAreKeys, Key, Keys, Procs, Setters
<1>5. IdsGivenOut' /\ IdsAreKeys' /\ FoundStays' /\ ChecksUseWhatWasNamed'
  BY <1>2, <1>3 DEF Tables, IdsGivenOut, IdsAreKeys, FoundStays, ChecksUseWhatWasNamed,
                    Procs
<1>6. ChecksHaveCredentials'
  BY <1>2 DEF Remove, Tables, ChecksHaveCredentials
<1> QED BY <1>2, <1>4, <1>5, <1>6 DEF Tables

(* A look-up keeps the invariant.                                          *)
LEMMA LookUpStep ==
  ASSUME Facts, NEW e \in Enablers, NEW l \in Labels, LookUp(e, l)
  PROVE  Facts'
<1> USE DEF Facts
<1>1. e \in Procs
  BY DEF Procs
<1>2. UNCHANGED <<meta, creds, last, checks, typed, salt>>
  BY DEF LookUp
<1>3. KeysAreKeys'
  BY <1>1, <1>2 DEF KeysAreKeys, Key, Keys, LookUp, Goto, TypeOK, Procs, Setters
<1>4. CASE Labelled(l) = {}
  <2>1. TypeOK' /\ UNCHANGED found
    BY <1>4, <1>1 DEF LookUp, Goto, TypeOK, Phases
  <2>2. \A d \in Enablers : phase'[d] = "found" => phase[d] = "found"
    BY <1>4, <1>1 DEF LookUp, Goto, TypeOK, Procs
  <2> QED BY <2>1, <2>2, <1>2, <1>3, TablesUntouched
<1>5. CASE Labelled(l) # {}
  <2>1. PICK c \in creds : c.label = l /\ found' = [found EXCEPT ![e] = <<l, c.id>>]
    BY <1>5 DEF LookUp, Labelled
  <2>2. phase' = [phase EXCEPT ![e] = "found"]
    BY <1>5 DEF LookUp, Goto
  <2>3. c.id \in Nat /\ <<l, c.id>> \in Labels \X Nat
    BY DEF TypeOK
  <2>4. TypeOK'
    BY <2>1, <2>2, <2>3, <1>1, <1>2 DEF TypeOK, Phases
  <2>5. FoundStays'
    BY <2>1, <2>2, <2>3, <1>2 DEF Tables, FoundStays, IdsGivenOut, IdsAreKeys, TypeOK, Procs
  <2> QED BY <2>4, <2>5, <1>2, <1>3
          DEF Tables, IdsGivenOut, IdsAreKeys, ChecksHaveCredentials, ChecksUseWhatWasNamed
<1> QED BY <1>4, <1>5

(* Enabling keeps the invariant.                                           *)
LEMMA EnableStep == ASSUME Facts, NEW e \in Enablers, Enable(e) PROVE Facts'
<1> USE DEF Facts
<1>1. e \in Procs
  BY DEF Procs
<1>2. UNCHANGED <<meta, creds, last, typed, salt, found>>
  BY DEF Enable
<1>3. \A q \in Procs : phase'[q] \in {"prompted", "deriving", "unlocked", "found"} => phase'[q] = phase[q]
  BY <1>1 DEF Enable, Goto, TypeOK
<1>4. KeysAreKeys'
  BY <1>2, <1>3 DEF KeysAreKeys, Key, Keys, Procs, Setters
<1>5. /\ found[e] \in Labels \X Nat
      /\ \A c \in creds : c.id = found[e][2] => c.label = found[e][1]
  BY DEF Enable, Tables, FoundStays
<1>6. CASE \E c \in creds : c.id = found[e][2]
  <2> DEFINE k == [by |-> e, label |-> found[e][1], cred |-> found[e][2]]
  <2>1. checks' = checks \cup {k} /\ phase' = [phase EXCEPT ![e] = "done"]
    BY <1>6 DEF Enable, Goto
  <2>2. k \in [by: Enablers, label: Labels, cred: Nat]
    BY <1>5
  <2>3. TypeOK'
    BY <2>1, <2>2, <1>1, <1>2 DEF TypeOK, Phases
  <2>4. ChecksHaveCredentials' /\ ChecksUseWhatWasNamed'
    BY <2>1, <1>2, <1>5, <1>6 DEF Tables, ChecksHaveCredentials, ChecksUseWhatWasNamed
  <2> QED BY <2>3, <2>4, <1>2, <1>3, <1>4
          DEF Tables, IdsGivenOut, IdsAreKeys, FoundStays, Procs
<1>7. CASE ~ \E c \in creds : c.id = found[e][2]
  <2>1. TypeOK' /\ UNCHANGED checks
    BY <1>7, <1>1, <1>2 DEF Enable, Goto, TypeOK, Phases
  <2> QED BY <2>1, <1>2, <1>3, <1>4, TablesUntouched DEF Procs
<1> QED BY <1>6, <1>7

(* The invariant is inductive.                                             *)
LEMMA NextFacts == Facts /\ [Next]_vars => Facts'
<1>1. CASE UNCHANGED vars
  BY <1>1 DEF vars, Facts, TypeOK, KeysAreKeys, Key, Keys, Tables, IdsGivenOut, IdsAreKeys,
              FoundStays, ChecksHaveCredentials, ChecksUseWhatWasNamed
<1> QED BY <1>1, InitSteps, ImportStep, OpenSteps, AddStep, UseStep, RemoveStep, LookUpStep, EnableStep
        DEF Next

(* The invariant holds in every reachable state.                           *)
LEMMA AlwaysFacts == Spec => []Facts
  BY InitFacts, NextFacts, PTL DEF Spec

(* The state is always well typed, whatever commands overlap.              *)
THEOREM VaultTypeCorrect == Spec => []TypeOK
<1>1. Facts => TypeOK
  BY DEF Facts
<1> QED BY <1>1, AlwaysFacts, PTL

(* A check never loses its credential, even if `cred rm` comes between the *)
(* lookup and the insertion of `monitor enable`.                           *)
THEOREM CredentialsStay == Spec => []ChecksHaveCredentials
<1>1. Facts => ChecksHaveCredentials
  BY DEF Facts, Tables
<1> QED BY <1>1, AlwaysFacts, PTL

(* A check's credential is the one its operator named.                     *)
THEOREM CredentialsAreNamed == Spec => []ChecksUseWhatWasNamed
<1>1. Facts => ChecksUseWhatWasNamed
  BY DEF Facts, Tables
<1> QED BY <1>1, AlwaysFacts, PTL

-----------------------------------------------------------------------------
(* Inits one at a time, and no import beside one.                          *)

(* Until a password is set there is nothing to open and nobody unlocked; a *)
(* lone init under way is the one that will set it.                        *)
OneInit       == \A i, j \in Inits : Underway(i) /\ Underway(j) => i = j
SetupIsFirst  == \A i \in Inits : Underway(i) => ~IsSet
NothingBefore == ~IsSet => creds = {} /\ \A p \in Openers : phase[p] # "unlocked"
UnlockedOpens == \A p \in Openers : phase[p] = "unlocked" => Key(p) = meta.verifier
SetTogether   == meta.salt = NULL <=> meta.verifier = NULL

Serial == OneInit /\ SetupIsFirst /\ NothingBefore /\ UnlockedOpens /\ SetTogether
            /\ SecretsOpen

(* No set-up is under way yet.                                             *)
LEMMA InitSerial == Init => Serial
  BY DEF Init, Serial, OneInit, SetupIsFirst, NothingBefore, UnlockedOpens, SetTogether,
         SecretsOpen, Underway, Procs, Setters, Openers

(* A set-up that looks whether the vault is set up is alone.               *)
LEMMA CheckSetSerial ==
  ASSUME ~Overlapping, Facts, Serial, NEW i \in Inits, CheckSet(i)
  PROVE  Serial'
<1>1. /\ UNCHANGED <<meta, creds, salt>>
      /\ \A j \in Inits : ~Underway(j)
      /\ IsSet => phase' = [phase EXCEPT ![i] = "done"]
      /\ ~IsSet => phase' = [phase EXCEPT ![i] = "prompted"]
  BY DEF CheckSet, Goto, Underway
<1>2. phase \in [Procs -> Phases] /\ i \in Procs
  BY DEF Facts, TypeOK, Procs, Setters
<1>3. \A p \in Openers : p \in Procs /\ p # i /\ phase'[p] = phase[p]
  BY <1>1, <1>2, Disjoint DEF Procs
<1>4. \A p \in Openers : typed'[p] = typed[p]
  BY <1>3 DEF CheckSet, Facts, TypeOK
<1>5. OneInit' /\ SetupIsFirst'
  BY <1>1, <1>2 DEF OneInit, SetupIsFirst, Underway, IsSet, Procs, Setters
<1>6. NothingBefore' /\ UnlockedOpens' /\ SetTogether' /\ SecretsOpen'
  BY <1>1, <1>3, <1>4
  DEF Serial, NothingBefore, UnlockedOpens, SetTogether, SecretsOpen, Key, IsSet
<1> QED BY <1>5, <1>6 DEF Serial

(* The writes of a lone set-up keep what it has found.                     *)
LEMMA SetupSerial ==
  ASSUME Facts, Serial, NEW i \in Inits, CheckAgain(i) \/ StoreVerifier(i)
  PROVE  Serial'
<1>1. phase \in [Procs -> Phases] /\ i \in Procs /\ Underway(i)
  BY DEF Facts, TypeOK, Procs, Setters, CheckAgain, StoreVerifier, Underway
<1>2. ~IsSet /\ creds = {} /\ \A p \in Openers : phase[p] # "unlocked"
  BY <1>1 DEF Serial, SetupIsFirst, NothingBefore
<1>3. \A p \in Openers : phase'[p] # "unlocked"
  BY <1>1, <1>2, Disjoint DEF CheckAgain, StoreVerifier, Goto, Procs
<1>4. \A j \in Inits : Underway(j)' => Underway(j) /\ j = i
  BY <1>1 DEF CheckAgain, StoreVerifier, Goto, Underway, Serial, OneInit, Procs, Setters
<1>5. OneInit' /\ creds' = {}
  BY <1>2, <1>4 DEF OneInit, CheckAgain, StoreVerifier
<1>6. SetupIsFirst'
  <2>1. CASE CheckAgain(i)
    BY <2>1, <1>2 DEF SetupIsFirst, CheckAgain, IsSet
  <2>2. CASE StoreVerifier(i)
    BY <2>2, <1>1, <1>4 DEF SetupIsFirst, StoreVerifier, Goto, Underway
  <2> QED BY <2>1, <2>2
<1>7. SetTogether'
  <2>1. CASE CheckAgain(i)
    BY <2>1 DEF Serial, SetTogether, CheckAgain
  <2>2. CASE StoreVerifier(i)
    <3>1. typed[i] \in Passwords /\ i \in Setters
      BY <2>2, <1>1 DEF StoreVerifier, Facts, KeysAreKeys, Setters
    <3> QED BY <2>2, <3>1, VaultAssumption DEF SetTogether, StoreVerifier, Keys
  <2> QED BY <2>1, <2>2
<1> QED BY <1>3, <1>5, <1>6, <1>7 DEF Serial, NothingBefore, UnlockedOpens, SecretsOpen

(* An import finds no set-up under way, and a vault that is set up or not. *)
LEMMA ImportSerial ==
  ASSUME ~Overlapping, Facts, Serial, NEW m \in Importers, ImportMeta(m)
  PROVE  Serial'
<1>1. /\ phase' = [phase EXCEPT ![m] = "done"] /\ phase \in [Procs -> Phases]
      /\ m \in Procs /\ m \in Setters /\ m \notin Inits /\ m \notin Openers
      /\ UNCHANGED <<creds, typed, salt>>
      /\ \A j \in Inits : ~Underway(j)
  BY Disjoint DEF ImportMeta, Goto, Facts, TypeOK, Procs, Setters
<1>2. \A p \in Inits \cup Openers : phase'[p] = phase[p]
  BY <1>1 DEF Procs, Setters
<1>3. OneInit' /\ SetupIsFirst'
  BY <1>1, <1>2 DEF OneInit, SetupIsFirst, Underway
<1>4. \A p \in Openers : Key(p)' = Key(p)
  BY <1>1 DEF Key
<1>5. CASE UNCHANGED meta
  BY <1>1, <1>2, <1>3, <1>4, <1>5
  DEF Serial, NothingBefore, UnlockedOpens, SetTogether, SecretsOpen, IsSet
<1>6. CASE IsSet /\ meta' # meta
  BY <1>6 DEF IsSet, ImportMeta, IfAbsent, Facts, TypeOK
<1>7. CASE ~IsSet /\ meta' # meta
  <2>1. creds = {} /\ \A p \in Openers : phase[p] # "unlocked"
    BY <1>7 DEF Serial, NothingBefore
  <2>2. PICK w \in Passwords : meta' = [salt |-> m, verifier |-> <<w, m>>]
    BY <1>7 DEF ImportMeta, IfAbsent, Serial, SetTogether, IsSet
  <2>3. SetTogether'
    BY <1>1, <2>2, VaultAssumption DEF SetTogether, Keys
  <2> QED BY <1>1, <1>2, <1>3, <2>1, <2>3 DEF Serial, NothingBefore, UnlockedOpens, SecretsOpen
<1> QED BY <1>5, <1>6, <1>7

(* Steps of the other commands leave the meta table and the inits alone.   *)
LEMMA OtherSerial ==
  ASSUME Serial, UNCHANGED meta,
         \A i \in Inits : phase'[i] = phase[i],
         UnlockedOpens', SecretsOpen',
         IsSet \/ (creds' = {} /\ \A p \in Openers : phase'[p] # "unlocked")
  PROVE  Serial'
  BY DEF Serial, OneInit, SetupIsFirst, NothingBefore, SetTogether, Underway, IsSet

(* Opening the vault does not disturb a set-up.                            *)
LEMMA OpenSerial ==
  ASSUME Facts, Serial, NEW p \in Openers, ReadSalt(p) \/ ReadVerifier(p)
  PROVE  Serial'
<1>1. phase \in [Procs -> Phases] /\ p \in Procs
  BY DEF Facts, TypeOK, Procs
<1>2. UNCHANGED <<meta, creds>>
  BY DEF ReadSalt, ReadVerifier
<1>3. \A i \in Inits : phase'[i] = phase[i]
  BY <1>1, Disjoint DEF ReadSalt, ReadVerifier, Goto, Procs, Setters
<1>4. \A q \in Openers \ {p} : phase'[q] = phase[q] /\ Key(q)' = Key(q)
  BY <1>1 DEF ReadSalt, ReadVerifier, Goto, Key, Facts, TypeOK, Procs
<1>5. CASE ReadSalt(p)
  <2>1. phase'[p] # "unlocked"
    BY <1>5, <1>1 DEF ReadSalt, Goto
  <2> QED BY <2>1, <1>2, <1>3, <1>4, OtherSerial
          DEF Serial, NothingBefore, UnlockedOpens, SecretsOpen
<1>6. CASE ReadVerifier(p)
  <2>1. /\ Key(p)' = Key(p)
        /\ phase'[p] = "unlocked" => meta.verifier = Key(p) /\ meta.verifier # NULL
    BY <1>6, <1>1 DEF ReadVerifier, Goto, Key
  <2>2. UnlockedOpens' /\ SecretsOpen'
    BY <2>1, <1>2, <1>4 DEF Serial, UnlockedOpens, SecretsOpen
  <2>3. phase'[p] = "unlocked" => IsSet
    BY <2>1 DEF Serial, SetTogether, IsSet
  <2> QED BY <2>2, <2>3, <1>2, <1>3, <1>4, OtherSerial DEF Serial, NothingBefore
<1> QED BY <1>5, <1>6

(* A new secret is closed with the key that opens the others.              *)
LEMMA AddSerial ==
  ASSUME Facts, Serial, NEW p \in Adders, NEW l \in Labels, AddCredential(p, l)
  PROVE  Serial'
<1>1. phase \in [Procs -> Phases] /\ p \in Procs /\ p \in Openers
  BY DEF Facts, TypeOK, Procs, Openers
<1>2. IsSet /\ Key(p) = meta.verifier
  BY <1>1 DEF AddCredential, Serial, NothingBefore, UnlockedOpens
<1>3. UNCHANGED <<meta, typed, salt>> /\ \A c \in creds' : c \in creds \/ c.key = Key(p)
  BY DEF AddCredential
<1>4. \A q \in Procs : phase'[q] = phase[q] \/ (q = p /\ phase'[q] \in {"refused", "done"})
  BY <1>1 DEF AddCredential, Goto
<1>5. \A i \in Inits : phase'[i] = phase[i]
  BY <1>1, <1>4, Disjoint DEF Procs, Setters
<1>6. UnlockedOpens' /\ SecretsOpen'
  BY <1>2, <1>3, <1>4 DEF Serial, UnlockedOpens, SecretsOpen, Key, Procs
<1> QED BY <1>2, <1>3, <1>5, <1>6, OtherSerial

(* The rest adds no secret and unlocks nothing.                            *)
LEMMA RestSerial ==
  ASSUME Facts, Serial, NEW q \in Procs \ Inits,
         \/ UseCredential(q) \/ Remove(q)
         \/ Enable(q) \/ \E l \in Labels : LookUp(q, l)
  PROVE  Serial'
<1>1. UNCHANGED <<meta, typed, salt>> /\ creds' \subseteq creds
  BY DEF UseCredential, Remove, LookUp, Enable
<1>2. \A r \in Procs : phase'[r] = phase[r] \/ (r = q /\ phase'[r] # "unlocked")
  BY DEF Facts, TypeOK, UseCredential, Remove, LookUp, Enable, Goto
<1>3. \A i \in Inits : phase'[i] = phase[i]
  BY <1>2 DEF Procs, Setters
<1>4. UnlockedOpens' /\ SecretsOpen'
  BY <1>1, <1>2 DEF Serial, UnlockedOpens, SecretsOpen, Key, Procs
<1>5. IsSet \/ (creds' = {} /\ \A p \in Openers : phase'[p] # "unlocked")
  BY <1>1, <1>2 DEF Serial, NothingBefore, Procs
<1> QED BY <1>1, <1>3, <1>4, <1>5, OtherSerial

(* Where set-ups do not overlap, the second invariant is inductive.        *)
LEMMA NextSerial ==
  ASSUME ~Overlapping
  PROVE  Facts /\ Serial /\ [Next]_vars => Serial'
<1> SUFFICES ASSUME Facts, Serial, [Next]_vars PROVE Serial'
  OBVIOUS
<1>1. CASE UNCHANGED vars
  BY <1>1 DEF vars, Serial, OneInit, SetupIsFirst, NothingBefore, UnlockedOpens,
              SetTogether, SecretsOpen, Underway, IsSet, Key
<1>2. CASE \E i \in Inits : CheckSet(i) \/ CheckAgain(i) \/ StoreVerifier(i)
  BY <1>2, CheckSetSerial, SetupSerial
<1>3. CASE \E p \in Openers : ReadSalt(p) \/ ReadVerifier(p)
  BY <1>3, OpenSerial
<1>4. CASE \E p \in Adders, l \in Labels : AddCredential(p, l)
  BY <1>4, AddSerial
<1>5. Users \cup Removers \cup Enablers \subseteq Procs \ Inits
  BY Disjoint, VaultAssumption DEF Procs, Openers, Setters
<1>6. CASE \E m \in Importers : ImportMeta(m)
  BY <1>6, ImportSerial
<1> QED BY <1>1, <1>6, <1>2, <1>3, <1>4, <1>5, RestSerial DEF Next

(* If neither another init nor an import runs while an init is between its *)
(* look at the vault and its writes, every stored secret opens with the    *)
(* master password that is set, however the other commands overlap; with   *)
(* such an import, or with two inits, it need not.                         *)
THEOREM SecretsAlwaysOpen ==
  ASSUME ~Overlapping
  PROVE  Spec => []SecretsOpen
<1>1. Facts /\ Serial /\ [Next]_vars => Serial'
  BY NextSerial
<1>2. Serial => SecretsOpen
  BY DEF Serial
<1> QED BY <1>1, <1>2, InitSerial, AlwaysFacts, PTL DEF Spec
=============================================================================
