------------------------------- MODULE Vault --------------------------------
(***************************************************************************)
(* The credential vault: crypto/master_password.py, db/credentials.py and  *)
(* the commands that set the master password, unlock the vault, store,     *)
(* use and remove credentials, and refer to them from checks.  `import`    *)
(* sets it too, to that of the dump: db/export.py inserts what the meta    *)
(* table does not have yet; credentials are never in a dump.               *)
(*                                                                         *)
(* Cryptography is abstract: a key is a password and a salt, salts never   *)
(* repeat (each is named after the init or the dump it comes from), and an *)
(* envelope opens with the key that closed it and no other.                *)
(*                                                                         *)
(* Every command here writes in one transaction, one step, but reads       *)
(* before it, in SELECTs of their own.  None holds the database while it   *)
(* prompts or derives a key, so one that dies changes nothing: dying is    *)
(* taking no more steps.                                                   *)
(***************************************************************************)
EXTENDS Integers, FiniteSets, FiniteSetsExt, Nullable

CONSTANTS Inits,        \* `langusta init`
          Importers,    \* `langusta import`, each of a dump of its own
          Adders,       \* `cred add`
          Users,        \* scans and monitors that read a secret
          Removers,     \* `cred rm`
          Enablers,     \* `monitor enable` of a check with a credential
          Passwords, Labels,
          Overlapping   \* may another init or an import run beside an init?

Setters == Inits \cup Importers
Openers == Adders \cup Users
Procs   == Setters \cup Openers \cup Removers \cup Enablers
Keys    == Passwords \X Setters

ASSUME VaultAssumption ==
  /\ NULL \notin Setters \cup Keys \cup Passwords \cup Labels \cup Nat
  /\ Overlapping \in BOOLEAN
  /\ Inits \cap Importers = {}
  /\ Setters \cap (Openers \cup Removers \cup Enablers) = {}
  /\ Adders \cap (Users \cup Removers \cup Enablers) = {}
  /\ Users \cap (Removers \cup Enablers) = {}
  /\ Removers \cap Enablers = {}

VARIABLES
  meta,     \* the meta table: vault_salt, and what vault_verifier opens with
  creds,    \* the credentials table
  last,     \* sqlite_sequence: the last id ever given out
  checks,   \* the checks with a credential, and the label they were asked for
  phase,    \* how far each command is
  typed,    \* the master password it was given
  salt,     \* the salt it has read
  found     \* what each `monitor enable` has looked up: a label and its id

vars == <<meta, creds, last, checks, phase, typed, salt, found>>

Phases == {"idle", "prompted", "deriving", "salted", "unlocked", "found",
           "done", "refused", "wrong", "failed", "undecryptable"}

Key(p) == <<typed[p], salt[p]>>

Init ==
  /\ meta = [salt |-> NULL, verifier |-> NULL]
  /\ creds = {} /\ last = 0
  /\ checks = {}
  /\ phase = [p \in Procs |-> "idle"]
  /\ typed = [p \in Inits \cup Openers |-> NULL]
  /\ salt  = [p \in Openers |-> NULL]
  /\ found = [e \in Enablers |-> NULL]

Goto(p, ph) == phase' = [phase EXCEPT ![p] = ph]
IsSet       == meta.salt # NULL /\ meta.verifier # NULL

-----------------------------------------------------------------------------
(* init and setup: both look whether a password is set, one before it asks *)
(* for it, the other before it derives the key.                            *)

Underway(i) == phase[i] \in {"prompted", "deriving"}

CheckSet(i) ==
  /\ phase[i] = "idle"
  /\ Overlapping \/ ~\E j \in Inits : Underway(j)
  /\ IF IsSet
     THEN Goto(i, "done") /\ UNCHANGED typed
     ELSE Goto(i, "prompted") /\ \E w \in Passwords : typed' = [typed EXCEPT ![i] = w]
  /\ UNCHANGED <<meta, creds, last, checks, salt, found>>

CheckAgain(i) ==
  /\ phase[i] = "prompted"
  /\ Goto(i, IF IsSet THEN "refused" ELSE "deriving")
  /\ UNCHANGED <<meta, creds, last, checks, typed, salt, found>>

StoreVerifier(i) ==
  /\ phase[i] = "deriving"
  /\ meta' = [salt |-> i, verifier |-> <<typed[i], i>>]
  /\ Goto(i, "done")
  /\ UNCHANGED <<creds, last, checks, typed, salt, found>>

-----------------------------------------------------------------------------
(* import: salt and verifier of the dump, if they were set where it was    *)
(* made, each unless there is one already.                                 *)

\* Faulty: the dump's values replace the target's.
Replaced(old, new) == new
IfAbsent(old, new) == IF old = NULL THEN new ELSE old

ImportMeta(m) ==
  /\ phase[m] = "idle"
  /\ Overlapping \/ ~\E j \in Inits : Underway(j)
  /\ \/ \E w \in Passwords :
          meta' = [salt |-> IfAbsent(meta.salt, m), verifier |-> IfAbsent(meta.verifier, <<w, m>>)]
     \/ UNCHANGED meta
  /\ Goto(m, "done")
  /\ UNCHANGED <<creds, last, checks, typed, salt, found>>

-----------------------------------------------------------------------------
(* unlock: the salt and the verifier are read one after the other.         *)

ReadSalt(p) ==
  /\ phase[p] = "idle"
  /\ \E w \in Passwords : typed' = [typed EXCEPT ![p] = w]
  /\ salt' = [salt EXCEPT ![p] = meta.salt]
  /\ Goto(p, "salted")
  /\ UNCHANGED <<meta, creds, last, checks, found>>

\* Faulty: where there is no verifier anyone is let in.
ReadVerifierIfAny(p) ==
  /\ phase[p] = "salted"
  /\ Goto(p, IF meta.verifier \in {NULL, Key(p)} THEN "unlocked" ELSE "wrong")
  /\ UNCHANGED <<meta, creds, last, checks, typed, salt, found>>

(* A salt of NULL is as good as no verifier, even if there is one by now.  *)
ReadVerifier(p) ==
  /\ phase[p] = "salted"
  /\ Goto(p, IF salt[p] = NULL \/ meta.verifier = NULL THEN "refused"
             ELSE IF meta.verifier = Key(p) THEN "unlocked" ELSE "wrong")
  /\ UNCHANGED <<meta, creds, last, checks, typed, salt, found>>

-----------------------------------------------------------------------------
(* Credentials.  AUTOINCREMENT never gives an id out again; UNIQUE(label). *)

\* Faulty: a plain rowid.
ReusedId == IF creds = {} THEN 1 ELSE Max({c.id : c \in creds}) + 1
NextId   == last + 1

Labelled(l) == {c \in creds : c.label = l}

AddCredential(p, l) ==
  /\ phase[p] = "unlocked"
  /\ IF Labelled(l) # {}
     THEN Goto(p, "refused") /\ UNCHANGED <<creds, last>>
     ELSE /\ creds' = creds \cup {[id |-> NextId, label |-> l, key |-> Key(p)]}
          /\ last' = NextId
          /\ Goto(p, "done")
  /\ UNCHANGED <<meta, checks, typed, salt, found>>

(* get_secret.                                                             *)
UseCredential(p) ==
  /\ phase[p] = "unlocked"
  /\ \E c \in creds : Goto(p, IF c.key = Key(p) THEN "done" ELSE "undecryptable")
  /\ UNCHANGED <<meta, creds, last, checks, typed, salt, found>>

\* Faulty: no ON DELETE RESTRICT.
RemoveAnyway(r) ==
  /\ phase[r] = "idle"
  /\ \E c \in creds : Goto(r, "done") /\ creds' = creds \ {c}
  /\ UNCHANGED <<meta, last, checks, typed, salt, found>>

Remove(r) ==
  /\ phase[r] = "idle"
  /\ \E c \in creds :
       IF \E k \in checks : k.cred = c.id
       THEN Goto(r, "failed") /\ UNCHANGED creds
       ELSE Goto(r, "done") /\ creds' = creds \ {c}
  /\ UNCHANGED <<meta, last, checks, typed, salt, found>>

(* `monitor enable` looks the label up, closes the database, and inserts   *)
(* the check with the id it found; nothing deletes a check.                *)
LookUp(e, l) ==
  /\ phase[e] = "idle"
  /\ IF Labelled(l) = {}
     THEN Goto(e, "refused") /\ UNCHANGED found
     ELSE /\ \E c \in Labelled(l) : found' = [found EXCEPT ![e] = <<l, c.id>>]
          /\ Goto(e, "found")
  /\ UNCHANGED <<meta, creds, last, checks, typed, salt>>

Enable(e) ==
  /\ phase[e] = "found"
  /\ IF \E c \in creds : c.id = found[e][2]
     THEN /\ checks' = checks \cup {[by |-> e, label |-> found[e][1], cred |-> found[e][2]]}
          /\ Goto(e, "done")
     ELSE Goto(e, "failed") /\ UNCHANGED checks
  /\ UNCHANGED <<meta, creds, last, typed, salt, found>>

-----------------------------------------------------------------------------
Next ==
  \/ \E i \in Inits : CheckSet(i) \/ CheckAgain(i) \/ StoreVerifier(i)
  \/ \E m \in Importers : ImportMeta(m)
  \/ \E p \in Openers : ReadSalt(p) \/ ReadVerifier(p)
  \/ \E p \in Adders, l \in Labels : AddCredential(p, l)
  \/ \E p \in Users : UseCredential(p)
  \/ \E r \in Removers : Remove(r)
  \/ \E e \in Enablers : Enable(e) \/ \E l \in Labels : LookUp(e, l)

Spec == Init /\ [][Next]_vars

-----------------------------------------------------------------------------
TypeOK ==
  /\ meta \in [salt: Setters \cup {NULL}, verifier: Keys \cup {NULL}]
  /\ creds \subseteq [id: Nat, label: Labels, key: Keys]
  /\ last \in Nat
  /\ checks \subseteq [by: Enablers, label: Labels, cred: Nat]
  /\ phase \in [Procs -> Phases]
  /\ typed \in [Inits \cup Openers -> Passwords \cup {NULL}]
  /\ salt \in [Openers -> Setters \cup {NULL}]
  /\ found \in [Enablers -> (Labels \X Nat) \cup {NULL}]

(* Whoever knows the master password can read every secret that is stored. *)
(* With ~Overlapping: if no other init and no import comes between the     *)
(* look of an init and its writes, whatever the others do meanwhile, and   *)
(* whichever of the two sets the password.                                 *)
SecretsOpen == \A c \in creds : c.key = meta.verifier

(* A check never loses its credential, even if the credential is removed   *)
(* between looking its label up and inserting the check.                   *)
ChecksHaveCredentials ==
  \A k \in checks : \E c \in creds : c.id = k.cred

(* A check uses the credential its operator named, not one that has taken  *)
(* the place of that one meanwhile.                                        *)
ChecksUseWhatWasNamed ==
  \A k \in checks, c \in creds : c.id = k.cred => c.label = k.label
=============================================================================
