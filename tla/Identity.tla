------------------------------ MODULE Identity ------------------------------
(***************************************************************************)
(* core/identity.py: which known asset, if any, an observation belongs to. *)
(* `resolve` answers with one of three records: insert a new asset, update *)
(* one asset, or defer an ambiguous observation to the review queue.       *)
(*                                                                         *)
(* Confidence is kept in tenths, so the arithmetic of the scores stays in  *)
(* the integers.  The order of an Ambiguous answer's candidates is wording *)
(* for the reviewer and is abstracted to the set of them.                  *)
(***************************************************************************)
EXTENDS Integers, FiniteSets, Nullable

\* Answers of the resolver; asset 0 and no candidates where they are unused.
Insert         == [kind |-> "insert",    asset |-> 0, candidates |-> {}]
Update(a)      == [kind |-> "update",    asset |-> a, candidates |-> {}]
Ambiguous(set) == [kind |-> "ambiguous", asset |-> 0, candidates |-> set]

-----------------------------------------------------------------------------
SharesMac(c, e)      == c.macs \cap e.macs # {}
SharesAddress(c, e)  == c.primary_ip # NULL /\ c.primary_ip = e.primary_ip
SharesHostname(c, e) == c.hostname # NULL /\ c.hostname = e.hostname

Weight(hit, tenths) == IF hit THEN tenths ELSE 0

\* A known asset or an observation is [hostname, primary_ip, macs].
(* _score_against, in tenths and capped at 1.0                             *)
Score(c, e) ==
  LET sum == Weight(SharesMac(c, e), 9) + Weight(SharesAddress(c, e), 4)
                                        + Weight(SharesHostname(c, e), 3)
  IN  IF sum > 10 THEN 10 ELSE sum

\* Faulty: an address on its own no longer counts.
HighFloor      == 5
AmbiguityFloor == 2

NoSignals(c) == c.hostname = NULL /\ c.primary_ip = NULL /\ c.macs = {}

MacHits(c, known)  == {a \in DOMAIN known : SharesMac(c, known[a])}
HostHits(c, known) == {a \in DOMAIN known : SharesHostname(c, known[a])}
Above(c, known)    == {a \in DOMAIN known : Score(c, known[a]) >= AmbiguityFloor}

ManyMacs(c, known) == \E a, b \in MacHits(c, known) : a # b

(* The MAC says one asset and the hostname says another one.               *)
SplitIdentity(c, known) ==
  /\ MacHits(c, known) # {}
  /\ HostHits(c, known) # {}
  /\ MacHits(c, known) \cap HostHits(c, known) = {}

(* resolve: the rules in the order the code applies them.  `known` maps    *)
(* the id of every asset to its fingerprint.                               *)
Resolve(c, known) ==
  IF NoSignals(c) THEN Insert
  ELSE IF ManyMacs(c, known) THEN Ambiguous(MacHits(c, known))
  ELSE IF SplitIdentity(c, known)
       THEN Ambiguous(MacHits(c, known) \cup HostHits(c, known))
  ELSE IF Above(c, known) = {} THEN Insert
  ELSE IF \E a \in Above(c, known) : Above(c, known) = {a}
       THEN Update(CHOOSE a \in Above(c, known) : TRUE)
  ELSE Ambiguous(Above(c, known))
=============================================================================
