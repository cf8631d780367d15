------------------------------ MODULE Curation ------------------------------
(***************************************************************************)
(* What the inventory promises the people who keep it: "scanner proposes,  *)
(* human disposes".  Discovery may add assets, refresh what discovery set  *)
(* and ask questions, in any number at a time; a value a human or an       *)
(* import has set changes only by the answer to a question about it, and   *)
(* an answer is given once.  How commands read, lock and commit is not     *)
(* visible here.                                                           *)
(***************************************************************************)
EXTENDS Integers, Sequences, Provenance

CONSTANTS Fields, Values

VARIABLES asset,      \* sequence of assets: value and provenance per field
          proposals   \* questions, open while their resolution is NULL

promised == <<asset, proposals>>

Open == {q \in proposals : q.resolution = NULL}

Init == asset = << >> /\ proposals = {}

SameField(old, new, f) ==
  new.value[f] = old.value[f] /\ new.prov[f] = old.prov[f]

(* Some discovery is committed: assets are added, never removed; curated   *)
(* fields keep value and provenance, but those in `lost`; every new        *)
(* proposal is an open question about a known asset that asks for a        *)
(* different value.                                                        *)
DiscoverBut(lost) ==
  /\ Len(asset') >= Len(asset)
  /\ \A a \in DOMAIN asset, f \in Fields :
       IsProtected(asset[a], f) /\ <<a, f>> \notin lost
         => SameField(asset[a], asset'[a], f)
  /\ proposals \subseteq proposals'
  /\ \A q \in proposals' \ proposals :
       /\ q.resolution = NULL
       /\ q.asset \in DOMAIN asset'
       /\ q.proposed \notin {NULL, q.current}

Discover == DiscoverBut({})

Answered(q, resolution) ==
  proposals' = (proposals \ {q}) \cup {[q EXCEPT !.resolution = resolution]}

(* The observed value wins and the field is the scanner's again.           *)
TakeObserved(q) ==
  asset' = [asset EXCEPT ![q.asset].value[q.field] = q.proposed,
                         ![q.asset].prov[q.field]  = "scanned"]

Accept(q) == TakeObserved(q) /\ Answered(q, "accepted")

Reject(q) ==
  /\ UNCHANGED asset
  /\ Answered(q, "rejected")

(* A third value, or none, is a human's.                                   *)
TakeChosen(q) ==
  \E v \in Values \cup {NULL} :
    asset' = [asset EXCEPT ![q.asset].value[q.field] = v,
                           ![q.asset].prov[q.field]  = "manual"]

Edit(q) == TakeChosen(q) /\ Answered(q, "edited")

Next == Discover \/ \E q \in Open : Accept(q) \/ Reject(q) \/ Edit(q)

Spec == Init /\ [][Next]_promised

(* Not part of the promise: `q` was read while it was open and has been    *)
(* answered since.  Accepting it takes its value but leaves the answer     *)
(* that stands; an edit replaces the answer too.                           *)
Reanswered(q) ==
  proposals' = {x \in proposals : ~(x.by = q.by /\ x.field = q.field)}
                 \cup {[q EXCEPT !.resolution = "edited"]}

AnswerAgain(q) ==
  \/ TakeObserved(q) /\ UNCHANGED proposals
  \/ TakeChosen(q) /\ Reanswered(q)
=============================================================================
