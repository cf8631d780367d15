----------------------------- MODULE Provenance -----------------------------
(***************************************************************************)
(* core/provenance.py: which observed fields may be written to an asset    *)
(* and which only become proposals.                                        *)
(*                                                                         *)
(* What is known of an asset is a record of two functions over the fields: *)
(* `value`, NULL for a field the asset has no value for, and `prov`, who   *)
(* set it.  An observation maps every field to a value, NULL if unseen.    *)
(***************************************************************************)
EXTENDS Nullable

Provenances == {"scanned", "manual", "imported"}
Protected   == {"manual", "imported"}      \* PROTECTED_PROVENANCE

HasPrior(known, f)    == known.value[f] # NULL
IsProtected(known, f) == HasPrior(known, f) /\ known.prov[f] \in Protected

\* Faulty: whatever was observed is written.
AppliedAlways(known, incoming) == {f \in DOMAIN incoming : incoming[f] # NULL}

(* merge_scan_result, first result: the fields the caller writes.          *)
Applied(known, incoming) ==
  {f \in DOMAIN incoming : incoming[f] # NULL /\ ~IsProtected(known, f)}

\* Faulty: proposals for the value already there, or against manual fields
\* only.
ProposedUnchanged(known, incoming) ==
  {f \in DOMAIN incoming : incoming[f] # NULL /\ IsProtected(known, f)}
ProposedAgainstManual(known, incoming) ==
  {f \in DOMAIN incoming : /\ incoming[f] # NULL
                           /\ HasPrior(known, f) /\ known.prov[f] = "manual"
                           /\ known.value[f] # incoming[f]}

(* merge_scan_result, second result: the fields it only proposes.          *)
Proposed(known, incoming) ==
  {f \in DOMAIN incoming : /\ incoming[f] # NULL
                           /\ IsProtected(known, f)
                           /\ known.value[f] # incoming[f]}

(* The fields whose VALUE an application changes: what the callers put in  *)
(* the timeline as visible changes.                                        *)
VisibleChanges(known, incoming) ==
  {f \in Applied(known, incoming) : known.value[f] # incoming[f]}
=============================================================================
