----------------------------- MODULE DumpProofs -----------------------------
(***************************************************************************)
(* Theorems about `langusta export` and `langusta import` (Dump).          *)
(*                                                                         *)
(*   Tables, rows and keys   what Refs, Put and SetToSeq give              *)
(*   What others commit      each of Writes keeps a database sound         *)
(*   The import              a merge without collision or dangling row     *)
(*   The invariant           and that types, references and corrections    *)
(*                           follow from it                                *)
(*   The round trip          what an import adds is what was read          *)
(*   Attribution             who set a value, kept by all but cuts         *)
(***************************************************************************)
EXTENDS Dump, FiniteSetTheorems, SequenceTheorems, TLAPS

(* What a table may hold.                                                  *)
Contents == UNION {Seq(Rows[t]) : t \in Tables}

Typed(d) == d \in Database /\ \A t \in Tables : d[t] \in Seq(Rows[t])

(* A correction refers to an earlier entry, of the same asset.             *)
Threaded(s) ==
  \A i \in DOMAIN s :
    s[i].corrects # 0 =>
      /\ s[i].corrects \in 1 .. i - 1
      /\ s[s[i].corrects].asset = s[i].asset

(* What every database is, whoever wrote it.                               *)
Sound(d) == Typed(d) /\ ForeignKeysHold(d) /\ Threaded(d["timeline_entries"])

-----------------------------------------------------------------------------
(* Tables, rows and keys.                                                  *)

(* The rows of each table, by name.                                        *)
LEMMA RowsAre ==
  /\ Rows["assets"] = Asset
  /\ Rows["mac_addresses"] = [asset : Ids, mac : Macs]
  /\ Rows["field_provenance"] = [asset : Ids, field : Fields, by : Setters]
  /\ Rows["scans"] = {"started", "finished"}
  /\ Rows["proposed_changes"] = [asset : Ids, field : Fields, scan : Ids, open : BOOLEAN]
  /\ Rows["review_queue"] = [scan : Ids]
  /\ Rows["timeline_entries"] = [asset : Ids, corrects : Nat]
BY DEF Rows

(* Every table is read once, and TableOrder names it.                      *)
LEMMA OrderIs ==
  /\ Len(TableOrder) = 7 /\ DOMAIN TableOrder = 1 .. 7
  /\ \A k \in 1 .. 7 : TableOrder[k] \in Tables
  /\ \A t \in Tables : \E k \in 1 .. 7 : TableOrder[k] = t
  /\ TableOrder[1] = "assets" /\ TableOrder[7] = "timeline_entries"
BY DEF TableOrder, Tables

(* A database that fits its tables.                                        *)
LEMMA TypedIntro ==
  ASSUME NEW d, d = [t \in Tables |-> d[t]], \A t \in Tables : d[t] \in Seq(Rows[t])
  PROVE  Typed(d)
<1>1. \A t \in Tables : d[t] \in Contents
  BY DEF Contents
<1>2. d \in [Tables -> Contents]
  BY <1>1
<1> QED BY <1>2 DEF Typed, Database, Contents

(* A typed database is a function of its tables.                           *)
LEMMA TypedElim ==
  ASSUME NEW d, Typed(d)
  PROVE  /\ d \in [Tables -> Contents] /\ DOMAIN d = Tables
         /\ \A t \in Tables : /\ d[t] \in Seq(Rows[t])
                              /\ Len(d[t]) \in Nat
                              /\ DOMAIN d[t] = 1 .. Len(d[t])
                              /\ \A i \in DOMAIN d[t] : d[t][i] \in Rows[t]
BY DEF Typed, Database, Contents

(* A reference is a table and an id.                                       *)
LEMMA RefsType ==
  ASSUME NEW t \in Tables, NEW row \in Rows[t], NEW ref \in Refs(t, row)
  PROVE  ref[1] \in Tables /\ ref[2] \in Ids
<1>1. CASE t \in {"mac_addresses", "field_provenance"}
  <2>1. ref = <<"assets", row.asset>>
    BY <1>1 DEF Refs
  <2>2. CASE t = "mac_addresses"
    BY <2>1, <2>2, RowsAre DEF Tables
  <2>3. CASE t = "field_provenance"
    BY <2>1, <2>3, RowsAre DEF Tables
  <2> QED BY <1>1, <2>2, <2>3
<1>2. CASE t = "proposed_changes"
  <2>1. ref \in {<<"assets", row.asset>>, <<"scans", row.scan>>}
    BY <1>2 DEF Refs
  <2>2. row.asset \in Ids /\ row.scan \in Ids
    BY <1>2, RowsAre
  <2> QED BY <2>1, <2>2 DEF Tables
<1>3. CASE t = "review_queue"
  BY <1>3, RowsAre DEF Refs, Tables
<1>4. CASE t = "timeline_entries"
  BY <1>4, RowsAre DEF Refs, Tables, Ids
<1>5. CASE t \in {"assets", "scans"}
  BY <1>5 DEF Refs
<1> QED BY <1>1, <1>2, <1>3, <1>4, <1>5 DEF Tables

(* Keys still hold when tables only grow and each row is an old one, as    *)
(* far as its references go, or refers to what was there.                  *)
LEMMA KeysStillHold ==
  ASSUME NEW d, NEW e, Typed(d), ForeignKeysHold(d),
         \A t \in Tables : DOMAIN d[t] \subseteq DOMAIN e[t],
         \A t \in Tables : e[t] \in Seq(Rows[t]),
         \A t \in Tables : \A i \in DOMAIN e[t] :
           \/ i \in DOMAIN d[t] /\ Refs(t, e[t][i]) = Refs(t, d[t][i])
           \/ \A ref \in Refs(t, e[t][i]) : ref[2] \in DOMAIN e[ref[1]]
  PROVE  ForeignKeysHold(e)
<1> SUFFICES ASSUME NEW t \in Tables, NEW i \in DOMAIN e[t],
                    NEW ref \in Refs(t, e[t][i])
             PROVE  ref[2] \in DOMAIN e[ref[1]]
  BY DEF ForeignKeysHold
<1>1. e[t][i] \in Rows[t]
  OBVIOUS
<1>2. ref[1] \in Tables
  BY <1>1, RefsType
<1>3. CASE i \in DOMAIN d[t] /\ Refs(t, e[t][i]) = Refs(t, d[t][i])
  BY <1>2, <1>3 DEF ForeignKeysHold
<1> QED BY <1>3

(* A row put into a table.                                                 *)
LEMMA PutGives ==
  ASSUME NEW d, Typed(d), NEW t \in Tables, NEW row \in Rows[t]
  PROVE  /\ Typed(Put(d, t, row))
         /\ \A u \in Tables \ {t} : Put(d, t, row)[u] = d[u]
         /\ Put(d, t, row)[t] = Append(d[t], row)
         /\ Len(Put(d, t, row)[t]) = Len(d[t]) + 1
         /\ DOMAIN Put(d, t, row)[t] = 1 .. Len(d[t]) + 1
         /\ Put(d, t, row)[t][Len(d[t]) + 1] = row
         /\ \A i \in DOMAIN d[t] : Put(d, t, row)[t][i] = d[t][i]
<1> DEFINE e == Put(d, t, row)
<1>1. d \in [Tables -> Contents] /\ d[t] \in Seq(Rows[t])
  BY TypedElim
<1>2. /\ e = [u \in Tables |-> e[u]]
      /\ \A u \in Tables \ {t} : e[u] = d[u]
      /\ e[t] = Append(d[t], row)
  BY <1>1 DEF Put
<1> HIDE DEF e
<1>3. /\ Append(d[t], row) \in Seq(Rows[t])
      /\ Len(Append(d[t], row)) = Len(d[t]) + 1
      /\ DOMAIN Append(d[t], row) = 1 .. Len(d[t]) + 1
      /\ Append(d[t], row)[Len(d[t]) + 1] = row
      /\ \A i \in DOMAIN d[t] : Append(d[t], row)[i] = d[t][i]
  BY <1>1
<1>4. \A u \in Tables : e[u] \in Seq(Rows[u])
  BY <1>1, <1>2, <1>3 DEF Typed
<1>5. Typed(e)
  BY <1>2, <1>4, TypedIntro
<1> QED BY <1>2, <1>3, <1>5 DEF e

(* Putting a row whose references are there, an entry being threaded.      *)
LEMMA PutIsSound ==
  ASSUME NEW d, Sound(d), NEW t \in Tables, NEW row \in Rows[t],
         \A ref \in Refs(t, row) : ref[2] \in DOMAIN d[ref[1]],
         t = "timeline_entries" /\ row.corrects # 0 =>
           d[t][row.corrects].asset = row.asset
  PROVE  Sound(Put(d, t, row))
<1> DEFINE e == Put(d, t, row)
<1>0. Typed(d) /\ ForeignKeysHold(d) /\ Threaded(d["timeline_entries"])
  BY DEF Sound
<1>1. /\ Typed(e)
      /\ \A u \in Tables \ {t} : e[u] = d[u]
      /\ DOMAIN e[t] = 1 .. Len(d[t]) + 1
      /\ e[t][Len(d[t]) + 1] = row
      /\ \A i \in DOMAIN d[t] : e[t][i] = d[t][i]
  BY <1>0, PutGives
<1> HIDE DEF e
<1>2. /\ \A u \in Tables : e[u] \in Seq(Rows[u])
      /\ DOMAIN d[t] = 1 .. Len(d[t]) /\ Len(d[t]) \in Nat
  BY <1>0, <1>1, TypedElim
<1>3. \A u \in Tables : DOMAIN d[u] \subseteq DOMAIN e[u]
  BY <1>1, <1>2
<1>4. \A ref \in Refs(t, row) : ref[1] \in Tables /\ ref[2] \in Ids
  BY RefsType
<1>5. ASSUME NEW u \in Tables, NEW i \in DOMAIN e[u]
      PROVE  \/ i \in DOMAIN d[u] /\ Refs(u, e[u][i]) = Refs(u, d[u][i])
             \/ \A ref \in Refs(u, e[u][i]) : ref[2] \in DOMAIN e[ref[1]]
  <2>1. CASE u # t \/ i \in DOMAIN d[u]
    BY <1>1, <2>1
  <2>2. CASE u = t /\ i = Len(d[t]) + 1
    BY <1>1, <1>3, <1>4, <2>2
  <2> QED BY <1>1, <1>2, <2>1, <2>2
<1>6. ForeignKeysHold(e)
  BY <1>0, <1>2, <1>3, <1>5, KeysStillHold
<1>7. Threaded(e["timeline_entries"])
  <2>1. CASE t # "timeline_entries"
    BY <1>0, <1>1, <2>1 DEF Tables
  <2>2. CASE t = "timeline_entries"
    <3>1. row \in [asset : Ids, corrects : Nat]
      BY <2>2, RowsAre
    <3>2. row.corrects # 0 => row.corrects \in DOMAIN d[t]
      <4>1. row.corrects # 0 =>
              <<"timeline_entries", row.corrects>> \in Refs(t, row)
        BY <2>2 DEF Refs
      <4> QED BY <2>2, <4>1
    <3>3. ASSUME NEW i \in DOMAIN e[t], e[t][i].corrects # 0
          PROVE  /\ e[t][i].corrects \in 1 .. i - 1
                 /\ e[t][e[t][i].corrects].asset = e[t][i].asset
      <4>1. CASE i \in DOMAIN d[t]
        <5>1. /\ d[t][i].corrects \in 1 .. i - 1
              /\ d[t][d[t][i].corrects].asset = d[t][i].asset
          BY <1>0, <1>1, <2>2, <3>3, <4>1 DEF Threaded
        <5>2. d[t][i].corrects \in DOMAIN d[t]
          BY <1>2, <4>1, <5>1
        <5> QED BY <1>1, <4>1, <5>1, <5>2
      <4>2. CASE i = Len(d[t]) + 1
        BY <1>1, <1>2, <2>2, <3>1, <3>2, <3>3, <4>2
      <4> QED BY <1>1, <1>2, <4>1, <4>2
    <3> QED BY <2>2, <3>3 DEF Threaded
  <2> QED BY <2>1, <2>2
<1> QED BY <1>1, <1>6, <1>7 DEF Sound, e

(* A table replaced, its ids kept, by rows whose references are there.     *)
Replaced(d, t, s) == [d EXCEPT ![t] = s]

(* It leaves the database sound, and the other tables as they were.        *)
LEMMA ReplacedIsSound ==
  ASSUME NEW d, Sound(d), NEW t \in Tables \ {"timeline_entries"},
         NEW s \in Seq(Rows[t]), DOMAIN d[t] \subseteq DOMAIN s,
         \A i \in DOMAIN s : \A ref \in Refs(t, s[i]) : ref[2] \in DOMAIN d[ref[1]]
  PROVE  /\ Sound(Replaced(d, t, s))
         /\ Replaced(d, t, s)[t] = s
         /\ \A u \in Tables \ {t} : Replaced(d, t, s)[u] = d[u]
<1> DEFINE e == Replaced(d, t, s)
<1>0. Typed(d) /\ ForeignKeysHold(d) /\ Threaded(d["timeline_entries"])
  BY DEF Sound
<1>1. d \in [Tables -> Contents]
  BY <1>0, TypedElim
<1>2. /\ e = [u \in Tables |-> e[u]]
      /\ e[t] = s
      /\ \A u \in Tables \ {t} : e[u] = d[u]
  BY <1>1 DEF Replaced
<1> HIDE DEF e
<1>3. \A u \in Tables : e[u] \in Seq(Rows[u])
  BY <1>0, <1>2, TypedElim
<1>4. Typed(e)
  BY <1>2, <1>3, TypedIntro
<1>5. \A u \in Tables : DOMAIN d[u] \subseteq DOMAIN e[u]
  BY <1>2
<1>6. ASSUME NEW u \in Tables, NEW i \in DOMAIN e[u]
      PROVE  \/ i \in DOMAIN d[u] /\ Refs(u, e[u][i]) = Refs(u, d[u][i])
             \/ \A ref \in Refs(u, e[u][i]) : ref[2] \in DOMAIN e[ref[1]]
  <2>1. CASE u # t
    BY <1>2, <2>1
  <2>2. CASE u = t
    <3>1. SUFFICES ASSUME NEW ref \in Refs(t, s[i])
                   PROVE  ref[2] \in DOMAIN e[ref[1]]
      BY <1>2, <2>2
    <3>2. s[i] \in Rows[t] /\ ref[2] \in DOMAIN d[ref[1]]
      BY <1>2, <2>2
    <3>3. ref[1] \in Tables
      BY <3>2, RefsType
    <3> QED BY <1>5, <3>2, <3>3
  <2> QED BY <2>1, <2>2
<1>7. ForeignKeysHold(e)
  BY <1>0, <1>3, <1>5, <1>6, KeysStillHold
<1>8. Threaded(e["timeline_entries"])
  BY <1>0, <1>2 DEF Tables
<1> QED BY <1>2, <1>4, <1>7, <1>8 DEF Sound, e

(* The sequence of the one member of a set.                                *)
LEMMA SetToSeqOfOne ==
  ASSUME NEW x PROVE SetToSeq({x}) \in Seq({x})
<1>1. Cardinality({x}) = 1
  BY FS_Singleton
<1>2. SetToSeq({x}) = CHOOSE f \in [1 .. 1 -> {x}] : IsInjective(f)
  BY <1>1 DEF SetToSeq
<1>3. [i \in 1 .. 1 |-> x] \in [1 .. 1 -> {x}] /\ IsInjective([i \in 1 .. 1 |-> x])
  BY DEF IsInjective
<1>4. SetToSeq({x}) \in [1 .. 1 -> {x}]
  BY <1>2, <1>3
<1> QED BY <1>4, SeqDef

-----------------------------------------------------------------------------
(* What others commit.                                                     *)

(* An entry about an asset, correcting none or one of that asset.          *)
LEMMA EntryIsSound ==
  ASSUME NEW d, Sound(d), NEW a \in DOMAIN d["assets"], NEW c,
         \/ c = 0
         \/ c \in DOMAIN d["timeline_entries"] /\ d["timeline_entries"][c].asset = a
  PROVE  /\ Sound(Entry(d, a, c))
         /\ \A u \in Tables \ {"timeline_entries"} : Entry(d, a, c)[u] = d[u]
<1> DEFINE row == [asset |-> a, corrects |-> c]
<1>0. Typed(d) /\ "timeline_entries" \in Tables /\ "assets" \in Tables
  BY DEF Sound, Tables
<1>1. a \in Ids /\ c \in Nat
  BY <1>0, TypedElim DEF Ids
<1>2. row \in Rows["timeline_entries"] /\ row.asset = a /\ row.corrects = c
  BY <1>1, RowsAre
<1>3. Refs("timeline_entries", row) =
        {<<"assets", a>>} \cup IF c = 0 THEN {} ELSE {<<"timeline_entries", c>>}
  BY <1>2 DEF Refs
<1> HIDE DEF row
<1>4. \A ref \in Refs("timeline_entries", row) : ref[2] \in DOMAIN d[ref[1]]
  BY <1>3
<1>5. Sound(Put(d, "timeline_entries", row))
  BY <1>0, <1>2, <1>4, PutIsSound
<1>6. \A u \in Tables \ {"timeline_entries"} : Put(d, "timeline_entries", row)[u] = d[u]
  BY <1>0, <1>2, PutGives
<1> QED BY <1>5, <1>6 DEF Entry, row

(* A field set, with its provenance row.                                   *)
LEMMA SetFieldIsSound ==
  ASSUME NEW d, Sound(d), NEW a \in DOMAIN d["assets"],
         NEW f \in Fields, NEW by \in Setters
  PROVE  /\ Sound(SetField(d, a, f, by))
         /\ \A u \in Tables \ {"assets", "field_provenance"} :
              SetField(d, a, f, by)[u] = d[u]
         /\ DOMAIN SetField(d, a, f, by)["assets"] = DOMAIN d["assets"]
<1> DEFINE assets == [d["assets"] EXCEPT ![a][f] = by]
           set    == Replaced(d, "assets", assets)
           row    == [asset |-> a, field |-> f, by |-> by]
           known  == {i \in DOMAIN d["field_provenance"] :
                        /\ d["field_provenance"][i].asset = a
                        /\ d["field_provenance"][i].field = f}
           prov   == [i \in DOMAIN d["field_provenance"] |->
                        IF i \in known THEN row ELSE d["field_provenance"][i]]
<1>0. /\ Typed(d) /\ "assets" \in Tables /\ "field_provenance" \in Tables
      /\ "timeline_entries" \in Tables
  BY DEF Sound, Tables
<1>1. /\ d["assets"] \in Seq(Asset) /\ DOMAIN d["assets"] = 1 .. Len(d["assets"])
      /\ a \in Ids
  BY <1>0, TypedElim, RowsAre DEF Ids
<1>2. assets \in Seq(Rows["assets"]) /\ DOMAIN assets = DOMAIN d["assets"]
  <2>1. [d["assets"][a] EXCEPT ![f] = by] \in Asset
    BY <1>1 DEF Asset
  <2>2. assets = [d["assets"] EXCEPT ![a] = [d["assets"][a] EXCEPT ![f] = by]]
    OBVIOUS
  <2> HIDE DEF assets
  <2>3. assets \in Seq(Asset) /\ DOMAIN assets = DOMAIN d["assets"]
    BY <1>1, <2>1, <2>2
  <2> QED BY <2>3, RowsAre
<1> HIDE DEF assets
<1>3. \A i \in DOMAIN assets : Refs("assets", assets[i]) = {}
  BY DEF Refs
<1>4. /\ Sound(set)
      /\ set["assets"] = assets
      /\ \A u \in Tables \ {"assets"} : set[u] = d[u]
  <2>1. \A i \in DOMAIN assets : \A ref \in Refs("assets", assets[i]) :
          ref[2] \in DOMAIN d[ref[1]]
    BY <1>3
  <2>2. "assets" \in Tables \ {"timeline_entries"}
    BY DEF Tables
  <2> QED BY <1>2, <2>1, <2>2, ReplacedIsSound
<1> HIDE DEF set
<1>5. /\ row \in Rows["field_provenance"]
      /\ Refs("field_provenance", row) = {<<"assets", a>>}
  BY <1>1, RowsAre DEF Refs
<1> HIDE DEF row
<1>6. SetField(d, a, f, by) =
        IF known = {} THEN Put(set, "field_provenance", row)
        ELSE Replaced(set, "field_provenance", prov)
  <2>1. set["field_provenance"] = d["field_provenance"]
    BY <1>0, <1>4
  <2>2. SetField(d, a, f, by) =
          IF known = {} THEN Put(set, "field_provenance", row)
          ELSE [set EXCEPT !["field_provenance"] =
                  [i \in DOMAIN @ |-> IF i \in known THEN row ELSE @[i]]]
    BY DEF SetField, set, row, assets, Replaced
  <2> QED BY <2>1, <2>2 DEF Replaced
<1>7. CASE known = {}
  <2>1. \A ref \in Refs("field_provenance", row) : ref[2] \in DOMAIN set[ref[1]]
    BY <1>2, <1>4, <1>5
  <2>2. Sound(Put(set, "field_provenance", row))
    BY <1>0, <1>4, <1>5, <2>1, PutIsSound
  <2>3. \A u \in Tables \ {"field_provenance"} :
          Put(set, "field_provenance", row)[u] = set[u]
    BY <1>0, <1>4, <1>5, PutGives DEF Sound
  <2> QED BY <1>0, <1>2, <1>4, <1>6, <1>7, <2>2, <2>3
<1>8. CASE known # {}
  <2>1. /\ d["field_provenance"] \in Seq(Rows["field_provenance"])
        /\ DOMAIN d["field_provenance"] = 1 .. Len(d["field_provenance"])
        /\ Len(d["field_provenance"]) \in Nat
        /\ \A i \in DOMAIN d["field_provenance"] :
             d["field_provenance"][i] \in Rows["field_provenance"]
    BY <1>0, TypedElim
  <2>2. prov \in Seq(Rows["field_provenance"]) /\ DOMAIN prov = DOMAIN d["field_provenance"]
    BY <1>5, <2>1
  <2>3. ASSUME NEW i \in DOMAIN prov, NEW ref \in Refs("field_provenance", prov[i])
        PROVE  ref[2] \in DOMAIN set[ref[1]]
    <3>1. CASE i \in known
      BY <1>2, <1>4, <1>5, <3>1
    <3>2. CASE i \notin known
      <4>1. ref \in Refs("field_provenance", d["field_provenance"][i])
        BY <3>2
      <4>2. ref = <<"assets", d["field_provenance"][i].asset>>
        BY <4>1 DEF Refs
      <4>3. ref[2] \in DOMAIN d[ref[1]]
        BY <1>0, <4>1 DEF Sound, ForeignKeysHold
      <4> QED BY <1>2, <1>4, <4>2, <4>3
    <3> QED BY <3>1, <3>2
  <2> HIDE DEF prov
  <2>4. set["field_provenance"] = d["field_provenance"]
    BY <1>0, <1>4
  <2>5. /\ Sound(Replaced(set, "field_provenance", prov))
        /\ \A u \in Tables \ {"field_provenance"} :
             Replaced(set, "field_provenance", prov)[u] = set[u]
    BY <1>0, <1>4, <2>2, <2>3, <2>4, ReplacedIsSound
  <2> QED BY <1>0, <1>2, <1>4, <1>6, <1>8, <2>5
<1> QED BY <1>7, <1>8

(* A new asset, with one field and maybe a MAC address.                    *)
LEMMA NewAssetIsSound ==
  ASSUME NEW d, Sound(d), NEW f \in Fields, NEW by \in Setters,
         NEW m \in Macs \cup {NULL}
  PROVE  /\ Sound(NewAsset(d, {f}, by, m))
         /\ \A u \in Tables \ {"assets", "mac_addresses", "field_provenance"} :
              NewAsset(d, {f}, by, m)[u] = d[u]
         /\ DOMAIN NewAsset(d, {f}, by, m)["assets"] = 1 .. Len(d["assets"]) + 1
         /\ Len(NewAsset(d, {f}, by, m)["assets"]) = Len(d["assets"]) + 1
<1> DEFINE a     == Len(d["assets"]) + 1
           row   == [g \in Fields |-> IF g \in {f} THEN by ELSE NULL]
           added == Put(d, "assets", row)
           one   == SetToSeq({[asset |-> a, field |-> g, by |-> by] : g \in {f}})
           all   == added["field_provenance"] \o one
           prov  == Replaced(added, "field_provenance", all)
           mac   == [asset |-> a, mac |-> m]
<1>0. /\ Typed(d) /\ "assets" \in Tables /\ "field_provenance" \in Tables
      /\ "mac_addresses" \in Tables /\ "timeline_entries" \in Tables
  BY DEF Sound, Tables
<1>1. Len(d["assets"]) \in Nat /\ a \in Ids
  BY <1>0, TypedElim DEF Ids
<1>2. row \in Rows["assets"] /\ Refs("assets", row) = {}
  BY RowsAre DEF Asset, Refs
<1> HIDE DEF row
<1>3. /\ Sound(added)
      /\ DOMAIN added["assets"] = 1 .. a /\ Len(added["assets"]) = a
      /\ \A u \in Tables \ {"assets"} : added[u] = d[u]
  BY <1>0, <1>2, PutIsSound, PutGives
<1> HIDE DEF added
<1>4. one \in Seq({[asset |-> a, field |-> f, by |-> by]})
  <2>1. {[asset |-> a, field |-> g, by |-> by] : g \in {f}}
          = {[asset |-> a, field |-> f, by |-> by]}
    OBVIOUS
  <2> QED BY <2>1, SetToSeqOfOne
<1> HIDE DEF one
<1>5. [asset |-> a, field |-> f, by |-> by] \in Rows["field_provenance"]
  BY <1>1, RowsAre
<1>6. /\ added["field_provenance"] \in Seq(Rows["field_provenance"])
      /\ one \in Seq(Rows["field_provenance"])
  BY <1>0, <1>3, <1>4, <1>5, TypedElim DEF Sound
<1>7. /\ all \in Seq(Rows["field_provenance"])
      /\ DOMAIN added["field_provenance"] \subseteq DOMAIN all
      /\ \A i \in DOMAIN all :
           \/ i \in DOMAIN added["field_provenance"] /\ all[i] = added["field_provenance"][i]
           \/ all[i] = [asset |-> a, field |-> f, by |-> by]
  <2>1. /\ all \in Seq(Rows["field_provenance"])
        /\ Len(all) = Len(added["field_provenance"]) + Len(one)
        /\ \A i \in 1 .. Len(all) :
             all[i] = IF i <= Len(added["field_provenance"])
                      THEN added["field_provenance"][i]
                      ELSE one[i - Len(added["field_provenance"])]
    BY <1>6, ConcatProperties
  <2>2. \A i \in 1 .. Len(one) : one[i] = [asset |-> a, field |-> f, by |-> by]
    BY <1>4
  <2> QED BY <1>6, <2>1, <2>2
<1> HIDE DEF all
<1>8. ASSUME NEW i \in DOMAIN all, NEW ref \in Refs("field_provenance", all[i])
      PROVE  ref[2] \in DOMAIN added[ref[1]]
  <2>1. CASE /\ i \in DOMAIN added["field_provenance"]
             /\ all[i] = added["field_provenance"][i]
    BY <1>0, <1>3, <2>1 DEF Sound, ForeignKeysHold
  <2>2. CASE all[i] = [asset |-> a, field |-> f, by |-> by]
    <3>1. ref = <<"assets", a>>
      BY <2>2 DEF Refs
    <3> QED BY <1>1, <1>3, <3>1 DEF Ids
  <2> QED BY <1>7, <2>1, <2>2
<1>9. /\ Sound(prov)
      /\ \A u \in Tables \ {"field_provenance"} : prov[u] = added[u]
  BY <1>0, <1>3, <1>7, <1>8, ReplacedIsSound
<1> HIDE DEF prov
<1>10. \/ NewAsset(d, {f}, by, m) = prov
       \/ m # NULL /\ NewAsset(d, {f}, by, m) = Put(prov, "mac_addresses", mac)
  BY DEF NewAsset, prov, all, one, added, row, mac, Replaced
<1>11. ASSUME m # NULL
       PROVE  /\ Sound(Put(prov, "mac_addresses", mac))
              /\ \A u \in Tables \ {"mac_addresses"} :
                   Put(prov, "mac_addresses", mac)[u] = prov[u]
  <2>1. mac \in Rows["mac_addresses"] /\ Refs("mac_addresses", mac) = {<<"assets", a>>}
    BY <1>1, <1>11, RowsAre DEF Refs
  <2> HIDE DEF mac
  <2>2. \A ref \in Refs("mac_addresses", mac) : ref[2] \in DOMAIN prov[ref[1]]
    BY <1>0, <1>1, <1>3, <1>9, <2>1 DEF Ids
  <2> QED BY <1>0, <1>9, <2>1, <2>2, PutIsSound, PutGives DEF Sound
<1> QED BY <1>0, <1>3, <1>9, <1>10, <1>11

(* A scan row finished.                                                    *)
Finished(d, i) == [d EXCEPT !["scans"][i] = "finished"]

(* A scan refers to nothing, finished or not.                              *)
LEMMA FinishedIsSound ==
  ASSUME NEW d, Sound(d), NEW i \in DOMAIN d["scans"]
  PROVE  Sound(Finished(d, i))
<1> DEFINE scans == [d["scans"] EXCEPT ![i] = "finished"]
<1>0. Typed(d) /\ "scans" \in Tables \ {"timeline_entries"}
  BY DEF Sound, Tables
<1>1. d["scans"] \in Seq({"started", "finished"})
  BY <1>0, TypedElim, RowsAre
<1>2. scans \in Seq(Rows["scans"]) /\ DOMAIN scans = DOMAIN d["scans"]
  BY <1>1, RowsAre
<1>3. Finished(d, i) = Replaced(d, "scans", scans)
  BY DEF Finished, Replaced
<1> HIDE DEF scans
<1>4. \A j \in DOMAIN scans : \A ref \in Refs("scans", scans[j]) :
        ref[2] \in DOMAIN d[ref[1]]
  BY DEF Refs
<1> QED BY <1>0, <1>2, <1>3, <1>4, ReplacedIsSound

(* A proposal closed.                                                      *)
Closed(d, i) == [d EXCEPT !["proposed_changes"][i].open = FALSE]

(* Closing a proposal keeps what it refers to.                             *)
LEMMA ClosedIsSound ==
  ASSUME NEW d, Sound(d), NEW i \in DOMAIN d["proposed_changes"]
  PROVE  /\ Sound(Closed(d, i))
         /\ \A u \in Tables \ {"proposed_changes"} : Closed(d, i)[u] = d[u]
<1> DEFINE old  == d["proposed_changes"]
           rows == [old EXCEPT ![i].open = FALSE]
<1>0. Typed(d) /\ "proposed_changes" \in Tables \ {"timeline_entries"}
  BY DEF Sound, Tables
<1>1. /\ old \in Seq(Rows["proposed_changes"])
      /\ DOMAIN old = 1 .. Len(old)
      /\ \A j \in DOMAIN old : old[j] \in Rows["proposed_changes"]
  BY <1>0, TypedElim
<1>2. /\ rows \in Seq(Rows["proposed_changes"]) /\ DOMAIN rows = DOMAIN old
      /\ \A j \in DOMAIN rows : rows[j].asset = old[j].asset /\ rows[j].scan = old[j].scan
  <2> DEFINE q == [old[i] EXCEPT !.open = FALSE]
  <2>1. old[i] \in [asset : Ids, field : Fields, scan : Ids, open : BOOLEAN]
    BY <1>1, RowsAre
  <2>2. /\ q \in Rows["proposed_changes"]
        /\ q.asset = old[i].asset /\ q.scan = old[i].scan
    BY <2>1, RowsAre
  <2>3. rows = [old EXCEPT ![i] = q]
    OBVIOUS
  <2> HIDE DEF q, rows
  <2> QED BY <1>1, <2>2, <2>3
<1>3. Closed(d, i) = Replaced(d, "proposed_changes", rows)
  BY DEF Closed, Replaced
<1> HIDE DEF rows
<1>4. ASSUME NEW j \in DOMAIN rows, NEW ref \in Refs("proposed_changes", rows[j])
      PROVE  ref[2] \in DOMAIN d[ref[1]]
  <2>1. Refs("proposed_changes", rows[j]) = Refs("proposed_changes", old[j])
    BY <1>2 DEF Refs
  <2> QED BY <1>0, <1>2, <2>1 DEF Sound, ForeignKeysHold
<1> QED BY <1>0, <1>2, <1>3, <1>4, ReplacedIsSound

(* What a scan commits that finds an asset, and what closing a proposal    *)
(* with a value does.                                                      *)
Finding(d, f, m) ==
  LET e == NewAsset(d, {f}, "scanned", m) IN Entry(e, Len(e["assets"]), 0)

Disposal(d, i, by) ==
  LET q == d["proposed_changes"][i]
  IN  Entry([SetField(d, q.asset, q.field, by) EXCEPT !["proposed_changes"][i].open = FALSE],
            q.asset, 0)

(* What a scan ends with leaves the scans and stays sound.                 *)
LEMMA ObservationIsSound ==
  ASSUME NEW d, Sound(d), NEW s \in DOMAIN d["scans"],
         NEW e \in {d} \cup Discovered(d) \cup Observed(d, s) \cup Deferred(d, s)
  PROVE  Sound(e) /\ e["scans"] = d["scans"]
<1>0. /\ Typed(d) /\ "assets" \in Tables /\ "scans" \in Tables
      /\ s \in Ids
  BY TypedElim DEF Sound, Tables, Ids
<1>1. CASE e \in Discovered(d)
  <2>1. PICK f \in Fields, m \in {x \in Macs \cup {NULL} : MacFree(d, x)} :
          e = Finding(d, f, m)
    <3>1. Discovered(d) =
            {Finding(d, f, m) : f \in Fields, m \in {x \in Macs \cup {NULL} : MacFree(d, x)}}
      BY DEF Discovered, Finding
    <3> QED BY <1>1, <3>1
  <2> DEFINE n == NewAsset(d, {f}, "scanned", m)
  <2>2. /\ Sound(n) /\ n["scans"] = d["scans"]
        /\ DOMAIN n["assets"] = 1 .. Len(d["assets"]) + 1
        /\ Len(n["assets"]) = Len(d["assets"]) + 1
    BY NewAssetIsSound DEF Setters, Tables
  <2> HIDE DEF n
  <2>3. Len(n["assets"]) \in DOMAIN n["assets"]
    BY <1>0, <2>2, TypedElim
  <2>4. e = Entry(n, Len(n["assets"]), 0)
    BY <2>1 DEF n, Finding
  <2> QED BY <2>2, <2>3, <2>4, EntryIsSound DEF Tables
<1>2. CASE e \in Observed(d, s)
  <2>1. PICK a \in DOMAIN d["assets"], f \in Fields :
          e = IF d["assets"][a][f] = "manual"
              THEN Put(d, "proposed_changes",
                       [asset |-> a, field |-> f, scan |-> s, open |-> TRUE])
              ELSE Entry(SetField(d, a, f, "scanned"), a, 0)
    BY <1>2 DEF Observed
  <2>2. CASE e = Put(d, "proposed_changes",
                     [asset |-> a, field |-> f, scan |-> s, open |-> TRUE])
    <3> DEFINE row == [asset |-> a, field |-> f, scan |-> s, open |-> TRUE]
    <3>1. a \in Ids
      BY <1>0, TypedElim DEF Ids
    <3>2. /\ row \in Rows["proposed_changes"]
          /\ Refs("proposed_changes", row) = {<<"assets", a>>, <<"scans", s>>}
      BY <1>0, <3>1, RowsAre DEF Refs
    <3> HIDE DEF row
    <3>3. \A ref \in Refs("proposed_changes", row) : ref[2] \in DOMAIN d[ref[1]]
      BY <3>2
    <3>4. "proposed_changes" \in Tables /\ "proposed_changes" # "timeline_entries"
      BY DEF Tables
    <3>5. Sound(Put(d, "proposed_changes", row))
      BY <3>2, <3>3, <3>4, PutIsSound
    <3>6. Put(d, "proposed_changes", row)["scans"] = d["scans"]
      BY <1>0, <3>2, <3>4, PutGives
    <3> QED BY <2>2, <3>5, <3>6 DEF row
  <2>3. CASE e = Entry(SetField(d, a, f, "scanned"), a, 0)
    <3> DEFINE n == SetField(d, a, f, "scanned")
    <3>1. Sound(n) /\ n["scans"] = d["scans"] /\ DOMAIN n["assets"] = DOMAIN d["assets"]
      BY SetFieldIsSound DEF Setters, Tables
    <3> HIDE DEF n
    <3>2. e = Entry(n, a, 0)
      BY <2>3 DEF n
    <3> QED BY <3>1, <3>2, EntryIsSound DEF Tables
  <2> QED BY <2>1, <2>2, <2>3
<1>3. CASE e \in Deferred(d, s)
  <2> DEFINE row == [scan |-> s]
  <2>1. row \in Rows["review_queue"] /\ Refs("review_queue", row) = {<<"scans", s>>}
    BY <1>0, RowsAre DEF Refs
  <2>2. e = Put(d, "review_queue", row)
    BY <1>3 DEF Deferred
  <2> HIDE DEF row
  <2>3. \A ref \in Refs("review_queue", row) : ref[2] \in DOMAIN d[ref[1]]
    BY <2>1
  <2>4. "review_queue" \in Tables
    BY DEF Tables
  <2>5. Sound(Put(d, "review_queue", row))
    BY <2>1, <2>3, <2>4, PutIsSound
  <2>6. Put(d, "review_queue", row)["scans"] = d["scans"]
    BY <1>0, <2>1, <2>4, PutGives
  <2> QED BY <2>2, <2>5, <2>6
<1> QED BY <1>1, <1>2, <1>3

(* A new row of the scans.                                                 *)
LEMMA StartIsSound ==
  ASSUME NEW d, Sound(d) PROVE Sound(Put(d, "scans", "started"))
<1>1. /\ "started" \in Rows["scans"] /\ Refs("scans", "started") = {}
      /\ "scans" \in Tables /\ "scans" # "timeline_entries"
  BY RowsAre DEF Refs, Tables
<1> QED BY <1>1, PutIsSound

(* Every commit leaves a sound database.                                   *)
LEMMA WritesAreSound ==
  ASSUME NEW d, Sound(d), NEW e \in Writes(d)
  PROVE  Sound(e)
<1>0. /\ Typed(d) /\ "assets" \in Tables /\ "proposed_changes" \in Tables
      /\ "timeline_entries" \in Tables
  BY DEF Sound, Tables
<1>1. CASE e \in Added(d)
  <2>1. PICK f \in Fields, m \in {x \in Macs \cup {NULL} : MacFree(d, x)} :
          e = NewAsset(d, {f}, "manual", m)
    BY <1>1 DEF Added
  <2> QED BY <2>1, NewAssetIsSound DEF Setters
<1>2. CASE e \in ScanStarted(d)
  BY <1>2, StartIsSound DEF ScanStarted
<1>3. CASE e \in ScanCommitted(d)
  <2>1. PICK s \in DOMAIN d["scans"] :
          e \in {Finished(n, s) :
                   n \in {d} \cup Discovered(d) \cup Observed(d, s) \cup Deferred(d, s)}
    BY <1>3 DEF ScanCommitted, Finished
  <2>2. PICK n \in {d} \cup Discovered(d) \cup Observed(d, s) \cup Deferred(d, s) :
          e = Finished(n, s)
    BY <2>1
  <2> QED BY <2>2, ObservationIsSound, FinishedIsSound
<1>4. CASE e \in Disposed(d)
  <2>1. PICK i \in {j \in DOMAIN d["proposed_changes"] : d["proposed_changes"][j].open},
             by \in Setters :
          e = Disposal(d, i, by)
    <3>1. Disposed(d) =
            {Disposal(d, i, by)
               : i \in {j \in DOMAIN d["proposed_changes"] : d["proposed_changes"][j].open},
                 by \in Setters}
      BY DEF Disposed, Disposal
    <3> QED BY <1>4, <3>1
  <2> DEFINE a == d["proposed_changes"][i].asset
             f == d["proposed_changes"][i].field
             n == SetField(d, a, f, by)
             c == Closed(n, i)
  <2>2. d["proposed_changes"][i] \in Rows["proposed_changes"]
    BY <1>0, TypedElim
  <2>3. f \in Fields
    BY <2>2, RowsAre
  <2>4. a \in DOMAIN d["assets"]
    <3>1. <<"assets", a>> \in Refs("proposed_changes", d["proposed_changes"][i])
      BY DEF Refs
    <3> QED BY <1>0, <3>1 DEF Sound, ForeignKeysHold
  <2> HIDE DEF a, f
  <2>5. /\ Sound(n) /\ DOMAIN n["assets"] = DOMAIN d["assets"]
        /\ n["proposed_changes"] = d["proposed_changes"]
    BY <1>0, <2>3, <2>4, SetFieldIsSound
  <2> HIDE DEF n
  <2>6. Sound(c) /\ DOMAIN c["assets"] = DOMAIN d["assets"]
    BY <1>0, <2>5, ClosedIsSound
  <2> HIDE DEF c
  <2>7. e = Entry(c, a, 0)
    BY <2>1 DEF a, f, n, c, Closed, Disposal
  <2> QED BY <2>4, <2>6, <2>7, EntryIsSound
<1>5. CASE e \in Noted(d)
  BY <1>5, EntryIsSound DEF Noted
<1>6. CASE e \in Corrected(d)
  <2>1. PICK c \in DOMAIN d["timeline_entries"] :
          e = Entry(d, d["timeline_entries"][c].asset, c)
    BY <1>6 DEF Corrected
  <2>2. <<"assets", d["timeline_entries"][c].asset>>
          \in Refs("timeline_entries", d["timeline_entries"][c])
    BY DEF Refs
  <2>3. d["timeline_entries"][c].asset \in DOMAIN d["assets"]
    BY <1>0, <2>2 DEF Sound, ForeignKeysHold
  <2> QED BY <2>1, <2>3, EntryIsSound
<1> QED BY <1>1, <1>2, <1>3, <1>4, <1>5, <1>6 DEF Writes

-----------------------------------------------------------------------------
(* The invariant.                                                          *)

Kinds ==
  /\ Sound(src) /\ Sound(photo) /\ Sound(target)
  /\ commits \in 0 .. MaxCommits /\ rivals \in 0 .. MaxRivals
  /\ exporter \in {"idle", "reading", "writing", "done", "dead"}
  /\ cut \in BOOLEAN
  /\ file \in {"none", "torn", "whole"}
  /\ importer \in [phase : {"idle", "checking", "refused", "failed", "imported"},
                   checked : 0 .. Len(TableOrder)]

(* What the exporter has read, the entries threaded.                       *)
Read ==
  /\ buffer \in Seq(Contents) /\ Len(buffer) <= Len(TableOrder)
  /\ \A k \in DOMAIN buffer : buffer[k] \in Seq(Rows[TableOrder[k]])
  /\ Len(buffer) = Len(TableOrder) => Threaded(buffer[Len(TableOrder)])

(* How far the commands are.                                               *)
Stages ==
  /\ exporter = "idle" => buffer = << >>
  /\ exporter \in {"writing", "done"} => Len(buffer) = Len(TableOrder)
  /\ file = "whole" => exporter = "done"
  /\ importer.phase = "checking" => file = "whole"

(* Without a commit in between, what was read is of one moment.            *)
OneMoment ==
  ~cut /\ buffer # << >> =>
    /\ \A k \in DOMAIN buffer : buffer[k] = photo[TableOrder[k]]
    /\ Len(buffer) < Len(TableOrder) => src = photo

(* Without others, what was found empty still is.                          *)
StillEmpty ==
  rivals = 0 /\ importer.phase = "checking" =>
    \A k \in 1 .. importer.checked : target[TableOrder[k]] = << >>

IInv == Kinds /\ Read /\ Stages /\ OneMoment /\ StillEmpty

-----------------------------------------------------------------------------
(* The import.                                                             *)

(* A whole dump has every table, as it was read.                           *)
LEMMA DumpedIs ==
  ASSUME Read, Len(buffer) = Len(TableOrder), NEW t \in Tables
  PROVE  /\ \E k \in DOMAIN buffer : TableOrder[k] = t /\ Dumped(t) = buffer[k]
         /\ Dumped(t) \in Seq(Rows[t])
         /\ t = "timeline_entries" => Threaded(Dumped(t))
<1> DEFINE k == CHOOSE k \in DOMAIN TableOrder : TableOrder[k] = t
<1>1. k \in 1 .. 7 /\ TableOrder[k] = t
  BY OrderIs
<1>2. Dumped(t) = buffer[k]
  BY DEF Dumped
<1> HIDE DEF k
<1>3. k \in DOMAIN buffer
  BY <1>1, OrderIs DEF Read
<1>4. t = "timeline_entries" => k = 7
  BY <1>1 DEF TableOrder
<1> QED BY <1>1, <1>2, <1>3, <1>4, OrderIs DEF Read

(* The rows of a merged table are those of the target, then the dump's.    *)
LEMMA MergedIs ==
  ASSUME Kinds, Read, Len(buffer) = Len(TableOrder), NEW t \in Tables
  PROVE  /\ Merged[t] \in Seq(Rows[t])
         /\ Len(Merged[t]) = Len(target[t]) + Len(Dumped(t))
         /\ DOMAIN Merged[t] = 1 .. Len(target[t]) + Len(Dumped(t))
         /\ \A i \in DOMAIN target[t] : i \in DOMAIN Merged[t] /\ Merged[t][i] = target[t][i]
         /\ \A i \in DOMAIN Merged[t] \ DOMAIN target[t] :
              /\ i - Len(target[t]) \in DOMAIN Dumped(t)
              /\ Merged[t][i] = Dumped(t)[i - Len(target[t])]
<1> DEFINE old == target[t]
           new == Dumped(t)
           all == Merged[t]
<1>1. old \in Seq(Rows[t]) /\ new \in Seq(Rows[t])
  BY DumpedIs, TypedElim DEF Kinds, Sound
<1>2. all = old \o new
  BY DEF Merged
<1> HIDE DEF old, new, all
<1>3. /\ all \in Seq(Rows[t])
      /\ Len(all) = Len(old) + Len(new)
      /\ \A i \in 1 .. Len(old) + Len(new) :
           all[i] = IF i <= Len(old) THEN old[i] ELSE new[i - Len(old)]
  BY <1>1, <1>2, ConcatProperties
<1>4. /\ Len(old) \in Nat /\ DOMAIN old = 1 .. Len(old)
      /\ Len(new) \in Nat /\ DOMAIN new = 1 .. Len(new)
      /\ DOMAIN all = 1 .. Len(old) + Len(new)
  BY <1>1, <1>3
<1>5. \A i \in DOMAIN old : i \in DOMAIN all /\ all[i] = old[i]
  BY <1>3, <1>4
<1>6. ASSUME NEW i \in DOMAIN all \ DOMAIN old
      PROVE  i - Len(old) \in DOMAIN new /\ all[i] = new[i - Len(old)]
  <2>1. i \in 1 .. Len(old) + Len(new) /\ ~(i <= Len(old))
    BY <1>4
  <2> QED BY <1>3, <1>4, <2>1
<1> QED BY <1>3, <1>4, <1>5, <1>6 DEF old, new, all

(* A row that does not dangle refers to a row of the merged tables.        *)
LEMMA NothingDangles ==
  ASSUME Kinds, Read, Len(buffer) = Len(TableOrder), NEW t \in Tables, ~Dangles(t),
         NEW i \in DOMAIN Dumped(t), NEW ref \in Refs(t, Dumped(t)[i])
  PROVE  ref[2] \in DOMAIN Merged[ref[1]]
<1>1. Dumped(t) \in Seq(Rows[t])
  BY DumpedIs
<1>2. ref[1] \in Tables /\ ref[2] \in Ids
  BY <1>1, RefsType
<1>3. \/ ref[1] = t /\ ~(ref[2] > Len(target[t]) + i - 1)
      \/ ~(ref[2] > Len(Merged[ref[1]]))
      \/ ~(ref[2] > Len(target[ref[1]]))
  BY DEF Dangles
<1>4. ASSUME NEW u \in Tables
      PROVE  /\ Len(target[u]) \in Nat /\ Len(Dumped(u)) \in Nat
             /\ Len(Merged[u]) = Len(target[u]) + Len(Dumped(u))
             /\ DOMAIN Merged[u] = 1 .. Len(target[u]) + Len(Dumped(u))
  <2>1. target[u] \in Seq(Rows[u]) /\ Dumped(u) \in Seq(Rows[u])
    BY DumpedIs, TypedElim DEF Kinds, Sound
  <2> QED BY <2>1, MergedIs
<1>5. i \in 1 .. Len(Dumped(t))
  BY <1>1
<1> HIDE DEF Merged
<1>6. CASE ref[1] = t /\ ~(ref[2] > Len(target[t]) + i - 1)
  <2>1. ref[2] \in 1 .. Len(target[t]) + Len(Dumped(t))
    BY <1>2, <1>4, <1>5, <1>6 DEF Ids
  <2> QED BY <1>4, <1>6, <2>1
<1>7. CASE ~(ref[2] > Len(Merged[ref[1]]))
  BY <1>2, <1>4, <1>7 DEF Ids
<1>8. CASE ~(ref[2] > Len(target[ref[1]]))
  BY <1>2, <1>4, <1>8 DEF Ids
<1> QED BY <1>3, <1>6, <1>7, <1>8

(* Without a collision one of two timelines is empty.                      *)
LEMMA MergedIsThreaded ==
  ASSUME Kinds, Read, Len(buffer) = Len(TableOrder), ~Collides("timeline_entries")
  PROVE  Threaded(Merged["timeline_entries"])
<1> DEFINE t == "timeline_entries"
<1>0. t \in Tables
  BY DEF Tables
<1>1. /\ target[t] \in Seq(Rows[t]) /\ Dumped(t) \in Seq(Rows[t])
      /\ Threaded(target[t]) /\ Threaded(Dumped(t))
  BY <1>0, DumpedIs, TypedElim DEF Kinds, Sound
<1>2. target[t] = << >> \/ Dumped(t) = << >>
  BY DEF Collides
<1>3. Merged[t] = target[t] \o Dumped(t)
  BY <1>0 DEF Merged
<1>4. Merged[t] \in {target[t], Dumped(t)}
  BY <1>1, <1>2, <1>3, ConcatEmptySeq
<1> QED BY <1>1, <1>4

(* What a successful import leaves.                                        *)
LEMMA MergedIsSound ==
  ASSUME Kinds, Read, Len(buffer) = Len(TableOrder),
         \A t \in Tables : ~Collides(t) /\ ~Dangles(t)
  PROVE  Sound(Merged)
<1>0. Typed(target) /\ ForeignKeysHold(target) /\ "timeline_entries" \in Tables
  BY DEF Kinds, Sound, Tables
<1>1. Merged = [t \in Tables |-> Merged[t]]
  BY DEF Merged
<1>2. Typed(Merged)
  BY <1>1, MergedIs, TypedIntro
<1>3. ASSUME NEW t \in Tables, NEW i \in DOMAIN Merged[t]
      PROVE  \/ i \in DOMAIN target[t] /\ Refs(t, Merged[t][i]) = Refs(t, target[t][i])
             \/ \A ref \in Refs(t, Merged[t][i]) : ref[2] \in DOMAIN Merged[ref[1]]
  <2>1. CASE i \in DOMAIN target[t]
    BY <2>1, MergedIs
  <2>2. CASE i \notin DOMAIN target[t]
    <3>1. /\ i - Len(target[t]) \in DOMAIN Dumped(t)
          /\ Merged[t][i] = Dumped(t)[i - Len(target[t])]
      BY <2>2, MergedIs
    <3> QED BY <3>1, NothingDangles
  <2> QED BY <2>1, <2>2
<1>4. \A t \in Tables : DOMAIN target[t] \subseteq DOMAIN Merged[t]
  BY MergedIs
<1>5. \A t \in Tables : Merged[t] \in Seq(Rows[t])
  BY MergedIs
<1> HIDE DEF Merged
<1>6. ForeignKeysHold(Merged)
  BY <1>0, <1>3, <1>4, <1>5, KeysStillHold
<1> QED BY <1>0, <1>2, <1>6, MergedIsThreaded DEF Sound

-----------------------------------------------------------------------------
(* The invariant holds.                                                    *)

(* The empty database.                                                     *)
LEMMA EmptyIsSound == Sound(Empty)
<1>1. Typed(Empty)
  <2>1. Empty = [t \in Tables |-> << >>]
    BY DEF Empty
  <2> HIDE DEF Empty
  <2>2. Empty = [t \in Tables |-> Empty[t]] /\ \A t \in Tables : Empty[t] \in Seq(Rows[t])
    BY <2>1
  <2> QED BY <2>2, TypedIntro
<1> QED BY <1>1 DEF Sound, ForeignKeysHold, Threaded, Empty, Tables

(* The first state.                                                        *)
LEMMA InitHolds == Init => IInv
<1> SUFFICES ASSUME Init PROVE IInv
  OBVIOUS
<1>1. Kinds
  <2>1. Sound(src) /\ Sound(photo) /\ Sound(target)
    BY EmptyIsSound DEF Init
  <2>2. importer \in [phase : {"idle", "checking", "refused", "failed", "imported"},
                      checked : 0 .. Len(TableOrder)]
    BY OrderIs DEF Init
  <2>3. commits \in 0 .. MaxCommits /\ rivals \in 0 .. MaxRivals
    BY DumpAssumption DEF Init
  <2>4. exporter = "idle" /\ cut = FALSE /\ file = "none"
    BY DEF Init
  <2> QED BY <2>1, <2>2, <2>3, <2>4 DEF Kinds
<1>2. Read
  BY OrderIs DEF Init, Read
<1> QED BY <1>1, <1>2 DEF Init, IInv, Stages, OneMoment, StillEmpty

(* A commit on the source.                                                 *)
LEMMA SourceHolds == IInv /\ SourceCommits => IInv'
<1> SUFFICES ASSUME IInv, SourceCommits PROVE IInv'
  OBVIOUS
<1>1. Sound(src')
  BY WritesAreSound DEF IInv, Kinds, SourceCommits
<1>2. Kinds'
  BY <1>1, DumpAssumption DEF IInv, Kinds, SourceCommits
<1>3. Read'
  BY DEF IInv, Read, SourceCommits
<1>4. Stages' /\ StillEmpty'
  BY DEF IInv, Stages, StillEmpty, SourceCommits
<1>5. OneMoment'
  BY DEF IInv, OneMoment, Kinds, SourceCommits
<1> QED BY <1>2, <1>3, <1>4, <1>5 DEF IInv

(* A commit of another on the target.                                      *)
LEMMA RivalHolds == IInv /\ RivalCommits => IInv'
<1> SUFFICES ASSUME IInv, RivalCommits PROVE IInv'
  OBVIOUS
<1>1. target' \in Writes(target)
  BY DEF RivalCommits, Writes
<1>2. Sound(target')
  BY <1>1, WritesAreSound DEF IInv, Kinds
<1>3. Kinds'
  BY <1>2, DumpAssumption DEF IInv, Kinds, RivalCommits
<1>4. Read' /\ Stages' /\ OneMoment'
  BY DEF IInv, Read, Stages, OneMoment, RivalCommits
<1>5. StillEmpty'
  BY DEF IInv, Kinds, StillEmpty, RivalCommits
<1> QED BY <1>3, <1>4, <1>5 DEF IInv

(* One more table read.                                                    *)
LEMMA ReadHolds == IInv /\ ReadTable => IInv'
<1> SUFFICES ASSUME IInv, ReadTable PROVE IInv'
  OBVIOUS
<1> DEFINE k == Len(buffer) + 1
           t == TableOrder[k]
<1>1. /\ buffer \in Seq(Contents) /\ Len(buffer) \in Nat /\ k \in 1 .. 7
      /\ DOMAIN buffer = 1 .. Len(buffer)
  BY OrderIs DEF IInv, Read, ReadTable
<1>2. t \in Tables
  BY <1>1, OrderIs
<1>3. src[t] \in Seq(Rows[t]) /\ src[t] \in Contents
  BY <1>2, TypedElim DEF IInv, Kinds, Sound, Contents
<1>4. k = 7 => Threaded(src[t])
  BY OrderIs DEF IInv, Kinds, Sound
<1>5. buffer' = Append(buffer, src[t])
  BY DEF ReadTable
<1>6. /\ buffer' \in Seq(Contents) /\ Len(buffer') = k /\ DOMAIN buffer' = 1 .. k
      /\ buffer'[k] = src[t] /\ buffer' # << >>
      /\ \A j \in DOMAIN buffer : buffer'[j] = buffer[j]
  BY <1>1, <1>3, <1>5
<1>7. Kinds'
  BY DEF IInv, Kinds, ReadTable
<1>8. Read'
  BY <1>1, <1>3, <1>4, <1>6, OrderIs DEF IInv, Read
<1>9. Stages' /\ StillEmpty'
  BY DEF IInv, Stages, StillEmpty, ReadTable
<1>10. OneMoment'
  <2> SUFFICES ASSUME ~cut
               PROVE  /\ \A j \in DOMAIN buffer' : buffer'[j] = photo'[TableOrder[j]]
                      /\ src = photo'
    BY DEF OneMoment, ReadTable
  <2>1. CASE buffer = << >>
    BY <1>1, <1>6, <2>1 DEF ReadTable
  <2>2. CASE buffer # << >>
    <3>1. /\ \A j \in DOMAIN buffer : buffer[j] = photo[TableOrder[j]]
          /\ src = photo /\ photo' = photo
      BY <2>2 DEF IInv, OneMoment, ReadTable
    <3> QED BY <1>1, <1>6, <3>1
  <2> QED BY <2>1, <2>2
<1> QED BY <1>7, <1>8, <1>9, <1>10 DEF IInv

(* The rest of the export.                                                 *)
LEMMA FileHolds == IInv /\ (OpenFile \/ FinishFile \/ ExporterDies) => IInv'
<1> SUFFICES ASSUME IInv, OpenFile \/ FinishFile \/ ExporterDies PROVE IInv'
  OBVIOUS
<1>1. Kinds' /\ Read' /\ OneMoment' /\ StillEmpty'
  BY DEF IInv, Kinds, Read, OneMoment, StillEmpty, OpenFile, FinishFile, ExporterDies
<1>2. Stages'
  BY DEF IInv, Stages, OpenFile, FinishFile, ExporterDies
<1> QED BY <1>1, <1>2 DEF IInv

(* The steps of the import that write nothing.                             *)
LEMMA CheckHolds == IInv /\ (StartImport \/ CountRows \/ ImporterDies) => IInv'
<1> SUFFICES ASSUME IInv, StartImport \/ CountRows \/ ImporterDies PROVE IInv'
  OBVIOUS
<1>0. /\ importer \in [phase : {"idle", "checking", "refused", "failed", "imported"},
                       checked : 0 .. 7]
      /\ Len(TableOrder) = 7
  BY OrderIs DEF IInv, Kinds
<1>1. Read' /\ OneMoment'
  BY DEF IInv, Read, OneMoment, StartImport, CountRows, ImporterDies
<1>2. importer' \in [phase : {"idle", "checking", "refused", "failed", "imported"},
                     checked : 0 .. 7]
  <2>1. CASE StartImport
    BY <2>1 DEF StartImport
  <2>2. CASE CountRows
    BY <1>0, <2>2 DEF CountRows
  <2>3. CASE ImporterDies
    BY <1>0, <2>3 DEF ImporterDies
  <2> QED BY <2>1, <2>2, <2>3
<1>3. Kinds'
  BY <1>0, <1>2 DEF IInv, Kinds, StartImport, CountRows, ImporterDies
<1>4. Stages'
  BY <1>0 DEF IInv, Stages, StartImport, CountRows, ImporterDies
<1>5. StillEmpty'
  <2>1. CASE StartImport
    BY <2>1 DEF StartImport, StillEmpty
  <2>2. CASE CountRows
    BY <1>0, <2>2 DEF IInv, CountRows, StillEmpty
  <2>3. CASE ImporterDies
    BY <1>0, <2>3 DEF ImporterDies, StillEmpty
  <2> QED BY <2>1, <2>2, <2>3
<1> QED BY <1>1, <1>3, <1>4, <1>5 DEF IInv

(* The import's transaction.                                               *)
LEMMA InsertHolds == IInv /\ InsertRows => IInv'
<1> SUFFICES ASSUME IInv, InsertRows PROVE IInv'
  OBVIOUS
<1>1. Len(buffer) = Len(TableOrder)
  BY DEF IInv, Stages, InsertRows
<1>2. Sound(target')
  <2>1. CASE \E t \in Tables : Collides(t) \/ Dangles(t)
    BY <2>1 DEF IInv, Kinds, InsertRows
  <2>2. CASE \A t \in Tables : ~Collides(t) /\ ~Dangles(t)
    BY <1>1, <2>2, MergedIsSound DEF IInv, InsertRows
  <2> QED BY <2>1, <2>2
<1>3. /\ importer' \in [phase : {"failed", "imported"}, checked : 0 .. Len(TableOrder)]
      /\ UNCHANGED <<src, commits, exporter, buffer, cut, file, photo, rivals>>
  BY DEF IInv, Kinds, InsertRows
<1>4. Kinds'
  BY <1>2, <1>3 DEF IInv, Kinds
<1>5. Read' /\ Stages' /\ OneMoment' /\ StillEmpty'
  BY <1>3 DEF IInv, Read, Stages, OneMoment, StillEmpty
<1> QED BY <1>4, <1>5 DEF IInv

(* Every step keeps the invariant.                                         *)
LEMMA NextHolds == IInv /\ [Next]_vars => IInv'
<1>1. IInv /\ UNCHANGED vars => IInv'
  BY DEF vars, IInv, Kinds, Read, Stages, OneMoment, StillEmpty
<1> QED
  BY <1>1, SourceHolds, RivalHolds, ReadHolds, FileHolds, CheckHolds, InsertHolds
  DEF Next, Exporting, Importing

(* The invariant of every export and import, whatever is written beside    *)
(* them: the databases are sound, what was read is threaded, and what was  *)
(* read without a commit in between is of one moment.                      *)
THEOREM DumpInvariance == Spec => []IInv
BY InitHolds, NextHolds, PTL DEF Spec

-----------------------------------------------------------------------------
(* Theorems.                                                               *)

(* db/export.py, cli.py export and import: every table of both databases,  *)
(* of the dump and of every cut of it holds rows of its own shape, and the *)
(* two commands are where they can be.                                     *)
THEOREM DumpTypeCorrect == Spec => []TypeOK
<1>1. IInv => TypeOK
  <2> SUFFICES ASSUME IInv PROVE TypeOK
    OBVIOUS
  <2>1. \A t \in Tables : /\ src[t] \in Seq(Rows[t]) /\ target[t] \in Seq(Rows[t])
                          /\ photo[t] \in Seq(Rows[t])
    BY TypedElim DEF IInv, Kinds, Sound
  <2> QED BY <2>1 DEF IInv, Kinds, Read, TypeOK
<1> QED BY <1>1, DumpInvariance, PTL

(* db/export.py reads each table on its own and the importer merges what   *)
(* it read: no row of either database ever refers to one that is missing.  *)
THEOREM ReferencesAlwaysResolve == Spec => []ReferencesResolve
<1>1. IInv => ReferencesResolve
  BY DEF IInv, Kinds, Sound, ReferencesResolve
<1> QED BY <1>1, DumpInvariance, PTL

(* db/timeline.py append_entry: a correction is on the timeline of the     *)
(* entry it corrects, also after an import.                                *)
THEOREM CorrectionsStay == Spec => []CorrectionsStayOnTheirAsset
<1>1. IInv => CorrectionsStayOnTheirAsset
  BY DEF IInv, Kinds, Sound, Threaded, CorrectionsStayOnTheirAsset
<1> QED BY <1>1, DumpInvariance, PTL

-----------------------------------------------------------------------------
(* The round trip.                                                         *)

(* Where a table stands in TableOrder.                                     *)
Places(t)   == {k \in 1 .. Len(TableOrder) : TableOrder[k] = t}
Place(t)    == IF Places(t) # {} THEN Min(Places(t)) ELSE 0
There(t, u, i) ==
  IF u = t THEN Len(target[t]) + i - 1
  ELSE IF Place(u) < Place(t) THEN Len(Merged[u]) ELSE Len(target[u])

(* Place says where TableOrder has a table.                                *)
LEMMA PlaceIs ==
  ASSUME NEW k \in 1 .. 7 PROVE Place(TableOrder[k]) = k
<1>1. Places(TableOrder[k]) = {k}
  BY OrderIs DEF Places, TableOrder
<1>2. Min({k}) = k
  BY DEF Min
<1> QED BY <1>1, <1>2 DEF Place

(* What dangling means, with the places spelled out.                       *)
LEMMA DanglesIs ==
  ASSUME NEW t
  PROVE  Dangles(t) <=> \E i \in DOMAIN Dumped(t) :
                          \E ref \in Refs(t, Dumped(t)[i]) : ref[2] > There(t, ref[1], i)
BY DEF Dangles, There, Place, Places, SelectInSeq

(* A reference goes to the same table or to one inserted before.           *)
LEMMA RefsGoBack ==
  ASSUME NEW t \in Tables, NEW row \in Rows[t], NEW ref \in Refs(t, row)
  PROVE  \/ t = "timeline_entries" /\ ref[1] = t /\ ref[2] = row.corrects /\ ref[2] # 0
         \/ ref[1] # t /\ Place(ref[1]) < Place(t)
<1>1. /\ Place("assets") = 1 /\ Place("mac_addresses") = 2
      /\ Place("field_provenance") = 3 /\ Place("scans") = 4
      /\ Place("proposed_changes") = 5 /\ Place("review_queue") = 6
      /\ Place("timeline_entries") = 7
  BY PlaceIs DEF TableOrder
<1>2. CASE t = "mac_addresses"
  BY <1>1, <1>2 DEF Refs
<1>3. CASE t = "field_provenance"
  BY <1>1, <1>3 DEF Refs
<1>4. CASE t = "proposed_changes"
  <2>1. ref \in {<<"assets", row.asset>>, <<"scans", row.scan>>}
    BY <1>4 DEF Refs
  <2> QED BY <1>1, <1>4, <2>1
<1>5. CASE t = "review_queue"
  BY <1>1, <1>5 DEF Refs
<1>6. CASE t = "timeline_entries"
  <2>1. \/ ref = <<"assets", row.asset>>
        \/ row.corrects # 0 /\ ref = <<"timeline_entries", row.corrects>>
    BY <1>6 DEF Refs
  <2> QED BY <1>1, <1>6, <2>1
<1>7. CASE t \in {"assets", "scans"}
  BY <1>7 DEF Refs
<1> QED BY <1>2, <1>3, <1>4, <1>5, <1>6, <1>7 DEF Tables

(* A whole dump nobody wrote beside is what the source was.                *)
LEMMA DumpIsPhoto ==
  ASSUME IInv, Len(buffer) = Len(TableOrder), ~cut, NEW t \in Tables
  PROVE  Dumped(t) = photo[t]
<1>1. buffer # << >>
  BY OrderIs
<1>2. PICK k \in DOMAIN buffer : TableOrder[k] = t /\ Dumped(t) = buffer[k]
  BY DumpedIs DEF IInv
<1> QED BY <1>1, <1>2 DEF IInv, OneMoment

(* Merged without a collision, each table is the target's or the dump's.   *)
LEMMA OneOfTwo ==
  ASSUME IInv, Len(buffer) = Len(TableOrder), ~cut,
         \A t \in Tables : ~Collides(t), NEW t \in Tables
  PROVE  Merged[t] = IF photo[t] = << >> THEN target[t] ELSE photo[t]
<1> DEFINE p == "field_provenance"
<1>0. /\ "assets" \in Tables /\ p \in Tables
      /\ Sound(photo) /\ Sound(target)
  BY DEF Tables, IInv, Kinds
<1>1. /\ target[t] \in Seq(Rows[t]) /\ photo[t] \in Seq(Rows[t])
      /\ Merged[t] = target[t] \o photo[t]
  BY <1>0, DumpIsPhoto, TypedElim DEF Merged, Sound
<1>2. ASSUME NEW d, Sound(d), d[p] # << >> PROVE d["assets"] # << >>
  <2>1. 1 \in DOMAIN d[p]
    BY <1>0, <1>2, TypedElim DEF Sound
  <2>2. <<"assets", d[p][1].asset>> \in Refs(p, d[p][1])
    BY DEF Refs
  <2>3. d[p][1].asset \in DOMAIN d["assets"]
    BY <1>0, <1>2, <2>1, <2>2 DEF Sound, ForeignKeysHold
  <2> QED BY <2>3
<1>3. photo[t] # << >> => target[t] = << >>
  <2>1. CASE t # p
    BY <2>1, DumpIsPhoto DEF Collides
  <2>2. CASE t = p
    <3>1. photo["assets"] = << >> \/ target["assets"] = << >>
      BY <1>0, DumpIsPhoto DEF Collides
    <3> QED BY <1>0, <1>2, <2>2, <3>1
  <2> QED BY <2>1, <2>2
<1> QED BY <1>1, <1>3, ConcatEmptySeq

(* Into empty tables such a dump can be imported.                          *)
LEMMA Importable ==
  ASSUME IInv, Len(buffer) = Len(TableOrder), ~cut,
         \A t \in Tables : target[t] = << >>, NEW t \in Tables
  PROVE  ~Collides(t) /\ ~Dangles(t)
<1>1. ~Collides(t)
  BY DEF Collides
<1>2. ~Dangles(t)
  <2> SUFFICES ASSUME NEW i \in DOMAIN Dumped(t), NEW ref \in Refs(t, Dumped(t)[i])
               PROVE  ~(ref[2] > There(t, ref[1], i))
    BY DanglesIs
  <2>1. /\ Dumped(t) = photo[t] /\ Sound(photo)
        /\ photo[t] \in Seq(Rows[t]) /\ DOMAIN photo[t] = 1 .. Len(photo[t])
        /\ Len(photo[t]) \in Nat /\ photo[t][i] \in Rows[t]
    BY DumpIsPhoto, TypedElim DEF IInv, Kinds, Sound
  <2>2. ref[1] \in Tables /\ ref[2] \in Ids
    BY <2>1, RefsType
  <2>3. CASE t = "timeline_entries" /\ ref[1] = t /\ ref[2] = photo[t][i].corrects /\ ref[2] # 0
    <3>1. ref[2] \in 1 .. i - 1
      BY <2>1, <2>3 DEF Sound, Threaded
    <3>2. There(t, ref[1], i) = i - 1
      BY <2>1, <2>3 DEF There
    <3> QED BY <2>1, <3>1, <3>2
  <2>4. CASE ref[1] # t /\ Place(ref[1]) < Place(t)
    <3>1. ref[2] \in DOMAIN photo[ref[1]]
      BY <2>1 DEF Sound, ForeignKeysHold
    <3>2. photo[ref[1]] \in Seq(Rows[ref[1]])
      BY <2>1, <2>2, TypedElim DEF Sound
    <3>3. Merged[ref[1]] = photo[ref[1]]
      BY <2>2, <3>2, DumpIsPhoto, ConcatEmptySeq DEF Merged
    <3>4. There(t, ref[1], i) = Len(photo[ref[1]])
      BY <2>4, <3>3 DEF There
    <3> QED BY <3>1, <3>2, <3>4
  <2> QED BY <2>1, <2>3, <2>4, RefsGoBack
<1> QED BY <1>1, <1>2

(* tests/property/test_export_roundtrip.py: an export nobody wrote beside  *)
(* comes back table by table as it was, and an import fails only if the    *)
(* file is torn, the source was written to while it was read, or somebody  *)
(* has written to the target.                                              *)
THEOREM DumpsRoundTrip == Spec => RoundTrips
<1> DEFINE Back == JustBecame("imported") /\ ~cut =>
                     \A t \in Tables :
                       target'[t] = IF photo[t] = << >> THEN target[t] ELSE photo[t]
           Why  == JustBecame("failed") => file = "torn" \/ cut \/ rivals > 0
<1>1. ASSUME IInv, InsertRows PROVE Back /\ Why
  <2>1. /\ Len(buffer) = Len(TableOrder) /\ importer.phase = "checking"
        /\ importer.checked = 7 /\ file = "whole"
        /\ importer \in [phase : {"idle", "checking", "refused", "failed", "imported"},
                         checked : 0 .. 7]
    BY <1>1, OrderIs DEF IInv, Kinds, Stages, InsertRows
  <2>2. CASE \E t \in Tables : Collides(t) \/ Dangles(t)
    <3>1. importer'.phase = "failed"
      BY <1>1, <2>1, <2>2 DEF InsertRows
    <3>2. ASSUME ~cut, rivals = 0 PROVE FALSE
      <4>1. \A k \in 1 .. 7 : target[TableOrder[k]] = << >>
        BY <1>1, <2>1, <3>2 DEF IInv, StillEmpty
      <4>2. \A t \in Tables : target[t] = << >>
        BY <4>1, OrderIs
      <4> QED BY <1>1, <2>1, <2>2, <3>2, <4>2, Importable
    <3>3. rivals \in Nat
      BY <1>1, DumpAssumption DEF IInv, Kinds
    <3> QED BY <3>1, <3>2, <3>3 DEF JustBecame
  <2>3. CASE \A t \in Tables : ~Collides(t) /\ ~Dangles(t)
    <3>1. importer'.phase = "imported" /\ target' = Merged
      BY <1>1, <2>1, <2>3 DEF InsertRows
    <3>2. ~cut => \A t \in Tables :
                    Merged[t] = IF photo[t] = << >> THEN target[t] ELSE photo[t]
      BY <1>1, <2>1, <2>3, OneOfTwo
    <3> QED BY <3>1, <3>2 DEF JustBecame
  <2> QED BY <2>2, <2>3
<1>2. ASSUME IInv, StartImport \/ CountRows \/ ImporterDies PROVE Back /\ Why
  <2>1. /\ importer \in [phase : {"idle", "checking", "refused", "failed", "imported"},
                         checked : 0 .. Len(TableOrder)]
        /\ file \in {"none", "torn", "whole"}
    BY <1>2 DEF IInv, Kinds
  <2>2. importer'.phase # "imported" /\ (importer'.phase = "failed" => file = "torn")
    <3>1. CASE StartImport
      BY <2>1, <3>1 DEF StartImport
    <3>2. CASE CountRows
      BY <2>1, <3>2 DEF CountRows
    <3>3. CASE ImporterDies
      BY <2>1, <3>3 DEF ImporterDies
    <3> QED BY <1>2, <3>1, <3>2, <3>3
  <2> QED BY <2>2 DEF JustBecame
<1>3. ASSUME UNCHANGED importer PROVE Back /\ Why
  BY <1>3 DEF JustBecame
<1>4. IInv /\ [Next]_vars => [Back /\ Why]_vars
  BY <1>1, <1>2, <1>3
  DEF Next, Exporting, Importing, SourceCommits, RivalCommits, ReadTable, OpenFile,
      FinishFile, ExporterDies
<1>5. [Back /\ Why]_vars =>
        [/\ JustBecame("imported") /\ ~cut =>
              \A t \in Tables :
                target'[t] = IF photo[t] = << >> THEN target[t] ELSE photo[t]
         /\ JustBecame("failed") => file = "torn" \/ cut \/ rivals > 0]_vars
  OBVIOUS
<1> QED BY <1>4, <1>5, DumpInvariance, PTL DEF Spec, RoundTrips

-----------------------------------------------------------------------------
(* Attribution.                                                            *)

(* Only assets and their provenance matter to it.                          *)
LEMMA AttributionElsewhere ==
  ASSUME NEW d, Attributed(d), NEW e, e["assets"] = d["assets"],
         e["field_provenance"] = d["field_provenance"]
  PROVE  Attributed(e)
BY DEF Attributed

(* An entry, a proposal closed or a scan finished says nothing of it.      *)
LEMMA EntryKeepsAttribution ==
  ASSUME NEW d, Sound(d), Attributed(d), NEW a \in DOMAIN d["assets"], NEW c,
         \/ c = 0
         \/ c \in DOMAIN d["timeline_entries"] /\ d["timeline_entries"][c].asset = a
  PROVE  Attributed(Entry(d, a, c))
<1>1. /\ Entry(d, a, c)["assets"] = d["assets"]
      /\ Entry(d, a, c)["field_provenance"] = d["field_provenance"]
  BY EntryIsSound DEF Tables
<1> QED BY <1>1, AttributionElsewhere

(* Finishing a scan touches no value.                                      *)
LEMMA FinishedKeepsAttribution ==
  ASSUME NEW d, Sound(d), Attributed(d), NEW i \in DOMAIN d["scans"]
  PROVE  Attributed(Finished(d, i))
<1>1. d \in [Tables -> Contents]
  BY TypedElim DEF Sound
<1>2. /\ Finished(d, i)["assets"] = d["assets"]
      /\ Finished(d, i)["field_provenance"] = d["field_provenance"]
  BY <1>1 DEF Finished, Tables
<1> QED BY <1>2, AttributionElsewhere

(* Closing a proposal touches no value.                                    *)
LEMMA ClosedKeepsAttribution ==
  ASSUME NEW d, Sound(d), Attributed(d), NEW i \in DOMAIN d["proposed_changes"]
  PROVE  Attributed(Closed(d, i))
<1>1. /\ Closed(d, i)["assets"] = d["assets"]
      /\ Closed(d, i)["field_provenance"] = d["field_provenance"]
  BY ClosedIsSound DEF Tables
<1> QED BY <1>1, AttributionElsewhere

(* A row put into another table says nothing of it.                        *)
LEMMA PutKeepsAttribution ==
  ASSUME NEW d, Sound(d), Attributed(d), NEW t \in Tables \ {"assets", "field_provenance"},
         NEW row \in Rows[t]
  PROVE  Attributed(Put(d, t, row))
<1>1. /\ Put(d, t, row)["assets"] = d["assets"]
      /\ Put(d, t, row)["field_provenance"] = d["field_provenance"]
  BY PutGives DEF Sound, Tables
<1> QED BY <1>1, AttributionElsewhere

(* A provenance row refers to an asset there is, and to a field.           *)
LEMMA ProvenanceRows ==
  ASSUME NEW d, Sound(d), NEW i \in DOMAIN d["field_provenance"]
  PROVE  /\ d["field_provenance"][i] \in [asset : Ids, field : Fields, by : Setters]
         /\ d["field_provenance"][i].asset \in DOMAIN d["assets"]
<1>1. "field_provenance" \in Tables
  BY DEF Tables
<1>2. <<"assets", d["field_provenance"][i].asset>>
        \in Refs("field_provenance", d["field_provenance"][i])
  BY DEF Refs
<1>3. d["field_provenance"][i] \in Rows["field_provenance"]
  BY <1>1, TypedElim DEF Sound
<1>4. d["field_provenance"][i].asset \in DOMAIN d["assets"]
  BY <1>1, <1>2 DEF Sound, ForeignKeysHold
<1> QED BY <1>3, <1>4, RowsAre

(* A field set takes its provenance row along.                             *)
LEMMA SetFieldKeepsAttribution ==
  ASSUME NEW d, Sound(d), Attributed(d), NEW a \in DOMAIN d["assets"],
         NEW f \in Fields, NEW by \in Setters
  PROVE  Attributed(SetField(d, a, f, by))
<1> DEFINE p      == "field_provenance"
           old    == d[p]
           assets == [d["assets"] EXCEPT ![a][f] = by]
           set    == Replaced(d, "assets", assets)
           row    == [asset |-> a, field |-> f, by |-> by]
           known  == {i \in DOMAIN old : old[i].asset = a /\ old[i].field = f}
           prov   == [i \in DOMAIN old |-> IF i \in known THEN row ELSE old[i]]
           e      == SetField(d, a, f, by)
<1>0. /\ d \in [Tables -> Contents] /\ "assets" \in Tables /\ p \in Tables
      /\ old \in Seq(Rows[p]) /\ d["assets"] \in Seq(Asset)
  BY TypedElim, RowsAre DEF Sound, Tables
<1>1. /\ set \in [Tables -> {set[t] : t \in Tables}] /\ set["assets"] = assets
      /\ set[p] = old
  BY <1>0 DEF Replaced
<1>2. /\ e["assets"] = assets
      /\ e[p] = IF known = {} THEN Append(old, row) ELSE prov
  <2>1. e = IF known = {} THEN Put(set, p, row)
            ELSE [set EXCEPT ![p] = [i \in DOMAIN @ |-> IF i \in known THEN row ELSE @[i]]]
    BY DEF SetField, Replaced
  <2> HIDE DEF set, assets, row, known, old
  <2>2. [set EXCEPT ![p] = [i \in DOMAIN @ |-> IF i \in known THEN row ELSE @[i]]]
          = [set EXCEPT ![p] = prov]
    BY <1>1
  <2> HIDE DEF prov, e
  <2> QED BY <1>0, <1>1, <2>1, <2>2 DEF Put
<1>3. \A b \in DOMAIN d["assets"], g \in Fields :
        assets[b][g] = IF b = a /\ g = f THEN by ELSE d["assets"][b][g]
  BY <1>0 DEF Asset
<1>4. /\ DOMAIN old = 1 .. Len(old) /\ Len(old) \in Nat
      /\ DOMAIN Append(old, row) = 1 .. Len(old) + 1
      /\ Append(old, row)[Len(old) + 1] = row
      /\ \A i \in DOMAIN old : Append(old, row)[i] = old[i]
  <2> HIDE DEF old, row
  <2> QED BY <1>0
<1>5. \A i \in DOMAIN e[p] :
        \/ e[p][i] = row
        \/ i \in DOMAIN old /\ e[p][i] = old[i] /\ ~(old[i].asset = a /\ old[i].field = f)
  <2>1. CASE known = {}
    <3>1. \A i \in DOMAIN old : ~(old[i].asset = a /\ old[i].field = f)
      BY <2>1
    <3> HIDE DEF known, old, row, e
    <3> QED BY <1>2, <1>4, <2>1, <3>1
  <2>2. CASE known # {}
    <3>1. e[p] = prov
      BY <1>2, <2>2
    <3> HIDE DEF e
    <3> QED BY <3>1
  <2> QED BY <2>1, <2>2
<1>6. e["assets"] = assets /\ a \in DOMAIN d["assets"] /\ f \in Fields
  BY <1>2
<1> HIDE DEF e, assets
<1>7. ASSUME NEW i \in DOMAIN e[p]
      PROVE  e["assets"][e[p][i].asset][e[p][i].field] = e[p][i].by
  <2>1. CASE e[p][i] = row
    <3>1. e[p][i].asset = a /\ e[p][i].field = f /\ e[p][i].by = by
      BY <2>1
    <3>2. assets[a][f] = by
      BY <1>3, <1>6
    <3> QED BY <1>6, <3>1, <3>2
  <2>2. CASE i \in DOMAIN old /\ e[p][i] = old[i] /\ ~(old[i].asset = a /\ old[i].field = f)
    <3>1. old[i].asset \in DOMAIN d["assets"] /\ old[i].field \in Fields
      BY <2>2, ProvenanceRows
    <3>2. d["assets"][old[i].asset][old[i].field] = old[i].by
      BY <2>2 DEF Attributed
    <3>3. assets[old[i].asset][old[i].field] = old[i].by
      BY <1>3, <2>2, <3>1, <3>2
    <3> HIDE DEF old
    <3> QED BY <1>6, <2>2, <3>3
  <2> QED BY <1>5, <2>1, <2>2
<1> QED BY <1>7 DEF Attributed, e

(* A new asset comes with the provenance row of its field.                 *)
LEMMA NewAssetKeepsAttribution ==
  ASSUME NEW d, Sound(d), Attributed(d), NEW f \in Fields, NEW by \in Setters,
         NEW m \in Macs \cup {NULL}
  PROVE  Attributed(NewAsset(d, {f}, by, m))
<1> DEFINE p     == "field_provenance"
           a     == Len(d["assets"]) + 1
           row   == [g \in Fields |-> IF g \in {f} THEN by ELSE NULL]
           added == Put(d, "assets", row)
           mine  == [asset |-> a, field |-> f, by |-> by]
           one   == SetToSeq({[asset |-> a, field |-> g, by |-> by] : g \in {f}})
           prov  == Replaced(added, p, added[p] \o one)
           e     == NewAsset(d, {f}, by, m)
<1>0. /\ Typed(d) /\ d["assets"] \in Seq(Asset) /\ d[p] \in Seq(Rows[p])
      /\ "assets" \in Tables /\ p \in Tables /\ "mac_addresses" \in Tables
  BY TypedElim, RowsAre DEF Sound, Tables
<1>1. row \in Rows["assets"] /\ row[f] = by
  BY RowsAre DEF Asset
<1> HIDE DEF row
<1>2. /\ Typed(added) /\ added[p] = d[p]
      /\ added["assets"][a] = row
      /\ \A b \in DOMAIN d["assets"] : added["assets"][b] = d["assets"][b]
  BY <1>0, <1>1, PutGives
<1>3. one \in Seq({mine})
  <2>1. {[asset |-> a, field |-> g, by |-> by] : g \in {f}} = {mine}
    OBVIOUS
  <2> QED BY <2>1, SetToSeqOfOne
<1> HIDE DEF added, one
<1>4. prov["assets"] = added["assets"] /\ prov[p] = d[p] \o one
  BY <1>0, <1>2, TypedElim DEF Replaced
<1>5. e = prov \/ e = Put(prov, "mac_addresses", [asset |-> a, mac |-> m])
  BY DEF NewAsset, added, row, one, Replaced
<1>6. DOMAIN prov = Tables
  BY <1>2, TypedElim DEF Replaced
<1> HIDE DEF prov, e
<1>7. e["assets"] = added["assets"] /\ e[p] = d[p] \o one
  BY <1>0, <1>4, <1>5, <1>6 DEF Put
<1>8. mine \in Rows[p]
  <2>1. a \in Ids
    BY <1>0 DEF Ids
  <2> QED BY <2>1, RowsAre
<1> HIDE DEF mine
<1>9. \A i \in DOMAIN e[p] :
        (i \in DOMAIN d[p] /\ e[p][i] = d[p][i]) \/ e[p][i] = mine
  <2>0. one \in Seq(Rows[p])
    BY <1>3, <1>8
  <2>1. /\ Len(d[p] \o one) = Len(d[p]) + Len(one)
        /\ d[p] \o one \in Seq(Rows[p])
        /\ \A i \in 1 .. Len(d[p]) + Len(one) :
             (d[p] \o one)[i] = IF i <= Len(d[p]) THEN d[p][i] ELSE one[i - Len(d[p])]
    BY <1>0, <2>0, ConcatProperties
  <2>2. \A i \in 1 .. Len(one) : one[i] = mine
    BY <1>3
  <2> DEFINE old == d[p]
             all == d[p] \o one
  <2> HIDE DEF old, all
  <2>3. /\ Len(old) \in Nat /\ Len(one) \in Nat
        /\ DOMAIN old = 1 .. Len(old) /\ DOMAIN all = 1 .. Len(old) + Len(one)
    BY <1>0, <2>0, <2>1 DEF old, all
  <2>4. \A i \in DOMAIN all :
          (i \in DOMAIN old /\ all[i] = old[i]) \/ all[i] = mine
    BY <2>1, <2>2, <2>3 DEF old, all
  <2> QED BY <1>7, <2>4 DEF old, all
<1>10. ASSUME NEW i \in DOMAIN e[p]
       PROVE  e["assets"][e[p][i].asset][e[p][i].field] = e[p][i].by
  <2>1. CASE i \in DOMAIN d[p] /\ e[p][i] = d[p][i]
    <3>1. d[p][i].asset \in DOMAIN d["assets"]
      BY <2>1, ProvenanceRows
    <3>2. d["assets"][d[p][i].asset][d[p][i].field] = d[p][i].by
      BY <2>1 DEF Attributed
    <3> QED BY <1>2, <1>7, <2>1, <3>1, <3>2
  <2>2. CASE e[p][i] = mine
    BY <1>1, <1>2, <1>7, <2>2 DEF mine
  <2> QED BY <1>9, <2>1, <2>2
<1> QED BY <1>10 DEF Attributed, e

(* What a scan ends with.                                                  *)
LEMMA ObservationKeepsAttribution ==
  ASSUME NEW d, Sound(d), Attributed(d), NEW s \in DOMAIN d["scans"],
         NEW e \in {d} \cup Discovered(d) \cup Observed(d, s) \cup Deferred(d, s)
  PROVE  Attributed(e)
<1>0. /\ Typed(d) /\ "assets" \in Tables /\ "scans" \in Tables
      /\ s \in Ids
  BY TypedElim DEF Sound, Tables, Ids
<1>1. CASE e \in Discovered(d)
  <2>1. PICK f \in Fields, m \in {x \in Macs \cup {NULL} : MacFree(d, x)} :
          e = Finding(d, f, m)
    <3>1. Discovered(d) =
            {Finding(d, f, m) : f \in Fields, m \in {x \in Macs \cup {NULL} : MacFree(d, x)}}
      BY DEF Discovered, Finding
    <3> QED BY <1>1, <3>1
  <2> DEFINE n == NewAsset(d, {f}, "scanned", m)
  <2>2. /\ Sound(n) /\ Attributed(n)
        /\ DOMAIN n["assets"] = 1 .. Len(d["assets"]) + 1
        /\ Len(n["assets"]) = Len(d["assets"]) + 1
    BY NewAssetIsSound, NewAssetKeepsAttribution DEF Setters
  <2>3. e = Entry(n, Len(n["assets"]), 0)
    BY <2>1 DEF Finding
  <2> HIDE DEF n
  <2>4. Len(n["assets"]) \in DOMAIN n["assets"]
    BY <1>0, <2>2, TypedElim
  <2> QED BY <2>2, <2>3, <2>4, EntryKeepsAttribution
<1>2. CASE e \in Observed(d, s)
  <2>1. PICK a \in DOMAIN d["assets"], f \in Fields :
          e = IF d["assets"][a][f] = "manual"
              THEN Put(d, "proposed_changes",
                       [asset |-> a, field |-> f, scan |-> s, open |-> TRUE])
              ELSE Entry(SetField(d, a, f, "scanned"), a, 0)
    BY <1>2 DEF Observed
  <2>2. [asset |-> a, field |-> f, scan |-> s, open |-> TRUE] \in Rows["proposed_changes"]
    <3>1. a \in Ids
      BY <1>0, TypedElim DEF Ids
    <3> QED BY <1>0, <3>1, RowsAre
  <2>3. Attributed(Put(d, "proposed_changes",
                       [asset |-> a, field |-> f, scan |-> s, open |-> TRUE]))
    BY <2>2, PutKeepsAttribution DEF Tables
  <2> DEFINE n == SetField(d, a, f, "scanned")
  <2>4. Sound(n) /\ Attributed(n) /\ a \in DOMAIN n["assets"]
    BY SetFieldIsSound, SetFieldKeepsAttribution DEF Setters
  <2> HIDE DEF n
  <2>5. Attributed(Entry(n, a, 0))
    BY <2>4, EntryKeepsAttribution
  <2> QED BY <2>1, <2>3, <2>5 DEF n
<1>3. CASE e \in Deferred(d, s)
  <2>1. [scan |-> s] \in Rows["review_queue"] /\ e = Put(d, "review_queue", [scan |-> s])
    BY <1>0, <1>3, RowsAre DEF Deferred
  <2> QED BY <2>1, PutKeepsAttribution DEF Tables
<1> QED BY <1>1, <1>2, <1>3

(* Every commit writes a value and its provenance together.                *)
LEMMA WritesKeepAttribution ==
  ASSUME NEW d, Sound(d), Attributed(d), NEW e \in Writes(d)
  PROVE  Attributed(e)
<1>0. /\ Typed(d) /\ "assets" \in Tables /\ "proposed_changes" \in Tables
      /\ "timeline_entries" \in Tables
  BY DEF Sound, Tables
<1>1. CASE e \in Added(d)
  <2>1. PICK f \in Fields, m \in {x \in Macs \cup {NULL} : MacFree(d, x)} :
          e = NewAsset(d, {f}, "manual", m)
    BY <1>1 DEF Added
  <2> QED BY <2>1, NewAssetKeepsAttribution DEF Setters
<1>2. CASE e \in ScanStarted(d)
  <2>1. "started" \in Rows["scans"] /\ e = Put(d, "scans", "started")
    BY <1>2, RowsAre DEF ScanStarted
  <2> QED BY <2>1, PutKeepsAttribution DEF Tables
<1>3. CASE e \in ScanCommitted(d)
  <2>1. PICK s \in DOMAIN d["scans"] :
          e \in {Finished(n, s) :
                   n \in {d} \cup Discovered(d) \cup Observed(d, s) \cup Deferred(d, s)}
    BY <1>3 DEF ScanCommitted, Finished
  <2>2. PICK n \in {d} \cup Discovered(d) \cup Observed(d, s) \cup Deferred(d, s) :
          e = Finished(n, s)
    BY <2>1
  <2> QED
    BY <2>2, ObservationIsSound, ObservationKeepsAttribution, FinishedKeepsAttribution
<1>4. CASE e \in Disposed(d)
  <2>1. PICK i \in {j \in DOMAIN d["proposed_changes"] : d["proposed_changes"][j].open},
             by \in Setters : e = Disposal(d, i, by)
    <3>1. Disposed(d) =
            {Disposal(d, i, by)
               : i \in {j \in DOMAIN d["proposed_changes"] : d["proposed_changes"][j].open},
                 by \in Setters}
      BY DEF Disposed, Disposal
    <3> QED BY <1>4, <3>1
  <2> DEFINE a == d["proposed_changes"][i].asset
             f == d["proposed_changes"][i].field
             n == SetField(d, a, f, by)
             c == Closed(n, i)
  <2>2. e = Entry(c, a, 0)
    BY <2>1 DEF Closed, Disposal
  <2>3. f \in Fields
    <3>1. d["proposed_changes"][i] \in Rows["proposed_changes"]
      BY <1>0, TypedElim
    <3> QED BY <3>1, RowsAre
  <2>4. a \in DOMAIN d["assets"]
    <3>1. <<"assets", a>> \in Refs("proposed_changes", d["proposed_changes"][i])
      BY DEF Refs
    <3> QED BY <1>0, <3>1 DEF Sound, ForeignKeysHold
  <2> HIDE DEF a, f
  <2>5. /\ Sound(n) /\ Attributed(n) /\ DOMAIN n["assets"] = DOMAIN d["assets"]
        /\ n["proposed_changes"] = d["proposed_changes"]
    BY <1>0, <2>3, <2>4, SetFieldIsSound, SetFieldKeepsAttribution
  <2> HIDE DEF n
  <2>6. Sound(c) /\ Attributed(c) /\ DOMAIN c["assets"] = DOMAIN d["assets"]
    BY <1>0, <2>5, ClosedIsSound, ClosedKeepsAttribution
  <2> HIDE DEF c
  <2> QED BY <2>2, <2>4, <2>6, EntryKeepsAttribution
<1>5. CASE e \in Noted(d)
  BY <1>5, EntryKeepsAttribution DEF Noted
<1>6. CASE e \in Corrected(d)
  <2>1. PICK c \in DOMAIN d["timeline_entries"] :
          e = Entry(d, d["timeline_entries"][c].asset, c)
    BY <1>6 DEF Corrected
  <2>2. <<"assets", d["timeline_entries"][c].asset>>
          \in Refs("timeline_entries", d["timeline_entries"][c])
    BY DEF Refs
  <2>3. d["timeline_entries"][c].asset \in DOMAIN d["assets"]
    BY <1>0, <2>2 DEF Sound, ForeignKeysHold
  <2> QED BY <2>1, <2>3, EntryKeepsAttribution
<1> QED BY <1>1, <1>2, <1>3, <1>4, <1>5, <1>6 DEF Writes

(* The source is attributed, and so is what an uncut export brought over.  *)
AllAttributed ==
  /\ Attributed(src) /\ Attributed(photo)
  /\ ~cut /\ rivals = 0 => Attributed(target)

(* Kept by every step; past a cut it asks nothing of the target.           *)
LEMMA AttributionHolds == IInv /\ AllAttributed /\ [Next]_vars => AllAttributed'
<1> SUFFICES ASSUME IInv, AllAttributed, [Next]_vars PROVE AllAttributed'
  OBVIOUS
<1>1. CASE SourceCommits
  <2>1. Attributed(src')
    BY <1>1, WritesKeepAttribution DEF IInv, Kinds, AllAttributed, SourceCommits
  <2> QED BY <1>1, <2>1 DEF AllAttributed, SourceCommits
<1>2. CASE RivalCommits
  <2>1. rivals' # 0
    BY <1>2, DumpAssumption DEF IInv, Kinds, RivalCommits
  <2> QED BY <1>2, <2>1 DEF AllAttributed, RivalCommits
<1>3. CASE Exporting
  BY <1>3 DEF AllAttributed, Exporting, ReadTable, OpenFile, FinishFile, ExporterDies
<1>4. CASE StartImport \/ CountRows \/ ImporterDies
  BY <1>4 DEF AllAttributed, StartImport, CountRows, ImporterDies
<1>5. CASE InsertRows
  <2>1. CASE target' = target
    BY <1>5, <2>1 DEF AllAttributed, InsertRows
  <2>2. CASE target' = Merged
    <3> SUFFICES ASSUME ~cut, rivals = 0 PROVE Attributed(Merged)
      BY <1>5, <2>2 DEF AllAttributed, InsertRows
    <3>1. /\ importer.phase = "checking" /\ importer.checked = 7
          /\ Len(buffer) = Len(TableOrder)
      BY <1>5, OrderIs DEF IInv, Stages, InsertRows
    <3>2. \A k \in 1 .. 7 : target[TableOrder[k]] = << >>
      BY <3>1 DEF IInv, StillEmpty
    <3>3. ASSUME NEW t \in Tables PROVE Merged[t] = photo[t]
      <4>1. target[t] = << >>
        BY <3>2, OrderIs
      <4>2. photo[t] \in Seq(Rows[t])
        BY TypedElim DEF IInv, Kinds, Sound
      <4> QED BY <3>1, <4>1, <4>2, DumpIsPhoto, ConcatEmptySeq DEF Merged
    <3> QED BY <3>3, AttributionElsewhere DEF AllAttributed, Tables
  <2> QED BY <1>5, <2>1, <2>2 DEF InsertRows
<1>6. CASE UNCHANGED vars
  BY <1>6 DEF AllAttributed, vars
<1> QED BY <1>1, <1>2, <1>3, <1>4, <1>5, <1>6 DEF Next, Importing

(* core/provenance.py, db/export.py: what an import says a human set, a    *)
(* human set, unless somebody wrote to the source between two SELECTs of   *)
(* the export.                                                             *)
THEOREM OnlyCutsMisattribute == Spec => [](~cut => ImportsAreAttributed)
<1>1. Init => AllAttributed
  BY DEF Init, AllAttributed, Attributed, Empty, Tables
<1>2. AllAttributed => (~cut => ImportsAreAttributed)
  BY DEF AllAttributed, ImportsAreAttributed
<1> QED BY <1>1, <1>2, AttributionHolds, DumpInvariance, PTL DEF Spec
=============================================================================
