-------------------------- MODULE InventoryProofs ---------------------------
(***************************************************************************)
(* Inventory, for any commands, values and batches.  In this order:        *)
(*                                                                         *)
(*   - the resolver: what its answer says about every other asset;         *)
(*   - what each write does to a database, and that IInv is inductive, one *)
(*     step per action: types, no batch lost without a race, curated       *)
(*     values safe from a transaction planned on the last commit;          *)
(*   - the steps by kind: every step reads, writes a row under the lock,   *)
(*     commits a batch, notes a scan, adds an asset or answers a question; *)
(*   - that Attributed is inductive, one step per kind: every row of the   *)
(*     last commit has its author, questions are answered once, changes    *)
(*     have entries;                                                       *)
(*   - what follows for commits: the action properties of Inventory and    *)
(*     the refinement of Curation;                                         *)
(*   - two special cases: one session reviewing (what was rejected was not *)
(*     accepted), and ingests that pin what they read (nothing overruled). *)
(***************************************************************************)
EXTENDS Inventory, SequenceTheorems, TLAPS

(* What an answer of the resolver says about every other asset.  The rows  *)
(* that follow from it are written without looking for collisions.         *)

(* Any shared signal lifts an asset above the floor: the weights make the  *)
(* floor exclude exactly the assets that share nothing.                    *)
LEMMA SharedSignalScores ==
  ASSUME NEW c, NEW e,
         SharesMac(c, e) \/ SharesAddress(c, e) \/ SharesHostname(c, e)
  PROVE  Score(c, e) >= AmbiguityFloor
<1> DEFINE m == Weight(SharesMac(c, e), 9)
           i == Weight(SharesAddress(c, e), 4)
           h == Weight(SharesHostname(c, e), 3)
<1>1. m \in {0, 9} /\ i \in {0, 4} /\ h \in {0, 3}
  BY DEF Weight
<1>2. m = 9 \/ i = 4 \/ h = 3
  BY DEF Weight
<1>3. Score(c, e) = IF m + i + h > 10 THEN 10 ELSE m + i + h
  BY DEF Score
<1> HIDE DEF m, i, h
<1> QED
  BY <1>1, <1>2, <1>3 DEF AmbiguityFloor

(* A candidate is new only if no asset shares anything with it.            *)
LEMMA InsertIsNew ==
  ASSUME NEW c, NEW assets, Resolve(c, assets).kind = "insert",
         NEW b \in DOMAIN assets
  PROVE  /\ ~SharesMac(c, assets[b])
         /\ ~SharesAddress(c, assets[b])
         /\ ~SharesHostname(c, assets[b])
<1>1. CASE NoSignals(c)
  BY <1>1 DEF NoSignals, SharesMac, SharesAddress, SharesHostname
<1>2. CASE ~NoSignals(c)
  <2>1. Above(c, assets) = {}
    BY <1>2 DEF Resolve, Insert, Update, Ambiguous
  <2>2. ~(Score(c, assets[b]) >= AmbiguityFloor)
    BY <2>1 DEF Above
  <2> QED
    BY <2>2, SharedSignalScores
<1> QED
  BY <1>1, <1>2

(* An update names a known asset, and no other asset shares anything with  *)
(* the candidate.                                                          *)
LEMMA UpdateIsSole ==
  ASSUME NEW c, NEW assets, Resolve(c, assets).kind = "update"
  PROVE  LET a == Resolve(c, assets).asset
         IN  /\ a \in DOMAIN assets
             /\ \A b \in DOMAIN assets : b # a =>
                  /\ ~SharesMac(c, assets[b])
                  /\ ~SharesAddress(c, assets[b])
                  /\ ~SharesHostname(c, assets[b])
<1> DEFINE a == Resolve(c, assets).asset
<1>1. PICK x \in Above(c, assets) : Above(c, assets) = {x}
  BY DEF Resolve, Insert, Update, Ambiguous
<1>2. Resolve(c, assets) = Update(CHOOSE y \in Above(c, assets) : TRUE)
  BY DEF Resolve, Insert, Update, Ambiguous
<1>3. (CHOOSE y \in Above(c, assets) : TRUE) = x
  BY <1>1
<1>4. a = x
  BY <1>2, <1>3 DEF Update
<1>5. a \in DOMAIN assets
  BY <1>1, <1>4 DEF Above
<1>6. ASSUME NEW b \in DOMAIN assets, b # a
      PROVE  /\ ~SharesMac(c, assets[b])
             /\ ~SharesAddress(c, assets[b])
             /\ ~SharesHostname(c, assets[b])
  <2>1. b \notin Above(c, assets)
    BY <1>1, <1>4, <1>6
  <2>2. ~(Score(c, assets[b]) >= AmbiguityFloor)
    BY <2>1, <1>6 DEF Above
  <2> QED
    BY <2>2, SharedSignalScores
<1> QED
  BY <1>5, <1>6

-----------------------------------------------------------------------------
Entries == [asset: Nat, kind: EntryKinds,
            by: Stamps \cup (Reviewers \X ProposalRow)]

(* Journalling leaves everything but the timeline alone.                   *)
LEMMA LogType ==
  ASSUME NEW d \in Databases, NEW es \in SUBSET Entries
  PROVE  /\ Log(d, es) \in Databases
         /\ Log(d, es).asset = d.asset
         /\ Sound(d) => Sound(Log(d, es))
BY DEF Log, Databases, Entries, Sound

(* Binding a MAC to an asset that exists leaves the foreign keys sound.    *)
LEMMA BindType ==
  ASSUME NEW d \in Databases, NEW a \in DOMAIN d.asset, NEW m \in Macs
  PROVE  /\ Bind(d, a, m) \in Databases
         /\ Bind(d, a, m).asset = d.asset
         /\ Sound(d) => Sound(Bind(d, a, m))
<1>1. d.asset \in Seq(Asset) /\ d.owner \in [Macs -> Nat]
  BY DEF Databases
<1>2. a \in 1 .. Len(d.asset) /\ Len(d.asset) \in Nat /\ a \in Nat
  BY <1>1
<1>3. /\ Bind(d, a, m) \in Databases
      /\ Bind(d, a, m).asset = d.asset
      /\ Bind(d, a, m).proposals = d.proposals
      /\ Bind(d, a, m).owner = [d.owner EXCEPT ![m] = a]
  <2>1. Bind(d, a, m) = [d EXCEPT !.owner = [d.owner EXCEPT ![m] = a]]
    BY <1>1 DEF Bind, Databases
  <2>2. [d.owner EXCEPT ![m] = a] \in [Macs -> Nat]
    BY <1>1, <1>2
  <2> QED
    BY <2>1, <2>2 DEF Databases
<1>4. ASSUME Sound(d), NEW n \in Macs
      PROVE  Bind(d, a, m).owner[n] \in 0 .. Len(Bind(d, a, m).asset)
  BY <1>1, <1>2, <1>3, <1>4 DEF Sound
<1>5. Sound(d) => Sound(Bind(d, a, m))
  BY <1>3, <1>4 DEF Sound
<1> QED
  BY <1>3, <1>5

(* A new asset comes after all others and changes none of them.            *)
LEMMA AddAssetType ==
  ASSUME NEW d \in Databases, NEW cells \in Cells, NEW prov \in Provenances
  PROVE  /\ AddAsset(d, cells, prov) \in Databases
         /\ Sound(d) => Sound(AddAsset(d, cells, prov))
         /\ Len(AddAsset(d, cells, prov).asset) = Len(d.asset) + 1
         /\ \A a \in DOMAIN d.asset :
              AddAsset(d, cells, prov).asset[a] = d.asset[a]
<1> DEFINE x == [value |-> cells,
                 prov  |-> [f \in Fields |-> IF cells[f] = NULL THEN NULL ELSE prov]]
<1>1. x \in Asset
  BY DEF Asset, Cells
<1>2. d.asset \in Seq(Asset)
  BY DEF Databases
<1>3. AddAsset(d, cells, prov) = [d EXCEPT !.asset = Append(d.asset, x)]
  BY DEF AddAsset
<1> HIDE DEF x
<1>4. Append(d.asset, x) \in Seq(Asset)
  BY <1>1, <1>2
<1>5. /\ AddAsset(d, cells, prov) \in Databases
      /\ AddAsset(d, cells, prov).asset = Append(d.asset, x)
      /\ AddAsset(d, cells, prov).owner = d.owner
      /\ AddAsset(d, cells, prov).proposals = d.proposals
  BY <1>3, <1>4 DEF Databases
<1>6. /\ Len(Append(d.asset, x)) = Len(d.asset) + 1
      /\ \A a \in DOMAIN d.asset : Append(d.asset, x)[a] = d.asset[a]
  BY <1>1, <1>2, AppendProperties
<1>7. Len(d.asset) \in Nat /\ DOMAIN d.asset = 1 .. Len(d.asset)
      /\ DOMAIN Append(d.asset, x) = 1 .. (Len(d.asset) + 1)
  BY <1>2, <1>4, <1>6
<1>8. Sound(d) => Sound(AddAsset(d, cells, prov))
  BY <1>5, <1>6, <1>7 DEF Sound
<1> QED
  BY <1>5, <1>6, <1>8

(* Writing fields of one asset changes those fields and nothing else.      *)
LEMMA SetFieldsType ==
  ASSUME NEW d \in Databases, NEW a \in DOMAIN d.asset, NEW fs \in SUBSET Fields,
         NEW cells \in Cells, NEW prov \in Provenances
  PROVE  LET e == SetFields(d, a, fs, cells, prov)
         IN  /\ e \in Databases
             /\ Len(e.asset) = Len(d.asset)
             /\ Sound(d) => Sound(e)
             /\ \A b \in DOMAIN d.asset, f \in Fields :
                  (b # a \/ f \notin fs) => FieldOf(e, b, f) = FieldOf(d, b, f)
<1> DEFINE x == [value |-> [f \in Fields |-> IF f \in fs THEN cells[f] ELSE d.asset[a].value[f]],
                 prov  |-> [f \in Fields |-> IF f \in fs THEN prov ELSE d.asset[a].prov[f]]]
           e == SetFields(d, a, fs, cells, prov)
<1>1. d.asset \in Seq(Asset) /\ d.asset[a] \in Asset
  BY DEF Databases
<1>2. x \in Asset
  BY <1>1 DEF Asset, Cells
<1>3. e = [d EXCEPT !.asset = [d.asset EXCEPT ![a] = x]]
  BY DEF SetFields, Databases
<1>4. \A f \in Fields : f \notin fs => x.value[f] = d.asset[a].value[f] /\ x.prov[f] = d.asset[a].prov[f]
  OBVIOUS
<1> HIDE DEF x
<1>5. [d.asset EXCEPT ![a] = x] \in Seq(Asset) /\ Len([d.asset EXCEPT ![a] = x]) = Len(d.asset)
  BY <1>1, <1>2
<1>6. /\ e \in Databases
      /\ e.asset = [d.asset EXCEPT ![a] = x]
      /\ e.owner = d.owner /\ e.proposals = d.proposals
  BY <1>3, <1>5 DEF Databases
<1> HIDE DEF e
<1>8. Sound(d) => Sound(e)
  BY <1>5, <1>6 DEF Sound
<1>7. ASSUME NEW b \in DOMAIN d.asset, NEW f \in Fields, b # a \/ f \notin fs
      PROVE  FieldOf(e, b, f) = FieldOf(d, b, f)
  <2>1. CASE b # a
    BY <1>1, <1>6, <2>1 DEF FieldOf
  <2>2. CASE b = a
    BY <1>1, <1>4, <1>6, <1>7, <2>2 DEF FieldOf
  <2> QED BY <2>1, <2>2
<1> QED
  BY <1>5, <1>6, <1>7, <1>8 DEF e

-----------------------------------------------------------------------------
(* A journal entry about an existing asset, stamped by an ingest, is one.  *)
LEMMA EntryType ==
  ASSUME NEW a \in Nat, NEW kind \in EntryKinds, NEW by \in Stamps
  PROVE  {Entry(a, kind, by)} \in SUBSET Entries
BY DEF Entry, Entries

(* Binding an observed MAC: bound, or known elsewhere and journalled.      *)
LEMMA BindMacType ==
  ASSUME NEW d \in Databases, NEW a \in DOMAIN d.asset,
         NEW m \in Macs \cup {NULL}, NEW by \in Stamps
  PROVE  LET e == BindMac(d, a, m, by)
         IN  e \in Databases /\ e.asset = d.asset /\ (Sound(d) => Sound(e))
<1>1. CASE m = NULL
  BY <1>1 DEF BindMac
<1>2. CASE m # NULL /\ d.owner[m] \in {0, a}
  BY <1>2, BindType DEF BindMac
<1>3. CASE m # NULL /\ d.owner[m] \notin {0, a}
  <2>1. d.owner[m] \in Nat /\ a \in Nat
    BY <1>3 DEF Databases
  <2>2. {Entry(d.owner[m], "collision", by), Entry(a, "collision", by)} \in SUBSET Entries
    BY <2>1 DEF Entry, Entries, EntryKinds
  <2> HIDE DEF Entries
  <2> QED
    BY <1>3, <2>2, LogType DEF BindMac
<1> QED
  BY <1>1, <1>2, <1>3

(* Proposals refer to the asset they are about.                            *)
LEMMA ProposeType ==
  ASSUME NEW d \in Databases, NEW a \in DOMAIN d.asset, NEW kn \in Knowns,
         NEW row \in Row, NEW by \in Stamps
  PROVE  LET e == Propose(d, a, kn, row, by)
         IN  e \in Databases /\ e.asset = d.asset /\ (Sound(d) => Sound(e))
<1> DEFINE qs == {Proposal(a, f, kn, row, by) : f \in Proposed(kn, row.value)}
           e == Propose(d, a, kn, row, by)
<1>1. a \in Nat /\ d.proposals \in SUBSET ProposalRow
  BY DEF Databases
<1>2. ASSUME NEW f \in Proposed(kn, row.value)
      PROVE  Proposal(a, f, kn, row, by) \in ProposalRow
  <2>1. f \in Fields /\ row.value[f] \in Values /\ kn.value[f] \in Values
    BY <1>2 DEF Proposed, IsProtected, HasPrior, Row, Cells, Knowns
  <2> QED
    BY <1>1, <2>1 DEF Proposal, ProposalRow
<1>3. qs \in SUBSET ProposalRow
  BY <1>2
<1>4. \A q \in qs : q.asset = a
  BY DEF Proposal
<1>5. e = [d EXCEPT !.proposals = d.proposals \cup qs]
  BY DEF Propose
<1> HIDE DEF qs
<1>6. e \in Databases /\ e.asset = d.asset
  BY <1>1, <1>3, <1>5 DEF Databases
<1>7. Sound(d) => Sound(e)
  BY <1>4, <1>5 DEF Sound, Databases
<1> QED
  BY <1>6, <1>7

-----------------------------------------------------------------------------
(* What one row does to a database.                                        *)

Grows(d, e) ==
  /\ e \in Databases
  /\ Sound(d) => Sound(e)
  /\ Len(e.asset) >= Len(d.asset)

(* Every field is as it was, but those of `a` that `kn` does not protect.  *)
Spares(d, e, a, kn) ==
  \A b \in DOMAIN d.asset, f \in Fields :
    \/ FieldOf(e, b, f) = FieldOf(d, b, f)
    \/ b = a /\ ~IsProtected(kn, f)

(* What is known of an asset as it is protects its curated fields.         *)
LEMMA SparesCurated ==
  ASSUME NEW d \in Databases, NEW a \in DOMAIN d.asset, NEW e, Spares(d, e, a, KnownOf(d, a))
  PROVE  KeepsCurated(d, e)
<1>1. NULL \notin Protected
  BY NullAssumption DEF Protected, Provenances
<1>2. \A f \in Fields : Curated(d, a, f) => IsProtected(KnownOf(d, a), f)
  BY <1>1 DEF Curated, IsProtected, HasPrior, KnownOf, KnownFrom
<1> QED
  BY <1>2 DEF Spares, KeepsCurated, KeptCurated

(* A scan's new asset.                                                     *)
LEMMA ScanInsertFacts ==
  ASSUME NEW d \in Databases, NEW row \in Row, NEW by \in Stamps
  PROVE  /\ Grows(d, ScanInsert(d, row, by))
         /\ KeepsCurated(d, ScanInsert(d, row, by))
<1> DEFINE a     == NextId(d)
           added == AddAsset(d, row.value, "scanned")
           bound == BindMac(added, a, row.mac, by)
           es    == {Entry(a, "discovered", by)} \cup Ports(row, a, by)
<1>1. row.value \in Cells /\ row.mac \in Macs \cup {NULL} /\ "scanned" \in Provenances
  BY DEF Row, Provenances
<1>2. /\ added \in Databases
      /\ Len(added.asset) = Len(d.asset) + 1
      /\ Sound(d) => Sound(added)
      /\ \A b \in DOMAIN d.asset : added.asset[b] = d.asset[b]
  BY <1>1, AddAssetType
<1>3. Len(d.asset) \in Nat /\ a \in Nat /\ a \in DOMAIN added.asset
  BY <1>2 DEF Databases, NextId
<1>4. bound \in Databases /\ bound.asset = added.asset /\ (Sound(added) => Sound(bound))
  BY <1>1, <1>2, <1>3, BindMacType
<1>5. es \in SUBSET Entries
  BY <1>3 DEF Entry, Entries, EntryKinds, Ports
<1>6. ScanInsert(d, row, by) = Log(bound, es)
  BY DEF ScanInsert
<1> HIDE DEF a, added, bound, es
<1>7. /\ Log(bound, es) \in Databases
      /\ Log(bound, es).asset = bound.asset
      /\ Sound(bound) => Sound(Log(bound, es))
  BY <1>4, <1>5, LogType
<1> QED
  BY <1>2, <1>3, <1>4, <1>6, <1>7 DEF Grows, KeepsCurated, KeptCurated, FieldOf

(* An import's new asset.                                                  *)
LEMMA ImportInsertFacts ==
  ASSUME NEW d \in Databases, NEW row \in Row, NEW by \in Stamps
  PROVE  /\ Grows(d, ImportInsert(d, row, by))
         /\ KeepsCurated(d, ImportInsert(d, row, by))
<1> DEFINE a     == NextId(d)
           added == AddAsset(d, row.value, "imported")
           bound == IF row.mac = NULL THEN added ELSE Bind(added, a, row.mac)
           es    == {Entry(a, "import", by)}
<1>1. row.value \in Cells /\ row.mac \in Macs \cup {NULL} /\ "imported" \in Provenances
  BY DEF Row, Provenances
<1>2. /\ added \in Databases
      /\ Len(added.asset) = Len(d.asset) + 1
      /\ Sound(d) => Sound(added)
      /\ \A b \in DOMAIN d.asset : added.asset[b] = d.asset[b]
  BY <1>1, AddAssetType
<1>3. Len(d.asset) \in Nat /\ a \in Nat /\ a \in DOMAIN added.asset
  BY <1>2 DEF Databases, NextId
<1>4. bound \in Databases /\ bound.asset = added.asset /\ (Sound(added) => Sound(bound))
  BY <1>1, <1>2, <1>3, BindType
<1>5. es \in SUBSET Entries
  BY <1>3 DEF Entry, Entries, EntryKinds
<1>6. ImportInsert(d, row, by) = Log(bound, es)
  BY DEF ImportInsert
<1> HIDE DEF a, added, bound, es
<1>7. /\ Log(bound, es) \in Databases
      /\ Log(bound, es).asset = bound.asset
      /\ Sound(bound) => Sound(Log(bound, es))
  BY <1>4, <1>5, LogType
<1> QED
  BY <1>2, <1>3, <1>4, <1>6, <1>7 DEF Grows, KeepsCurated, KeptCurated, FieldOf

(* The shape both updates share: the fields the merge applied, with the    *)
(* provenance of whoever observed them, and then proposals and journal     *)
(* entries, which touch no asset.                                          *)
LEMMA WrittenFacts ==
  ASSUME NEW d \in Databases, NEW a \in DOMAIN d.asset, NEW row \in Row,
         NEW kn \in Knowns, NEW prov \in Provenances
  PROVE  LET e == SetFields(d, a, Applied(kn, row.value), row.value, prov)
         IN  /\ e \in Databases
             /\ Len(e.asset) = Len(d.asset)
             /\ DOMAIN e.asset = DOMAIN d.asset
             /\ Sound(d) => Sound(e)
             /\ Spares(d, e, a, kn)
<1> DEFINE fs == Applied(kn, row.value)
           e  == SetFields(d, a, fs, row.value, prov)
<1>1. fs \in SUBSET Fields /\ row.value \in Cells
  BY DEF Applied, Row, Cells
<1> HIDE DEF fs
<1>2. /\ e \in Databases
      /\ Len(e.asset) = Len(d.asset)
      /\ Sound(d) => Sound(e)
      /\ \A b \in DOMAIN d.asset, f \in Fields :
           (b # a \/ f \notin fs) => FieldOf(e, b, f) = FieldOf(d, b, f)
  BY <1>1, SetFieldsType
<1> HIDE DEF e
<1>3. DOMAIN e.asset = DOMAIN d.asset
  BY <1>2 DEF Databases
<1>4. Spares(d, e, a, kn)
  <2>1. \A f \in fs : ~IsProtected(kn, f)
    BY DEF fs, Applied
  <2> QED
    BY <1>2, <2>1 DEF Spares
<1> QED
  BY <1>2, <1>3, <1>4 DEF e, fs

(* A scan's update.                                                        *)
LEMMA ScanUpdateFacts ==
  ASSUME NEW d \in Databases, NEW a \in DOMAIN d.asset, NEW row \in Row,
         NEW kn \in Knowns, NEW by \in Stamps
  PROVE  /\ Grows(d, ScanUpdate(d, a, row, kn, by))
         /\ Spares(d, ScanUpdate(d, a, row, kn, by), a, kn)
<1> DEFINE written == SetFields(d, a, Applied(kn, row.value), row.value, "scanned")
           bound   == BindMac(written, a, row.mac, by)
           asked   == Propose(bound, a, kn, row, by)
           es      == IF ScanReports(d, row, kn) THEN {Entry(a, "scan_diff", by)} ELSE {}
<1>1. row.mac \in Macs \cup {NULL} /\ "scanned" \in Provenances
  BY DEF Row, Provenances
<1>2. /\ written \in Databases
      /\ Len(written.asset) = Len(d.asset)
      /\ DOMAIN written.asset = DOMAIN d.asset
      /\ Sound(d) => Sound(written)
      /\ Spares(d, written, a, kn)
  BY <1>1, WrittenFacts
<1>3. a \in Nat /\ Len(d.asset) \in Nat
  BY DEF Databases
<1> HIDE DEF written
<1>4. bound \in Databases /\ bound.asset = written.asset /\ (Sound(written) => Sound(bound))
  BY <1>1, <1>2, BindMacType
<1> HIDE DEF bound
<1>5. asked \in Databases /\ asked.asset = bound.asset /\ (Sound(bound) => Sound(asked))
  BY <1>2, <1>4, ProposeType
<1>6. es \in SUBSET Entries
  BY <1>3 DEF Entry, Entries, EntryKinds
<1>7. ScanUpdate(d, a, row, kn, by) = Log(asked, es)
  BY DEF ScanUpdate, written, bound
<1> HIDE DEF asked, es
<1>8. /\ Log(asked, es) \in Databases
      /\ Log(asked, es).asset = asked.asset
      /\ Sound(asked) => Sound(Log(asked, es))
  BY <1>5, <1>6, LogType
<1> QED
  BY <1>2, <1>3, <1>4, <1>5, <1>7, <1>8 DEF Grows, Spares, FieldOf

(* An import's update.                                                     *)
LEMMA ImportUpdateFacts ==
  ASSUME NEW d \in Databases, NEW a \in DOMAIN d.asset, NEW row \in Row,
         NEW kn \in Knowns, NEW by \in Stamps
  PROVE  /\ Grows(d, ImportUpdate(d, a, row, kn, by))
         /\ Spares(d, ImportUpdate(d, a, row, kn, by), a, kn)
<1> DEFINE written == SetFields(d, a, Applied(kn, row.value), row.value, "imported")
           asked   == Propose(written, a, kn, row, by)
           es      == IF ImportReports(row, kn) THEN {Entry(a, "import", by)} ELSE {}
<1>1. "imported" \in Provenances
  BY DEF Provenances
<1>2. /\ written \in Databases
      /\ Len(written.asset) = Len(d.asset)
      /\ DOMAIN written.asset = DOMAIN d.asset
      /\ Sound(d) => Sound(written)
      /\ Spares(d, written, a, kn)
  BY <1>1, WrittenFacts
<1>3. a \in Nat /\ Len(d.asset) \in Nat
  BY DEF Databases
<1> HIDE DEF written
<1>4. asked \in Databases /\ asked.asset = written.asset /\ (Sound(written) => Sound(asked))
  BY <1>2, ProposeType
<1>5. es \in SUBSET Entries
  BY <1>3 DEF Entry, Entries, EntryKinds
<1>6. ImportUpdate(d, a, row, kn, by) = Log(asked, es)
  BY DEF ImportUpdate, written
<1> HIDE DEF asked, es
<1>7. /\ Log(asked, es) \in Databases
      /\ Log(asked, es).asset = asked.asset
      /\ Sound(asked) => Sound(Log(asked, es))
  BY <1>4, <1>5, LogType
<1> QED
  BY <1>2, <1>3, <1>4, <1>6, <1>7 DEF Grows, Spares, FieldOf

(* Deferring an observation leaves every asset as it is.                   *)
LEMMA DeferFacts ==
  ASSUME NEW d \in Databases, NEW pl \in Plans, NEW by \in Stamps
  PROVE  Grows(d, Defer(d, pl, by)) /\ KeepsCurated(d, Defer(d, pl, by))
<1>1. [by |-> by, candidates |-> pl.candidates] \in [by: Stamps, candidates: SUBSET Nat]
  BY DEF Plans
<1>2. /\ Defer(d, pl, by) \in Databases
      /\ Defer(d, pl, by).asset = d.asset
      /\ Defer(d, pl, by).owner = d.owner
      /\ Defer(d, pl, by).proposals = d.proposals
  BY <1>1 DEF Defer, Databases
<1>3. Len(d.asset) \in Nat
  BY DEF Databases
<1> QED
  BY <1>2, <1>3 DEF Grows, KeepsCurated, KeptCurated, FieldOf, Sound

(* A plan can be carried out if the asset it updates exists.               *)
Usable(d, pl) == pl \in Plans /\ (pl.kind = "update" => pl.asset \in DOMAIN d.asset)

(* Whatever the answer, a row only adds to the database, and of the asset  *)
(* it updates it changes only what was not protected when it was read.     *)
LEMMA ApplyRowFacts ==
  ASSUME NEW kind, NEW d \in Databases, NEW pl, Usable(d, pl), NEW row \in Row,
         NEW kn \in Knowns, NEW by \in Stamps
  PROVE  LET e == ApplyRow(kind, d, pl, row, kn, by)
         IN  /\ Grows(d, e)
             /\ IF pl.kind = "update" THEN Spares(d, e, pl.asset, kn) ELSE KeepsCurated(d, e)
<1>1. pl \in Plans /\ pl.kind \in {"insert", "update", "ambiguous"}
  BY DEF Usable, Plans
<1>2. CASE pl.kind = "ambiguous"
  <2>1. ApplyRow(kind, d, pl, row, kn, by) = Defer(d, pl, by)
    BY <1>2 DEF ApplyRow
  <2> QED
    BY <1>2, <1>1, <2>1, DeferFacts
<1>3. CASE pl.kind = "insert" /\ kind = "scan"
  <2>1. ApplyRow(kind, d, pl, row, kn, by) = ScanInsert(d, row, by)
    BY <1>3 DEF ApplyRow
  <2> QED
    BY <1>3, <2>1, ScanInsertFacts
<1>4. CASE pl.kind = "insert" /\ kind # "scan"
  <2>1. ApplyRow(kind, d, pl, row, kn, by) = ImportInsert(d, row, by)
    BY <1>4 DEF ApplyRow
  <2> QED
    BY <1>4, <2>1, ImportInsertFacts
<1>5. CASE pl.kind = "update" /\ kind = "scan"
  <2>1. ApplyRow(kind, d, pl, row, kn, by) = ScanUpdate(d, pl.asset, row, kn, by)
    BY <1>5 DEF ApplyRow
  <2> QED
    BY <1>5, <2>1, ScanUpdateFacts DEF Usable
<1>6. CASE pl.kind = "update" /\ kind # "scan"
  <2>1. ApplyRow(kind, d, pl, row, kn, by) = ImportUpdate(d, pl.asset, row, kn, by)
    BY <1>6 DEF ApplyRow
  <2> QED
    BY <1>6, <2>1, ImportUpdateFacts DEF Usable
<1> QED
  BY <1>1, <1>2, <1>3, <1>4, <1>5, <1>6

-----------------------------------------------------------------------------
(* What the resolver answers about a database.                             *)

(* Its answer can be carried out on the database it was given.             *)
LEMMA ResolveUsable ==
  ASSUME NEW d \in Databases, NEW row
  PROVE  Usable(d, ResolveRow(d, row))
<1> DEFINE c  == Candidate(row)
           ks == Identities(d)
<1>1. DOMAIN ks = DOMAIN d.asset /\ DOMAIN d.asset \in SUBSET Nat
  BY DEF Identities, Databases
<1>2. /\ MacHits(c, ks) \in SUBSET Nat
      /\ HostHits(c, ks) \in SUBSET Nat
      /\ Above(c, ks) \in SUBSET Nat
  BY <1>1 DEF MacHits, HostHits, Above
<1>3. ResolveRow(d, row) = Resolve(c, ks)
  BY DEF ResolveRow
<1>4. CASE Resolve(c, ks).kind = "update"
  <2>1. Resolve(c, ks).asset \in DOMAIN ks
    BY <1>4, UpdateIsSole
  <2>2. \E a \in DOMAIN ks : Resolve(c, ks) = Update(a)
    BY <1>4, <2>1 DEF Resolve, Insert, Update, Ambiguous
  <2> QED
    BY <1>1, <1>3, <2>1, <2>2 DEF Usable, Plans, Update
<1>5. CASE Resolve(c, ks).kind # "update"
  <2>1. \/ Resolve(c, ks) = Insert
        \/ \E set \in SUBSET Nat : Resolve(c, ks) = Ambiguous(set)
    BY <1>2, <1>5 DEF Resolve, Update
  <2> QED
    BY <1>3, <1>5, <2>1 DEF Usable, Plans, Insert, Ambiguous
<1> QED
  BY <1>4, <1>5

(* What is known of an asset has the type of a merge's input.              *)
LEMMA KnownType ==
  ASSUME NEW d \in Databases, NEW a \in DOMAIN d.asset
  PROVE  KnownOf(d, a) \in Knowns
<1>1. d.asset[a] \in Asset
  BY DEF Databases
<1> QED
  BY <1>1 DEF KnownOf, KnownFrom, Knowns, Asset, Cells

(* A row planned on the database it is applied to violates no UNIQUE       *)
(* constraint: an asset holding its address or its MAC shares a signal     *)
(* with it, and then the resolver would have answered otherwise.           *)
LEMMA NoConflict ==
  ASSUME NEW kind, NEW d \in Databases, Sound(d), NEW row \in Row, NEW kn
  PROVE  ~Conflicts(kind, d, ResolveRow(d, row), row, kn)
<1> DEFINE c  == Candidate(row)
           ks == Identities(d)
           ip == row.value["primary_ip"]
<1>1. DOMAIN ks = DOMAIN d.asset /\ d.asset \in Seq(Asset)
  BY DEF Identities, Databases
<1>2. c.primary_ip = ip /\ c.macs = MacSet(row.mac)
  BY DEF Candidate
<1>3. \A b \in DOMAIN d.asset :
        /\ ks[b].primary_ip = d.asset[b].value["primary_ip"]
        /\ ks[b].macs = MacsOf(d, b)
  BY DEF Identities
<1>4. ResolveRow(d, row) = Resolve(c, ks)
  BY DEF ResolveRow
<1> HIDE DEF c, ks
<1>5. CASE Resolve(c, ks).kind = "insert"
  <2>1. \A b \in DOMAIN ks : ~SharesMac(c, ks[b]) /\ ~SharesAddress(c, ks[b])
    BY <1>5, InsertIsNew
  <2>2. ~AddressTaken(d, 0, ip)
    BY <1>1, <1>2, <1>3, <2>1 DEF AddressTaken, SharesAddress
  <2>3. ~MacTaken(d, row.mac)
    <3>1. SUFFICES ASSUME row.mac # NULL, d.owner[row.mac] # 0
                   PROVE  FALSE
      BY DEF MacTaken
    <3>2. row.mac \in Macs
      BY <3>1 DEF Row
    <3>3. d.owner[row.mac] \in DOMAIN d.asset
      BY <1>1, <3>1, <3>2 DEF Sound
    <3>4. row.mac \in MacsOf(d, d.owner[row.mac]) /\ row.mac \in MacSet(row.mac)
      BY <3>1, <3>2 DEF MacsOf, MacSet
    <3> QED
      BY <1>1, <1>2, <1>3, <2>1, <3>3, <3>4 DEF SharesMac
  <2> QED
    BY <1>4, <1>5, <2>2, <2>3 DEF Conflicts
<1>6. CASE Resolve(c, ks).kind = "update"
  <2>1. \A b \in DOMAIN ks : b # Resolve(c, ks).asset => ~SharesAddress(c, ks[b])
    BY <1>6, UpdateIsSole
  <2>2. ~AddressTaken(d, Resolve(c, ks).asset, ip)
    BY <1>1, <1>2, <1>3, <2>1 DEF AddressTaken, SharesAddress
  <2> QED
    BY <1>4, <1>6, <2>2 DEF Conflicts
<1> QED
  BY <1>4, <1>5, <1>6 DEF Conflicts

-----------------------------------------------------------------------------
(* Four kinds of step.  Each lemma says what a step of its kind must do at *)
(* the process that takes it; what the others have read is framed here.    *)

(* The empty database is one.                                              *)
LEMMA EmptyFacts == EmptyDb \in Databases /\ Sound(EmptyDb)
<1>1. << >> \in Seq(Asset)
  OBVIOUS
<1> QED
  BY <1>1 DEF EmptyDb, Databases, Sound

(* A step of `p` that changes neither the database nor another process.    *)
OnlyAt(p) ==
  /\ todo' \in [Procs -> Seq(Row)] /\ plan' \in [Procs -> Plans]
  /\ known' \in [Procs -> Knowns]
  /\ held' \in [Reviewers -> ProposalRow \cup {NoProposal}]
  /\ \A q \in Procs \ {p} :
       todo'[q] = todo[q] /\ plan'[q] = plan[q] /\ known'[q] = known[q]
  /\ \A r \in Reviewers \ {p} : held'[r] = held[r]

(* A read, or an end without a transaction.                                *)
LEMMA ReadStep ==
  ASSUME IInv, NEW p \in Procs, phase[p] # "txn", ReadOnly,
         NEW ph \in Phases \ {"txn"}, Goto(p, ph), OnlyAt(p),
         stale' = stale \/ stale' = stale \ {p},
         ph = "conflict" => p \in stale',
         PlanUsable(p)', PlanFresh(p)', AddUsable(p)', ReviewUsable(p)'
  PROVE  IInv'
<1>1. /\ UNCHANGED <<db, work, lock>>
      /\ phase' = [phase EXCEPT ![p] = ph]
      /\ phase \in [Procs -> Phases]
  BY DEF ReadOnly, Goto, IInv, TypeOK
<1>2. /\ \A q \in Procs \ {p} : phase'[q] = phase[q] /\ (q \in stale' <=> q \in stale)
      /\ phase'[p] = ph
  BY <1>1
<1>3. TypeOK'
  BY <1>1 DEF IInv, TypeOK, OnlyAt
<1>4. lock # NULL => lock \in Procs \ {p}
  BY DEF IInv, TypeOK, LockHeldInTxn, Procs
<1>5. LockHeldInTxn' /\ WorkExtendsDb'
  BY <1>1, <1>2, <1>4 DEF IInv, LockHeldInTxn, WorkExtendsDb
<1>6. ASSUME NEW q \in Procs \ {p}
      PROVE  PlanUsable(q)' /\ PlanFresh(q)' /\ AddUsable(q)' /\ ReviewUsable(q)'
  <2>1. PlanUsable(q) /\ PlanFresh(q) /\ AddUsable(q) /\ ReviewUsable(q)
    BY DEF IInv, ProcsUsable
  <2>2. PlanUsable(q)'
    BY <1>1, <1>2, <2>1 DEF PlanUsable, Planned, OnlyAt
  <2>3. PlanFresh(q)'
    BY <1>1, <1>2, <2>1 DEF PlanFresh, Planned, Row1, OnlyAt
  <2>4. AddUsable(q)' /\ ReviewUsable(q)'
    BY <1>1, <1>2, <2>1 DEF AddUsable, ReviewUsable, OnlyAt
  <2> QED
    BY <2>2, <2>3, <2>4
<1>7. ProcsUsable'
  BY <1>6 DEF ProcsUsable
<1>8. TxnKeepsCurated'
  <2>1. SUFFICES ASSUME NEW q \in Ingests, lock' = q,
                        NEW a \in DOMAIN db'.asset, NEW f \in Fields
                 PROVE  KeptCurated(db', work', a, f) \/ Overrules(q, a, f)'
    BY DEF TxnKeepsCurated
  <2>2. q \in Procs \ {p} /\ lock = q
    BY <1>1, <1>4, <2>1, ProcsAssumption DEF Ingests, Procs
  <2>3. KeptCurated(db, work, a, f) \/ Overrules(q, a, f)
    BY <1>1, <2>1, <2>2 DEF IInv, TxnKeepsCurated
  <2> QED
    BY <1>1, <1>2, <2>2, <2>3 DEF Overrules, OnlyAt
<1>9. ConflictOnlyByRace'
  BY <1>2 DEF IInv, ConflictOnlyByRace, Procs
<1> QED
  BY <1>1, <1>3, <1>5, <1>7, <1>8, <1>9 DEF IInv

(* A commit: whoever has read and not written becomes stale.               *)
LEMMA CommitStep ==
  ASSUME IInv, NEW p \in Procs, NEW d \in Databases, Sound(d),
         Len(d.asset) >= Len(db.asset), Commit(p, d), OnlyAt(p),
         NEW ph \in {"reading", "done", "idle"}, Goto(p, ph)
  PROVE  IInv'
<1>1. /\ db' = d /\ work' = EmptyDb /\ lock' = NULL
      /\ stale' = stale \cup Outdated(p)
      /\ phase' = [phase EXCEPT ![p] = ph]
      /\ phase \in [Procs -> Phases]
  BY DEF Commit, Goto, IInv, TypeOK
<1>2. /\ \A q \in Procs \ {p} : phase'[q] = phase[q]
      /\ phase'[p] = ph
      /\ stale \subseteq stale'
      /\ \A q \in Procs \ {p} : phase[q] \in ReadPhases => q \in stale'
  BY <1>1 DEF Outdated
<1>3. TypeOK'
  BY <1>1, EmptyFacts DEF IInv, TypeOK, OnlyAt, Outdated, Phases, ReadPhases, EndPhases
<1>4. LockHeldInTxn' /\ WorkExtendsDb' /\ TxnKeepsCurated'
  BY <1>1, ProcsAssumption DEF LockHeldInTxn, WorkExtendsDb, TxnKeepsCurated, Procs
<1>5. DOMAIN db.asset \subseteq DOMAIN db'.asset
  BY <1>1 DEF IInv, TypeOK, Databases
<1>6. ASSUME NEW q \in Procs
      PROVE  PlanUsable(q)' /\ PlanFresh(q)' /\ AddUsable(q)' /\ ReviewUsable(q)'
  <2>1. PlanUsable(q) /\ AddUsable(q) /\ ReviewUsable(q)
    BY DEF IInv, ProcsUsable
  <2>2. CASE q = p
    BY <1>2, <2>2 DEF PlanUsable, PlanFresh, AddUsable, ReviewUsable, Planned
  <2>3. CASE q # p
    <3>1. PlanUsable(q)'
      BY <1>2, <1>5, <2>1, <2>3 DEF PlanUsable, Planned, OnlyAt
    <3>2. PlanFresh(q)'
      BY <1>2, <2>3 DEF PlanFresh, Planned, ReadPhases
    <3>3. AddUsable(q)' /\ ReviewUsable(q)'
      BY <1>2, <1>5, <2>1, <2>3 DEF AddUsable, ReviewUsable, OnlyAt
    <3> QED
      BY <3>1, <3>2, <3>3
  <2> QED
    BY <2>2, <2>3
<1>7. ProcsUsable'
  BY <1>6 DEF ProcsUsable
<1>8. ConflictOnlyByRace'
  BY <1>2 DEF IInv, ConflictOnlyByRace, Procs
<1> QED
  BY <1>1, <1>3, <1>4, <1>7, <1>8, EmptyFacts DEF IInv

(* An end without a commit: what the transaction had written is forgotten. *)
LEMMA AbandonStep ==
  ASSUME IInv, NEW p \in Procs, NEW ph \in EndPhases, Abandon(p, ph),
         ph = "conflict" /\ p \in Ingests => p \in stale
  PROVE  IInv'
<1>1. /\ UNCHANGED <<db, todo, plan, known, held, stale>>
      /\ \/ lock = p /\ lock' = NULL /\ work' = EmptyDb
         \/ lock # p /\ lock' = lock /\ work' = work
      /\ phase' = [phase EXCEPT ![p] = ph]
      /\ phase \in [Procs -> Phases]
  BY DEF Abandon, Goto, IInv, TypeOK
<1>2. /\ \A q \in Procs \ {p} : phase'[q] = phase[q]
      /\ phase'[p] = ph
  BY <1>1
<1>3. work' \in Databases /\ Sound(work)' /\ Sound(db)'
  BY <1>1, EmptyFacts DEF IInv, TypeOK
<1>4. TypeOK'
  BY <1>1, <1>3 DEF IInv, TypeOK, Phases
<1>5. lock' = NULL \/ (lock' = lock /\ work' = work /\ lock # p)
  BY <1>1
<1>6. LockHeldInTxn' /\ WorkExtendsDb'
  BY <1>1, <1>2, <1>5 DEF IInv, TypeOK, LockHeldInTxn, WorkExtendsDb, Procs
<1>7. ASSUME NEW q \in Procs
      PROVE  PlanUsable(q)' /\ PlanFresh(q)' /\ AddUsable(q)' /\ ReviewUsable(q)'
  <2>1. PlanUsable(q) /\ PlanFresh(q) /\ AddUsable(q) /\ ReviewUsable(q)
    BY DEF IInv, ProcsUsable
  <2>2. CASE q = p
    BY <1>2, <2>2 DEF PlanUsable, PlanFresh, AddUsable, ReviewUsable, Planned, EndPhases
  <2>3. CASE q # p
    <3>1. PlanUsable(q)'
      BY <1>1, <1>2, <2>1, <2>3 DEF PlanUsable, Planned
    <3>2. PlanFresh(q)'
      BY <1>1, <1>2, <2>1, <2>3 DEF PlanFresh, Planned, Row1
    <3>3. AddUsable(q)' /\ ReviewUsable(q)'
      BY <1>1, <1>2, <2>1, <2>3 DEF AddUsable, ReviewUsable
    <3> QED
      BY <3>1, <3>2, <3>3
  <2> QED
    BY <2>2, <2>3
<1>8. ProcsUsable'
  BY <1>7 DEF ProcsUsable
<1>9. TxnKeepsCurated'
  <2>1. SUFFICES ASSUME NEW q \in Ingests, lock' = q,
                        NEW a \in DOMAIN db'.asset, NEW f \in Fields
                 PROVE  KeptCurated(db', work', a, f) \/ Overrules(q, a, f)'
    BY DEF TxnKeepsCurated
  <2>2. lock = q /\ work' = work
    BY <1>5, <2>1, ProcsAssumption DEF Procs
  <2>3. KeptCurated(db, work, a, f) \/ Overrules(q, a, f)
    BY <1>1, <2>1, <2>2 DEF IInv, TxnKeepsCurated
  <2> QED
    BY <1>1, <2>2, <2>3 DEF Overrules
<1>10. ConflictOnlyByRace'
  BY <1>1, <1>2 DEF IInv, ConflictOnlyByRace, Procs
<1> QED
  BY <1>3, <1>4, <1>6, <1>8, <1>9, <1>10 DEF IInv

(* A write inside a transaction, or the one that opens it.                 *)
LEMMA TxnStep ==
  ASSUME IInv, NEW p \in Ingests, lock \in {NULL, p}, lock' = p, UNCHANGED db,
         OnlyAt(p), Goto(p, "txn"), UNCHANGED stale,
         NEW d \in Databases, work' = d, Sound(d), Len(d.asset) >= Len(db.asset),
         \A a \in DOMAIN db.asset, f \in Fields :
           KeptCurated(db, d, a, f) \/ Overrules(p, a, f)'
  PROVE  IInv'
<1>1. /\ phase' = [phase EXCEPT ![p] = "txn"]
      /\ phase \in [Procs -> Phases]
      /\ p \in Procs
  BY DEF Goto, IInv, TypeOK, Procs
<1>2. /\ \A q \in Procs \ {p} : phase'[q] = phase[q]
      /\ phase'[p] = "txn"
  BY <1>1
<1>3. TypeOK'
  BY <1>1 DEF IInv, TypeOK, OnlyAt, Phases
<1>4. LockHeldInTxn' /\ WorkExtendsDb' /\ Sound(db)' /\ Sound(work)'
  BY <1>2 DEF IInv, LockHeldInTxn, WorkExtendsDb
<1>5. ASSUME NEW q \in Procs
      PROVE  PlanUsable(q)' /\ PlanFresh(q)' /\ AddUsable(q)' /\ ReviewUsable(q)'
  <2>1. PlanUsable(q) /\ PlanFresh(q) /\ AddUsable(q) /\ ReviewUsable(q)
    BY DEF IInv, ProcsUsable
  <2>2. CASE q = p
    BY <1>2, <2>2 DEF PlanUsable, PlanFresh, AddUsable, ReviewUsable, Planned
  <2>3. CASE q # p
    <3>1. PlanUsable(q)'
      BY <1>2, <2>1, <2>3 DEF PlanUsable, Planned, OnlyAt
    <3>2. PlanFresh(q)'
      BY <1>2, <2>1, <2>3 DEF PlanFresh, Planned, Row1, OnlyAt
    <3>3. AddUsable(q)' /\ ReviewUsable(q)'
      BY <1>2, <2>1, <2>3 DEF AddUsable, ReviewUsable, OnlyAt
    <3> QED
      BY <3>1, <3>2, <3>3
  <2> QED
    BY <2>2, <2>3
<1>6. ProcsUsable'
  BY <1>5 DEF ProcsUsable
<1>7. TxnKeepsCurated'
  <2>1. SUFFICES ASSUME NEW q \in Ingests, lock' = q,
                        NEW a \in DOMAIN db'.asset, NEW f \in Fields
                 PROVE  KeptCurated(db', work', a, f) \/ Overrules(q, a, f)'
    BY DEF TxnKeepsCurated
  <2>2. q = p
    BY <2>1
  <2> QED
    BY <2>1, <2>2
<1>8. ConflictOnlyByRace'
  BY <1>2 DEF IInv, ConflictOnlyByRace, Ingests, Procs
<1> QED
  BY <1>3, <1>4, <1>6, <1>7, <1>8 DEF IInv

-----------------------------------------------------------------------------
(* One step per action.                                                    *)

(* The next row of a process that has one.                                 *)
LEMMA RowFacts ==
  ASSUME TypeOK, NEW p \in Procs, todo[p] # << >>
  PROVE  /\ Row1(p) \in Row
         /\ Tail(todo[p]) \in Seq(Row)
         /\ [todo EXCEPT ![p] = Tail(@)] \in [Procs -> Seq(Row)]
         /\ p \in Ingests => By(p) \in Stamps
<1>1. todo \in [Procs -> Seq(Row)] /\ todo[p] \in Seq(Row)
  BY DEF TypeOK
<1>2. Head(todo[p]) \in Row /\ Tail(todo[p]) \in Seq(Row) /\ Len(todo[p]) \in Nat
  BY <1>1
<1> QED
  BY <1>1, <1>2 DEF Row1, By, Stamps

(* Every command may start from an empty database.                         *)
LEMMA InitIInv == Init => IInv
<1> SUFFICES ASSUME Init PROVE IInv
  OBVIOUS
<1>1. NothingKnown \in Knowns
  BY DEF NothingKnown, Knowns, Cells
<1>2. << >> \in Seq(Row) /\ Insert \in Plans
  BY DEF Insert, Plans
<1>3. TypeOK
  BY <1>1, <1>2, EmptyFacts DEF Init, TypeOK, Phases
<1>4. ProcsUsable
  BY DEF Init, ProcsUsable, PlanUsable, PlanFresh, AddUsable, ReviewUsable, Planned
<1>5. LockHeldInTxn /\ WorkExtendsDb /\ TxnKeepsCurated
  BY ProcsAssumption DEF Init, LockHeldInTxn, WorkExtendsDb, TxnKeepsCurated, Procs
<1>6. ConflictOnlyByRace
  BY DEF Init, ConflictOnlyByRace, Ingests, Procs
<1> QED
  BY <1>3, <1>4, <1>5, <1>6, EmptyFacts DEF Init, IInv

(* A scan's own row in `scans` is no asset.                                *)
LEMMA StartScanStep ==
  ASSUME IInv, NEW p \in Procs, StartScan(p)
  PROVE  IInv'
<1> DEFINE d == [db EXCEPT !.started = @ \cup {p}]
<1>1. d \in Databases /\ Sound(d) /\ d.asset = db.asset
  BY DEF StartScan, IInv, TypeOK, Databases, Sound
<1>2. Len(d.asset) >= Len(db.asset)
  BY <1>1 DEF Databases
<1>3. ScanBatches \subseteq Seq(Row)
  BY BatchesAssumption
<1>4. OnlyAt(p)
  BY <1>3 DEF StartScan, OnlyAt, IInv, TypeOK
<1>5. Commit(p, d) /\ Goto(p, "reading")
  BY DEF StartScan
<1> HIDE DEF d
<1> QED
  BY <1>1, <1>2, <1>4, <1>5, CommitStep

(* An import's rows come from a file or from the NetBox service.           *)
LEMMA StartImportStep ==
  ASSUME IInv, NEW p \in Procs, StartImport(p)
  PROVE  IInv'
<1>1. Batches(p) \subseteq Seq(Row)
  BY BatchesAssumption DEF Batches
<1>2. OnlyAt(p)
  BY <1>1 DEF StartImport, OnlyAt, IInv, TypeOK
<1>3. phase'[p] = "reading"
  BY DEF StartImport, Goto, IInv, TypeOK
<1>4. PlanUsable(p)' /\ PlanFresh(p)' /\ AddUsable(p)' /\ ReviewUsable(p)'
  BY <1>3 DEF PlanUsable, PlanFresh, AddUsable, ReviewUsable, Planned
<1> QED
  BY <1>2, <1>4, ReadStep DEF StartImport, Phases

(* A NetBox row is skipped or goes on to be resolved.                      *)
LEMMA CheckAddressStep ==
  ASSUME IInv, NEW p \in Procs, CheckAddress(p)
  PROVE  IInv'
<1>1. OnlyAt(p)
  BY RowFacts DEF CheckAddress, OnlyAt, IInv, TypeOK
<1>2. PICK ph \in {"reading", "checked"} : Goto(p, ph)
  BY DEF CheckAddress, Goto, IInv, TypeOK
<1>3. phase'[p] = ph
  BY <1>2 DEF Goto, IInv, TypeOK
<1>4. p \notin Adds /\ p \notin Reviewers
  BY ProcsAssumption DEF CheckAddress
<1>5. PlanUsable(p)' /\ PlanFresh(p)' /\ AddUsable(p)' /\ ReviewUsable(p)'
  BY <1>3, <1>4 DEF PlanUsable, PlanFresh, AddUsable, ReviewUsable, Planned
<1>6. ph \in Phases \ {"txn"} /\ ph # "conflict"
  BY <1>2 DEF Phases, ReadPhases
<1> QED
  BY <1>1, <1>2, <1>5, <1>6, ReadStep DEF CheckAddress, FreshRead

(* The plan a scan or NetBox import makes is the resolver's answer.        *)
LEMMA ResolveFirstStep ==
  ASSUME IInv, NEW p \in Procs, ResolveFirst(p)
  PROVE  IInv'
<1> DEFINE pl == ResolveRow(db, Row1(p))
           ph == IF pl.kind = "update" THEN "resolved" ELSE "ready"
<1>1. /\ db \in Databases /\ Row1(p) \in Row
      /\ plan \in [Procs -> Plans] /\ phase \in [Procs -> Phases]
  BY RowFacts DEF ResolveFirst, IInv, TypeOK
<1>2. Usable(db, pl)
  BY <1>1, ResolveUsable
<1>3. /\ plan' = [plan EXCEPT ![p] = pl]
      /\ UNCHANGED <<db, todo, known, held>>
      /\ ReadOnly
  BY DEF ResolveFirst, FreshRead, ReadOnly
<1>4. plan'[p] = pl
  BY <1>1, <1>3
<1>5. Goto(p, ph)
  BY <1>4 DEF ResolveFirst
<1>6. phase'[p] = ph
  BY <1>1, <1>5 DEF Goto
<1>7. pl \in Plans /\ (pl.kind = "update" => pl.asset \in DOMAIN db.asset)
  BY <1>2 DEF Usable
<1>8. Row1(p)' = Row1(p) /\ ResolveRow(db, Row1(p))' = pl
  BY <1>3 DEF Row1
<1>9. p \notin Adds /\ p \notin Reviewers
  BY ProcsAssumption DEF ResolveFirst
<1>10. PICK s \in Seq(Row) : s # << >> /\ todo'[p] = s
  BY <1>3 DEF ResolveFirst, IInv, TypeOK
<1>11. ph \in Phases \ {"txn"} /\ ph # "conflict" /\ ph # "half" /\ phase[p] # "txn"
  BY DEF Phases, ReadPhases, ResolveFirst
<1>12. stale' = stale \/ stale' = stale \ {p}
  BY DEF ResolveFirst, FreshRead
<1>13. OnlyAt(p)
  BY <1>1, <1>3, <1>7 DEF OnlyAt, IInv, TypeOK
<1>14. PlanUsable(p)'
  BY <1>3, <1>4, <1>6, <1>7, <1>10 DEF PlanUsable
<1>15. PlanFresh(p)'
  BY <1>4, <1>6, <1>8 DEF PlanFresh
<1>16. AddUsable(p)' /\ ReviewUsable(p)'
  BY <1>9 DEF AddUsable, ReviewUsable
<1> HIDE DEF ph, pl
<1> QED
  BY <1>3, <1>5, <1>11, <1>12, <1>13, <1>14, <1>15, <1>16, ReadStep

(* The provenance of the asset to update, read on its own.                 *)
LEMMA ReadProvenanceStep ==
  ASSUME IInv, NEW p \in Procs, ReadProvenance(p)
  PROVE  IInv'
<1> DEFINE kn == [prov |-> db.asset[plan[p].asset].prov, value |-> NothingKnown.value]
<1>1. /\ phase[p] = "resolved" /\ Goto(p, "half") /\ ReadOnly
      /\ known' = [known EXCEPT ![p] = kn]
      /\ UNCHANGED <<db, todo, plan, held, stale>>
  BY DEF ReadProvenance, ReadOnly
<1>2. /\ todo[p] # << >>
      /\ plan[p].kind = "update"
      /\ plan[p].asset \in DOMAIN db.asset
      /\ p \notin stale => plan[p] = ResolveRow(db, Row1(p))
  BY <1>1 DEF IInv, ProcsUsable, PlanUsable, PlanFresh, Planned, ReadProvenance
<1>3. db.asset[plan[p].asset] \in Asset
  BY <1>2 DEF IInv, TypeOK, Databases
<1>4. kn \in Knowns
  BY <1>3 DEF Asset, Knowns, NothingKnown, Cells
<1>5. OnlyAt(p)
  BY <1>1, <1>4 DEF OnlyAt, IInv, TypeOK
<1>6. phase'[p] = "half" /\ known'[p] = kn
  BY <1>1 DEF Goto, IInv, TypeOK
<1>7. p \notin Adds /\ p \notin Reviewers
  BY ProcsAssumption DEF ReadProvenance
<1>8. PlanUsable(p)'
  BY <1>1, <1>2, <1>6 DEF PlanUsable
<1>9. PlanFresh(p)'
  BY <1>1, <1>2, <1>6 DEF PlanFresh, Row1
<1>10. AddUsable(p)' /\ ReviewUsable(p)'
  BY <1>7 DEF AddUsable, ReviewUsable
<1> HIDE DEF kn
<1> QED
  BY <1>1, <1>5, <1>8, <1>9, <1>10, ReadStep DEF Phases, ReadPhases

(* Its values, read after that: together they are what is known.           *)
LEMMA ReadValuesStep ==
  ASSUME IInv, NEW p \in Procs, ReadValues(p)
  PROVE  IInv'
<1> DEFINE a  == plan[p].asset
           kn == KnownFrom(known[p].prov, db.asset[a].value)
<1>1. /\ phase[p] = "half" /\ Goto(p, "ready") /\ ReadOnly
      /\ known' = [known EXCEPT ![p] = kn]
      /\ UNCHANGED <<db, todo, plan, held, stale>>
  BY DEF ReadValues, ReadOnly
<1>2. /\ todo[p] # << >>
      /\ plan[p].kind = "update"
      /\ a \in DOMAIN db.asset
      /\ p \notin stale => /\ plan[p] = ResolveRow(db, Row1(p))
                           /\ known[p].prov = db.asset[a].prov
  BY <1>1 DEF IInv, ProcsUsable, PlanUsable, PlanFresh, Planned, ReadValues
<1>3. db.asset[a] \in Asset /\ known[p] \in Knowns
  BY <1>2 DEF IInv, TypeOK, Databases
<1>4. kn \in Knowns
  BY <1>3 DEF Asset, Knowns, KnownFrom, Cells
<1>5. OnlyAt(p)
  BY <1>1, <1>4 DEF OnlyAt, IInv, TypeOK
<1>6. phase'[p] = "ready" /\ known'[p] = kn
  BY <1>1 DEF Goto, IInv, TypeOK
<1>7. p \notin stale => kn = KnownOf(db, a)
  BY <1>2 DEF KnownOf
<1>8. p \notin Adds /\ p \notin Reviewers
  BY ProcsAssumption DEF ReadValues
<1>9. PlanUsable(p)'
  BY <1>1, <1>2, <1>6 DEF PlanUsable
<1>10. PlanFresh(p)'
  BY <1>1, <1>2, <1>6, <1>7 DEF PlanFresh, Row1
<1>11. AddUsable(p)' /\ ReviewUsable(p)'
  BY <1>8 DEF AddUsable, ReviewUsable
<1> HIDE DEF kn
<1> QED
  BY <1>1, <1>5, <1>9, <1>10, <1>11, ReadStep DEF Phases, ReadPhases

(* The first write carries out the plan on the last commit.                *)
LEMMA WriteFirstStep ==
  ASSUME IInv, NEW p \in Procs, WriteFirst(p)
  PROVE  IInv'
<1> DEFINE d == ApplyRow(Kind(p), db, plan[p], Row1(p), known[p], By(p))
<1>1. /\ p \in Ingests /\ phase[p] = "ready" /\ Planned(p)
      /\ lock = NULL /\ lock' = p /\ work' = d
      /\ todo' = [todo EXCEPT ![p] = Tail(@)]
      /\ Goto(p, "txn")
      /\ UNCHANGED <<db, plan, known, held, stale>>
  BY DEF WriteFirst, Ingests, Planned
<1>2. /\ todo[p] # << >>
      /\ Usable(db, plan[p])
      /\ p \notin stale /\ plan[p].kind = "update" => known[p] = KnownOf(db, plan[p].asset)
  BY <1>1 DEF IInv, TypeOK, ProcsUsable, PlanUsable, PlanFresh, Usable
<1>3. Row1(p) \in Row /\ By(p) \in Stamps /\ known[p] \in Knowns /\ db \in Databases
  BY <1>1, <1>2, RowFacts DEF IInv, TypeOK
<1>4. /\ Grows(db, d)
      /\ IF plan[p].kind = "update" THEN Spares(db, d, plan[p].asset, known[p])
         ELSE KeepsCurated(db, d)
  BY <1>2, <1>3, ApplyRowFacts
<1>5. OnlyAt(p)
  BY <1>1, <1>2, RowFacts DEF OnlyAt, IInv, TypeOK
<1>6. Sound(db)
  BY DEF IInv
<1> HIDE DEF d
<1>7. d \in Databases /\ Sound(d) /\ Len(d.asset) >= Len(db.asset)
  BY <1>4, <1>6 DEF Grows
<1>8. ASSUME NEW a \in DOMAIN db.asset, NEW f \in Fields
      PROVE  KeptCurated(db, d, a, f) \/ Overrules(p, a, f)
  <2>1. CASE p \notin stale \/ plan[p].kind # "update"
    <3>1. KeepsCurated(db, d)
      BY <1>2, <1>3, <1>4, <2>1, SparesCurated DEF Usable
    <3> QED
      BY <3>1 DEF KeepsCurated
  <2>2. CASE p \in stale /\ plan[p].kind = "update"
    BY <1>4, <2>2 DEF Spares, KeptCurated, Overrules
  <2> QED
    BY <2>1, <2>2
<1>9. \A a \in DOMAIN db.asset, f \in Fields :
        KeptCurated(db, d, a, f) \/ Overrules(p, a, f)'
  BY <1>1, <1>8 DEF Overrules
<1> QED
  BY <1>1, <1>5, <1>7, <1>9, TxnStep

(* It collides only if the plan was made on a commit that has gone.        *)
LEMMA FirstWriteConflictsStep ==
  ASSUME IInv, NEW p \in Procs, FirstWriteConflicts(p)
  PROVE  IInv'
<1>1. Planned(p) /\ Conflicts(Kind(p), db, plan[p], Row1(p), known[p])
  BY DEF FirstWriteConflicts, Planned
<1>2. todo[p] # << >> /\ (p \notin stale => plan[p] = ResolveRow(db, Row1(p)))
  BY <1>1 DEF IInv, ProcsUsable, PlanUsable, PlanFresh
<1>3. Row1(p) \in Row /\ db \in Databases /\ Sound(db)
  BY <1>2, RowFacts DEF IInv, TypeOK
<1>4. p \in stale
  BY <1>1, <1>2, <1>3, NoConflict
<1>5. Abandon(p, "conflict")
  BY DEF FirstWriteConflicts
<1> QED
  BY <1>4, <1>5, AbandonStep DEF EndPhases

(* A later row never collides, and extends the transaction by what it adds.*)
LEMMA ApplyNextStep ==
  ASSUME IInv, NEW p \in Procs, p \in Ingests, ApplyNext(p)
  PROVE  IInv'
<1> DEFINE pl == ResolveRow(work, Row1(p))
           kn == KnownInTxn(pl)
           d  == ApplyRow(Kind(p), work, pl, Row1(p), kn, By(p))
<1>1. lock = p /\ phase[p] = "txn" /\ todo[p] # << >>
  BY DEF ApplyNext, InTxn
<1>2. /\ Row1(p) \in Row /\ By(p) \in Stamps
      /\ work \in Databases /\ db \in Databases
      /\ Sound(work) /\ Len(work.asset) >= Len(db.asset)
  BY <1>1, RowFacts, ProcsAssumption DEF IInv, TypeOK, WorkExtendsDb, Procs
<1>3. Usable(work, pl)
  BY <1>2, ResolveUsable
<1>4. NothingKnown \in Knowns
  BY DEF NothingKnown, Knowns, Cells
<1>5. kn \in Knowns /\ (pl.kind = "update" => kn = KnownOf(work, pl.asset))
  BY <1>2, <1>3, <1>4, KnownType DEF KnownInTxn, Usable
<1>6. ~Conflicts(Kind(p), work, pl, Row1(p), kn)
  BY <1>2, NoConflict
<1>7. /\ work' = d
      /\ todo' = [todo EXCEPT ![p] = Tail(@)]
      /\ UNCHANGED <<db, lock, phase, plan, known, held, stale>>
  BY <1>6 DEF ApplyNext
<1>8. Grows(work, d) /\ KeepsCurated(work, d)
  BY <1>2, <1>3, <1>5, ApplyRowFacts, SparesCurated DEF Usable
<1> HIDE DEF pl, kn, d
<1>9. d \in Databases /\ Sound(d) /\ Len(d.asset) >= Len(work.asset)
  BY <1>2, <1>8 DEF Grows
<1>10. Len(d.asset) >= Len(db.asset)
  BY <1>2, <1>9 DEF Databases
<1>11. DOMAIN db.asset \subseteq DOMAIN work.asset
  BY <1>2 DEF Databases
<1>12. ASSUME NEW a \in DOMAIN db.asset, NEW f \in Fields
       PROVE  KeptCurated(db, d, a, f) \/ Overrules(p, a, f)'
  <2>1. KeptCurated(db, work, a, f) \/ Overrules(p, a, f)
    BY <1>1 DEF IInv, TxnKeepsCurated
  <2>2. CASE Overrules(p, a, f)
    BY <1>7, <2>2 DEF Overrules
  <2>3. CASE Curated(db, a, f) /\ FieldOf(work, a, f) = FieldOf(db, a, f)
    <3>1. Curated(work, a, f)
      BY <2>3 DEF Curated, FieldOf, IsProtected, HasPrior
    <3> QED
      BY <1>8, <1>11, <2>3, <3>1 DEF KeepsCurated, KeptCurated
  <2> QED
    BY <2>1, <2>2, <2>3 DEF KeptCurated
<1>13. OnlyAt(p)
  BY <1>1, <1>7, RowFacts DEF OnlyAt, IInv, TypeOK
<1>14. Goto(p, "txn")
  BY <1>1, <1>7 DEF Goto, IInv, TypeOK
<1> QED
  BY <1>1, <1>7, <1>9, <1>10, <1>12, <1>13, <1>14, TxnStep

(* A NetBox row whose address is known is passed over.                     *)
LEMMA SkipInTxnStep ==
  ASSUME IInv, NEW p \in Procs, SkipInTxn(p)
  PROVE  IInv'
<1>1. /\ p \in Ingests /\ lock = p /\ phase[p] = "txn" /\ todo[p] # << >>
      /\ todo' = [todo EXCEPT ![p] = Tail(@)]
      /\ UNCHANGED <<db, work, lock, phase, plan, known, held, stale>>
  BY DEF SkipInTxn, InTxn, Ingests
<1>2. /\ work \in Databases /\ Sound(work) /\ Len(work.asset) >= Len(db.asset)
      /\ \A a \in DOMAIN db.asset, f \in Fields :
           KeptCurated(db, work, a, f) \/ Overrules(p, a, f)
  BY <1>1, ProcsAssumption DEF IInv, TypeOK, WorkExtendsDb, TxnKeepsCurated, Procs
<1>3. OnlyAt(p) /\ Goto(p, "txn")
  BY <1>1, RowFacts DEF OnlyAt, Goto, IInv, TypeOK
<1>4. \A a \in DOMAIN db.asset, f \in Fields :
        KeptCurated(db, work, a, f) \/ Overrules(p, a, f)'
  BY <1>1, <1>2 DEF Overrules
<1> QED
  BY <1>1, <1>2, <1>3, <1>4, TxnStep

(* What a batch commits is what its transaction has become.                *)
LEMMA CommitBatchStep ==
  ASSUME IInv, NEW p \in Procs, CommitBatch(p)
  PROVE  IInv'
<1> DEFINE d == Finished(p, work)
<1>1. lock = p /\ Commit(p, d) /\ Goto(p, "done") /\ UNCHANGED <<todo, plan, known, held>>
  BY DEF CommitBatch, InTxn
<1>2. work \in Databases /\ Sound(work) /\ Len(work.asset) >= Len(db.asset)
  BY <1>1, ProcsAssumption DEF IInv, TypeOK, WorkExtendsDb
<1>3. d \in Databases /\ Sound(d) /\ d.asset = work.asset
  BY <1>2 DEF Finished, Databases, Sound
<1>4. OnlyAt(p)
  BY <1>1 DEF OnlyAt, IInv, TypeOK
<1> HIDE DEF d
<1> QED
  BY <1>1, <1>2, <1>3, <1>4, CommitStep

(* A run without rows ends; only a scan writes that down.                  *)
LEMMA FinishEmptyStep ==
  ASSUME IInv, NEW p \in Procs, FinishEmpty(p)
  PROVE  IInv'
<1>1. /\ Goto(p, "done") /\ UNCHANGED <<todo, plan, known, held>>
      /\ phase[p] # "txn" /\ phase'[p] = "done"
  BY DEF FinishEmpty, Goto, IInv, TypeOK
<1>2. OnlyAt(p)
  BY <1>1 DEF OnlyAt, IInv, TypeOK
<1>3. CASE p \in Scans
  <2> DEFINE d == Finished(p, db)
  <2>1. d \in Databases /\ Sound(d) /\ d.asset = db.asset
    BY DEF IInv, TypeOK, Finished, Databases, Sound
  <2>2. Commit(p, d) /\ Len(d.asset) >= Len(db.asset)
    BY <1>3, <2>1 DEF FinishEmpty, Databases
  <2> HIDE DEF d
  <2> QED
    BY <1>1, <1>2, <2>1, <2>2, CommitStep
<1>4. CASE p \notin Scans
  <2>1. ReadOnly /\ UNCHANGED stale
    BY <1>4 DEF FinishEmpty
  <2>2. PlanUsable(p)' /\ PlanFresh(p)' /\ AddUsable(p)' /\ ReviewUsable(p)'
    BY <1>1 DEF PlanUsable, PlanFresh, AddUsable, ReviewUsable, Planned
  <2> QED
    BY <1>1, <1>2, <2>1, <2>2, ReadStep DEF Phases, EndPhases
<1> QED
  BY <1>3, <1>4

(* The Lansweeper import pins the commit it reads first.                   *)
LEMMA PinSnapshotStep ==
  ASSUME IInv, NEW p \in Procs, PinSnapshot(p)
  PROVE  IInv'
<1>1. OnlyAt(p)
  BY DEF PinSnapshot, OnlyAt, IInv, TypeOK
<1>2. phase'[p] = "pinned"
  BY DEF PinSnapshot, Goto, IInv, TypeOK
<1>3. PlanUsable(p)' /\ PlanFresh(p)' /\ AddUsable(p)' /\ ReviewUsable(p)'
  BY <1>2 DEF PlanUsable, PlanFresh, AddUsable, ReviewUsable, Planned
<1> QED
  BY <1>1, <1>3, ReadStep DEF PinSnapshot, FreshRead, Phases, ReadPhases

(* The transaction starts as a copy of the last commit.                    *)
LEMMA UpgradeSnapshotStep ==
  ASSUME IInv, NEW p \in Procs, UpgradeSnapshot(p)
  PROVE  IInv'
<1>1. /\ p \in Ingests /\ lock = NULL /\ lock' = p /\ work' = db /\ Goto(p, "txn")
      /\ UNCHANGED <<db, todo, plan, known, held, stale>>
  BY DEF UpgradeSnapshot, Ingests
<1>2. db \in Databases /\ Sound(db) /\ Len(db.asset) >= Len(db.asset)
  BY DEF IInv, TypeOK, Databases
<1>3. OnlyAt(p)
  BY <1>1 DEF OnlyAt, IInv, TypeOK
<1>4. \A a \in DOMAIN db.asset, f \in Fields : KeptCurated(db, db, a, f)
  BY DEF KeptCurated
<1> QED
  BY <1>1, <1>2, <1>3, <1>4, TxnStep

(* A row that finds the database locked is passed over.                    *)
LEMMA SkipLockedStep ==
  ASSUME IInv, NEW p \in Procs, SkipLocked(p)
  PROVE  IInv'
<1>1. OnlyAt(p)
  BY RowFacts DEF SkipLocked, OnlyAt, IInv, TypeOK
<1>2. phase' = phase /\ phase[p] = "pinned" /\ Goto(p, "pinned")
  BY DEF SkipLocked, Goto, IInv, TypeOK
<1>3. PlanUsable(p)' /\ PlanFresh(p)' /\ AddUsable(p)' /\ ReviewUsable(p)'
  BY <1>2 DEF PlanUsable, PlanFresh, AddUsable, ReviewUsable, Planned
<1> QED
  BY <1>1, <1>2, <1>3, ReadStep DEF SkipLocked, Phases, ReadPhases

(* A dry run gives its transaction up.                                     *)
LEMMA DryRunStep ==
  ASSUME IInv, NEW p \in Procs, DryRun(p)
  PROVE  IInv'
BY AbandonStep DEF DryRun, EndPhases

(* `add` looks its identity up before it inserts.                          *)
LEMMA CheckAddStep ==
  ASSUME IInv, NEW p \in Procs, CheckAdd(p)
  PROVE  IInv'
<1>1. PICK row \in AddRows : todo' = [todo EXCEPT ![p] = <<row>>]
  BY DEF CheckAdd
<1>2. PICK ph \in {"forced", "refused", "ready"} : Goto(p, ph)
  BY DEF CheckAdd
<1>3. /\ p \in Adds /\ phase[p] = "idle"
      /\ FreshRead(p) /\ UNCHANGED <<plan, known, held>>
  BY DEF CheckAdd
<1>4. <<row>> \in Seq(Row) /\ <<row>> # << >>
  BY BatchesAssumption
<1>5. OnlyAt(p) /\ todo'[p] # << >>
  BY <1>1, <1>3, <1>4 DEF OnlyAt, IInv, TypeOK
<1>6. p \notin Scans \cup Netboxes /\ p \notin Reviewers
  BY <1>3, ProcsAssumption
<1>7. PlanUsable(p)' /\ PlanFresh(p)' /\ AddUsable(p)' /\ ReviewUsable(p)'
  BY <1>5, <1>6 DEF PlanUsable, PlanFresh, AddUsable, ReviewUsable, Planned
<1>8. ph \in Phases \ {"txn"} /\ ph # "conflict"
  BY <1>2 DEF Phases, ReadPhases, EndPhases
<1> QED
  BY <1>2, <1>3, <1>5, <1>7, <1>8, ReadStep DEF FreshRead

(* The asset it inserts is new, with or without its address.               *)
LEMMA AddAcceptedStep ==
  ASSUME IInv, NEW p \in Procs, AddAccepted(p)
  PROVE  IInv'
<1> DEFINE row   == Row1(p)
           cells == IF AddressTaken(db, 0, row.value["primary_ip"])
                    THEN WithoutAddress(row.value) ELSE row.value
           added == AddAsset(db, cells, "manual")
           d     == InsertManual(db, cells, row.mac)
<1>1. Commit(p, d) /\ Goto(p, "done") /\ UNCHANGED <<todo, plan, known, held>>
  BY DEF AddAccepted
<1>2. todo[p] # << >>
  BY DEF AddAccepted, IInv, ProcsUsable, AddUsable
<1>3. row \in Row /\ db \in Databases /\ Sound(db)
  BY <1>2, RowFacts DEF IInv, TypeOK
<1>4. row.value \in Cells /\ row.mac \in Macs \cup {NULL}
  BY <1>3 DEF Row
<1> HIDE DEF row
<1>5. cells \in Cells /\ "manual" \in Provenances
  BY <1>4 DEF WithoutAddress, Cells, Provenances
<1> HIDE DEF cells
<1>6. added \in Databases /\ Sound(added) /\ Len(added.asset) = Len(db.asset) + 1
  BY <1>3, <1>5, AddAssetType
<1>7. Len(db.asset) \in Nat /\ NextId(db) \in DOMAIN added.asset
  BY <1>3, <1>6 DEF Databases, NextId
<1>8. d \in Databases /\ Sound(d) /\ d.asset = added.asset
  <2>1. CASE row.mac = NULL
    BY <1>6, <2>1 DEF InsertManual
  <2>2. CASE row.mac # NULL
    <3>1. d = Bind(added, NextId(db), row.mac)
      BY <2>2 DEF InsertManual
    <3> QED
      BY <1>4, <1>6, <1>7, <2>2, <3>1, BindType
  <2> QED
    BY <2>1, <2>2
<1>9. OnlyAt(p)
  BY <1>1 DEF OnlyAt, IInv, TypeOK
<1>10. Len(d.asset) >= Len(db.asset)
  BY <1>6, <1>7, <1>8
<1> HIDE DEF d
<1> QED
  BY <1>1, <1>8, <1>9, <1>10, CommitStep

(* A collision ends the command.                                           *)
LEMMA AddConflictsStep ==
  ASSUME IInv, NEW p \in Procs, AddConflicts(p)
  PROVE  IInv'
<1>1. p \notin Ingests
  BY ProcsAssumption DEF AddConflicts, Ingests
<1> QED
  BY <1>1, AbandonStep DEF AddConflicts, EndPhases

(* A reviewer reads an open proposal, which is about an asset that exists. *)
LEMMA ReadProposalStep ==
  ASSUME IInv, NEW p \in Procs, ReadProposal(p)
  PROVE  IInv'
<1>1. PICK q \in db.proposals : held' = [held EXCEPT ![p] = q]
  BY DEF ReadProposal
<1>2. /\ p \in Reviewers /\ phase[p] = "idle" /\ Goto(p, "ready")
      /\ FreshRead(p) /\ UNCHANGED <<db, todo, plan, known>>
  BY DEF ReadProposal, FreshRead, ReadOnly
<1>3. q \in ProposalRow /\ q.asset \in DOMAIN db.asset
  BY DEF IInv, TypeOK, Databases, Sound
<1>4. OnlyAt(p) /\ held'[p] = q
  BY <1>1, <1>2, <1>3 DEF OnlyAt, IInv, TypeOK
<1>5. p \notin Scans \cup Netboxes /\ p \notin Adds
  BY <1>2, ProcsAssumption
<1>6. PlanUsable(p)' /\ PlanFresh(p)' /\ AddUsable(p)'
  BY <1>5 DEF PlanUsable, PlanFresh, AddUsable, Planned
<1>7. ReviewUsable(p)'
  BY <1>2, <1>3, <1>4 DEF ReviewUsable
<1> QED
  BY <1>2, <1>4, <1>6, <1>7, ReadStep DEF FreshRead, Phases, ReadPhases

(* What a reviewer holds while deciding.                                   *)
LEMMA HeldFacts ==
  ASSUME IInv, NEW r \in Procs, Reviewing(r)
  PROVE  /\ r \in Reviewers /\ phase[r] = "ready"
         /\ held[r] \in ProposalRow
         /\ held[r].asset \in DOMAIN db.asset
         /\ db \in Databases /\ Sound(db)
BY DEF Reviewing, IInv, TypeOK, ProcsUsable, ReviewUsable

(* Writing a proposal's field changes that field and nothing else.         *)
LEMMA WriteFieldFacts ==
  ASSUME NEW d \in Databases, NEW q \in ProposalRow, q.asset \in DOMAIN d.asset,
         NEW v \in Values \cup {NULL}, NEW prov \in Provenances
  PROVE  LET e == WriteField(d, q, v, prov)
         IN  /\ e \in Databases
             /\ Len(e.asset) = Len(d.asset)
             /\ Sound(d) => Sound(e)
<1>1. {q.field} \in SUBSET Fields /\ [f \in Fields |-> v] \in Cells
  BY DEF ProposalRow, Cells
<1> QED
  BY <1>1, SetFieldsType DEF WriteField

SameAssets(d, e) ==
  e \in Databases /\ e.asset = d.asset /\ (Sound(d) => Sound(e))

(* Closing a proposal, guarded or not, replaces a row by one of its kind.  *)
LEMMA CloseFacts ==
  ASSUME NEW d \in Databases, NEW q \in ProposalRow, q.asset \in DOMAIN d.asset,
         NEW res \in Resolutions
  PROVE  SameAssets(d, CloseIfOpen(d, q, res)) /\ SameAssets(d, CloseAlways(d, q, res))
<1> DEFINE x == [q EXCEPT !.resolution = res]
<1>1. x \in ProposalRow /\ x.asset = q.asset
  BY DEF ProposalRow
<1>2. CloseIfOpen(d, q, res) =
        IF q \in d.proposals THEN [d EXCEPT !.proposals = (d.proposals \ {q}) \cup {x}]
        ELSE d
  BY DEF CloseIfOpen
<1>3. CloseAlways(d, q, res) =
        [d EXCEPT !.proposals =
           {y \in d.proposals : ~(y.by = q.by /\ y.field = q.field)} \cup {x}]
  BY DEF CloseAlways
<1> HIDE DEF x
<1>4. ASSUME NEW ps \in SUBSET d.proposals
      PROVE  SameAssets(d, [d EXCEPT !.proposals = ps \cup {x}])
  BY <1>1 DEF SameAssets, Databases, Sound
<1>5. CloseIfOpen(d, q, res) = d \/
      \E ps \in SUBSET d.proposals :
        CloseIfOpen(d, q, res) = [d EXCEPT !.proposals = ps \cup {x}]
  BY <1>2
<1>6. \E ps \in SUBSET d.proposals :
        CloseAlways(d, q, res) = [d EXCEPT !.proposals = ps \cup {x}]
  BY <1>3
<1>7. SameAssets(d, d)
  BY DEF SameAssets
<1> QED
  BY <1>4, <1>5, <1>6, <1>7

(* A disposition: the reviewer's commit, on a database no smaller.         *)
LEMMA DisposeStep ==
  ASSUME IInv, NEW r \in Procs, Reviewing(r), NEW e \in Databases, Sound(e),
         Len(e.asset) = Len(db.asset), NEW kind \in EntryKinds,
         Dispose(r, Disposed(r, e, kind))
  PROVE  IInv'
<1> DEFINE q  == held[r]
           es == {Entry(q.asset, kind, <<r, q>>)}
           d  == Log(e, es)
<1>1. r \in Reviewers /\ q \in ProposalRow
  BY HeldFacts
<1>2. es \in SUBSET Entries
  BY <1>1 DEF Entry, Entries, ProposalRow
<1> HIDE DEF es
<1>3. d \in Databases /\ d.asset = e.asset /\ Sound(d)
  BY <1>2, LogType
<1>4. Len(d.asset) >= Len(db.asset)
  BY <1>3 DEF Databases
<1>5. OnlyAt(r)
  BY DEF Dispose, OnlyAt, IInv, TypeOK
<1>6. Commit(r, d) /\ Goto(r, "idle")
  BY DEF Dispose, Disposed, es
<1> HIDE DEF d
<1> QED
  BY <1>3, <1>4, <1>5, <1>6, CommitStep

(* Accepting writes the proposed value.                                    *)
LEMMA AcceptStep ==
  ASSUME IInv, NEW r \in Procs, Accept(r)
  PROVE  IInv'
<1> DEFINE q == held[r]
           w == WriteField(db, q, q.proposed, "scanned")
           e == CloseIfOpen(w, q, "accepted")
<1>1. Reviewing(r) /\ Dispose(r, Disposed(r, e, "accepted"))
  BY DEF Accept
<1>2. /\ q \in ProposalRow /\ q.asset \in DOMAIN db.asset
      /\ db \in Databases /\ Sound(db)
      /\ q.proposed \in Values
  BY <1>1, HeldFacts DEF ProposalRow
<1>3. w \in Databases /\ Len(w.asset) = Len(db.asset) /\ Sound(w)
  BY <1>2, WriteFieldFacts DEF Provenances
<1>4. q.asset \in DOMAIN w.asset
  BY <1>2, <1>3 DEF Databases
<1> HIDE DEF w
<1>5. e \in Databases /\ e.asset = w.asset /\ Sound(e)
  BY <1>2, <1>3, <1>4, CloseFacts DEF Resolutions, SameAssets
<1> HIDE DEF e
<1> QED
  BY <1>1, <1>3, <1>5, DisposeStep DEF EntryKinds

(* Rejecting writes none.                                                  *)
LEMMA RejectStep ==
  ASSUME IInv, NEW r \in Procs, Reject(r)
  PROVE  IInv'
<1> DEFINE q == held[r]
           e == CloseIfOpen(db, q, "rejected")
<1>1. Reviewing(r) /\ Dispose(r, Disposed(r, e, "rejected"))
  BY DEF Reject
<1>2. /\ q \in ProposalRow /\ q.asset \in DOMAIN db.asset
      /\ db \in Databases /\ Sound(db)
  BY <1>1, HeldFacts
<1>3. e \in Databases /\ e.asset = db.asset /\ Sound(e)
  BY <1>2, CloseFacts DEF Resolutions, SameAssets
<1> HIDE DEF e
<1> QED
  BY <1>1, <1>3, DisposeStep DEF EntryKinds

(* Editing writes a third one.                                             *)
LEMMA EditOverrideStep ==
  ASSUME IInv, NEW r \in Procs, NEW v \in Overrides, EditOverride(r, v)
  PROVE  IInv'
<1> DEFINE q == held[r]
           w == WriteField(db, q, v, "manual")
           e == CloseAlways(w, q, "edited")
<1>1. Reviewing(r) /\ Dispose(r, Disposed(r, e, "edited"))
  BY DEF EditOverride
<1>2. /\ q \in ProposalRow /\ q.asset \in DOMAIN db.asset
      /\ db \in Databases /\ Sound(db)
      /\ v \in Values \cup {NULL}
  BY <1>1, HeldFacts, BatchesAssumption
<1>3. w \in Databases /\ Len(w.asset) = Len(db.asset) /\ Sound(w)
  BY <1>2, WriteFieldFacts DEF Provenances
<1>4. q.asset \in DOMAIN w.asset
  BY <1>2, <1>3 DEF Databases
<1> HIDE DEF w
<1>5. e \in Databases /\ e.asset = w.asset /\ Sound(e)
  BY <1>2, <1>3, <1>4, CloseFacts DEF Resolutions, SameAssets
<1> HIDE DEF e
<1> QED
  BY <1>1, <1>3, <1>5, DisposeStep DEF EntryKinds

(* A reviewer whose command fails holds nothing any more.                  *)
LEMMA LetGoStep ==
  ASSUME IInv, NEW r \in Procs, r \in Reviewers, phase[r] = "ready", Goto(r, "idle"),
         held' = [held EXCEPT ![r] = NoProposal],
         UNCHANGED <<db, work, lock, todo, plan, known, stale>>
  PROVE  IInv'
<1>1. OnlyAt(r)
  BY DEF OnlyAt, IInv, TypeOK
<1>2. phase'[r] = "idle"
  BY DEF Goto, IInv, TypeOK
<1>3. PlanUsable(r)' /\ PlanFresh(r)' /\ AddUsable(r)' /\ ReviewUsable(r)'
  BY <1>2 DEF PlanUsable, PlanFresh, AddUsable, ReviewUsable, Planned
<1> QED
  BY <1>1, <1>3, ReadStep DEF ReadOnly, Phases

(* The write a disposition would make collides.                            *)
LEMMA DispositionFailsStep ==
  ASSUME IInv, NEW r \in Procs, DispositionFails(r)
  PROVE  IInv'
BY LetGoStep DEF DispositionFails, Reviewing, ReadOnly

(* The lock does not come free in time.                                    *)
LEMMA BusyTimeoutStep ==
  ASSUME IInv, NEW p \in Procs, BusyTimeout(p)
  PROVE  IInv'
<1>1. CASE p \in Reviewers
  <2>1. p \notin Scans
    BY <1>1, ProcsAssumption
  <2>2. phase[p] \in {"ready", "forced"}
    BY <2>1 DEF BusyTimeout, NeedsLock
  <2>3. CASE phase[p] = "ready"
    BY <1>1, <2>3, LetGoStep DEF BusyTimeout
  <2>4. CASE phase[p] = "forced"
    <3>1. OnlyAt(p)
      BY <1>1 DEF BusyTimeout, OnlyAt, IInv, TypeOK
    <3>2. phase'[p] = "idle" /\ Goto(p, "idle")
      BY <1>1 DEF BusyTimeout, Goto, IInv, TypeOK
    <3>3. PlanUsable(p)' /\ PlanFresh(p)' /\ AddUsable(p)' /\ ReviewUsable(p)'
      BY <3>2 DEF PlanUsable, PlanFresh, AddUsable, ReviewUsable, Planned
    <3> QED
      BY <1>1, <2>4, <3>1, <3>2, <3>3, ReadStep DEF BusyTimeout, ReadOnly, Phases
  <2> QED
    BY <2>2, <2>3, <2>4
<1>2. CASE p \notin Reviewers
  <2>1. Abandon(p, "busy")
    BY <1>2 DEF BusyTimeout
  <2> QED
    BY <2>1, AbandonStep DEF EndPhases
<1> QED
  BY <1>1, <1>2

(* A process dies.                                                         *)
LEMMA CrashStep ==
  ASSUME IInv, NEW p \in Procs, Crash(p)
  PROVE  IInv'
BY AbandonStep DEF Crash, EndPhases

-----------------------------------------------------------------------------
(* IInv is inductive.                                                      *)
LEMMA NextIInv == IInv /\ [Next]_vars => IInv'
<1> SUFFICES ASSUME IInv, [Next]_vars PROVE IInv'
  OBVIOUS
<1>1. CASE UNCHANGED vars
  BY <1>1 DEF vars, IInv, TypeOK, LockHeldInTxn, WorkExtendsDb, ProcsUsable,
     PlanUsable, PlanFresh, AddUsable, ReviewUsable, Planned, Row1,
     TxnKeepsCurated, Overrules, ConflictOnlyByRace
<1>2. CASE Next
  <2>1. PICK p \in Procs : Ingesting(p) \/ Adding(p) \/ ReadProposal(p)
                             \/ Disposing(p) \/ BusyTimeout(p) \/ Crash(p)
    BY <1>2 DEF Next
  <2>2. CASE Ingesting(p)
    <3>1. ApplyNext(p) => p \in Ingests
      BY ProcsAssumption DEF ApplyNext, InTxn, IInv, TypeOK, Procs
    <3> QED
      BY <2>2, <3>1, StartScanStep, StartImportStep, CheckAddressStep, ResolveFirstStep,
         ReadProvenanceStep, ReadValuesStep, WriteFirstStep, FirstWriteConflictsStep,
         ApplyNextStep, SkipInTxnStep, CommitBatchStep, FinishEmptyStep,
         PinSnapshotStep, UpgradeSnapshotStep, SkipLockedStep, DryRunStep DEF Ingesting
  <2>3. CASE Adding(p)
    BY <2>3, CheckAddStep, AddAcceptedStep, AddConflictsStep DEF Adding
  <2>4. CASE Disposing(p)
    BY <2>4, AcceptStep, RejectStep, EditOverrideStep, DispositionFailsStep DEF Disposing
  <2> QED
    BY <2>1, <2>2, <2>3, <2>4, ReadProposalStep, BusyTimeoutStep, CrashStep
<1> QED
  BY <1>1, <1>2

(* In every reachable state the invariant holds: every plan made on the    *)
(* last commit is still the right one.                                     *)
THEOREM Invariance == Spec => []IInv
BY InitIInv, NextIInv, PTL DEF Spec

(* The tables keep their shape and every foreign key points somewhere,     *)
(* whatever commands run, fail and crash.                                  *)
THEOREM TypeCorrect == Spec => []TypeOK
BY Invariance, PTL DEF IInv

(* db/writer.py, db/import_common.py: no batch is rolled back by a UNIQUE  *)
(* constraint unless another command committed between its first read and  *)
(* its first write.  The resolver's answers are collision free because     *)
(* every shared signal scores above the floor (SharedSignalScores).        *)
THEOREM NoConflictWithoutRace == Spec => []ConflictOnlyByRace
BY Invariance, PTL DEF IInv

(* core/provenance.py, "scanner proposes, human disposes": over any number *)
(* of rows, a transaction leaves each manual or imported value of the      *)
(* commit it starts from, and its provenance, as it found them, but for    *)
(* what the first row of an overtaken ingest had read before it was that.  *)
THEOREM CuratedInTxn == Spec => []TxnKeepsCurated
BY Invariance, PTL DEF IInv

-----------------------------------------------------------------------------
(* What rows add to a database: every MAC that has an asset keeps it, and  *)
(* every new row of the other tables carries one of the given stamps, and  *)
(* no new entry is an answer.                                              *)
KeepsOwners(d, e) == \A m \in Macs : d.owner[m] # 0 => e.owner[m] = d.owner[m]

AddsRows(stamps, old, new) ==
  old \subseteq new /\ \A x \in new \ old : x.by \in stamps

Extends(stamps, d, e) ==
  /\ KeepsOwners(d, e)
  /\ AddsRows(stamps, d.proposals, e.proposals)
  /\ AddsRows(stamps, d.review, e.review)
  /\ AddsRows(stamps, d.timeline, e.timeline)
  /\ \A x \in e.timeline \ d.timeline : x.kind \notin Resolutions
  /\ e.finished = d.finished

(* Adding twice is adding.                                                 *)
LEMMA ExtendsAgain ==
  ASSUME NEW stamps, NEW d, NEW e, NEW g,
         Extends(stamps, d, e), Extends(stamps, e, g)
  PROVE  Extends(stamps, d, g)
BY DEF Extends, KeepsOwners, AddsRows

(* Writes to the asset table alone.                                        *)
LEMMA AssetsOnly ==
  ASSUME NEW d \in Databases, NEW stamps, NEW x
  PROVE  LET e == [d EXCEPT !.asset = x]
         IN  /\ Extends(stamps, d, e)
             /\ e.owner = d.owner
             /\ e.proposals = d.proposals
             /\ e.timeline = d.timeline
BY DEF Extends, KeepsOwners, AddsRows, Databases

(* An inserted asset adds no row to the other tables.                      *)
LEMMA AddAssetExtends ==
  ASSUME NEW d \in Databases, NEW cells, NEW prov, NEW stamps
  PROVE  LET e == AddAsset(d, cells, prov)
         IN  Extends(stamps, d, e) /\ e.owner = d.owner /\ e.proposals = d.proposals
<1>1. PICK x : AddAsset(d, cells, prov) = [d EXCEPT !.asset = x]
  BY DEF AddAsset
<1> QED
  BY <1>1, AssetsOnly

(* Nor do values written to one.                                           *)
LEMMA SetFieldsExtends ==
  ASSUME NEW d \in Databases, NEW a, NEW fs, NEW cells, NEW prov, NEW stamps
  PROVE  LET e == SetFields(d, a, fs, cells, prov)
         IN  /\ Extends(stamps, d, e)
             /\ e.owner = d.owner /\ e.proposals = d.proposals
             /\ e.timeline = d.timeline
<1>1. PICK x : SetFields(d, a, fs, cells, prov) = [d EXCEPT !.asset = x]
  BY DEF SetFields
<1> QED
  BY <1>1, AssetsOnly

(* A MAC is bound only if it is free or bound there already.               *)
LEMMA BindExtends ==
  ASSUME NEW d \in Databases, NEW a, NEW m \in Macs, d.owner[m] \in {0, a}, NEW stamps
  PROVE  Extends(stamps, d, Bind(d, a, m)) /\ Bind(d, a, m).proposals = d.proposals
BY DEF Bind, Extends, KeepsOwners, AddsRows, Databases

(* Entries are added under their stamps.                                   *)
LEMMA LogExtends ==
  ASSUME NEW d \in Databases, NEW es, NEW stamps,
         \A x \in es : x.by \in stamps /\ x.kind \notin Resolutions
  PROVE  /\ Extends(stamps, d, Log(d, es))
         /\ Log(d, es).proposals = d.proposals
         /\ Log(d, es).timeline = d.timeline \cup es
BY DEF Log, Extends, KeepsOwners, AddsRows, Databases

(* A MAC found elsewhere is left there and two entries say so.             *)
LEMMA BindMacExtends ==
  ASSUME NEW d \in Databases, NEW a, NEW m \in Macs \cup {NULL},
         NEW stamps, NEW by \in stamps
  PROVE  /\ Extends(stamps, d, BindMac(d, a, m, by))
         /\ BindMac(d, a, m, by).proposals = d.proposals
<1>1. CASE m = NULL
  BY <1>1 DEF BindMac, Extends, KeepsOwners, AddsRows
<1>2. CASE m # NULL /\ d.owner[m] \in {0, a}
  BY <1>2, BindExtends DEF BindMac
<1>3. CASE m # NULL /\ d.owner[m] \notin {0, a}
  <2> DEFINE es == {Entry(d.owner[m], "collision", by), Entry(a, "collision", by)}
  <2>1. \A x \in es : x.by \in stamps /\ x.kind \notin Resolutions
    BY DEF Entry, Resolutions
  <2>2. BindMac(d, a, m, by) = Log(d, es)
    BY <1>3 DEF BindMac
  <2> HIDE DEF es
  <2> QED
    BY <2>1, <2>2, LogExtends
<1> QED
  BY <1>1, <1>2, <1>3

(* The questions an update asks.                                           *)
Asked(a, kn, row, by) == {Proposal(a, f, kn, row, by) : f \in Proposed(kn, row.value)}

(* They are added to the questions there are.                              *)
LEMMA ProposeAsks ==
  ASSUME NEW d \in Databases, NEW a, NEW kn, NEW row, NEW by
  PROVE  Propose(d, a, kn, row, by).proposals = d.proposals \cup Asked(a, kn, row, by)
<1> DEFINE qs == Asked(a, kn, row, by)
<1>1. Propose(d, a, kn, row, by) = [d EXCEPT !.proposals = d.proposals \cup qs]
  BY DEF Propose, Asked
<1> HIDE DEF qs
<1>2. [d EXCEPT !.proposals = d.proposals \cup qs].proposals = d.proposals \cup qs
  BY DEF Databases
<1> QED
  BY <1>1, <1>2 DEF qs

(* Under the stamp of the row that asks them.                              *)
LEMMA ProposeExtends ==
  ASSUME NEW d \in Databases, NEW a, NEW kn, NEW row, NEW stamps, NEW by \in stamps
  PROVE  Extends(stamps, d, Propose(d, a, kn, row, by))
<1> DEFINE qs == Asked(a, kn, row, by)
<1>1. \A q \in qs : q.by = by
  BY DEF Proposal, Asked
<1>2. Propose(d, a, kn, row, by) = [d EXCEPT !.proposals = d.proposals \cup qs]
  BY DEF Propose, Asked
<1> HIDE DEF qs
<1>3. Extends(stamps, d, [d EXCEPT !.proposals = d.proposals \cup qs])
  BY <1>1 DEF Extends, KeepsOwners, AddsRows, Databases
<1> QED
  BY <1>2, <1>3

(* An asset a scan inserts adds rows and changes none.                     *)
LEMMA ScanInsertExtends ==
  ASSUME NEW d \in Databases, NEW row \in Row, NEW by \in Stamps,
         NEW stamps, by \in stamps
  PROVE  /\ Extends(stamps, d, ScanInsert(d, row, by))
         /\ ScanInsert(d, row, by).proposals = d.proposals
         /\ \A b \in DOMAIN d.asset : ScanInsert(d, row, by).asset[b] = d.asset[b]
<1> DEFINE a     == NextId(d)
           added == AddAsset(d, row.value, "scanned")
           bound == BindMac(added, a, row.mac, by)
           es    == {Entry(a, "discovered", by)} \cup Ports(row, a, by)
<1>1. row.value \in Cells /\ row.mac \in Macs \cup {NULL} /\ "scanned" \in Provenances
  BY DEF Row, Provenances
<1>2. /\ added \in Databases
      /\ Len(added.asset) = Len(d.asset) + 1
      /\ \A b \in DOMAIN d.asset : added.asset[b] = d.asset[b]
      /\ Extends(stamps, d, added) /\ added.proposals = d.proposals
  BY <1>1, AddAssetType, AddAssetExtends
<1>3. Len(d.asset) \in Nat /\ a \in DOMAIN added.asset
  BY <1>2 DEF Databases, NextId
<1>4. /\ bound \in Databases /\ bound.asset = added.asset
      /\ Extends(stamps, added, bound) /\ bound.proposals = added.proposals
  BY <1>1, <1>2, <1>3, BindMacType, BindMacExtends
<1>5. \A x \in es : x.by \in stamps /\ x.kind \notin Resolutions
  BY DEF Entry, Ports, Resolutions
<1>6. ScanInsert(d, row, by) = Log(bound, es)
  BY DEF ScanInsert
<1> HIDE DEF a, added, bound, es
<1>7. /\ Extends(stamps, bound, Log(bound, es))
      /\ Log(bound, es).proposals = bound.proposals
      /\ Log(bound, es).asset = bound.asset
  BY <1>4, <1>5, LogExtends DEF Log, Databases
<1>8. Extends(stamps, d, bound)
  BY <1>2, <1>4, ExtendsAgain
<1>9. Extends(stamps, d, Log(bound, es))
  BY <1>7, <1>8, ExtendsAgain
<1> QED
  BY <1>2, <1>4, <1>6, <1>7, <1>9

(* So does one an import inserts, its MAC being free.                      *)
LEMMA ImportInsertExtends ==
  ASSUME NEW d \in Databases, NEW row \in Row, NEW by \in Stamps,
         NEW stamps, by \in stamps, ~MacTaken(d, row.mac)
  PROVE  /\ Extends(stamps, d, ImportInsert(d, row, by))
         /\ ImportInsert(d, row, by).proposals = d.proposals
         /\ \A b \in DOMAIN d.asset : ImportInsert(d, row, by).asset[b] = d.asset[b]
<1> DEFINE a     == NextId(d)
           added == AddAsset(d, row.value, "imported")
           bound == IF row.mac = NULL THEN added ELSE Bind(added, a, row.mac)
           es    == {Entry(a, "import", by)}
<1>1. row.value \in Cells /\ row.mac \in Macs \cup {NULL} /\ "imported" \in Provenances
  BY DEF Row, Provenances
<1>2. /\ added \in Databases
      /\ Len(added.asset) = Len(d.asset) + 1
      /\ \A b \in DOMAIN d.asset : added.asset[b] = d.asset[b]
      /\ Extends(stamps, d, added) /\ added.proposals = d.proposals
      /\ added.owner = d.owner
  <2>1. /\ added \in Databases
        /\ Len(added.asset) = Len(d.asset) + 1
        /\ \A b \in DOMAIN d.asset : added.asset[b] = d.asset[b]
    BY <1>1, AddAssetType
  <2>2. /\ Extends(stamps, d, added) /\ added.proposals = d.proposals
        /\ added.owner = d.owner
    BY AddAssetExtends
  <2> QED
    BY <2>1, <2>2
<1>3. Len(d.asset) \in Nat /\ a \in DOMAIN added.asset
  BY <1>2 DEF Databases, NextId
<1>4. /\ bound \in Databases /\ bound.asset = added.asset
      /\ Extends(stamps, added, bound) /\ bound.proposals = added.proposals
  <2>1. CASE row.mac = NULL
    BY <1>2, <2>1 DEF Extends, KeepsOwners, AddsRows
  <2>2. CASE row.mac # NULL
    <3>1. bound = Bind(added, a, row.mac) /\ row.mac \in Macs
      BY <1>1, <2>2
    <3>2. added.owner[row.mac] \in {0, a}
      BY <1>2, <2>2 DEF MacTaken
    <3> HIDE DEF a, added, bound
    <3> QED
      BY <1>2, <1>3, <3>1, <3>2, BindType, BindExtends
  <2> QED
    BY <2>1, <2>2
<1>5. \A x \in es : x.by \in stamps /\ x.kind \notin Resolutions
  BY DEF Entry, Resolutions
<1>6. ImportInsert(d, row, by) = Log(bound, es)
  BY DEF ImportInsert
<1> HIDE DEF a, added, bound, es
<1>7. /\ Extends(stamps, bound, Log(bound, es))
      /\ Log(bound, es).proposals = bound.proposals
      /\ Log(bound, es).asset = bound.asset
  BY <1>4, <1>5, LogExtends DEF Log, Databases
<1>8. Extends(stamps, d, bound)
  BY <1>2, <1>4, ExtendsAgain
<1>9. Extends(stamps, d, Log(bound, es))
  BY <1>7, <1>8, ExtendsAgain
<1> QED
  BY <1>2, <1>4, <1>6, <1>7, <1>9

(* An update of an asset that is still as it was read: where it changes a  *)
(* value it says so.                                                       *)
SaysSo(d, e, by) ==
  \A a \in DOMAIN d.asset : e.asset[a].value # d.asset[a].value =>
    \E x \in e.timeline : x.asset = a /\ x.by = by

(* What the merge changes is what it reports as changed.                   *)
LEMMA WrittenIsVisible ==
  ASSUME NEW d \in Databases, NEW a \in DOMAIN d.asset, NEW row \in Row,
         NEW prov \in Provenances, NEW b \in DOMAIN d.asset,
         LET e == SetFields(d, a, Applied(KnownOf(d, a), row.value), row.value, prov)
         IN  e.asset[b].value # d.asset[b].value
  PROVE  b = a /\ VisibleChanges(KnownOf(d, a), row.value) # {}
<1> DEFINE kn == KnownOf(d, a)
           fs == Applied(kn, row.value)
           e  == SetFields(d, a, fs, row.value, prov)
           v  == [f \in Fields |-> IF f \in fs THEN row.value[f] ELSE d.asset[a].value[f]]
           x  == [value |-> v,
                  prov  |-> [f \in Fields |-> IF f \in fs THEN prov ELSE d.asset[a].prov[f]]]
<1>1. d.asset \in Seq(Asset) /\ d.asset[a].value \in Cells
  <2>1. d.asset \in Seq(Asset)
    BY DEF Databases
  <2>2. d.asset[a] \in Asset
    BY <2>1
  <2> QED
    BY <2>1, <2>2 DEF Asset
<1>2. e = [d EXCEPT !.asset = [d.asset EXCEPT ![a] = x]]
  BY DEF SetFields, Databases
<1>3. x.value = v
  OBVIOUS
<1> HIDE DEF x, e, v, fs
<1>4. e.asset = [d.asset EXCEPT ![a] = x]
  BY <1>2 DEF Databases
<1>5. b = a
  BY <1>1, <1>4 DEF e, fs
<1>6. e.asset[a] = x
  BY <1>1, <1>4
<1>7. v # d.asset[a].value
  BY <1>3, <1>5, <1>6 DEF e, fs
<1>8. PICK f \in Fields : v[f] # d.asset[a].value[f]
  <2>1. v = [f \in Fields |-> v[f]] /\ d.asset[a].value = [f \in Fields |-> d.asset[a].value[f]]
    BY <1>1 DEF v, Cells
  <2> QED
    BY <1>7, <2>1
<1>9. f \in fs /\ row.value[f] # d.asset[a].value[f] /\ row.value[f] # NULL
  BY <1>8 DEF v, fs, Applied
<1>10. kn.value[f] # row.value[f]
  BY <1>9 DEF KnownOf, KnownFrom
<1> QED
  BY <1>5, <1>9, <1>10 DEF VisibleChanges, fs

(* An update by a scan adds its questions and, where it changes a value,   *)
(* an entry.                                                               *)
LEMMA ScanUpdateExtends ==
  ASSUME NEW d \in Databases, NEW a \in DOMAIN d.asset, NEW row \in Row,
         NEW kn \in Knowns, NEW by \in Stamps,
         NEW stamps, by \in stamps
  PROVE  LET e == ScanUpdate(d, a, row, kn, by)
         IN  /\ Extends(stamps, d, e)
             /\ e.proposals = d.proposals \cup Asked(a, kn, row, by)
             /\ kn = KnownOf(d, a) => SaysSo(d, e, by)
<1> DEFINE written == SetFields(d, a, Applied(kn, row.value), row.value, "scanned")
           bound   == BindMac(written, a, row.mac, by)
           asked   == Propose(bound, a, kn, row, by)
           es      == IF ScanReports(d, row, kn) THEN {Entry(a, "scan_diff", by)} ELSE {}
           e       == ScanUpdate(d, a, row, kn, by)
<1>1. row.mac \in Macs \cup {NULL} /\ "scanned" \in Provenances
  BY DEF Row, Provenances
<1>2. /\ written \in Databases
      /\ DOMAIN written.asset = DOMAIN d.asset
      /\ Extends(stamps, d, written) /\ written.proposals = d.proposals
  <2>1. written \in Databases /\ DOMAIN written.asset = DOMAIN d.asset
    BY <1>1, WrittenFacts
  <2>2. Extends(stamps, d, written) /\ written.proposals = d.proposals
    BY SetFieldsExtends
  <2> QED
    BY <2>1, <2>2
<1>3. kn = KnownOf(d, a) =>
        \A b \in DOMAIN d.asset : written.asset[b].value # d.asset[b].value =>
          b = a /\ VisibleChanges(kn, row.value) # {}
  BY <1>1, WrittenIsVisible
<1> HIDE DEF written
<1>4. /\ bound \in Databases /\ bound.asset = written.asset
      /\ Extends(stamps, written, bound) /\ bound.proposals = written.proposals
  BY <1>1, <1>2, BindMacType, BindMacExtends
<1> HIDE DEF bound
<1>5. /\ asked \in Databases /\ asked.asset = bound.asset
      /\ Extends(stamps, bound, asked)
      /\ asked.proposals = bound.proposals \cup Asked(a, kn, row, by)
  <2>1. asked \in Databases /\ asked.asset = bound.asset
    BY <1>2, <1>4, ProposeType
  <2>2. Extends(stamps, bound, asked)
    BY <1>4, ProposeExtends
  <2>3. asked.proposals = bound.proposals \cup Asked(a, kn, row, by)
    BY <1>4, ProposeAsks
  <2> QED
    BY <2>1, <2>2, <2>3
<1>6. \A x \in es : x.by \in stamps /\ x.kind \notin Resolutions
  BY DEF Entry, Resolutions
<1>7. es \in SUBSET Entries
  BY DEF Entry, Entries, EntryKinds, Databases
<1>8. e = Log(asked, es)
  BY DEF ScanUpdate, written, bound
<1>9. VisibleChanges(kn, row.value) # {} =>
        \E x \in es : x.asset = a /\ x.by = by
  BY DEF ScanReports, Entry
<1> HIDE DEF asked, es, e
<1>10. /\ Extends(stamps, asked, e) /\ e.asset = asked.asset
       /\ e.proposals = asked.proposals
       /\ e.timeline = asked.timeline \cup es
  BY <1>5, <1>6, <1>7, <1>8, LogExtends, LogType
<1>11. Extends(stamps, d, bound)
  BY <1>2, <1>4, ExtendsAgain
<1>12. Extends(stamps, d, asked)
  BY <1>5, <1>11, ExtendsAgain
<1>13. Extends(stamps, d, e)
  BY <1>10, <1>12, ExtendsAgain
<1>14. kn = KnownOf(d, a) => SaysSo(d, e, by)
  BY <1>3, <1>4, <1>5, <1>9, <1>10 DEF SaysSo
<1> QED
  BY <1>2, <1>4, <1>5, <1>10, <1>13, <1>14 DEF e

(* So does an update by an import.                                         *)
LEMMA ImportUpdateExtends ==
  ASSUME NEW d \in Databases, NEW a \in DOMAIN d.asset, NEW row \in Row,
         NEW kn \in Knowns, NEW by \in Stamps,
         NEW stamps, by \in stamps
  PROVE  LET e == ImportUpdate(d, a, row, kn, by)
         IN  /\ Extends(stamps, d, e)
             /\ e.proposals = d.proposals \cup Asked(a, kn, row, by)
             /\ kn = KnownOf(d, a) => SaysSo(d, e, by)
<1> DEFINE written == SetFields(d, a, Applied(kn, row.value), row.value, "imported")
           asked   == Propose(written, a, kn, row, by)
           es      == IF ImportReports(row, kn) THEN {Entry(a, "import", by)} ELSE {}
           e       == ImportUpdate(d, a, row, kn, by)
<1>1. "imported" \in Provenances
  BY DEF Provenances
<1>2. /\ written \in Databases
      /\ DOMAIN written.asset = DOMAIN d.asset
      /\ Extends(stamps, d, written) /\ written.proposals = d.proposals
  <2>1. written \in Databases /\ DOMAIN written.asset = DOMAIN d.asset
    BY <1>1, WrittenFacts
  <2>2. Extends(stamps, d, written) /\ written.proposals = d.proposals
    BY SetFieldsExtends
  <2> QED
    BY <2>1, <2>2
<1>3. kn = KnownOf(d, a) =>
        \A b \in DOMAIN d.asset : written.asset[b].value # d.asset[b].value =>
          b = a /\ VisibleChanges(kn, row.value) # {}
  BY <1>1, WrittenIsVisible
<1> HIDE DEF written
<1>5. /\ asked \in Databases /\ asked.asset = written.asset
      /\ Extends(stamps, written, asked)
      /\ asked.proposals = written.proposals \cup Asked(a, kn, row, by)
  <2>1. asked \in Databases /\ asked.asset = written.asset
    BY <1>2, ProposeType
  <2>2. Extends(stamps, written, asked)
    BY <1>2, ProposeExtends
  <2>3. asked.proposals = written.proposals \cup Asked(a, kn, row, by)
    BY <1>2, ProposeAsks
  <2> QED
    BY <2>1, <2>2, <2>3
<1>6. \A x \in es : x.by \in stamps /\ x.kind \notin Resolutions
  BY DEF Entry, Resolutions
<1>7. es \in SUBSET Entries
  BY DEF Entry, Entries, EntryKinds, Databases
<1>8. e = Log(asked, es)
  BY DEF ImportUpdate, written
<1>9. VisibleChanges(kn, row.value) # {} =>
        \E x \in es : x.asset = a /\ x.by = by
  BY DEF ImportReports, Entry
<1> HIDE DEF asked, es, e
<1>10. /\ Extends(stamps, asked, e) /\ e.asset = asked.asset
       /\ e.proposals = asked.proposals
       /\ e.timeline = asked.timeline \cup es
  BY <1>5, <1>6, <1>7, <1>8, LogExtends, LogType
<1>11. Extends(stamps, d, asked)
  BY <1>2, <1>5, ExtendsAgain
<1>12. Extends(stamps, d, e)
  BY <1>10, <1>11, ExtendsAgain
<1>13. kn = KnownOf(d, a) => SaysSo(d, e, by)
  BY <1>3, <1>5, <1>9, <1>10 DEF SaysSo
<1> QED
  BY <1>2, <1>5, <1>10, <1>12, <1>13 DEF e

(* A row for the review queue is only that.                                *)
LEMMA DeferExtends ==
  ASSUME NEW d \in Databases, NEW pl, NEW stamps, NEW by \in stamps
  PROVE  /\ Extends(stamps, d, Defer(d, pl, by))
         /\ Defer(d, pl, by).proposals = d.proposals
         /\ Defer(d, pl, by).asset = d.asset
<1> DEFINE x == [by |-> by, candidates |-> pl.candidates]
<1>1. Defer(d, pl, by) = [d EXCEPT !.review = d.review \cup {x}]
  BY DEF Defer
<1>2. x.by = by
  OBVIOUS
<1> HIDE DEF x
<1> QED
  BY <1>1, <1>2 DEF Extends, KeepsOwners, AddsRows, Databases

(* Whatever the resolver answered, a row that collides with nothing only   *)
(* adds: its questions, if it is an update, and rows with its stamp.       *)
LEMMA RowExtends ==
  ASSUME NEW kind, NEW d \in Databases, NEW pl, Usable(d, pl), NEW row \in Row,
         NEW kn \in Knowns, NEW by \in Stamps, NEW stamps, by \in stamps,
         ~Conflicts(kind, d, pl, row, kn)
  PROVE  LET e == ApplyRow(kind, d, pl, row, kn, by)
         IN  /\ Extends(stamps, d, e)
             /\ pl.kind = "update" => e.proposals = d.proposals \cup Asked(pl.asset, kn, row, by)
             /\ pl.kind # "update" => e.proposals = d.proposals
             /\ (pl.kind = "update" => kn = KnownOf(d, pl.asset)) => SaysSo(d, e, by)
<1>1. pl.kind \in {"insert", "update", "ambiguous"}
  BY DEF Usable, Plans
<1>2. CASE pl.kind = "ambiguous"
  <2>1. ApplyRow(kind, d, pl, row, kn, by) = Defer(d, pl, by)
    BY <1>2 DEF ApplyRow
  <2>2. Extends(stamps, d, Defer(d, pl, by)) /\ Defer(d, pl, by).proposals = d.proposals
        /\ Defer(d, pl, by).asset = d.asset
    BY DeferExtends
  <2> QED
    BY <1>2, <2>1, <2>2 DEF SaysSo
<1>3. CASE pl.kind = "insert" /\ kind = "scan"
  <2> DEFINE e == ScanInsert(d, row, by)
  <2>1. ApplyRow(kind, d, pl, row, kn, by) = e
    BY <1>3 DEF ApplyRow
  <2>2. Extends(stamps, d, e) /\ e.proposals = d.proposals
        /\ \A b \in DOMAIN d.asset : e.asset[b] = d.asset[b]
    BY ScanInsertExtends
  <2> HIDE DEF e
  <2> QED
    BY <1>3, <2>1, <2>2 DEF SaysSo
<1>4. CASE pl.kind = "insert" /\ kind # "scan"
  <2> DEFINE e == ImportInsert(d, row, by)
  <2>1. ApplyRow(kind, d, pl, row, kn, by) = e
    BY <1>4 DEF ApplyRow
  <2>2. ~MacTaken(d, row.mac)
    BY <1>4 DEF Conflicts
  <2>3. Extends(stamps, d, e) /\ e.proposals = d.proposals
        /\ \A b \in DOMAIN d.asset : e.asset[b] = d.asset[b]
    BY <2>2, ImportInsertExtends
  <2> HIDE DEF e
  <2> QED
    BY <1>4, <2>1, <2>3 DEF SaysSo
<1>5. CASE pl.kind = "update" /\ kind = "scan"
  <2> DEFINE e == ScanUpdate(d, pl.asset, row, kn, by)
  <2>1. ApplyRow(kind, d, pl, row, kn, by) = e
    BY <1>5 DEF ApplyRow
  <2>2. pl.asset \in DOMAIN d.asset
    BY <1>5 DEF Usable
  <2>3. /\ Extends(stamps, d, e)
        /\ e.proposals = d.proposals \cup Asked(pl.asset, kn, row, by)
        /\ kn = KnownOf(d, pl.asset) => SaysSo(d, e, by)
    BY <2>2, ScanUpdateExtends
  <2> HIDE DEF e
  <2> QED
    BY <1>5, <2>1, <2>3
<1>6. CASE pl.kind = "update" /\ kind # "scan"
  <2> DEFINE e == ImportUpdate(d, pl.asset, row, kn, by)
  <2>1. ApplyRow(kind, d, pl, row, kn, by) = e
    BY <1>6 DEF ApplyRow
  <2>2. pl.asset \in DOMAIN d.asset
    BY <1>6 DEF Usable
  <2>3. /\ Extends(stamps, d, e)
        /\ e.proposals = d.proposals \cup Asked(pl.asset, kn, row, by)
        /\ kn = KnownOf(d, pl.asset) => SaysSo(d, e, by)
    BY <2>2, ImportUpdateExtends
  <2> HIDE DEF e
  <2> QED
    BY <1>6, <2>1, <2>3
<1> QED
  BY <1>1, <1>2, <1>3, <1>4, <1>5, <1>6

-----------------------------------------------------------------------------
(* What a step may do, by what it writes.                                  *)

(* It is `p`'s step, and an ingest that is done takes none.                *)
Moves(p) ==
  /\ p \in Ingests => phase[p] # "done"
  /\ \A q \in Procs \ {p} : phase'[q] = phase[q] /\ todo'[q] = todo[q]
  /\ \A r \in Reviewers \ {p} : held'[r] = held[r]

(* Nothing is written: a read, an end, a rollback or a row passed over.    *)
Quiet(p) ==
  /\ Moves(p)
  /\ db' = db
  /\ \/ /\ work' = work /\ lock' = lock
        /\ lock = p /\ p \in Ingests => p \in Netboxes /\ AddressKnown(p, work)
                       /\ todo[p] # << >> /\ todo'[p] = Tail(todo[p])
     \/ lock = p /\ lock' = NULL /\ work' = EmptyDb
  /\ lock \in stale /\ lock \in Ingests => lock \in stale'
  /\ p \in Reviewers /\ phase'[p] = "ready" =>
       \/ phase[p] = "ready" /\ held'[p] = held[p]
       \/ held'[p] \in db.proposals /\ held'[p].resolution = NULL

(* A transaction is opened by a write, begins with one, or goes on.        *)
InLock(p) ==
  /\ Moves(p)
  /\ p \in Ingests
  /\ db' = db /\ lock \in {NULL, p} /\ lock' = p
  /\ phase[p] # "ready" => phase[p] \in {"txn", "pinned"}
  /\ phase'[p] = "txn" /\ held' = held /\ stale' = stale

Seen(p) == IF lock = p THEN work ELSE db

Writes(p) ==
  /\ InLock(p)
  /\ todo[p] # << >> /\ todo'[p] = Tail(todo[p])
  /\ \E pl \in Plans, kn \in Knowns :
       /\ Usable(Seen(p), pl)
       /\ ~Conflicts(Kind(p), Seen(p), pl, Row1(p), kn)
       /\ work' = ApplyRow(Kind(p), Seen(p), pl, Row1(p), kn, By(p))
       /\ p \notin stale =>
            /\ pl = ResolveRow(Seen(p), Row1(p))
            /\ pl.kind = "update" => kn = KnownOf(Seen(p), pl.asset)

Begins(p) == InLock(p) /\ lock = NULL /\ work' = db /\ todo' = todo

Releases(p) == Moves(p) /\ lock' = NULL /\ work' = EmptyDb

CommitsBatch(p) ==
  /\ Releases(p)
  /\ p \in Ingests /\ lock = p
  /\ db' = Finished(p, work)
  /\ phase'[p] = "done"

(* The row of a scan itself.                                               *)
Notes(p) ==
  /\ Releases(p)
  /\ p \in Scans /\ lock = NULL
  /\ db'.asset = db.asset /\ db'.owner = db.owner /\ db'.proposals = db.proposals
  /\ db'.review = db.review /\ db'.timeline = db.timeline
  /\ \/ db'.finished = db.finished
     \/ db'.finished = db.finished \cup {p} /\ phase'[p] = "done"

AddsAsset(p) ==
  /\ Releases(p)
  /\ p \in Adds /\ lock = NULL
  /\ \E cells \in Cells, m \in Macs \cup {NULL} :
       ~MacTaken(db, m) /\ db' = InsertManual(db, cells, m)

Answer(r, v, prov, how) ==
  db' = Log(IF how = "edited" THEN CloseAlways(WriteField(db, held[r], v, prov), held[r], how)
               ELSE IF how = "rejected" THEN CloseIfOpen(db, held[r], how)
               ELSE CloseIfOpen(WriteField(db, held[r], v, prov), held[r], how),
               {Entry(held[r].asset, how, <<r, held[r]>>)})

Answers(r) ==
  /\ Releases(r)
  /\ r \in Reviewers /\ lock = NULL
  /\ phase[r] = "ready" /\ phase'[r] = "idle"
  /\ \/ Answer(r, held[r].proposed, "scanned", "accepted")
     \/ Answer(r, held[r].proposed, "scanned", "rejected")
     \/ \E v \in Overrides : Answer(r, v, "manual", "edited")

StepOf(p) ==
  \/ Quiet(p) \/ Writes(p) \/ Begins(p) \/ CommitsBatch(p) \/ Notes(p)
  \/ AddsAsset(p) \/ Answers(p)

(* Most reads and ends are quiet: a process without the lock says nothing. *)
LEMMA ReadIsQuiet ==
  ASSUME IInv, NEW p \in Procs, phase[p] # "txn", ReadOnly, NEW ph, Goto(p, ph), Moves(p),
         stale' = stale \/ stale' = stale \ {p},
         p \in Reviewers /\ ph = "ready" =>
           \/ phase[p] = "ready" /\ held'[p] = held[p]
           \/ held'[p] \in db.proposals /\ held'[p].resolution = NULL
  PROVE  Quiet(p)
<1>1. phase \in [Procs -> Phases] /\ phase' = [phase EXCEPT ![p] = ph]
  BY DEF IInv, TypeOK, Goto
<1>2. lock # p
  BY ProcsAssumption DEF IInv, LockHeldInTxn
<1> QED
  BY <1>1, <1>2 DEF Quiet, ReadOnly

(* Dropping a transaction is.                                              *)
LEMMA AbandonIsQuiet ==
  ASSUME IInv, NEW p \in Procs, NEW ph, ph # "ready", Abandon(p, ph), Moves(p)
  PROVE  Quiet(p)
<1>1. phase \in [Procs -> Phases] /\ phase' = [phase EXCEPT ![p] = ph]
  BY DEF IInv, TypeOK, Abandon, Goto
<1>2. lock = p => lock' = NULL /\ work' = EmptyDb
  BY DEF Abandon
<1>3. lock # p => UNCHANGED <<lock, work>>
  BY DEF Abandon
<1>5. phase'[p] # "ready"
  BY <1>1
<1>6. UNCHANGED <<db, stale>>
  BY DEF Abandon
<1> QED
  BY <1>2, <1>3, <1>5, <1>6 DEF Quiet

Acts(p) == Ingesting(p) \/ Adding(p) \/ ReadProposal(p)
             \/ Disposing(p) \/ BusyTimeout(p) \/ Crash(p)

(* Whatever it does, it is its own.                                        *)
LEMMA ActsMoves ==
  ASSUME IInv, NEW p \in Procs, Acts(p)
  PROVE  Moves(p)
<1>1. p \in Ingests => phase[p] # "done"
  <2>1. CASE Ingesting(p)
    BY <2>1 DEF Ingesting, StartScan, StartImport, CheckAddress, ResolveFirst, ReadProvenance,
       ReadValues, WriteFirst, FirstWriteConflicts, ApplyNext, SkipInTxn, CommitBatch,
       FinishEmpty, PinSnapshot, UpgradeSnapshot, SkipLocked, DryRun, InTxn
  <2>2. CASE Adding(p)
    BY <2>2, ProcsAssumption DEF Adding, CheckAdd, AddAccepted, AddConflicts, Ingests
  <2>3. CASE ReadProposal(p) \/ Disposing(p)
    BY <2>3, ProcsAssumption DEF ReadProposal, Disposing, Accept, Reject, EditOverride,
       DispositionFails, Reviewing, Ingests
  <2>4. CASE BusyTimeout(p) \/ Crash(p)
    BY <2>4 DEF BusyTimeout, NeedsLock, Crash, EndPhases
  <2> QED
    BY <2>1, <2>2, <2>3, <2>4 DEF Acts
<1>2. phase' = phase \/ \E ph : phase' = [phase EXCEPT ![p] = ph]
  <2>1. CASE Ingesting(p)
    BY <2>1 DEF Ingesting, StartScan, StartImport, CheckAddress, ResolveFirst, ReadProvenance,
       ReadValues, WriteFirst, FirstWriteConflicts, ApplyNext, SkipInTxn, CommitBatch, RowFails,
       FinishEmpty, PinSnapshot, UpgradeSnapshot, SkipLocked, DryRun, Abandon, Goto
  <2>2. CASE Adding(p)
    BY <2>2 DEF Adding, CheckAdd, AddAccepted, AddConflicts, Abandon, Goto
  <2>3. CASE ReadProposal(p) \/ Disposing(p)
    BY <2>3 DEF ReadProposal, Disposing, Accept, Reject, EditOverride,
       DispositionFails, Dispose, Goto
  <2>4. CASE BusyTimeout(p) \/ Crash(p)
    BY <2>4 DEF BusyTimeout, Crash, Abandon, Goto
  <2> QED
    BY <2>1, <2>2, <2>3, <2>4 DEF Acts
<1>3. todo' = todo \/ \E rows : todo' = [todo EXCEPT ![p] = rows]
  <2>1. CASE Ingesting(p)
    BY <2>1 DEF Ingesting, StartScan, StartImport, CheckAddress, ResolveFirst, ReadProvenance,
       ReadValues, WriteFirst, FirstWriteConflicts, ApplyNext, SkipInTxn, CommitBatch, RowFails,
       FinishEmpty, PinSnapshot, UpgradeSnapshot, SkipLocked, DryRun, Abandon
  <2>2. CASE Adding(p)
    BY <2>2 DEF Adding, CheckAdd, AddAccepted, AddConflicts, Abandon
  <2>3. CASE ReadProposal(p) \/ Disposing(p)
    BY <2>3 DEF ReadProposal, Disposing, Accept, Reject, EditOverride,
       DispositionFails, Dispose
  <2>4. CASE BusyTimeout(p) \/ Crash(p)
    BY <2>4 DEF BusyTimeout, Crash, Abandon
  <2> QED
    BY <2>1, <2>2, <2>3, <2>4 DEF Acts
<1>4. held' = held \/ \E q : held' = [held EXCEPT ![p] = q]
  <2>1. CASE Ingesting(p)
    BY <2>1 DEF Ingesting, StartScan, StartImport, CheckAddress, ResolveFirst, ReadProvenance,
       ReadValues, WriteFirst, FirstWriteConflicts, ApplyNext, SkipInTxn, CommitBatch, RowFails,
       FinishEmpty, PinSnapshot, UpgradeSnapshot, SkipLocked, DryRun, Abandon
  <2>2. CASE Adding(p)
    BY <2>2 DEF Adding, CheckAdd, AddAccepted, AddConflicts, Abandon
  <2>3. CASE ReadProposal(p) \/ Disposing(p)
    BY <2>3 DEF ReadProposal, Disposing, Accept, Reject, EditOverride,
       DispositionFails, Dispose
  <2>4. CASE BusyTimeout(p) \/ Crash(p)
    BY <2>4 DEF BusyTimeout, Crash, Abandon
  <2> QED
    BY <2>1, <2>2, <2>3, <2>4 DEF Acts
<1> QED
  BY <1>1, <1>2, <1>3, <1>4 DEF Moves, IInv, TypeOK

(* The reads of ingests and of `add`.                                      *)
LEMMA ReadsAreQuiet ==
  ASSUME IInv, NEW p \in Procs, Moves(p),
         \/ StartImport(p) \/ CheckAddress(p) \/ ResolveFirst(p) \/ ReadProvenance(p)
         \/ ReadValues(p) \/ PinSnapshot(p) \/ SkipLocked(p) \/ CheckAdd(p)
         \/ (FinishEmpty(p) /\ p \notin Scans)
  PROVE  Quiet(p)
<1>1. p \notin Reviewers
  BY ProcsAssumption DEF StartImport, CheckAddress, ResolveFirst, ReadProvenance, ReadValues,
     PinSnapshot, SkipLocked, CheckAdd, FinishEmpty, Ingests
<1>2. ReadOnly /\ (stale' = stale \/ stale' = stale \ {p}) /\ phase[p] # "txn"
  BY DEF StartImport, CheckAddress, ResolveFirst, ReadProvenance, ReadValues, PinSnapshot,
     SkipLocked, CheckAdd, FinishEmpty, FreshRead
<1>3. \E ph : Goto(p, ph)
  <2>1. phase \in [Procs -> Phases] /\ phase = [phase EXCEPT ![p] = phase[p]]
    BY DEF IInv, TypeOK
  <2> QED
    BY <2>1 DEF StartImport, CheckAddress, ResolveFirst, ReadProvenance, ReadValues,
       PinSnapshot, SkipLocked, CheckAdd, FinishEmpty, Goto
<1> QED
  BY <1>1, <1>2, <1>3, ReadIsQuiet

(* Their failures.                                                         *)
LEMMA EndsAreQuiet ==
  ASSUME IInv, NEW p \in Procs, Moves(p),
         \/ FirstWriteConflicts(p) \/ DryRun(p) \/ AddConflicts(p) \/ Crash(p)
         \/ (BusyTimeout(p) /\ p \notin Reviewers)
  PROVE  Quiet(p)
<1>1. \E ph \in EndPhases : Abandon(p, ph)
  BY DEF FirstWriteConflicts, DryRun, AddConflicts, Crash, BusyTimeout, EndPhases
<1> QED
  BY <1>1, AbandonIsQuiet DEF EndPhases

(* The reads of a reviewer, and an answer that fails.                      *)
LEMMA ReviewsAreQuiet ==
  ASSUME IInv, NEW p \in Procs, Moves(p),
         ReadProposal(p) \/ DispositionFails(p) \/ (BusyTimeout(p) /\ p \in Reviewers)
  PROVE  Quiet(p)
<1>1. phase[p] # "txn" /\ p \in Reviewers
  BY ProcsAssumption DEF ReadProposal, DispositionFails, Reviewing, BusyTimeout, NeedsLock
<1>2. CASE ReadProposal(p)
  <2>1. held'[p] \in db.proposals /\ held'[p].resolution = NULL
    BY <1>1, <1>2 DEF ReadProposal, IInv, TypeOK
  <2>2. ReadOnly /\ Goto(p, "ready") /\ stale' = stale \ {p}
    BY <1>2 DEF ReadProposal, FreshRead
  <2> QED
    BY <1>1, <2>1, <2>2, ReadIsQuiet
<1>3. CASE ~ReadProposal(p)
  <2>1. ReadOnly /\ Goto(p, "idle") /\ stale' = stale
    BY <1>1, <1>3 DEF DispositionFails, BusyTimeout, ReadOnly
  <2> QED
    BY <1>1, <2>1, ReadIsQuiet
<1> QED
  BY <1>2, <1>3

(* A device passed over.                                                   *)
LEMMA SkipIsQuiet ==
  ASSUME IInv, NEW p \in Procs, Moves(p), SkipInTxn(p)
  PROVE  Quiet(p)
<1>1. p \notin Reviewers
  BY ProcsAssumption DEF SkipInTxn
<1> QED
  BY <1>1 DEF SkipInTxn, Quiet, IInv, TypeOK

(* The two writes of rows: the one that takes the lock, on what was read   *)
(* before it, and the ones that follow.                                    *)
LEMMA WriteFirstWrites ==
  ASSUME IInv, NEW p \in Procs, Moves(p), WriteFirst(p)
  PROVE  Writes(p)
<1>1. p \in Ingests /\ Planned(p) /\ phase[p] = "ready"
  BY DEF WriteFirst, Planned, Ingests
<1>2. InLock(p)
  BY <1>1 DEF InLock, WriteFirst, Goto, IInv, TypeOK
<1>3. /\ todo[p] # << >>
      /\ Usable(db, plan[p])
      /\ p \notin stale => /\ plan[p] = ResolveRow(db, Row1(p))
                           /\ plan[p].kind = "update" => known[p] = KnownOf(db, plan[p].asset)
  BY <1>1 DEF IInv, TypeOK, ProcsUsable, PlanUsable, PlanFresh, Usable
<1>4. plan[p] \in Plans /\ known[p] \in Knowns /\ todo'[p] = Tail(todo[p])
  BY DEF WriteFirst, IInv, TypeOK
<1>5. Seen(p) = db
  BY ProcsAssumption DEF WriteFirst, Seen
<1>6. /\ ~Conflicts(Kind(p), Seen(p), plan[p], Row1(p), known[p])
      /\ work' = ApplyRow(Kind(p), Seen(p), plan[p], Row1(p), known[p], By(p))
  BY <1>5 DEF WriteFirst
<1> QED
  BY <1>2, <1>3, <1>4, <1>5, <1>6 DEF Writes

(* In a transaction the plan is made on what the transaction sees.         *)
LEMMA ApplyNextWrites ==
  ASSUME IInv, NEW p \in Procs, Moves(p), ApplyNext(p)
  PROVE  Writes(p)
<1> DEFINE pl == ResolveRow(work, Row1(p))
           kn == KnownInTxn(pl)
<1>1. lock = p /\ phase[p] = "txn" /\ todo[p] # << >> /\ p \in Ingests
  BY ProcsAssumption DEF ApplyNext, InTxn, IInv, TypeOK
<1>2. Row1(p) \in Row /\ work \in Databases /\ Sound(work)
  BY <1>1, RowFacts DEF IInv, TypeOK
<1>3. Usable(work, pl) /\ pl \in Plans
  BY <1>2, ResolveUsable DEF Usable
<1>4. NothingKnown \in Knowns
  BY DEF NothingKnown, Knowns, Cells
<1>5. kn \in Knowns /\ (pl.kind = "update" => kn = KnownOf(work, pl.asset))
  BY <1>2, <1>3, <1>4, KnownType DEF KnownInTxn, Usable
<1>6. ~Conflicts(Kind(p), work, pl, Row1(p), kn)
  BY <1>2, NoConflict
<1>7. /\ work' = ApplyRow(Kind(p), work, pl, Row1(p), kn, By(p))
      /\ todo' = [todo EXCEPT ![p] = Tail(@)]
      /\ UNCHANGED <<db, lock, phase, plan, known, held, stale>>
  BY <1>6 DEF ApplyNext
<1>8. Seen(p) = work /\ todo'[p] = Tail(todo[p])
  BY <1>1, <1>7 DEF Seen, IInv, TypeOK
<1>9. InLock(p)
  BY <1>1, <1>7 DEF InLock
<1> HIDE DEF pl, kn
<1> QED
  BY <1>1, <1>3, <1>5, <1>6, <1>7, <1>8, <1>9 DEF Writes, pl

(* A snapshot that becomes a transaction has written nothing yet.          *)
LEMMA UpgradeBegins ==
  ASSUME IInv, NEW p \in Procs, Moves(p), UpgradeSnapshot(p)
  PROVE  Begins(p)
BY DEF UpgradeSnapshot, Begins, InLock, Ingests, Goto, IInv, TypeOK

(* The commit of a batch.                                                  *)
LEMMA BatchIsCommitted ==
  ASSUME IInv, NEW p \in Procs, Moves(p), CommitBatch(p)
  PROVE  CommitsBatch(p)
<1>1. p \in Ingests
  BY ProcsAssumption DEF CommitBatch, InTxn, IInv, TypeOK
<1> QED
  BY <1>1 DEF CommitBatch, InTxn, Commit, CommitsBatch, Releases, Goto, IInv, TypeOK

(* The commits that only write the row of the scan.                        *)
LEMMA ScanIsNoted ==
  ASSUME IInv, NEW p \in Procs, Moves(p),
         StartScan(p) \/ (FinishEmpty(p) /\ p \in Scans)
  PROVE  Notes(p)
<1>1. db \in Databases /\ phase \in [Procs -> Phases]
  BY DEF IInv, TypeOK
<1>2. CASE StartScan(p)
  BY <1>1, <1>2 DEF StartScan, Commit, Notes, Releases, Databases
<1>3. CASE FinishEmpty(p) /\ p \in Scans
  BY <1>1, <1>3 DEF FinishEmpty, Commit, Finished, Goto, Notes, Releases, Databases
<1> QED
  BY <1>2, <1>3

(* The commit of an `add`.                                                 *)
LEMMA AddIsOne ==
  ASSUME IInv, NEW p \in Procs, Moves(p), AddAccepted(p)
  PROVE  AddsAsset(p)
<1> DEFINE row   == Row1(p)
           cells == IF AddressTaken(db, 0, row.value["primary_ip"])
                    THEN WithoutAddress(row.value) ELSE row.value
<1>1. todo[p] # << >>
  BY DEF AddAccepted, IInv, ProcsUsable, AddUsable
<1>2. row \in Row
  BY <1>1, RowFacts DEF IInv
<1>3. cells \in Cells /\ row.mac \in Macs \cup {NULL}
  BY <1>2 DEF Row, WithoutAddress, Cells
<1>4. Commit(p, InsertManual(db, cells, row.mac)) /\ p \in Adds /\ lock = NULL /\ ~MacTaken(db, row.mac)
  BY DEF AddAccepted
<1> HIDE DEF row, cells
<1> QED
  BY <1>3, <1>4 DEF AddsAsset, Releases, Commit

(* The commits of a reviewer.                                              *)
LEMMA DispositionAnswers ==
  ASSUME IInv, NEW p \in Procs, Moves(p),
         Accept(p) \/ Reject(p) \/ \E v \in Overrides : EditOverride(p, v)
  PROVE  Answers(p)
<1>1. p \in Reviewers /\ phase[p] = "ready" /\ lock = NULL
  BY DEF Accept, Reject, EditOverride, Reviewing
<1>2. lock' = NULL /\ work' = EmptyDb /\ Goto(p, "idle")
  BY DEF Accept, Reject, EditOverride, Dispose, Commit
<1>3. phase'[p] = "idle"
  BY <1>2 DEF Goto, IInv, TypeOK
<1>4. \/ Answer(p, held[p].proposed, "scanned", "accepted")
      \/ Answer(p, held[p].proposed, "scanned", "rejected")
      \/ \E v \in Overrides : Answer(p, v, "manual", "edited")
  BY DEF Accept, Reject, EditOverride, Dispose, Disposed, Commit, Answer
<1> QED
  BY <1>1, <1>2, <1>3, <1>4 DEF Answers, Releases

(* Every step is of one of these kinds.                                    *)
LEMMA StepKinds == IInv /\ Next => \E p \in Procs : StepOf(p)
<1> SUFFICES ASSUME IInv, Next PROVE \E p \in Procs : StepOf(p)
  OBVIOUS
<1>1. PICK p \in Procs : Acts(p)
  BY DEF Next, Acts
<1>2. Moves(p)
  BY <1>1, ActsMoves
<1>3. ASSUME Ingesting(p) PROVE StepOf(p)
  <2>1. CASE \/ StartImport(p) \/ CheckAddress(p) \/ ResolveFirst(p) \/ ReadProvenance(p)
             \/ ReadValues(p) \/ PinSnapshot(p) \/ SkipLocked(p)
             \/ (FinishEmpty(p) /\ p \notin Scans)
    BY <1>2, <2>1, ReadsAreQuiet DEF StepOf
  <2>2. CASE FirstWriteConflicts(p) \/ DryRun(p)
    BY <1>2, <2>2, EndsAreQuiet DEF StepOf
  <2>3. CASE SkipInTxn(p) \/ WriteFirst(p) \/ ApplyNext(p) \/ UpgradeSnapshot(p)
    BY <1>2, <2>3, SkipIsQuiet, WriteFirstWrites, ApplyNextWrites, UpgradeBegins DEF StepOf
  <2>4. CASE CommitBatch(p)
    BY <1>2, <2>4, BatchIsCommitted DEF StepOf
  <2>5. CASE StartScan(p) \/ (FinishEmpty(p) /\ p \in Scans)
    BY <1>2, <2>5, ScanIsNoted DEF StepOf
  <2> QED
    BY <1>3, <2>1, <2>2, <2>3, <2>4, <2>5 DEF Ingesting
<1>4. ASSUME Adding(p) PROVE StepOf(p)
  <2>1. CASE CheckAdd(p)
    BY <1>2, <2>1, ReadsAreQuiet DEF StepOf
  <2>2. CASE AddAccepted(p)
    BY <1>2, <2>2, AddIsOne DEF StepOf
  <2>3. CASE AddConflicts(p)
    BY <1>2, <2>3, EndsAreQuiet DEF StepOf
  <2> QED
    BY <1>4, <2>1, <2>2, <2>3 DEF Adding
<1>5. ASSUME ReadProposal(p) \/ Disposing(p) PROVE StepOf(p)
  <2>1. CASE ReadProposal(p) \/ DispositionFails(p)
    <3>1. Quiet(p)
      BY <1>2, <2>1, ReviewsAreQuiet
    <3> QED
      BY <3>1 DEF StepOf
  <2>2. CASE Accept(p) \/ Reject(p) \/ \E v \in Overrides : EditOverride(p, v)
    BY <1>2, <2>2, DispositionAnswers DEF StepOf
  <2> QED
    BY <1>5, <2>1, <2>2 DEF Disposing
<1>6. ASSUME BusyTimeout(p) \/ Crash(p) PROVE StepOf(p)
  BY <1>2, <1>6, ReviewsAreQuiet, EndsAreQuiet DEF StepOf
<1> QED
  BY <1>1, <1>3, <1>4, <1>5, <1>6 DEF Acts

-----------------------------------------------------------------------------
(* Who has written what.                                                   *)

Own(p)  == {p} \X Nat
Done(p) == p \in Ingests /\ phase[p] = "done"

(* A transaction only adds to the commit it started from, under its own    *)
(* stamps.                                                                 *)
TxnOnlyAdds == lock # NULL => Extends(Own(lock), db, work)

(* Every row of the last commit is a finished ingest's or a reviewer's.    *)
Settled ==
  /\ \A x \in db.proposals \cup db.review : Done(x.by[1])
  /\ \A x \in db.timeline : Done(x.by[1]) \/ x.by[1] \in Reviewers
  /\ \A p \in db.finished : Done(p)

(* A proposal is known by its observation and its field, and the numbers   *)
(* of an ingest's observations run down with the rows it has left.         *)
SameKey(x, y) == x.by = y.by /\ x.field = y.field
Keyed(d)      == \A x, y \in d.proposals : SameKey(x, y) => x = y
Numbered ==
  lock # NULL => \A x \in work.proposals : x.by[1] = lock => x.by[2] > Len(todo[lock])

(* What a row asks about each field is one open question, for a value that *)
(* is not the one the asset was read with.                                 *)
Questions(by, qs) ==
  /\ \A x \in qs : x.by = by /\ x.resolution = NULL /\ x.proposed \notin {NULL, x.current}
  /\ \A x, y \in qs : x.field = y.field => x = y

(* One question per field, and none about the value there is.              *)
LEMMA AskedFacts ==
  ASSUME NEW a, NEW kn, NEW row, NEW by
  PROVE  Questions(by, Asked(a, kn, row, by))
BY DEF Questions, Asked, Proposal, Proposed

(* What writing a row adds to what its transaction has seen.               *)
LEMMA WritesFacts ==
  ASSUME IInv, NEW p \in Procs, Writes(p)
  PROVE  /\ Extends(Own(p), Seen(p), work')
         /\ \E qs : Questions(By(p), qs) /\ work'.proposals = Seen(p).proposals \cup qs
         /\ p \notin stale => SaysSo(Seen(p), work', By(p))
         /\ LET pl == ResolveRow(Seen(p), Row1(p))
            IN  p \notin stale /\ pl.kind = "update" =>
                  Asked(pl.asset, KnownOf(Seen(p), pl.asset), Row1(p), By(p)) \subseteq work'.proposals
<1>1. PICK pl \in Plans, kn \in Knowns :
         /\ Usable(Seen(p), pl)
         /\ ~Conflicts(Kind(p), Seen(p), pl, Row1(p), kn)
         /\ work' = ApplyRow(Kind(p), Seen(p), pl, Row1(p), kn, By(p))
         /\ p \notin stale =>
              /\ pl = ResolveRow(Seen(p), Row1(p))
              /\ pl.kind = "update" => kn = KnownOf(Seen(p), pl.asset)
  BY DEF Writes
<1>2. /\ Seen(p) \in Databases
      /\ Row1(p) \in Row /\ By(p) \in Stamps /\ By(p) \in Own(p)
  BY RowFacts DEF IInv, TypeOK, Seen, Writes, InLock, By, Own
<1> DEFINE d == ApplyRow(Kind(p), Seen(p), pl, Row1(p), kn, By(p))
<1>5. /\ Extends(Own(p), Seen(p), d)
      /\ pl.kind = "update" =>
           d.proposals = Seen(p).proposals \cup Asked(pl.asset, kn, Row1(p), By(p))
      /\ pl.kind # "update" => d.proposals = Seen(p).proposals
      /\ (pl.kind = "update" => kn = KnownOf(Seen(p), pl.asset)) => SaysSo(Seen(p), d, By(p))
  BY <1>1, <1>2, RowExtends
<1>6. work' = d
  BY <1>1
<1> HIDE DEF d
<1>3. /\ Extends(Own(p), Seen(p), work')
      /\ pl.kind = "update" =>
           work'.proposals = Seen(p).proposals \cup Asked(pl.asset, kn, Row1(p), By(p))
      /\ pl.kind # "update" => work'.proposals = Seen(p).proposals
      /\ (pl.kind = "update" => kn = KnownOf(Seen(p), pl.asset)) => SaysSo(Seen(p), work', By(p))
  BY <1>5, <1>6
<1>4. \E qs : Questions(By(p), qs) /\ work'.proposals = Seen(p).proposals \cup qs
  <2>1. CASE pl.kind = "update"
    BY <1>3, <2>1, AskedFacts
  <2>2. CASE pl.kind # "update"
    <3>1. Questions(By(p), {}) /\ work'.proposals = Seen(p).proposals \cup {}
      BY <1>3, <2>2 DEF Questions
    <3> QED
      BY <3>1
  <2> QED
    BY <2>1, <2>2
<1> QED
  BY <1>1, <1>3, <1>4

(* What an `add` and what an answer leave.                                 *)
LEMMA AddsFacts ==
  ASSUME IInv, NEW p \in Procs, AddsAsset(p)
  PROVE  /\ Extends({}, db, db')
         /\ Len(db'.asset) >= Len(db.asset)
         /\ \A a \in DOMAIN db.asset : db'.asset[a] = db.asset[a]
<1>1. PICK cells \in Cells, m \in Macs \cup {NULL} :
        ~MacTaken(db, m) /\ db' = InsertManual(db, cells, m)
  BY DEF AddsAsset
<1> DEFINE added == AddAsset(db, cells, "manual")
<1>2. db \in Databases /\ "manual" \in Provenances
  BY DEF IInv, TypeOK, Provenances
<1>3. /\ added \in Databases /\ Len(added.asset) >= Len(db.asset)
      /\ \A a \in DOMAIN db.asset : added.asset[a] = db.asset[a]
  BY <1>2, AddAssetType
<1>4. Extends({}, db, added) /\ added.owner = db.owner
  BY <1>2, AddAssetExtends
<1>5. CASE m = NULL
  BY <1>1, <1>3, <1>4, <1>5 DEF InsertManual
<1>6. CASE m # NULL
  <2>1. db' = Bind(added, NextId(db), m)
    BY <1>1, <1>6 DEF InsertManual
  <2>2. added.owner[m] = 0 /\ m \in Macs
    BY <1>1, <1>4, <1>6 DEF MacTaken
  <2> HIDE DEF added
  <2>3. Extends({}, added, db')
    BY <1>3, <2>1, <2>2, BindExtends
  <2>4. db'.asset = added.asset
    BY <1>3, <2>1 DEF Bind, Databases
  <2> QED
    BY <1>3, <1>4, <2>3, <2>4, ExtendsAgain
<1> QED
  BY <1>5, <1>6

(* One question is closed, its field perhaps written.                      *)
Closed(q, x, how) ==
  \/ x = (db.proposals \ {q}) \cup {[q EXCEPT !.resolution = how]} /\ q \in db.proposals
  \/ x = db.proposals /\ q \notin db.proposals /\ how # "edited"
  \/ x = {y \in db.proposals : ~SameKey(y, q)} \cup {[q EXCEPT !.resolution = how]}
        /\ how = "edited"

(* An answer writes one field at most, closes one question, adds one       *)
(* entry.                                                                  *)
LEMMA AnswersFacts ==
  ASSUME IInv, NEW r \in Procs, Answers(r)
  PROVE  LET q == held[r]
         IN  /\ q \in ProposalRow /\ q.asset \in DOMAIN db.asset
             /\ Len(db'.asset) = Len(db.asset)
             /\ \A a \in DOMAIN db.asset, f \in Fields :
                  (a # q.asset \/ f # q.field) => FieldOf(db', a, f) = FieldOf(db, a, f)
             /\ db'.owner = db.owner /\ db'.review = db.review
             /\ db'.finished = db.finished
             /\ \E how \in Resolutions :
                  /\ Closed(q, db'.proposals, how)
                  /\ db'.timeline = db.timeline \cup {Entry(q.asset, how, <<r, q>>)}
<1> DEFINE q == held[r]
<1>1. /\ q \in ProposalRow /\ q.asset \in DOMAIN db.asset
      /\ db \in Databases
  BY HeldFacts DEF Answers, Reviewing
<1>2. PICK v \in Values \cup {NULL}, prov \in Provenances, how \in Resolutions : Answer(r, v, prov, how)
  BY <1>1, BatchesAssumption DEF Answers, Provenances, Resolutions, ProposalRow
<1> DEFINE w  == IF how = "rejected" THEN db ELSE WriteField(db, q, v, prov)
           e  == IF how = "edited" THEN CloseAlways(w, q, how) ELSE CloseIfOpen(w, q, how)
           es == {Entry(q.asset, how, <<r, q>>)}
<1>3. db' = Log(e, es)
  BY <1>2 DEF Answer, Resolutions
<1>4. /\ w \in Databases /\ Len(w.asset) = Len(db.asset)
      /\ w.proposals = db.proposals /\ w.owner = db.owner /\ w.timeline = db.timeline
      /\ w.review = db.review /\ w.finished = db.finished
      /\ \A a \in DOMAIN db.asset, f \in Fields :
           (a # q.asset \/ f # q.field) => FieldOf(w, a, f) = FieldOf(db, a, f)
  <2>1. CASE how = "rejected"
    BY <1>1, <2>1
  <2>2. CASE how # "rejected"
    <3>1. {q.field} \in SUBSET Fields /\ [f \in Fields |-> v] \in Cells
      BY <1>1 DEF ProposalRow, Cells
    <3>2. w = SetFields(db, q.asset, {q.field}, [f \in Fields |-> v], prov)
      BY <2>2 DEF WriteField
    <3> HIDE DEF w
    <3>3. /\ w \in Databases
          /\ Len(w.asset) = Len(db.asset)
          /\ \A a \in DOMAIN db.asset, f \in Fields :
               (a # q.asset \/ f \notin {q.field}) => FieldOf(w, a, f) = FieldOf(db, a, f)
      <4> HIDE DEF q
      <4>1. LET t == SetFields(db, q.asset, {q.field}, [f \in Fields |-> v], prov)
            IN  /\ t \in Databases
                /\ Len(t.asset) = Len(db.asset)
                /\ \A a \in DOMAIN db.asset, f \in Fields :
                     (a # q.asset \/ f \notin {q.field}) => FieldOf(t, a, f) = FieldOf(db, a, f)
        BY <1>1, <3>1, SetFieldsType
      <4> QED
        BY <3>2, <4>1
    <3>4. PICK x : w = [db EXCEPT !.asset = x]
      BY <3>2 DEF SetFields
    <3> QED
      BY <1>1, <3>3, <3>4 DEF Databases
  <2> QED
    BY <2>1, <2>2
<1> HIDE DEF w
<1>5. /\ e.asset = w.asset /\ e.owner = w.owner /\ e.timeline = w.timeline
      /\ e.review = w.review /\ e.finished = w.finished
      /\ e \in Databases
      /\ Closed(q, e.proposals, how)
  <2>1. q.asset \in DOMAIN w.asset
    BY <1>1, <1>4 DEF Databases
  <2>2. e \in Databases
    BY <1>1, <1>4, <2>1, CloseFacts DEF SameAssets
  <2> QED
    BY <1>4, <2>2 DEF CloseAlways, CloseIfOpen, Closed, SameKey, Databases
<1> HIDE DEF e, q, es
<1>6. /\ db'.asset = e.asset /\ db'.owner = e.owner /\ db'.review = e.review
      /\ db'.finished = e.finished /\ db'.proposals = e.proposals
      /\ db'.timeline = e.timeline \cup es
  BY <1>3, <1>5 DEF Log, Databases
<1>7. \A a \in DOMAIN db.asset, f \in Fields :
        (a # q.asset \/ f # q.field) => FieldOf(db', a, f) = FieldOf(db, a, f)
  BY <1>4, <1>5, <1>6 DEF FieldOf
<1> QED
  BY <1>1, <1>4, <1>5, <1>6, <1>7 DEF q, es

(* What a reviewer holds is committed and, but for its resolution, still   *)
(* what the table has under its key.                                       *)
HeldIsCommitted ==
  \A r \in Reviewers : phase[r] = "ready" =>
    /\ held[r].resolution = NULL /\ Done(held[r].by[1])
    /\ \E x \in db.proposals : SameKey(x, held[r])
    /\ \A x \in db.proposals : SameKey(x, held[r]) => [x EXCEPT !.resolution = NULL] = held[r]

(* An answer on the timeline is to a question that is not open any more,   *)
(* and that whoever gave it does not hold.                                 *)
AnsweredOnce ==
  \A e \in db.timeline : e.by[1] \in Reviewers =>
    /\ e.by[2].resolution = NULL /\ Done(e.by[2].by[1])
    /\ e.by[2] \notin db.proposals
    /\ phase[e.by[1]] = "ready" => held[e.by[1]] # e.by[2]

(* A transaction planned on the last commit has an entry for every value   *)
(* it has changed.                                                         *)
Journalled(d, e) ==
  \A a \in DOMAIN d.asset : e.asset[a].value # d.asset[a].value =>
    \E x \in e.timeline \ d.timeline : x.asset = a
TxnIsJournalled == lock # NULL /\ lock \notin stale => Journalled(db, work)

Attributed ==
  /\ TxnOnlyAdds /\ Settled
  /\ Keyed(db) /\ Keyed(work) /\ Numbered
  /\ HeldIsCommitted /\ AnsweredOnce
  /\ TxnIsJournalled

(* There is nothing to attribute yet.                                      *)
LEMMA InitAttributed == Init => Attributed
<1> SUFFICES ASSUME Init PROVE Attributed
  OBVIOUS
<1>1. /\ lock = NULL
      /\ db.proposals = {} /\ work.proposals = {} /\ db.review = {} /\ db.timeline = {}
      /\ db.finished = {}
      /\ \A r \in Reviewers : phase[r] # "ready"
  BY DEF Init, EmptyDb, Procs
<1> QED
  BY <1>1 DEF Attributed, TxnOnlyAdds, Settled, Keyed, Numbered, HeldIsCommitted,
     AnsweredOnce, TxnIsJournalled

(* A done ingest stays done.                                               *)
LEMMA DoneStays ==
  ASSUME NEW p \in Procs, Moves(p), NEW q, Done(q)
  PROVE  q \in Ingests /\ phase'[q] = "done"
BY DEF Moves, Done, Ingests, Procs

(* The lock holder is an ingest in its transaction, so not done.           *)
LEMMA LockFacts ==
  ASSUME IInv, lock # NULL
  PROVE  lock \in Ingests /\ lock \in Procs /\ phase[lock] = "txn" /\ ~Done(lock)
BY DEF IInv, TypeOK, LockHeldInTxn, Done, Procs

(* A row less is left.                                                     *)
LEMMA TailIsShorter ==
  ASSUME NEW rows \in Seq(Row), rows # << >>
  PROVE  Len(rows) \in Nat /\ Len(Tail(rows)) \in Nat /\ Len(Tail(rows)) < Len(rows)
OBVIOUS

(* Reading keeps it.                                                       *)
LEMMA QuietKeeps ==
  ASSUME IInv, Attributed, NEW p \in Procs, Quiet(p)
  PROVE  Attributed'
<1>1. Moves(p) /\ db' = db
  BY DEF Quiet
<1>2. \/ lock' = NULL /\ work' = EmptyDb
      \/ lock' = lock /\ work' = work
  BY DEF Quiet
<1>3. EmptyDb.proposals = {}
  BY DEF EmptyDb
<1>4. TxnOnlyAdds'
  BY <1>1, <1>2 DEF Attributed, TxnOnlyAdds
<1>5. Settled'
  BY <1>1, DoneStays DEF Attributed, Settled, Done
<1>6. Keyed(db)' /\ Keyed(work)'
  BY <1>1, <1>2, <1>3 DEF Attributed, Keyed
<1>7. Numbered'
  <2>1. CASE lock' = NULL
    BY <2>1 DEF Numbered
  <2>2. CASE lock' # NULL
    <3>1. lock' = lock /\ work' = work /\ lock # NULL
      BY <1>2, <2>2
    <3>2. lock \in Ingests /\ lock \in Procs
      BY <3>1, LockFacts
    <3>3. todo[lock] \in Seq(Row)
      BY <3>2 DEF IInv, TypeOK
    <3>4. \/ todo'[lock] = todo[lock]
          \/ todo[lock] # << >> /\ todo'[lock] = Tail(todo[lock])
      BY <3>1, <3>2 DEF Quiet, Moves
    <3>5. Len(todo'[lock]) <= Len(todo[lock]) /\ Len(todo'[lock]) \in Nat /\ Len(todo[lock]) \in Nat
      <4>1. CASE todo'[lock] = todo[lock]
        BY <3>3, <4>1
      <4>2. CASE todo[lock] # << >> /\ todo'[lock] = Tail(todo[lock])
        BY <3>3, <4>2, TailIsShorter
      <4> QED
        BY <3>4, <4>1, <4>2
    <3>6. \A x \in work.proposals : x.by[1] = lock => x.by[2] \in Nat
      BY DEF IInv, TypeOK, Databases, ProposalRow, Stamps
    <3> QED
      BY <3>1, <3>5, <3>6 DEF Attributed, Numbered
  <2> QED
    BY <2>1, <2>2
<1>8. HeldIsCommitted'
  <2>1. SUFFICES ASSUME NEW r \in Reviewers, phase'[r] = "ready"
                 PROVE  /\ held'[r].resolution = NULL
                        /\ held'[r].by[1] \in Ingests /\ phase'[held'[r].by[1]] = "done"
                        /\ \E x \in db.proposals : SameKey(x, held'[r])
                        /\ \A x \in db.proposals : SameKey(x, held'[r]) =>
                             [x EXCEPT !.resolution = NULL] = held'[r]
    BY <1>1 DEF HeldIsCommitted, Done
  <2>2. CASE phase[r] = "ready" /\ held'[r] = held[r]
    BY <1>1, <2>2, DoneStays DEF Attributed, HeldIsCommitted
  <2>3. CASE held'[r] \in db.proposals /\ held'[r].resolution = NULL
    <3>1. Done(held'[r].by[1])
      BY <2>3 DEF Attributed, Settled
    <3>2. \A x \in db.proposals : SameKey(x, held'[r]) => x = held'[r]
      BY <2>3 DEF Attributed, Keyed
    <3>4. SameKey(held'[r], held'[r])
      BY DEF SameKey
    <3>3. [held'[r] EXCEPT !.resolution = NULL] = held'[r]
      BY <2>3 DEF IInv, TypeOK, Databases, ProposalRow
    <3> QED
      BY <1>1, <2>3, <3>1, <3>2, <3>3, <3>4, DoneStays
  <2> QED
    BY <1>1, <2>1, <2>2, <2>3 DEF Quiet, Moves, Procs
<1>9. AnsweredOnce'
  <2>1. SUFFICES ASSUME NEW e \in db.timeline, e.by[1] \in Reviewers
                 PROVE  /\ e.by[2].resolution = NULL 
                        /\ e.by[2].by[1] \in Ingests /\ phase'[e.by[2].by[1]] = "done"
                        /\ e.by[2] \notin db.proposals
                        /\ phase'[e.by[1]] = "ready" => held'[e.by[1]] # e.by[2]
    BY <1>1 DEF AnsweredOnce, Done
  <2>2. /\ e.by[2].resolution = NULL /\ Done(e.by[2].by[1])
        /\ e.by[2] \notin db.proposals
        /\ phase[e.by[1]] = "ready" => held[e.by[1]] # e.by[2]
    BY <2>1 DEF Attributed, AnsweredOnce
  <2>3. phase'[e.by[1]] = "ready" =>
          \/ phase[e.by[1]] = "ready" /\ held'[e.by[1]] = held[e.by[1]]
          \/ held'[e.by[1]] \in db.proposals
    BY <1>1, <2>1 DEF Quiet, Moves, Procs
  <2> QED
    BY <1>1, <2>2, <2>3, DoneStays
<1>10. TxnIsJournalled'
  <2>1. SUFFICES ASSUME lock' # NULL, lock' \notin stale' PROVE Journalled(db, work)'
    BY DEF TxnIsJournalled
  <2>2. lock' = lock /\ work' = work
    BY <1>2, <2>1
  <2>3. lock \notin stale
    BY <2>1, <2>2, LockFacts DEF Quiet
  <2> QED
    BY <1>1, <2>1, <2>2, <2>3 DEF Attributed, TxnIsJournalled, Journalled
<1> QED
  BY <1>4, <1>5, <1>6, <1>7, <1>8, <1>9, <1>10 DEF Attributed

(* A write in a transaction is nobody else's business.                     *)
LEMMA LockKeeps ==
  ASSUME IInv, Attributed, NEW p \in Procs, InLock(p)
  PROVE  (Settled /\ Keyed(db) /\ HeldIsCommitted /\ AnsweredOnce)'
<1>1. Moves(p) /\ db' = db /\ held' = held /\ p \in Ingests
  BY DEF InLock
<1>2. \A r \in Reviewers : phase'[r] = phase[r]
  BY <1>1, ProcsAssumption DEF Moves, Procs, Ingests
<1>3. Settled'
  BY <1>1, DoneStays DEF Attributed, Settled, Done
<1>4. Keyed(db)'
  BY <1>1 DEF Attributed, Keyed
<1>5. HeldIsCommitted'
  BY <1>1, <1>2, DoneStays DEF Attributed, HeldIsCommitted, Done
<1>6. AnsweredOnce'
  BY <1>1, <1>2, DoneStays DEF Attributed, AnsweredOnce, Done
<1> QED
  BY <1>3, <1>4, <1>5, <1>6

(* An empty transaction adds nothing.                                      *)
LEMMA BeginsKeeps ==
  ASSUME IInv, Attributed, NEW p \in Procs, Begins(p)
  PROVE  Attributed'
<1>1. InLock(p) /\ work' = db /\ todo' = todo /\ db' = db /\ lock' = p /\ p \in Ingests
      /\ lock = NULL
  BY DEF Begins, InLock
<1>2. (Settled /\ Keyed(db) /\ HeldIsCommitted /\ AnsweredOnce)'
  BY <1>1, LockKeeps
<1>3. TxnOnlyAdds'
  BY <1>1 DEF TxnOnlyAdds, Extends, KeepsOwners, AddsRows
<1>4. Keyed(work)'
  BY <1>1 DEF Attributed, Keyed
<1>5. ~Done(p)
  BY <1>1 DEF InLock, Moves, Done
<1>6. Numbered'
  BY <1>1, <1>5 DEF Attributed, Settled, Numbered
<1>7. TxnIsJournalled'
  BY <1>1 DEF TxnIsJournalled, Journalled
<1> QED
  BY <1>2, <1>3, <1>4, <1>6, <1>7 DEF Attributed

(* A row adds under its own stamp, which no row before it had.             *)
LEMMA WritesKeeps ==
  ASSUME IInv, Attributed, NEW p \in Procs, Writes(p)
  PROVE  Attributed'
<1>1. /\ InLock(p) /\ db' = db /\ lock' = p /\ p \in Ingests /\ lock \in {NULL, p}
      /\ todo[p] # << >> /\ todo'[p] = Tail(todo[p]) /\ stale' = stale
      /\ p # NULL
  BY ProcsAssumption DEF Writes, InLock
<1>2. (Settled /\ Keyed(db) /\ HeldIsCommitted /\ AnsweredOnce)'
  BY <1>1, LockKeeps
<1>3. /\ Extends(Own(p), Seen(p), work')
      /\ p \notin stale => SaysSo(Seen(p), work', By(p))
  BY WritesFacts
<1>4. PICK qs : Questions(By(p), qs) /\ work'.proposals = Seen(p).proposals \cup qs
  BY WritesFacts
<1>5. ~Done(p)
  BY <1>1 DEF InLock, Moves, Done
<1>6. \/ lock = NULL /\ Seen(p) = db
      \/ lock = p /\ Seen(p) = work
  BY <1>1 DEF Seen
<1>7. Extends(Own(p), db, Seen(p))
  BY <1>1, <1>6 DEF Attributed, TxnOnlyAdds, Extends, KeepsOwners, AddsRows
<1>8. TxnOnlyAdds'
  <2>1. Extends(Own(p), db, work')
    BY <1>3, <1>7, ExtendsAgain
  <2> QED
    BY <1>1, <2>1 DEF TxnOnlyAdds
<1>9. /\ Len(todo[p]) \in Nat /\ Len(todo'[p]) \in Nat /\ Len(todo'[p]) < Len(todo[p])
      /\ By(p)[1] = p /\ By(p)[2] = Len(todo[p])
  BY <1>1, TailIsShorter DEF IInv, TypeOK, By
<1>10. \A x \in Seen(p).proposals : x.by[1] = p => x.by[2] > Len(todo[p]) /\ x.by[2] \in Nat
  <2>1. CASE lock = NULL
    BY <1>5, <1>6, <2>1, <1>1 DEF Attributed, Settled
  <2>2. CASE lock = p
    <3>1. \A x \in work.proposals : x.by[2] \in Nat
      BY DEF IInv, TypeOK, Databases, ProposalRow, Stamps
    <3> QED
      BY <1>6, <2>2, <3>1, <1>1 DEF Attributed, Numbered
  <2> QED
    BY <1>1, <2>1, <2>2
<1>11. Numbered'
  <2>1. SUFFICES ASSUME NEW x \in work'.proposals, x.by[1] = p
                 PROVE  x.by[2] > Len(todo'[p])
    BY <1>1 DEF Numbered
  <2>2. CASE x \in Seen(p).proposals
    BY <1>9, <1>10, <2>1, <2>2
  <2>3. CASE x \in qs
    BY <1>4, <1>9, <2>3 DEF Questions
  <2> QED
    BY <1>4, <2>1, <2>2, <2>3
<1>12. Keyed(work)'
  <2>1. SUFFICES ASSUME NEW x \in work'.proposals, NEW y \in work'.proposals, SameKey(x, y)
                 PROVE  x = y
    BY DEF Keyed
  <2>2. Keyed(Seen(p))
    BY <1>6 DEF Attributed
  <2>3. \A z \in Seen(p).proposals : z.by # By(p)
    BY <1>9, <1>10
  <2>4. x \in Seen(p).proposals <=> y \in Seen(p).proposals
    BY <1>4, <2>1, <2>3 DEF SameKey, Questions
  <2>5. CASE x \in Seen(p).proposals
    BY <2>1, <2>2, <2>4, <2>5 DEF Keyed
  <2>6. CASE x \notin Seen(p).proposals
    BY <1>4, <2>1, <2>4, <2>6 DEF SameKey, Questions
  <2> QED
    BY <2>5, <2>6
<1>13. TxnIsJournalled'
  <2>1. SUFFICES ASSUME p \notin stale, NEW a \in DOMAIN db.asset,
                        work'.asset[a].value # db.asset[a].value
                 PROVE  \E x \in work'.timeline \ db.timeline : x.asset = a
    BY <1>1 DEF TxnIsJournalled, Journalled
  <2>2. CASE Seen(p).asset[a].value # db.asset[a].value
    <3>1. lock = p /\ Seen(p) = work
      BY <1>6, <2>2
    <3>2. PICK x \in work.timeline \ db.timeline : x.asset = a
      BY <1>1, <2>1, <2>2, <3>1 DEF Attributed, TxnIsJournalled, Journalled
    <3>3. x \in work'.timeline
      BY <1>3, <3>1, <3>2 DEF Extends, AddsRows
    <3> QED
      BY <3>2, <3>3
  <2>3. CASE Seen(p).asset[a].value = db.asset[a].value
    <3>1. a \in DOMAIN Seen(p).asset
      BY <1>6, <1>1 DEF IInv, TypeOK, Databases, WorkExtendsDb
    <3>2. PICK x \in work'.timeline : x.asset = a /\ x.by = By(p)
      BY <1>3, <2>1, <2>3, <3>1 DEF SaysSo
    <3>3. x \notin db.timeline
      BY <1>1, <1>5, <1>9, <3>2, ProcsAssumption DEF Attributed, Settled, Ingests
    <3> QED
      BY <3>2, <3>3
  <2> QED
    BY <2>2, <2>3
<1> QED
  BY <1>2, <1>8, <1>11, <1>12, <1>13 DEF Attributed

(* Without a transaction half of it says nothing.                          *)
LEMMA ReleasesKeeps ==
  ASSUME NEW p, Releases(p)
  PROVE  (TxnOnlyAdds /\ Keyed(work) /\ Numbered /\ TxnIsJournalled)'
BY DEF Releases, TxnOnlyAdds, Keyed, Numbered, TxnIsJournalled, EmptyDb

(* A commit that leaves the rows and what reviewers hold.                  *)
LEMMA SameRowsKeeps ==
  ASSUME IInv, Attributed, NEW p \in Procs, p \notin Reviewers, Releases(p),
         db'.proposals = db.proposals, db'.review = db.review, db'.timeline = db.timeline,
         \/ db'.finished = db.finished
         \/ db'.finished = db.finished \cup {p} /\ p \in Ingests /\ phase'[p] = "done"
  PROVE  Attributed'
<1>1. Moves(p)
  BY DEF Releases
<1>2. \A r \in Reviewers : phase'[r] = phase[r] /\ held'[r] = held[r]
  BY <1>1 DEF Moves, Procs
<1>3. Settled'
  BY <1>1, DoneStays DEF Attributed, Settled, Done
<1>4. Keyed(db)'
  BY DEF Attributed, Keyed
<1>5. HeldIsCommitted'
  BY <1>1, <1>2, DoneStays DEF Attributed, HeldIsCommitted, Done
<1>6. AnsweredOnce'
  BY <1>1, <1>2, DoneStays DEF Attributed, AnsweredOnce, Done
<1> QED
  BY <1>3, <1>4, <1>5, <1>6, ReleasesKeeps DEF Attributed

(* The row of a scan is nobody's question.                                 *)
LEMMA NotesKeeps ==
  ASSUME IInv, Attributed, NEW p \in Procs, Notes(p)
  PROVE  Attributed'
<1>1. p \in Ingests /\ p \notin Reviewers
  BY ProcsAssumption DEF Notes, Ingests
<1> QED
  BY <1>1, SameRowsKeeps DEF Notes

(* Nor is an asset added by hand.                                          *)
LEMMA AddsKeeps ==
  ASSUME IInv, Attributed, NEW p \in Procs, AddsAsset(p)
  PROVE  Attributed'
<1>1. Extends({}, db, db')
  BY AddsFacts
<1>2. /\ db'.proposals = db.proposals /\ db'.review = db.review
      /\ db'.timeline = db.timeline /\ db'.finished = db.finished
  BY <1>1 DEF Extends, AddsRows
<1>3. p \notin Reviewers /\ Releases(p)
  BY ProcsAssumption DEF AddsAsset
<1> QED
  BY <1>2, <1>3, SameRowsKeeps

(* A commit gives its ingest's rows their author: it is done.              *)
LEMMA CommitsBatchKeeps ==
  ASSUME IInv, Attributed, NEW p \in Procs, CommitsBatch(p)
  PROVE  Attributed'
<1>1. /\ Releases(p) /\ Moves(p) /\ p \in Ingests /\ lock = p /\ phase'[p] = "done"
      /\ p \notin Reviewers /\ p # NULL
  BY ProcsAssumption DEF CommitsBatch, Releases, Ingests
<1>2. /\ db'.proposals = work.proposals /\ db'.review = work.review
      /\ db'.timeline = work.timeline
      /\ db'.finished \subseteq work.finished \cup {p}
  BY DEF CommitsBatch, Finished, IInv, TypeOK, Databases
<1>3. \A r \in Reviewers : phase'[r] = phase[r] /\ held'[r] = held[r]
  BY <1>1 DEF Moves, Procs
<1>4. /\ \A x \in db'.proposals : x \in db.proposals \/ x.by[1] = p
      /\ \A x \in db'.review : x \in db.review \/ x.by[1] = p
      /\ \A x \in db'.timeline : x \in db.timeline \/ x.by[1] = p
      /\ db'.finished \subseteq db.finished \cup {p}
      /\ db.proposals \subseteq db'.proposals
  <2>1. \A x \in Own(p) : x[1] = p
    BY DEF Own
  <2> QED
    BY <1>1, <1>2, <2>1 DEF Attributed, TxnOnlyAdds, Extends, AddsRows
<1>5. ~Done(p)
  BY <1>1 DEF Moves, Done
<1>6. Settled'
  BY <1>1, <1>4, DoneStays DEF Attributed, Settled, Done
<1>7. Keyed(db)'
  BY <1>2 DEF Attributed, Keyed
<1>8. HeldIsCommitted'
  <2>1. SUFFICES ASSUME NEW r \in Reviewers, phase[r] = "ready"
                 PROVE  /\ held[r].resolution = NULL
                        /\ held[r].by[1] \in Ingests /\ phase'[held[r].by[1]] = "done"
                        /\ \E x \in db'.proposals : SameKey(x, held[r])
                        /\ \A x \in db'.proposals : SameKey(x, held[r]) =>
                             [x EXCEPT !.resolution = NULL] = held[r]
    BY <1>3 DEF HeldIsCommitted, Done
  <2>2. /\ held[r].resolution = NULL /\ Done(held[r].by[1])
        /\ \E x \in db.proposals : SameKey(x, held[r])
        /\ \A x \in db.proposals : SameKey(x, held[r]) => [x EXCEPT !.resolution = NULL] = held[r]
    BY <2>1 DEF Attributed, HeldIsCommitted
  <2>3. \A x \in db'.proposals : SameKey(x, held[r]) => x \in db.proposals
    BY <1>4, <1>5, <2>2 DEF SameKey
  <2> QED
    BY <1>1, <1>4, <2>2, <2>3, DoneStays
<1>9. AnsweredOnce'
  <2>1. SUFFICES ASSUME NEW e \in db'.timeline, e.by[1] \in Reviewers
                 PROVE  /\ e.by[2].resolution = NULL
                        /\ e.by[2].by[1] \in Ingests /\ phase'[e.by[2].by[1]] = "done"
                        /\ e.by[2] \notin db'.proposals
                        /\ phase'[e.by[1]] = "ready" => held'[e.by[1]] # e.by[2]
    BY DEF AnsweredOnce, Done
  <2>2. e \in db.timeline
    BY <1>1, <1>4, <2>1
  <2>3. /\ e.by[2].resolution = NULL /\ Done(e.by[2].by[1])
        /\ e.by[2] \notin db.proposals
        /\ phase[e.by[1]] = "ready" => held[e.by[1]] # e.by[2]
    BY <2>1, <2>2 DEF Attributed, AnsweredOnce
  <2>4. e.by[2] \notin db'.proposals
    BY <1>4, <1>5, <2>3
  <2> QED
    BY <1>1, <1>3, <2>1, <2>3, <2>4, DoneStays
<1> QED
  BY <1>1, <1>6, <1>7, <1>8, <1>9, ReleasesKeeps DEF Attributed

(* What closing a question leaves of the table.                            *)
OnlyCloses(q, ps, how) ==
  /\ q \notin ps
  /\ \A x \in ps : x \in db.proposals \/ x = [q EXCEPT !.resolution = how]
  /\ \A x, y \in ps : SameKey(x, y) => x = y
  /\ \A x \in db.proposals : \E y \in ps : SameKey(y, x)
  /\ \A x \in db.proposals : x.resolution # NULL =>
       x \in ps \/ [x EXCEPT !.resolution = "edited"] \in ps

(* An answer closes the proposal that was held, and no other.              *)
LEMMA ClosedFacts ==
  ASSUME IInv, Attributed, NEW r \in Reviewers, phase[r] = "ready",
         held[r] \in ProposalRow, NEW ps, NEW how \in Resolutions, Closed(held[r], ps, how)
  PROVE  OnlyCloses(held[r], ps, how)
<1> DEFINE q == held[r]
           c == [q EXCEPT !.resolution = how]
<1>1. /\ q \in ProposalRow /\ q.resolution = NULL
      /\ \A x \in db.proposals : SameKey(x, q) => [x EXCEPT !.resolution = NULL] = q
      /\ \A x, y \in db.proposals : SameKey(x, y) => x = y
  BY DEF Attributed, HeldIsCommitted, Keyed
<1>2. SameKey(c, q) /\ c.resolution = how /\ how # NULL
  BY <1>1, NullAssumption DEF SameKey, ProposalRow, Resolutions
<1>3. \A x \in db.proposals : SameKey(x, q) => [x EXCEPT !.resolution = "edited"] = [q EXCEPT !.resolution = "edited"]
  <2>1. SUFFICES ASSUME NEW x \in db.proposals, SameKey(x, q)
                 PROVE  [x EXCEPT !.resolution = "edited"] = [q EXCEPT !.resolution = "edited"]
    OBVIOUS
  <2>2. x \in ProposalRow /\ [x EXCEPT !.resolution = NULL] = q
    BY <1>1, <2>1 DEF IInv, TypeOK, Databases
  <2> HIDE DEF q
  <2> QED
    BY <2>2 DEF ProposalRow
<1>4. q # c
  BY <1>1, <1>2
<1> HIDE DEF OnlyCloses, q, c
<1>8. \A x : SameKey(x, x)
  BY DEF SameKey
<1>5. CASE ps = (db.proposals \ {q}) \cup {c} /\ q \in db.proposals
  <2>1. q \notin ps
    BY <1>4, <1>5
  <2>2. \A x \in ps : x \in db.proposals \/ x = c
    BY <1>5
  <2>3. \A x \in db.proposals : SameKey(x, c) => x = q
    BY <1>1, <1>2, <1>5 DEF SameKey
  <2>4. \A x, y \in ps : SameKey(x, y) => x = y
    BY <1>1, <1>5, <2>3 DEF SameKey
  <2>5. \A x \in db.proposals : x.resolution # NULL => x \in ps
    BY <1>1, <1>5
  <2>6. \A x \in db.proposals : \E y \in ps : SameKey(y, x)
    BY <1>2, <1>5, <1>8
  <2> QED
    BY <2>1, <2>2, <2>4, <2>5, <2>6 DEF OnlyCloses, q, c
<1>6. CASE ps = db.proposals /\ q \notin db.proposals
  BY <1>1, <1>6, <1>8 DEF OnlyCloses, q, c
<1>7. CASE ps = {y \in db.proposals : ~SameKey(y, q)} \cup {c} /\ how = "edited"
  <2>1. q \notin ps
    BY <1>4, <1>7 DEF SameKey
  <2>2. \A x \in ps : x \in db.proposals \/ x = c
    BY <1>7
  <2>3. \A x, y \in ps : SameKey(x, y) => x = y
    BY <1>1, <1>2, <1>7 DEF SameKey
  <2>4. \A x \in db.proposals : x \in ps \/ [x EXCEPT !.resolution = "edited"] \in ps
    BY <1>3, <1>7 DEF c
  <2>5. \A x \in db.proposals : \E y \in ps : SameKey(y, x)
    BY <1>2, <1>7, <1>8 DEF SameKey
  <2> QED
    BY <2>1, <2>2, <2>3, <2>4, <2>5 DEF OnlyCloses, q, c
<1> QED
  BY <1>5, <1>6, <1>7 DEF Closed, q, c

(* An answer closes the question its reviewer holds, which nobody else has *)
(* answered.                                                               *)
LEMMA AnswersKeeps ==
  ASSUME IInv, Attributed, NEW r \in Procs, Answers(r)
  PROVE  Attributed'
<1> DEFINE q == held[r]
<1>1. PICK how \in Resolutions :
        /\ Closed(q, db'.proposals, how)
        /\ db'.timeline = db.timeline \cup {Entry(q.asset, how, <<r, q>>)}
  BY AnswersFacts
<1> DEFINE c == [q EXCEPT !.resolution = how]
<1>2. /\ q \in ProposalRow /\ db'.review = db.review /\ db'.finished = db.finished
  BY AnswersFacts
<1>3. /\ Releases(r) /\ Moves(r) /\ r \in Reviewers /\ phase[r] = "ready" /\ phase'[r] = "idle"
  BY DEF Answers, Releases
<1>14. OnlyCloses(q, db'.proposals, how)
  BY <1>1, <1>2, <1>3, ClosedFacts
<1>4. /\ q \notin db'.proposals
      /\ \A x \in db'.proposals : x \in db.proposals \/ x = c
      /\ \A x, y \in db'.proposals : SameKey(x, y) => x = y
      /\ \A x \in db.proposals : \E y \in db'.proposals : SameKey(y, x)
  BY <1>14 DEF OnlyCloses
<1>5. /\ q.resolution = NULL /\ Done(q.by[1])
      /\ \E x \in db.proposals : SameKey(x, q)
      /\ \A x \in db.proposals : SameKey(x, q) => [x EXCEPT !.resolution = NULL] = q
  BY <1>3 DEF Attributed, HeldIsCommitted
<1>6. /\ SameKey(c, q) /\ c.resolution # NULL /\ [c EXCEPT !.resolution = NULL] = q
  BY <1>2, <1>5, NullAssumption DEF SameKey, ProposalRow
<1>7. \A s \in Reviewers : phase'[s] = "ready" =>
        s # r /\ phase[s] = "ready" /\ held'[s] = held[s]
  BY <1>3 DEF Moves, Procs
<1> HIDE DEF q, c
<1>8. Settled'
  <2>1. \A x \in db'.proposals \cup db'.review : Done(x.by[1])
    BY <1>2, <1>4, <1>5, <1>6 DEF Attributed, Settled, SameKey
  <2>2. \A x \in db'.timeline : Done(x.by[1]) \/ x.by[1] \in Reviewers
    BY <1>1, <1>3 DEF Attributed, Settled, Entry
  <2>3. \A p \in db'.finished : Done(p)
    BY <1>2 DEF Attributed, Settled
  <2> QED
    BY <1>3, <2>1, <2>2, <2>3, DoneStays DEF Settled, Done
<1>9. Keyed(db)'
  BY <1>4 DEF Keyed
<1>10. HeldIsCommitted'
  <2>1. SUFFICES ASSUME NEW s \in Reviewers, phase[s] = "ready", s # r
                 PROVE  /\ held[s].resolution = NULL
                        /\ held[s].by[1] \in Ingests /\ phase'[held[s].by[1]] = "done"
                        /\ \E x \in db'.proposals : SameKey(x, held[s])
                        /\ \A x \in db'.proposals : SameKey(x, held[s]) =>
                             [x EXCEPT !.resolution = NULL] = held[s]
    BY <1>7 DEF HeldIsCommitted, Done
  <2>2. /\ held[s].resolution = NULL /\ Done(held[s].by[1])
        /\ \E x \in db.proposals : SameKey(x, held[s])
        /\ \A x \in db.proposals : SameKey(x, held[s]) => [x EXCEPT !.resolution = NULL] = held[s]
    BY <2>1 DEF Attributed, HeldIsCommitted
  <2>3. \E x \in db'.proposals : SameKey(x, held[s])
    BY <1>4, <2>2 DEF SameKey
  <2>4. SameKey(c, held[s]) => q = held[s]
    <3>1. PICK x \in db.proposals : SameKey(x, q)
      BY <1>5
    <3>2. SameKey(c, held[s]) => SameKey(x, held[s])
      BY <1>6, <3>1 DEF SameKey
    <3> QED
      BY <1>5, <2>2, <3>1, <3>2
  <2>5. \A x \in db'.proposals : SameKey(x, held[s]) => [x EXCEPT !.resolution = NULL] = held[s]
    BY <1>4, <1>6, <2>2, <2>4
  <2> QED
    BY <1>3, <2>2, <2>3, <2>5, DoneStays
<1>11. AnsweredOnce'
  <2>1. SUFFICES ASSUME NEW e \in db'.timeline, e.by[1] \in Reviewers
                 PROVE  /\ e.by[2].resolution = NULL
                        /\ e.by[2].by[1] \in Ingests /\ phase'[e.by[2].by[1]] = "done"
                        /\ e.by[2] \notin db'.proposals
                        /\ phase'[e.by[1]] = "ready" => held'[e.by[1]] # e.by[2]
    BY DEF AnsweredOnce, Done
  <2>2. CASE e \in db.timeline
    <3>1. /\ e.by[2].resolution = NULL /\ Done(e.by[2].by[1])
          /\ e.by[2] \notin db.proposals
          /\ phase[e.by[1]] = "ready" => held[e.by[1]] # e.by[2]
      BY <2>1, <2>2 DEF Attributed, AnsweredOnce
    <3>2. e.by[2] \notin db'.proposals
      BY <1>4, <1>6, <3>1
    <3> QED
      BY <1>3, <1>7, <2>1, <3>1, <3>2, DoneStays
  <2>3. CASE e = Entry(q.asset, how, <<r, q>>)
    <3>1. e.by[1] = r /\ e.by[2] = q
      BY <2>3 DEF Entry
    <3> QED
      BY <1>3, <1>4, <1>5, <3>1, DoneStays
  <2> QED
    BY <1>1, <2>1, <2>2, <2>3
<1> QED
  BY <1>3, <1>8, <1>9, <1>10, <1>11, ReleasesKeeps DEF Attributed

(* Attributed is inductive.                                                *)
LEMMA NextAttributed == IInv /\ Attributed /\ [Next]_vars => Attributed'
<1> SUFFICES ASSUME IInv, Attributed, [Next]_vars PROVE Attributed'
  OBVIOUS
<1>1. CASE UNCHANGED vars
  BY <1>1 DEF vars, Attributed, TxnOnlyAdds, Settled, Keyed, Numbered, HeldIsCommitted,
     AnsweredOnce, TxnIsJournalled, Done
<1>2. CASE Next
  <2>1. PICK p \in Procs : StepOf(p)
    BY <1>2, StepKinds
  <2> QED
    BY <2>1, QuietKeeps, WritesKeeps, BeginsKeeps, CommitsBatchKeeps, NotesKeeps,
       AddsKeeps, AnswersKeeps DEF StepOf
<1> QED
  BY <1>1, <1>2

(* Every row of the last commit is a finished ingest's or a reviewer's;    *)
(* questions have keys of their own, are answered once and only while they *)
(* are open; and what a transaction changes it has an entry for.           *)
THEOREM RowsAreAttributed == Spec => []Attributed
BY InitAttributed, NextAttributed, Invariance, PTL DEF Spec

-----------------------------------------------------------------------------
(* What a commit may do to the one before it.                              *)

(* The commit of a batch is its transaction.                               *)
LEMMA BatchFacts ==
  ASSUME IInv, Attributed, NEW p \in Procs, CommitsBatch(p)
  PROVE  /\ p \in Ingests /\ lock = p /\ p # NULL
         /\ db'.asset = work.asset /\ db'.owner = work.owner
         /\ db'.proposals = work.proposals /\ db'.timeline = work.timeline
         /\ Extends(Own(p), db, work)
BY ProcsAssumption DEF CommitsBatch, Finished, Attributed, TxnOnlyAdds, IInv, TypeOK, Databases

(* Only four kinds of step commit anything.                                *)
LEMMA Commits ==
  ASSUME IInv, [Next]_vars
  PROVE  \/ db' = db
         \/ \E p \in Procs : CommitsBatch(p) \/ Notes(p) \/ AddsAsset(p) \/ Answers(p)
<1>1. CASE Next
  <2>1. PICK p \in Procs : StepOf(p)
    BY <1>1, StepKinds
  <2> QED
    BY <2>1 DEF StepOf, Quiet, Writes, Begins, InLock
<1> QED
  BY <1>1 DEF vars

(* Binding a MAC is the last word about it: a batch and an `add` bind only *)
(* what is free, and nothing else writes the table.                        *)
LEMMA OwnersStay ==
  ASSUME IInv, Attributed, [Next]_vars
  PROVE  KeepsOwners(db, db')
<1>1. CASE db' = db
  BY <1>1 DEF KeepsOwners
<1>2. ASSUME NEW p \in Procs, CommitsBatch(p) PROVE KeepsOwners(db, db')
  BY <1>2, BatchFacts DEF Extends, KeepsOwners
<1>3. ASSUME NEW p \in Procs, Notes(p) PROVE KeepsOwners(db, db')
  BY <1>3 DEF Notes, KeepsOwners
<1>4. ASSUME NEW p \in Procs, AddsAsset(p) PROVE KeepsOwners(db, db')
  BY <1>4, AddsFacts DEF Extends
<1>5. ASSUME NEW p \in Procs, Answers(p) PROVE KeepsOwners(db, db')
  BY <1>5, AnswersFacts DEF KeepsOwners
<1> QED
  BY <1>1, <1>2, <1>3, <1>4, <1>5, Commits

(* db/writer.py _bind_mac, db/import_common.py: a MAC address bound to an  *)
(* asset stays with it, whichever commands race to bind it.                *)
THEOREM BoundMacsStay == Spec => MacNeverMoves
<1>1. IInv /\ Attributed /\ [Next]_vars =>
        [\A m \in Macs : db.owner[m] # 0 => db'.owner[m] = db.owner[m]]_vars
  BY OwnersStay DEF KeepsOwners
<1> QED
  BY <1>1, Invariance, RowsAreAttributed, PTL DEF Spec, MacNeverMoves

(* The committing ingests are the done ones: an ingest that is under way,  *)
(* or failed, or crashed, has left no row.  Nothing is said of the rows an *)
(* import that was done has skipped.                                       *)
THEOREM UnfinishedLeaveNothing == Spec => []BatchIsAtomic
<1>1. Attributed => BatchIsAtomic
  BY ProcsAssumption DEF Attributed, Settled, Done, BatchIsAtomic, Ingests
<1> QED
  BY <1>1, RowsAreAttributed, PTL

(* Only an answer touches a question, and it spares the answered ones.     *)
LEMMA ResolutionsStay ==
  ASSUME IInv, Attributed, [Next]_vars, NEW q \in db.proposals, q.resolution # NULL
  PROVE  q \in db'.proposals \/ [q EXCEPT !.resolution = "edited"] \in db'.proposals
<1>2. ASSUME NEW p \in Procs, CommitsBatch(p) PROVE q \in db'.proposals
  BY <1>2, BatchFacts DEF Extends, AddsRows
<1>3. ASSUME NEW p \in Procs, Notes(p) PROVE q \in db'.proposals
  BY <1>3 DEF Notes
<1>4. ASSUME NEW p \in Procs, AddsAsset(p) PROVE q \in db'.proposals
  BY <1>4, AddsFacts DEF Extends, AddsRows
<1>5. ASSUME NEW r \in Procs, Answers(r)
      PROVE  q \in db'.proposals \/ [q EXCEPT !.resolution = "edited"] \in db'.proposals
  <2>1. r \in Reviewers /\ phase[r] = "ready"
    BY <1>5 DEF Answers
  <2>2. held[r] \in ProposalRow /\ \E how \in Resolutions : Closed(held[r], db'.proposals, how)
    BY <1>5, AnswersFacts
  <2>3. \E how \in Resolutions : OnlyCloses(held[r], db'.proposals, how)
    BY <2>1, <2>2, ClosedFacts
  <2> QED
    BY <2>3 DEF OnlyCloses
<1> QED
  BY <1>2, <1>3, <1>4, <1>5, Commits

(* db/proposed_changes.py: whoever answers a question that is answered     *)
(* already leaves the first answer, or replaces it by an edit.             *)
THEOREM ResolutionsAreFinal == Spec => ResolutionIsFinal
<1>1. IInv /\ Attributed /\ [Next]_vars =>
        [\A q \in db.proposals : q.resolution # NULL =>
           \/ q \in db'.proposals
           \/ [q EXCEPT !.resolution = "edited"] \in db'.proposals]_vars
  BY ResolutionsStay
<1> QED
  BY <1>1, Invariance, RowsAreAttributed, PTL DEF Spec, ResolutionIsFinal

(* An answer writes nothing but the field it is about, and says so.        *)
LEMMA AnswersAreJournalled ==
  ASSUME IInv, IInv', Attributed, NEW r \in Procs, Answers(r),
         NEW a \in DOMAIN db.asset, db'.asset[a].value # db.asset[a].value
  PROVE  \E e \in db'.timeline \ db.timeline : e.asset = a
<1> DEFINE q == held[r]
<1>1. /\ Len(db'.asset) = Len(db.asset)
      /\ \A b \in DOMAIN db.asset, f \in Fields :
           (b # q.asset \/ f # q.field) => FieldOf(db', b, f) = FieldOf(db, b, f)
      /\ \E how \in Resolutions : db'.timeline = db.timeline \cup {Entry(q.asset, how, <<r, q>>)}
  BY AnswersFacts
<1>2. r \in Reviewers /\ phase[r] = "ready"
  BY DEF Answers
<1>3. a = q.asset
  <2>1. db.asset[a].value \in Cells /\ db'.asset[a].value \in Cells
    <3>1. db.asset \in Seq(Asset) /\ db'.asset \in Seq(Asset)
      BY DEF IInv, TypeOK, Databases
    <3>2. db.asset[a] \in Asset /\ db'.asset[a] \in Asset
      BY <1>1, <3>1
    <3> QED
      BY <3>2 DEF Asset
  <2>2. PICK f \in Fields : db'.asset[a].value[f] # db.asset[a].value[f]
    BY <2>1 DEF Cells
  <2>3. FieldOf(db', a, f) # FieldOf(db, a, f)
    BY <2>2 DEF FieldOf
  <2> QED
    BY <1>1, <2>3
<1>4. PICK how \in Resolutions : db'.timeline = db.timeline \cup {Entry(q.asset, how, <<r, q>>)}
  BY <1>1
<1> DEFINE e == Entry(q.asset, how, <<r, q>>)
<1>5. e.asset = q.asset /\ e.by[1] = r /\ e.by[2] = q
  BY DEF Entry
<1> HIDE DEF e, q
<1>6. e \notin db.timeline
  BY <1>2, <1>5 DEF Attributed, AnsweredOnce, q
<1> QED
  BY <1>3, <1>4, <1>5, <1>6 DEF e

(* Nor is any other commit silent, unless it was planned on the past.      *)
LEMMA ChangesHaveEntries ==
  ASSUME IInv, IInv', Attributed, [Next]_vars, lock \notin stale,
         NEW a \in DOMAIN db.asset, db'.asset[a].value # db.asset[a].value
  PROVE  \E e \in db'.timeline \ db.timeline : e.asset = a
<1>2. ASSUME NEW p \in Procs, CommitsBatch(p)
      PROVE  \E e \in db'.timeline \ db.timeline : e.asset = a
  BY <1>2, BatchFacts DEF Attributed, TxnIsJournalled, Journalled
<1>3. ASSUME NEW p \in Procs, Notes(p) \/ AddsAsset(p) PROVE FALSE
  BY <1>3, AddsFacts DEF Notes
<1>5. ASSUME NEW p \in Procs, Answers(p)
      PROVE  \E e \in db'.timeline \ db.timeline : e.asset = a
  BY <1>5, AnswersAreJournalled
<1> QED
  BY <1>2, <1>3, <1>5, Commits

(* The journal is complete: no commit changes a value of an asset without  *)
(* an entry of that asset, unless an ingest had planned it on a state that *)
(* has gone.                                                               *)
THEOREM JournalIsComplete == Spec => ChangesAreJournalled
<1>1. IInv /\ IInv' /\ Attributed /\ [Next]_vars =>
        [\A a \in DOMAIN db.asset :
           db'.asset[a].value # db.asset[a].value =>
             \/ \E e \in db'.timeline \ db.timeline : e.asset = a
             \/ lock \in stale]_vars
  BY ChangesHaveEntries
<1> QED
  BY <1>1, Invariance, RowsAreAttributed, PTL DEF Spec, ChangesAreJournalled

(* Whose doing it was.                                                     *)
LEMMA CuratedIsDisposed ==
  ASSUME IInv, Attributed, [Next]_vars,
         NEW a \in DOMAIN db.asset, NEW f \in Fields, Curated(db, a, f),
         FieldOf(db', a, f) # FieldOf(db, a, f)
  PROVE  \/ \E r \in Reviewers : Disposes(r, a, f)
         \/ lock # NULL /\ Overrules(lock, a, f)
<1>2. ASSUME NEW p \in Procs, CommitsBatch(p)
      PROVE  lock # NULL /\ Overrules(lock, a, f)
  <2>1. lock = p /\ p # NULL /\ p \in Ingests /\ db'.asset = work.asset
    BY <1>2, BatchFacts
  <2>2. KeptCurated(db, work, a, f) \/ Overrules(p, a, f)
    BY <2>1 DEF IInv, TxnKeepsCurated
  <2>3. FieldOf(work, a, f) # FieldOf(db, a, f)
    BY <2>1 DEF FieldOf
  <2> QED
    BY <2>1, <2>2, <2>3 DEF KeptCurated
<1>3. ASSUME NEW p \in Procs, Notes(p) \/ AddsAsset(p) PROVE FALSE
  <2>1. db'.asset[a] = db.asset[a]
    BY <1>3, AddsFacts DEF Notes
  <2> QED
    BY <2>1 DEF FieldOf
<1>5. ASSUME NEW r \in Procs, Answers(r)
      PROVE  r \in Reviewers /\ Disposes(r, a, f)
  <2>1. \A b \in DOMAIN db.asset, g \in Fields :
          (b # held[r].asset \/ g # held[r].field) => FieldOf(db', b, g) = FieldOf(db, b, g)
    BY <1>5, AnswersFacts
  <2> QED
    BY <1>5, <2>1 DEF Answers, Disposes
<1> QED
  BY <1>2, <1>3, <1>5, Commits

(* core/provenance.py, "scanner proposes, human disposes", as far as the   *)
(* code keeps it, of every commit and with no proviso: a manual or         *)
(* imported value changes only by a disposition of a proposal about it, or *)
(* by the first row of an overtaken ingest that had read it before.        *)
THEOREM OnlyRacesOverrule == Spec => OnlyTheOvertakenOverrule
<1>1. IInv /\ Attributed /\ [Next]_vars =>
        [\A a \in DOMAIN db.asset, f \in Fields :
           Curated(db, a, f) /\ FieldOf(db', a, f) # FieldOf(db, a, f) =>
             \/ \E r \in Reviewers : Disposes(r, a, f)
             \/ lock # NULL /\ Overrules(lock, a, f)]_vars
  BY CuratedIsDisposed
<1> QED
  BY <1>1, Invariance, RowsAreAttributed, PTL DEF Spec, OnlyTheOvertakenOverrule

(* In full, where no ingest is overtaken.                                  *)
THEOREM HumansDispose == Spec /\ [](lock \notin stale) => HumanDisposes
<1>1. IInv /\ Attributed /\ (lock \notin stale) /\ [Next]_vars =>
        [\A a \in DOMAIN db.asset, f \in Fields :
           Curated(db, a, f) /\ FieldOf(db', a, f) # FieldOf(db, a, f) =>
             \E r \in Reviewers : Disposes(r, a, f)]_vars
  BY CuratedIsDisposed DEF Overrules
<1> QED
  BY <1>1, Invariance, RowsAreAttributed, PTL DEF Spec, HumanDisposes

(* A row that goes into a transaction asks what it must.                   *)
LEMMA RowAsks ==
  ASSUME IInv, Attributed, Next, NEW p \in Ingests,
         todo'[p] # todo[p], lock' = p, p \notin stale,
         NEW pl, pl = ResolveRow(Seen(p), Row1(p)), pl.kind = "update",
         p \in Netboxes => ~AddressKnown(p, Seen(p)),
         NEW f \in Fields, Curated(Seen(p), pl.asset, f),
         Row1(p).value[f] \notin {NULL, Seen(p).asset[pl.asset].value[f]}
  PROVE  \E q \in work'.proposals :
           /\ q.asset = pl.asset /\ q.field = f /\ q.by = By(p)
           /\ q.proposed = Row1(p).value[f] /\ q.resolution = NULL
<1>1. PICK s \in Procs : StepOf(s)
  BY StepKinds
<1>2. p \in Procs /\ p # NULL
  BY ProcsAssumption DEF Procs
<1>3. Moves(s)
  BY <1>1 DEF StepOf, Quiet, Writes, Begins, InLock, CommitsBatch, Notes, AddsAsset,
     Answers, Releases
<1>4. s = p
  BY <1>2, <1>3 DEF Moves
<1>5. ~Quiet(p)
  BY <1>2 DEF Quiet, Seen
<1>6. Writes(p)
  BY <1>1, <1>2, <1>4, <1>5 DEF StepOf, Begins, CommitsBatch, Notes, AddsAsset, Answers, Releases
<1>7. Asked(pl.asset, KnownOf(Seen(p), pl.asset), Row1(p), By(p)) \subseteq work'.proposals
  BY <1>2, <1>6, WritesFacts
<1> DEFINE kn == KnownOf(Seen(p), pl.asset)
           q  == Proposal(pl.asset, f, kn, Row1(p), By(p))
<1>8. Row1(p) \in Row
  BY <1>2, <1>6, RowFacts DEF Writes, IInv
<1>9. f \in Proposed(kn, Row1(p).value)
  <2>1. kn.value[f] = Seen(p).asset[pl.asset].value[f] /\ kn.prov[f] = Seen(p).asset[pl.asset].prov[f]
    BY NullAssumption DEF KnownOf, KnownFrom, Curated, IsProtected, Protected, Provenances
  <2>2. f \in DOMAIN Row1(p).value
    BY <1>8 DEF Row, Cells
  <2> QED
    BY <2>1, <2>2 DEF Proposed, Curated, IsProtected, HasPrior
<1>10. q \in work'.proposals
  BY <1>7, <1>9 DEF Asked
<1>11. /\ q.asset = pl.asset /\ q.field = f /\ q.by = By(p)
       /\ q.proposed = Row1(p).value[f] /\ q.resolution = NULL
  BY DEF Proposal
<1> QED
  BY <1>10, <1>11

(* "No silent drops": whatever an ingest may not overwrite it asks about.  *)
THEOREM NoSilentDrops == Spec => ConflictsAreProposed
<1>1. IInv /\ Attributed /\ [Next]_vars =>
        [\A p \in Ingests : todo'[p] # todo[p] /\ lock' = p /\ p \notin stale =>
           LET seen == IF lock = p THEN work ELSE db
               row  == Row1(p)
               pl   == ResolveRow(seen, row)
           IN  pl.kind = "update" /\ (p \in Netboxes => ~AddressKnown(p, seen)) =>
                 \A f \in Fields :
                   /\ Curated(seen, pl.asset, f)
                   /\ row.value[f] \notin {NULL, seen.asset[pl.asset].value[f]}
                   => \E q \in work'.proposals :
                        /\ q.asset = pl.asset /\ q.field = f /\ q.by = By(p)
                        /\ q.proposed = row.value[f] /\ q.resolution = NULL]_vars
  <2> SUFFICES ASSUME IInv, Attributed, Next, NEW p \in Ingests,
                      todo'[p] # todo[p], lock' = p, p \notin stale,
                      NEW pl, pl = ResolveRow(Seen(p), Row1(p)), pl.kind = "update",
                      p \in Netboxes => ~AddressKnown(p, Seen(p)),
                      NEW f \in Fields, Curated(Seen(p), pl.asset, f),
                      Row1(p).value[f] \notin {NULL, Seen(p).asset[pl.asset].value[f]}
               PROVE  \E q \in work'.proposals :
                        /\ q.asset = pl.asset /\ q.field = f /\ q.by = By(p)
                        /\ q.proposed = Row1(p).value[f] /\ q.resolution = NULL
    BY DEF Seen
  <2> QED
    BY RowAsks
<1> QED
  BY <1>1, Invariance, RowsAreAttributed, PTL DEF Spec, ConflictsAreProposed

-----------------------------------------------------------------------------
(* The inventory keeps the promise of Curation.                            *)

OneReviewer == \A r, s \in Reviewers : r = s

(* Every question a transaction adds asks for something else than what it  *)
(* has read.                                                               *)
TxnAsks ==
  lock # NULL => \A q \in work.proposals \ db.proposals :
                   q.resolution = NULL /\ q.proposed \notin {NULL, q.current}

(* What a reviewer has read is still open.                                 *)
StillOpen == \A r \in Reviewers : phase[r] = "ready" => held[r] \in db.proposals

(* There are no questions yet.                                             *)
LEMMA InitAsks == Init => StillOpen /\ TxnAsks
<1> SUFFICES ASSUME Init PROVE StillOpen /\ TxnAsks
  OBVIOUS
<1>1. lock = NULL /\ \A r \in Reviewers : phase[r] # "ready"
  BY DEF Init, Procs
<1> QED
  BY <1>1 DEF StillOpen, TxnAsks

(* A row adds its own questions, a commit leaves none to add.              *)
LEMMA NextTxnAsks ==
  ASSUME IInv, Attributed, TxnAsks, [Next]_vars
  PROVE  TxnAsks'
<1>1. CASE UNCHANGED vars
  BY <1>1 DEF vars, TxnAsks
<1>2. ASSUME NEW p \in Procs, Quiet(p) PROVE TxnAsks'
  BY <1>2 DEF Quiet, TxnAsks
<1>3. ASSUME NEW p \in Procs, Writes(p) PROVE TxnAsks'
  <2>1. InLock(p)
    BY <1>3 DEF Writes
  <2>2. PICK qs : Questions(By(p), qs) /\ work'.proposals = Seen(p).proposals \cup qs
    BY <1>3, WritesFacts
  <2>3. \A q \in Seen(p).proposals \ db.proposals :
          q.resolution = NULL /\ q.proposed \notin {NULL, q.current}
    BY <2>1, ProcsAssumption DEF TxnAsks, Seen, InLock, Procs
  <2> QED
    BY <2>1, <2>2, <2>3 DEF TxnAsks, Questions, InLock
<1>4. ASSUME NEW p \in Procs, Begins(p) PROVE TxnAsks'
  BY <1>4 DEF TxnAsks, Begins, InLock
<1>5. ASSUME NEW p \in Procs, Releases(p) PROVE TxnAsks'
  BY <1>5 DEF Releases, TxnAsks
<1>6. CASE Next
  <2>1. PICK p \in Procs : StepOf(p)
    BY <1>6, StepKinds
  <2> QED
    BY <2>1, <1>2, <1>3, <1>4, <1>5 DEF StepOf, CommitsBatch, Notes, AddsAsset, Answers
<1> QED
  BY <1>1, <1>6

(* With one session reviewing, nobody else answers what it holds.          *)
LEMMA NextStillOpen ==
  ASSUME OneReviewer, IInv, Attributed, StillOpen, [Next]_vars
  PROVE  StillOpen'
<1>1. CASE UNCHANGED vars
  BY <1>1 DEF vars, StillOpen
<1>2. ASSUME NEW p \in Procs, Quiet(p) PROVE StillOpen'
  <2>1. \A r \in Reviewers : phase'[r] = "ready" =>
          \/ phase[r] = "ready" /\ held'[r] = held[r]
          \/ held'[r] \in db.proposals
    BY <1>2 DEF Quiet, Moves, Procs
  <2> QED
    BY <1>2, <2>1 DEF Quiet, StillOpen
<1>3. ASSUME NEW p \in Procs, Writes(p) \/ Begins(p) PROVE StillOpen'
  <2>1. InLock(p)
    BY <1>3 DEF Writes, Begins
  <2>2. \A r \in Reviewers : phase'[r] = phase[r] /\ held'[r] = held[r]
    BY <2>1, ProcsAssumption DEF InLock, Moves, Procs, Ingests
  <2> QED
    BY <2>1, <2>2 DEF StillOpen, InLock
<1>4. ASSUME NEW p \in Procs, Releases(p), p \notin Reviewers, db.proposals \subseteq db'.proposals
      PROVE  StillOpen'
  BY <1>4 DEF Releases, Moves, Procs, StillOpen
<1>5. ASSUME NEW p \in Procs, CommitsBatch(p) \/ Notes(p) \/ AddsAsset(p)
      PROVE  StillOpen'
  <2>1. db.proposals \subseteq db'.proposals
    BY <1>5, BatchFacts, AddsFacts DEF Notes, Extends, AddsRows
  <2>2. p \notin Reviewers /\ Releases(p)
    BY <1>5, ProcsAssumption DEF CommitsBatch, Notes, AddsAsset, Ingests
  <2> QED
    BY <1>4, <2>1, <2>2
<1>6. ASSUME NEW p \in Procs, Answers(p) PROVE StillOpen'
  BY <1>6 DEF Answers, Releases, OneReviewer, StillOpen
<1>7. CASE Next
  <2>1. PICK p \in Procs : StepOf(p)
    BY <1>7, StepKinds
  <2> QED
    BY <2>1, <1>2, <1>3, <1>5, <1>6 DEF StepOf
<1> QED
  BY <1>1, <1>7

(* Writing one field and closing one question are what Curation says.      *)
Written(assets, q, v, prov) ==
  [assets EXCEPT ![q.asset].value[q.field] = v, ![q.asset].prov[q.field] = prov]
WithClosed(ps, q, how) == (ps \ {q}) \cup {[q EXCEPT !.resolution = how]}

(* The field.                                                              *)
LEMMA SetOneField ==
  ASSUME NEW d \in Databases, NEW q, q.asset \in DOMAIN d.asset, q.field \in Fields,
         NEW v, NEW prov
  PROVE  WriteField(d, q, v, prov).asset = Written(d.asset, q, v, prov)
<1> DEFINE a   == q.asset
           f   == q.field
           old == d.asset[a]
           x   == [value |-> [g \in Fields |-> IF g \in {f} THEN [h \in Fields |-> v][g] ELSE old.value[g]],
                   prov  |-> [g \in Fields |-> IF g \in {f} THEN prov ELSE old.prov[g]]]
           y   == [value |-> [old.value EXCEPT ![f] = v], prov |-> [old.prov EXCEPT ![f] = prov]]
<1>1. d.asset \in Seq(Asset) /\ old \in Asset
  BY DEF Databases
<1>2. /\ old = [value |-> old.value, prov |-> old.prov]
      /\ old.value = [g \in Fields |-> old.value[g]]
      /\ old.prov = [g \in Fields |-> old.prov[g]]
  BY <1>1 DEF Asset, Cells
<1>3. x.value = y.value /\ x.prov = y.prov
  BY <1>2
<1>4. x = y
  BY <1>3
<1>5. WriteField(d, q, v, prov) = [d EXCEPT !.asset = [d.asset EXCEPT ![a] = x]]
  BY DEF WriteField, SetFields, Databases
<1>6. [d.asset EXCEPT ![a].value[f] = v] =
        [d.asset EXCEPT ![a] = [value |-> [old.value EXCEPT ![f] = v], prov |-> old.prov]]
  <2>1. [d.asset EXCEPT ![a].value[f] = v] = [d.asset EXCEPT ![a] = [old EXCEPT !.value[f] = v]]
    BY <1>1
  <2>2. [old EXCEPT !.value[f] = v] = [old EXCEPT !.value = [old.value EXCEPT ![f] = v]]
    OBVIOUS
  <2>3. \A w : [old EXCEPT !.value = w] = [value |-> w, prov |-> old.prov]
    BY <1>1 DEF Asset
  <2> QED
    BY <2>1, <2>2, <2>3
<1>7. [d.asset EXCEPT ![a].value[f] = v, ![a].prov[f] = prov] = [d.asset EXCEPT ![a] = y]
  <2> DEFINE z == [value |-> [old.value EXCEPT ![f] = v], prov |-> old.prov]
  <2>1. [[d.asset EXCEPT ![a] = z] EXCEPT ![a].prov[f] = prov] = [d.asset EXCEPT ![a] = [z EXCEPT !.prov[f] = prov]]
    BY <1>1
  <2>2. [z EXCEPT !.prov[f] = prov] = y
    OBVIOUS
  <2> QED
    BY <1>6, <2>1, <2>2
<1> HIDE DEF x, y, old
<1> QED
  BY <1>4, <1>5, <1>7 DEF Databases, Written

(* The last two writes of an answer: the row and the entry.                *)
LEMMA CloseAndLog ==
  ASSUME NEW d \in Databases, NEW q \in d.proposals, Keyed(d), NEW how, NEW es,
         NEW e, e \in {CloseIfOpen(d, q, how), CloseAlways(d, q, how)}
  PROVE  /\ Log(e, es).asset = d.asset
         /\ Log(e, es).proposals = WithClosed(d.proposals, q, how)
<1> DEFINE c  == [q EXCEPT !.resolution = how]
           ps == (d.proposals \ {q}) \cup {c}
<1>1. {x \in d.proposals : ~(x.by = q.by /\ x.field = q.field)} = d.proposals \ {q}
  BY DEF Keyed, SameKey
<1>2. e = [d EXCEPT !.proposals = ps]
  BY <1>1 DEF CloseIfOpen, CloseAlways
<1> HIDE DEF c, ps
<1>3. Log(e, es) = [[d EXCEPT !.proposals = ps] EXCEPT !.timeline = e.timeline \cup es]
  BY <1>2 DEF Log
<1>4. Log(e, es).asset = d.asset /\ Log(e, es).proposals = ps
  BY <1>3 DEF Databases
<1> QED
  BY <1>4 DEF c, ps, WithClosed

(* What `r` holds is a question about a known asset, and taking a value    *)
(* for it writes one field and nothing else.                               *)
LEMMA HeldIsWritten ==
  ASSUME IInv, Attributed, NEW r \in Reviewers, phase[r] = "ready"
  PROVE  LET q == held[r]
         IN  /\ q \in ProposalRow /\ q.asset \in DOMAIN db.asset /\ q.field \in Fields
             /\ db \in Databases /\ Keyed(db)
             /\ \A v \in Values \cup {NULL}, prov \in Provenances :
                  LET w == WriteField(db, q, v, prov)
                  IN  /\ w \in Databases /\ Keyed(w) /\ w.proposals = db.proposals
                      /\ w.asset = Written(db.asset, q, v, prov)
<1> DEFINE q == held[r]
<1>1. /\ q \in ProposalRow /\ q.asset \in DOMAIN db.asset /\ q.field \in Fields
      /\ db \in Databases /\ Keyed(db)
  <2>1. ProcsUsable /\ db \in Databases
    BY DEF IInv, TypeOK
  <2>2. ReviewUsable(r) /\ r \in Procs
    BY <2>1 DEF ProcsUsable, Procs
  <2>3. q \in ProposalRow /\ q.asset \in DOMAIN db.asset
    BY <2>2 DEF ReviewUsable
  <2> QED
    BY <2>1, <2>3 DEF ProposalRow, Attributed
<1>2. SUFFICES ASSUME NEW v \in Values \cup {NULL}, NEW prov \in Provenances
               PROVE  LET w == WriteField(db, q, v, prov)
                      IN  /\ w \in Databases /\ Keyed(w) /\ w.proposals = db.proposals
                          /\ w.asset = Written(db.asset, q, v, prov)
  BY <1>1
<1>3. WriteField(db, q, v, prov) \in Databases
  BY <1>1, WriteFieldFacts
<1>4. WriteField(db, q, v, prov) = SetFields(db, q.asset, {q.field}, [g \in Fields |-> v], prov)
  BY DEF WriteField
<1>5. SetFields(db, q.asset, {q.field}, [g \in Fields |-> v], prov).proposals = db.proposals
  BY <1>1, SetFieldsExtends
<1>6. WriteField(db, q, v, prov).asset = Written(db.asset, q, v, prov)
  BY <1>1, SetOneField
<1> QED
  BY <1>1, <1>3, <1>4, <1>5, <1>6 DEF Keyed

(* An answer to an open question is one of the three of Curation.          *)
LEMMA AnswerIsPromised ==
  ASSUME IInv, Attributed, NEW r \in Procs, Answers(r), held[r] \in db.proposals
  PROVE  Promise!Next
<1> DEFINE q == held[r]
<1>1. /\ r \in Reviewers /\ phase[r] = "ready"
      /\ q \in ProposalRow /\ q.asset \in DOMAIN db.asset /\ q.field \in Fields
      /\ q \in db.proposals /\ db \in Databases /\ Keyed(db)
  BY HeldIsWritten DEF Answers
<1>2. q \in Promise!Open
  BY <1>1 DEF Promise!Open, Attributed, HeldIsCommitted
<1>3. ASSUME NEW v \in Values \cup {NULL}, NEW prov \in Provenances, NEW how \in {"accepted", "edited"},
             Answer(r, v, prov, how)
      PROVE  db'.asset = Written(db.asset, q, v, prov) /\ db'.proposals = WithClosed(db.proposals, q, how)
  <2> DEFINE w  == WriteField(db, q, v, prov)
             es == {Entry(q.asset, how, <<r, q>>)}
  <2>1. w \in Databases /\ Keyed(w) /\ w.proposals = db.proposals /\ w.asset = Written(db.asset, q, v, prov)
    BY <1>1, HeldIsWritten
  <2>2. PICK e \in {CloseIfOpen(w, q, how), CloseAlways(w, q, how)} : db' = Log(e, es)
    BY <1>3 DEF Answer
  <2> HIDE DEF w, es, q
  <2>3. q \in w.proposals
    BY <1>1, <2>1
  <2>4. /\ Log(e, es).asset = w.asset
        /\ Log(e, es).proposals = WithClosed(w.proposals, q, how)
    BY <2>1, <2>2, <2>3, CloseAndLog
  <2> QED
    BY <2>1, <2>2, <2>4
<1>4. ASSUME NEW v, NEW prov, Answer(r, v, prov, "rejected")
      PROVE  db'.asset = db.asset /\ db'.proposals = WithClosed(db.proposals, q, "rejected")
  <2>1. PICK es : db' = Log(CloseIfOpen(db, q, "rejected"), es)
    BY <1>4 DEF Answer
  <2> QED
    BY <1>1, <2>1, CloseAndLog
<1>5. CASE Answer(r, q.proposed, "scanned", "accepted")
  <2>1. q.proposed \in Values /\ "scanned" \in Provenances
    BY <1>1 DEF ProposalRow, Provenances
  <2>2. db'.asset = Written(db.asset, q, q.proposed, "scanned") /\ db'.proposals = WithClosed(db.proposals, q, "accepted")
    BY <1>3, <1>5, <2>1
  <2>3. Promise!Accept(q)
    BY <2>2 DEF Promise!Accept, Promise!TakeObserved, Promise!Answered, Written, WithClosed
  <2> QED
    BY <1>2, <2>3 DEF Promise!Next
<1>6. CASE Answer(r, q.proposed, "scanned", "rejected")
  <2>1. Promise!Reject(q)
    BY <1>4, <1>6 DEF Promise!Reject, Promise!Answered, WithClosed
  <2> QED
    BY <1>2, <2>1 DEF Promise!Next
<1>7. CASE \E v \in Overrides : Answer(r, v, "manual", "edited")
  <2>1. PICK v \in Overrides : Answer(r, v, "manual", "edited")
    BY <1>7
  <2>2. v \in Values \cup {NULL} /\ "manual" \in Provenances
    BY BatchesAssumption DEF Provenances
  <2>3. db'.asset = Written(db.asset, q, v, "manual") /\ db'.proposals = WithClosed(db.proposals, q, "edited")
    BY <1>3, <2>1, <2>2
  <2>4. Promise!Edit(q)
    BY <2>2, <2>3 DEF Promise!Edit, Promise!TakeChosen, Promise!Answered, Written, WithClosed
  <2> QED
    BY <1>2, <2>4 DEF Promise!Next
<1> QED
  BY <1>5, <1>6, <1>7 DEF Answers

(* An answer to a question that was answered meanwhile takes its value,    *)
(* and an edit replaces the answer; a rejection changes nothing.           *)
LEMMA LateAnswer ==
  ASSUME IInv, Attributed, NEW r \in Procs, Answers(r), held[r] \notin db.proposals
  PROVE  \/ UNCHANGED Promise!promised
         \/ r \in Reviewers /\ AnsweredMeanwhile(r) /\ Promise!AnswerAgain(held[r])
<1> DEFINE q == held[r]
<1>1. r \in Reviewers /\ AnsweredMeanwhile(r) /\ q \in ProposalRow /\ db \in Databases
  BY HeldIsWritten DEF Answers, AnsweredMeanwhile
<1>2. \A v \in Values \cup {NULL}, prov \in Provenances :
        LET w == WriteField(db, q, v, prov)
        IN  w \in Databases /\ w.proposals = db.proposals /\ w.asset = Written(db.asset, q, v, prov)
  BY <1>1, HeldIsWritten DEF AnsweredMeanwhile
<1>3. \A d \in Databases : \A es : Log(d, es).asset = d.asset /\ Log(d, es).proposals = d.proposals
  BY DEF Log, Databases
<1>4. CASE Answer(r, q.proposed, "scanned", "accepted")
  <2> DEFINE w == WriteField(db, q, q.proposed, "scanned")
  <2>1. q.proposed \in Values /\ "scanned" \in Provenances
    BY <1>1 DEF ProposalRow, Provenances
  <2>2. w \in Databases /\ w.proposals = db.proposals /\ w.asset = Written(db.asset, q, q.proposed, "scanned")
    BY <1>2, <2>1
  <2>3. PICK es : db' = Log(CloseIfOpen(w, q, "accepted"), es)
    BY <1>4 DEF Answer
  <2>4. CloseIfOpen(w, q, "accepted") = w
    BY <1>1, <2>2 DEF CloseIfOpen, AnsweredMeanwhile
  <2>5. db'.asset = w.asset /\ db'.proposals = w.proposals
    BY <1>3, <2>2, <2>3, <2>4
  <2> QED
    BY <1>1, <2>2, <2>5 DEF Promise!AnswerAgain, Promise!TakeObserved, Written
<1>5. CASE Answer(r, q.proposed, "scanned", "rejected")
  <2>1. PICK es : db' = Log(CloseIfOpen(db, q, "rejected"), es)
    BY <1>5 DEF Answer
  <2>2. CloseIfOpen(db, q, "rejected") = db
    BY <1>1 DEF CloseIfOpen, AnsweredMeanwhile
  <2> QED
    BY <1>1, <1>3, <2>1, <2>2 DEF Promise!promised
<1>6. CASE \E v \in Overrides : Answer(r, v, "manual", "edited")
  <2>1. PICK v \in Overrides : Answer(r, v, "manual", "edited")
    BY <1>6
  <2> DEFINE w  == WriteField(db, q, v, "manual")
             ps == {x \in db.proposals : ~(x.by = q.by /\ x.field = q.field)}
                     \cup {[q EXCEPT !.resolution = "edited"]}
  <2>2. v \in Values \cup {NULL} /\ "manual" \in Provenances
    BY BatchesAssumption DEF Provenances
  <2>3. w \in Databases /\ w.proposals = db.proposals /\ w.asset = Written(db.asset, q, v, "manual")
    BY <1>2, <2>2
  <2>4. PICK es : db' = Log(CloseAlways(w, q, "edited"), es)
    BY <2>1 DEF Answer
  <2>5. CloseAlways(w, q, "edited") = [w EXCEPT !.proposals = ps]
    BY <2>3 DEF CloseAlways
  <2> HIDE DEF w, ps
  <2>6. Log([w EXCEPT !.proposals = ps], es).asset = w.asset
        /\ Log([w EXCEPT !.proposals = ps], es).proposals = ps
    BY <2>3 DEF Log, Databases
  <2>7. db'.asset = w.asset /\ db'.proposals = ps
    BY <2>4, <2>5, <2>6
  <2>8. Promise!TakeChosen(q)
    BY <2>2, <2>3, <2>7 DEF Promise!TakeChosen, Written
  <2>9. Promise!Reanswered(q)
    BY <2>7 DEF Promise!Reanswered, ps
  <2> QED
    BY <1>1, <2>8, <2>9 DEF Promise!AnswerAgain
<1> QED
  BY <1>4, <1>5, <1>6 DEF Answers

(* The commit of a batch is one discovery, but for what its first row      *)
(* overrules.                                                              *)
LEMMA BatchIsDiscovery ==
  ASSUME IInv, Attributed, TxnAsks, NEW p \in Procs, CommitsBatch(p)
  PROVE  Promise!DiscoverBut(Overruled)
<1>1. /\ p \in Ingests /\ lock = p /\ p # NULL
      /\ db'.asset = work.asset /\ db'.proposals = work.proposals
      /\ Extends(Own(p), db, work)
  BY BatchFacts
<1>2. Len(work.asset) >= Len(db.asset)
  BY <1>1 DEF IInv, WorkExtendsDb
<1>3. ASSUME NEW a \in DOMAIN db.asset, NEW f \in Fields,
             Promise!IsProtected(db.asset[a], f), <<a, f>> \notin Overruled
      PROVE  Promise!SameField(db.asset[a], work.asset[a], f)
  <2>1. ~Overrules(p, a, f)
    BY <1>1, <1>3 DEF Overruled
  <2>2. KeptCurated(db, work, a, f)
    BY <1>1, <2>1 DEF IInv, TxnKeepsCurated
  <2> QED
    BY <1>3, <2>2 DEF KeptCurated, Curated, FieldOf, IsProtected, HasPrior, Protected,
       Promise!IsProtected, Promise!HasPrior, Promise!Protected, Promise!SameField
<1>4. db.proposals \subseteq work.proposals
  BY <1>1 DEF Extends, AddsRows
<1>5. \A q \in work.proposals \ db.proposals :
        q.resolution = NULL /\ q.asset \in DOMAIN work.asset /\ q.proposed \notin {NULL, q.current}
  BY <1>1 DEF TxnAsks, IInv, Sound
<1> QED
  BY <1>1, <1>2, <1>3, <1>4, <1>5 DEF Promise!DiscoverBut

(* A new asset of `add` is a discovery too.                                *)
LEMMA AddIsDiscovery ==
  ASSUME IInv, Attributed, NEW p \in Procs, AddsAsset(p)
  PROVE  Promise!Next
<1>1. /\ Len(db'.asset) >= Len(db.asset) /\ db'.proposals = db.proposals
      /\ \A a \in DOMAIN db.asset : db'.asset[a] = db.asset[a]
  BY AddsFacts DEF Extends, AddsRows
<1>2. Promise!Discover
  BY <1>1 DEF Promise!Discover, Promise!DiscoverBut, Promise!SameField
<1> QED
  BY <1>2 DEF Promise!Next

(* What KeepsPromise allows.                                               *)
Promised ==
  \/ Promise!Next
  \/ Promise!DiscoverBut(Overruled)
  \/ \E r \in Reviewers : AnsweredMeanwhile(r) /\ Promise!AnswerAgain(held[r])

(* Every commit is one of Curation's steps or one of the two exceptions,   *)
(* everything else a stutter.                                              *)
LEMMA StepIsPromised ==
  ASSUME IInv, Attributed, TxnAsks, [Next]_vars
  PROVE  [Promised]_(Promise!promised)
<1>1. CASE db' = db
  BY <1>1 DEF Promise!promised
<1>2. ASSUME NEW p \in Procs, CommitsBatch(p) PROVE Promised
  BY <1>2, BatchIsDiscovery DEF Promised
<1>3. ASSUME NEW p \in Procs, Notes(p) PROVE UNCHANGED Promise!promised
  BY <1>3 DEF Notes, Promise!promised
<1>4. ASSUME NEW p \in Procs, AddsAsset(p) PROVE Promised
  BY <1>4, AddIsDiscovery DEF Promised
<1>5. ASSUME NEW r \in Procs, Answers(r) PROVE [Promised]_(Promise!promised)
  BY <1>5, AnswerIsPromised, LateAnswer DEF Promised
<1> QED
  BY <1>1, <1>2, <1>3, <1>4, <1>5, Commits

(* Curation.tla: whatever commands run, what they do to the inventory      *)
(* together is discoveries and answers to open questions, but for curated  *)
(* fields an overtaken ingest had read before they were that and for       *)
(* questions that a second session answers again.                          *)
THEOREM PromiseIsKept == Spec => KeepsPromise
<1>1. Init => Promise!Init
  BY DEF Init, EmptyDb, Promise!Init
<1>2. Init => TxnAsks
  BY InitAsks
<1>3. IInv /\ Attributed /\ TxnAsks /\ [Next]_vars => TxnAsks'
  BY NextTxnAsks
<1>4. IInv /\ Attributed /\ TxnAsks /\ [Next]_vars
        => [\/ Promise!Next
            \/ Promise!DiscoverBut(Overruled)
            \/ \E r \in Reviewers : AnsweredMeanwhile(r) /\ Promise!AnswerAgain(held[r])
           ]_(Promise!promised)
  BY StepIsPromised DEF Promised
<1> QED
  BY <1>1, <1>2, <1>3, <1>4, Invariance, RowsAreAttributed, PTL DEF Spec, KeepsPromise

(* One session and no overtaken ingest: neither exception occurs.          *)
LEMMA StepIsOfCuration ==
  ASSUME IInv, Attributed, StillOpen, TxnAsks, lock \notin stale, [Next]_vars
  PROVE  [Promise!Next]_(Promise!promised)
<1>1. Overruled = {}
  BY DEF Overruled, Overrules
<1>2. Promise!DiscoverBut(Overruled) => Promise!Next
  BY <1>1 DEF Promise!Next, Promise!Discover
<1>3. \A r \in Reviewers : ~AnsweredMeanwhile(r)
  BY DEF AnsweredMeanwhile, StillOpen
<1> QED
  BY <1>2, <1>3, StepIsPromised DEF Promised

(* Curation.tla in full: then the inventory implements it.                 *)
THEOREM PromiseIsKeptInFull ==
  ASSUME OneReviewer
  PROVE  Spec /\ [](lock \notin stale) => Promise!Spec
<1>1. Init => Promise!Init
  BY DEF Init, EmptyDb, Promise!Init
<1>2. Init => StillOpen /\ TxnAsks
  BY InitAsks
<1>3. IInv /\ Attributed /\ StillOpen /\ TxnAsks /\ [Next]_vars => (StillOpen /\ TxnAsks)'
  BY OneReviewer, NextTxnAsks, NextStillOpen
<1>4. IInv /\ Attributed /\ StillOpen /\ TxnAsks /\ (lock \notin stale) /\ [Next]_vars
        => [Promise!Next]_(Promise!promised)
  BY StepIsOfCuration
<1> QED
  BY <1>1, <1>2, <1>3, <1>4, Invariance, RowsAreAttributed, PTL DEF Spec, Promise!Spec

-----------------------------------------------------------------------------
(* With one session reviewing, the answer on the timeline is the row's.    *)

AnswersStand ==
  \A e \in db.timeline : e.kind \in Resolutions =>
    \E x \in db.proposals :
      [x EXCEPT !.resolution = NULL] = e.by[2] /\ x.resolution = e.kind

(* An answer closes the open row it is about and no other.                 *)
LEMMA AnswerStands ==
  ASSUME IInv, Attributed, StillOpen, AnswersStand, NEW r \in Procs, Answers(r)
  PROVE  AnswersStand'
<1> DEFINE q == held[r]
<1>1. PICK how \in Resolutions :
        /\ Closed(q, db'.proposals, how)
        /\ db'.timeline = db.timeline \cup {Entry(q.asset, how, <<r, q>>)}
  BY AnswersFacts
<1> DEFINE c == [q EXCEPT !.resolution = how]
           n == Entry(q.asset, how, <<r, q>>)
<1>2. /\ q \in ProposalRow /\ q \in db.proposals /\ q.resolution = NULL
      /\ \A x, y \in db.proposals : SameKey(x, y) => x = y
  BY AnswersFacts DEF Answers, StillOpen, Attributed, HeldIsCommitted, Keyed
<1>3. [c EXCEPT !.resolution = NULL] = q /\ c.resolution = how
  BY <1>2 DEF ProposalRow
<1>4. n.kind = how /\ n.by[2] = q
  BY DEF Entry
<1> HIDE DEF q, c, n
<1>5. c \in db'.proposals /\ \A x \in db.proposals : x # q => x \in db'.proposals
  BY <1>1, <1>2 DEF Closed, c
<1>6. NULL \notin Resolutions
  BY NullAssumption
<1> SUFFICES ASSUME NEW e \in db'.timeline, e.kind \in Resolutions
             PROVE  \E x \in db'.proposals :
                      [x EXCEPT !.resolution = NULL] = e.by[2] /\ x.resolution = e.kind
  BY DEF AnswersStand
<1>7. CASE e \in db.timeline
  <2>1. PICK x \in db.proposals :
          [x EXCEPT !.resolution = NULL] = e.by[2] /\ x.resolution = e.kind
    BY <1>7 DEF AnswersStand
  <2> QED
    BY <1>2, <1>5, <1>6, <2>1
<1>8. CASE e = n
  BY <1>3, <1>4, <1>5, <1>8
<1> QED
  BY <1>1, <1>7, <1>8 DEF n

(* Nothing but an answer closes a row or says that one was closed.         *)
LEMMA AnswersStay ==
  ASSUME IInv, Attributed, StillOpen, AnswersStand, [Next]_vars
  PROVE  AnswersStand'
<1>1. CASE db' = db
  BY <1>1 DEF AnswersStand
<1>2. ASSUME NEW stamps, Extends(stamps, db, db') PROVE AnswersStand'
  BY <1>2 DEF AnswersStand, Extends, AddsRows
<1>3. ASSUME NEW p \in Procs, CommitsBatch(p) PROVE AnswersStand'
  <2>1. /\ Extends(Own(p), db, work)
        /\ db'.proposals = work.proposals /\ db'.timeline = work.timeline
    BY <1>3, BatchFacts
  <2> QED
    BY <2>1 DEF AnswersStand, Extends, AddsRows
<1>4. ASSUME NEW p \in Procs, Notes(p) PROVE AnswersStand'
  BY <1>4 DEF Notes, AnswersStand
<1>5. ASSUME NEW p \in Procs, AddsAsset(p) PROVE AnswersStand'
  BY <1>2, <1>5, AddsFacts
<1>6. ASSUME NEW p \in Procs, Answers(p) PROVE AnswersStand'
  BY <1>6, AnswerStands
<1> QED
  BY <1>1, <1>3, <1>4, <1>5, <1>6, Commits

(* db/proposed_changes.py accept and reject: with one session reviewing, a *)
(* row that says rejected was never accepted, and so its value was never   *)
(* written.  Two sessions that hold the same row break it.                 *)
THEOREM RejectionsHold ==
  ASSUME OneReviewer PROVE Spec => []RejectedIsNotApplied
<1>1. Init => AnswersStand
  BY DEF Init, EmptyDb, AnswersStand
<1>2. Init => StillOpen /\ TxnAsks
  BY InitAsks
<1>3. IInv /\ Attributed /\ StillOpen /\ TxnAsks /\ AnswersStand /\ [Next]_vars
        => (StillOpen /\ TxnAsks /\ AnswersStand)'
  BY OneReviewer, NextTxnAsks, NextStillOpen, AnswersStay
<1>4. IInv /\ Attributed /\ AnswersStand => RejectedIsNotApplied
  <2> SUFFICES ASSUME IInv, Attributed, AnswersStand,
                      NEW q \in db.proposals, q.resolution = "rejected",
                      NEW e \in db.timeline, e.kind = "accepted",
                      e.by[2] = [q EXCEPT !.resolution = NULL]
               PROVE  FALSE
    BY DEF RejectedIsNotApplied
  <2>1. PICK x \in db.proposals :
          [x EXCEPT !.resolution = NULL] = e.by[2] /\ x.resolution = "accepted"
    BY DEF AnswersStand, Resolutions
  <2>2. x \in ProposalRow /\ q \in ProposalRow
    BY DEF IInv, TypeOK, Databases
  <2>3. SameKey(x, q)
    BY <2>1, <2>2 DEF SameKey, ProposalRow
  <2> QED
    BY <2>1, <2>3 DEF Attributed, Keyed
<1> QED
  BY <1>1, <1>2, <1>3, <1>4, Invariance, RowsAreAttributed, PTL DEF Spec

-----------------------------------------------------------------------------
(* The import that pins what it reads.                                     *)

(* Nobody commits while another holds the lock, and the snapshot of a      *)
(* Lansweeper import becomes a transaction only while it is the last one.  *)
LEMMA NextFresh == IInv /\ SnapshotIsFresh /\ [Next]_vars => SnapshotIsFresh'
<1> SUFFICES ASSUME IInv, SnapshotIsFresh, [Next]_vars PROVE SnapshotIsFresh'
  OBVIOUS
<1>1. CASE UNCHANGED vars
  BY <1>1 DEF vars, SnapshotIsFresh
<1>2. CASE Next
  <2>1. PICK p \in Procs : Acts(p)
    BY <1>2 DEF Next, Acts
  <2>2. CASE lock' = NULL
    BY <2>2, ProcsAssumption DEF SnapshotIsFresh, Procs, Ingests
  <2>3. CASE lock' = lock /\ stale' \subseteq stale
    BY <2>3 DEF SnapshotIsFresh
  <2>4. CASE WriteFirst(p)
    BY <2>4, ProcsAssumption DEF WriteFirst, SnapshotIsFresh
  <2>5. CASE UpgradeSnapshot(p)
    BY <2>5 DEF UpgradeSnapshot, SnapshotIsFresh
  <2>6. CASE Ingesting(p) /\ ~WriteFirst(p) /\ ~UpgradeSnapshot(p)
    BY <2>2, <2>3, <2>6 DEF Ingesting, StartScan, StartImport, CheckAddress, ResolveFirst,
       ReadProvenance, ReadValues, FirstWriteConflicts, ApplyNext, RowFails, SkipInTxn,
       CommitBatch, FinishEmpty, PinSnapshot, SkipLocked, DryRun, Abandon, Commit,
       FreshRead, ReadOnly
  <2>7. CASE Adding(p)
    BY <2>2, <2>3, <2>7 DEF Adding, CheckAdd, AddAccepted, AddConflicts, Abandon, Commit,
       FreshRead, ReadOnly
  <2>8. CASE ReadProposal(p) \/ Disposing(p)
    BY <2>2, <2>3, <2>8 DEF ReadProposal, Disposing, Accept, Reject, EditOverride, Dispose,
       DispositionFails, Commit, FreshRead, ReadOnly
  <2>9. CASE BusyTimeout(p) \/ Crash(p)
    BY <2>2, <2>3, <2>9 DEF BusyTimeout, Crash, Abandon
  <2> QED
    BY <2>1, <2>4, <2>5, <2>6, <2>7, <2>8, <2>9 DEF Acts
<1> QED
  BY <1>1, <1>2

(* db/import_lansweeper.py: a transaction of a Lansweeper import has been  *)
(* planned on the very commit it will replace.                             *)
THEOREM SnapshotsAreFresh == Spec => []SnapshotIsFresh
<1>1. Init => SnapshotIsFresh
  BY ProcsAssumption DEF Init, SnapshotIsFresh, Procs, Ingests
<1> QED
  BY <1>1, NextFresh, Invariance, PTL DEF Spec

(* So the human disposes without a proviso where every ingest works like   *)
(* that one: it is the unpinned reads of scans and NetBox imports that can *)
(* overrule somebody.                                                      *)
THEOREM PinnedIngestsOverruleNobody ==
  ASSUME Scans \cup Netboxes = {}
  PROVE  Spec => HumanDisposes
<1>1. IInv /\ SnapshotIsFresh => lock \notin stale
  BY ProcsAssumption DEF IInv, TypeOK, SnapshotIsFresh, Ingests
<1> QED
  BY <1>1, Invariance, SnapshotsAreFresh, HumansDispose, PTL
=============================================================================
