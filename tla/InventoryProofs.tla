--------------------------- MODULE InventoryProofs ---------------------------
(***************************************************************************)
(* Theorems about the life of an inventory, for pages, inventories and     *)
(* variations of any number, and reviewers of any patience; and, at the    *)
(* end, about the trust that scripts inherit by its grants.                *)
(***************************************************************************)
EXTENDS Lifecycle, Loads, DataLemmas

(***************************************************************************)
(* Matchers: their shapes, and what their infos leave alone.               *)
(***************************************************************************)
LEMMA Shapes ==
  /\ Leaves \subseteq FlatMatchers /\ FlatMatchers \subseteq NestedMatchers /\ NestedMatchers \subseteq AllMatchers
  /\ Authorisers \subseteq AllMatchers
  /\ \A m \in Leaves : ~Composite(m)
<1>1. Leaves \subseteq FlatMatchers
  BY DEF FlatMatchers
<1>2. FlatMatchers \subseteq NestedMatchers
  BY <1>1 DEF FlatMatchers, NestedMatchers, Composites
<1>3. NestedMatchers \subseteq AllMatchers
  BY <1>2 DEF NestedMatchers, AllMatchers, Composites
<1>4. Authorisers \subseteq AllMatchers
  BY <1>3 DEF Authorisers, AllMatchers, Composites
<1>5. \A m \in Leaves : ~Composite(m)
  BY DEF Leaves, PlainLeaves, HashLeaves, ContentLeaves, CspLeaves, ChainLeaves, PlainKinds, Composite
<1> QED
  BY <1>1, <1>2, <1>3, <1>4, <1>5

\* A composite asks one of its children, or all.
LEMMA Children ==
  ASSUME NEW K, NEW S, NEW m \in Composites(K, S)
  PROVE  /\ m.kind \in K /\ m.info \in Infos
         /\ m.children \in Seq(S) /\ Len(m.children) \in Nat \ {0}
         /\ \A k \in 1 .. Len(m.children) : m.children[k] \in S
<1>1. m.kind \in K /\ m.info \in Infos /\ m.children \in Seq(S) \ {<<>>}
  BY DEF Composites
<1> QED
  BY <1>1

LEMMA LeafWith ==
  ASSUME NEW m \in Leaves, NEW i \in Infos
  PROVE  /\ With(m, i) \in Leaves /\ With(m, i).info = i /\ With(m, i).kind = m.kind
         /\ m.info \in Infos /\ With(m, m.info) = m
         /\ \A j : With(With(m, i), j) = With(m, j)
<1>1. CASE m \in PlainLeaves
  BY <1>1 DEF PlainLeaves, Leaves, With
<1>2. CASE m \in HashLeaves
  BY <1>2 DEF HashLeaves, Leaves, With
<1>3. CASE m \in ContentLeaves
  BY <1>3 DEF ContentLeaves, Leaves, With
<1>4. CASE m \in CspLeaves
  BY <1>4 DEF CspLeaves, Leaves, With
<1>5. CASE m \in ChainLeaves
  BY <1>5 DEF ChainLeaves, Leaves, With
<1> QED
  BY <1>1, <1>2, <1>3, <1>4, <1>5 DEF Leaves

LEMMA CompositeWith ==
  ASSUME NEW K, NEW S, NEW m \in Composites(K, S), NEW i \in Infos
  PROVE  /\ With(m, i) \in Composites(K, S) /\ With(m, i).info = i /\ With(m, i).kind = m.kind
         /\ With(m, i).children = m.children
         /\ m.info \in Infos /\ With(m, m.info) = m
         /\ \A j : With(With(m, i), j) = With(m, j)
BY DEF Composites, With

Longer(m, child) == [m EXCEPT !.children = Append(m.children, child)]

LEMMA LongerComposite ==
  ASSUME NEW K, NEW S, NEW m \in Composites(K, S), NEW child \in S
  PROVE  /\ Longer(m, child) \in Composites(K, S)
         /\ Longer(m, child).kind = m.kind /\ Longer(m, child).info = m.info
         /\ Longer(m, child).children = Append(m.children, child)
<1>1. Append(m.children, child) \in Seq(S) \ {<<>>}
  BY DEF Composites
<1> QED
  BY <1>1 DEF Composites, Longer

LEMMA SatisfiesWith ==
  ASSUME NEW m \in Leaves, NEW i \in Infos, NEW r
  PROVE  Satisfies(With(m, i), r) <=> Satisfies(m, r)
<1> USE DEF Satisfies, With, NameMatches, ContentMatches, HashMatches, UrlMatches, HostMatches, InitiatorMatches,
            ChainMatches, HopMatches, Considers, SamePolicy, WorkflowMatches, TargetTypeMatches, Accepts, WindowAccepts
<1>1. CASE m \in PlainLeaves
  BY <1>1 DEF PlainLeaves, PlainKinds
<1>2. CASE m \in HashLeaves
  BY <1>2 DEF HashLeaves
<1>3. CASE m \in ContentLeaves
  BY <1>3 DEF ContentLeaves
<1>4. CASE m \in CspLeaves
  BY <1>4 DEF CspLeaves
<1>5. CASE m \in ChainLeaves
  BY <1>5 DEF ChainLeaves
<1> QED
  BY <1>1, <1>2, <1>3, <1>4, <1>5 DEF Leaves
\* What a level says of a matcher is what its own level says.
LEMMA IdentifyLevels ==
  ASSUME NEW r
  PROVE  /\ \A m \in Leaves : /\ Identify(m, r) <=> Satisfies(m, r)
                              /\ IdentifyNested(m, r) <=> Satisfies(m, r)
                              /\ IdentifyFlat(m, r) <=> Satisfies(m, r)
         /\ \A m \in FlatMatchers : IdentifyNested(m, r) <=> IdentifyFlat(m, r)
         /\ \A m \in NestedMatchers : Identify(m, r) <=> IdentifyNested(m, r)
<1>1. ASSUME NEW m \in Leaves
      PROVE  /\ Identify(m, r) <=> Satisfies(m, r)
             /\ IdentifyNested(m, r) <=> Satisfies(m, r)
             /\ IdentifyFlat(m, r) <=> Satisfies(m, r)
  <2>1. m.kind # "or" /\ m.kind # "and"
    BY Shapes DEF Composite
  <2> QED
    BY <2>1 DEF Identify, IdentifyNested, IdentifyFlat, IdentifyBy
<1>2. ASSUME NEW m \in FlatMatchers PROVE IdentifyNested(m, r) <=> IdentifyFlat(m, r)
  <2>1. CASE m \in Leaves
    BY <1>1, <2>1
  <2>2. CASE m \in Composites({"or", "and"}, Leaves)
    <3>1. /\ m.kind = "or" \/ m.kind = "and"
          /\ \A k \in 1 .. Len(m.children) : IdentifyFlat(m.children[k], r) <=> Satisfies(m.children[k], r)
      BY <1>1, <2>2, Children
    <3>2. CASE m.kind = "or"
      BY <3>1, <3>2 DEF IdentifyNested, IdentifyFlat, IdentifyBy
    <3>3. CASE m.kind = "and"
      BY <3>1, <3>3 DEF IdentifyNested, IdentifyFlat, IdentifyBy
    <3> QED
      BY <3>1, <3>2, <3>3
  <2> QED
    BY <2>1, <2>2 DEF FlatMatchers
<1>3. ASSUME NEW m \in NestedMatchers PROVE Identify(m, r) <=> IdentifyNested(m, r)
  <2>1. CASE m \in Leaves
    BY <1>1, <2>1
  <2>2. CASE m \in Composites({"or", "and"}, FlatMatchers)
    <3>1. /\ m.kind = "or" \/ m.kind = "and"
          /\ \A k \in 1 .. Len(m.children) : IdentifyNested(m.children[k], r) <=> IdentifyFlat(m.children[k], r)
      BY <1>2, <2>2, Children
    <3>2. CASE m.kind = "or"
      BY <3>1, <3>2 DEF Identify, IdentifyNested, IdentifyBy
    <3>3. CASE m.kind = "and"
      BY <3>1, <3>3 DEF Identify, IdentifyNested, IdentifyBy
    <3> QED
      BY <3>1, <3>2, <3>3
  <2> QED
    BY <2>1, <2>2 DEF NestedMatchers
<1> QED
  BY <1>1, <1>2, <1>3

\* Whom a matcher is about, its info has no say in.
LEMMA IdentifyWith ==
  ASSUME NEW i \in Infos, NEW r
  PROVE  /\ \A m \in FlatMatchers : IdentifyFlat(With(m, i), r) <=> IdentifyFlat(m, r)
         /\ \A m \in NestedMatchers : IdentifyNested(With(m, i), r) <=> IdentifyNested(m, r)
         /\ \A m \in AllMatchers : Identify(With(m, i), r) <=> Identify(m, r)
<1>1. ASSUME NEW m \in Leaves
      PROVE  /\ IdentifyFlat(With(m, i), r) <=> IdentifyFlat(m, r)
             /\ IdentifyNested(With(m, i), r) <=> IdentifyNested(m, r)
             /\ Identify(With(m, i), r) <=> Identify(m, r)
  BY LeafWith, SatisfiesWith, IdentifyLevels
<1>2. ASSUME NEW S, NEW m \in Composites({"or", "and"}, S)
      PROVE  /\ IdentifyFlat(With(m, i), r) <=> IdentifyFlat(m, r)
             /\ IdentifyNested(With(m, i), r) <=> IdentifyNested(m, r)
             /\ Identify(With(m, i), r) <=> Identify(m, r)
  <2>1. With(m, i).kind = m.kind /\ With(m, i).children = m.children /\ (m.kind = "or" \/ m.kind = "and")
    BY Children, CompositeWith
  <2>2. CASE m.kind = "or"
    BY <2>1, <2>2 DEF Identify, IdentifyNested, IdentifyFlat, IdentifyBy
  <2>3. CASE m.kind = "and"
    BY <2>1, <2>3 DEF Identify, IdentifyNested, IdentifyFlat, IdentifyBy
  <2> QED
    BY <2>1, <2>2, <2>3
<1> QED
  BY <1>1, <1>2 DEF FlatMatchers, NestedMatchers, AllMatchers
(***************************************************************************)
(* Written forms.  A form comes of an entry, and reading it gives an entry *)
(* that is written in the same form again.                                 *)
(***************************************************************************)
WholeMatchers == NestedMatchers \cup Composites({"or"}, NestedMatchers)

Lists1 == [form : {"array"}, items : Seq(NestedMatchers) \ {<<>>}]
Singles == [form : {"single"}, items : {s \in Seq(WholeMatchers) : Len(s) = 1}]

\* All that an entry can be read from.
Readable ==
  {raw \in Lists1 \cup Singles : \A k \in 1 .. Len(raw.items) : raw.items[k].info.given}

\* Written as one matcher, because it is no list that speaks for itself.
KeptSingle(m) ==
  m.kind = "or" => ~ (m.children[1].info = m.info /\ \A k \in 1 .. Len(m.children) : m.children[k].info.given)

Forms == {raw \in Readable : raw.form = "single" => KeptSingle(raw.items[1])}

LEMMA FormFacts ==
  ASSUME NEW raw \in Readable
  PROVE  /\ raw.items # <<>> /\ Len(raw.items) \in Nat \ {0} /\ raw.items \in Seq(WholeMatchers)
         /\ DOMAIN raw.items = 1 .. Len(raw.items)
         /\ raw.items[1] \in WholeMatchers /\ raw.items[1].info \in Infos /\ raw.items[1].info.given
         /\ raw.form \in {"array", "single"}
         /\ raw.form = "array" => raw.items \in Seq(NestedMatchers)
         /\ raw.form = "single" => Len(raw.items) = 1
         /\ raw = [form |-> raw.form, items |-> raw.items]
<1>1. \A m \in WholeMatchers : m.info \in Infos
  BY DEF WholeMatchers, NestedMatchers, Composites, Leaves, PlainLeaves, HashLeaves, ContentLeaves, CspLeaves, ChainLeaves
<1>2. CASE raw \in Lists1
  BY <1>1, <1>2 DEF Readable, Lists1, WholeMatchers
<1>3. CASE raw \in Singles
  BY <1>1, <1>3 DEF Readable, Singles
<1> QED
  BY <1>2, <1>3 DEF Readable

LEMMA WholeWith ==
  ASSUME NEW m \in WholeMatchers, NEW i \in Infos
  PROVE  /\ With(m, i) \in WholeMatchers /\ With(m, i).info = i /\ With(m, i).kind = m.kind
         /\ m.info \in Infos /\ With(m, m.info) = m
         /\ \A j : With(With(m, i), j) = With(m, j)
         /\ m.kind = "or" => /\ m = [kind |-> "or", children |-> m.children, info |-> m.info]
                             /\ m.children \in Seq(NestedMatchers) /\ Len(m.children) \in Nat \ {0}
                             /\ \A k \in 1 .. Len(m.children) : m.children[k] \in NestedMatchers
                             /\ With(m, i).children = m.children
         /\ m.kind # "or" => m \in NestedMatchers /\ With(m, i) \in NestedMatchers
         /\ m \in NestedMatchers => With(m, i) \in NestedMatchers
<1>1. CASE m \in Leaves
  <2>1. m.kind # "or"
    BY <1>1, Shapes DEF Composite
  <2>2. With(m, i) \in NestedMatchers /\ m \in NestedMatchers
    BY <1>1, LeafWith DEF NestedMatchers
  <2> QED
    BY <1>1, <2>1, <2>2, LeafWith DEF WholeMatchers
<1>2. CASE m \in Composites({"or", "and"}, FlatMatchers)
  <2>1. With(m, i) \in NestedMatchers /\ m \in NestedMatchers
    BY <1>2, CompositeWith DEF NestedMatchers
  <2>2. m.children \in Seq(FlatMatchers) /\ m = [kind |-> m.kind, children |-> m.children, info |-> m.info]
    BY <1>2 DEF Composites
  <2>3. m.children \in Seq(NestedMatchers)
    BY <2>2, Shapes
  <2> QED
    BY <1>2, <2>1, <2>2, <2>3, CompositeWith, Children DEF WholeMatchers
<1>3. CASE m \in Composites({"or"}, NestedMatchers)
  <2>1. m = [kind |-> "or", children |-> m.children, info |-> m.info]
    BY <1>3 DEF Composites
  <2>2. m.kind = "or"
    BY <2>1
  <2>3. m \in NestedMatchers => With(m, i) \in NestedMatchers
    <3>1. CASE m \in Leaves
      BY <3>1, <2>2, Shapes DEF Composite
    <3> QED
      BY <3>1, CompositeWith DEF NestedMatchers
  <2> QED
    BY <1>3, <2>1, <2>2, <2>3, CompositeWith, Children DEF WholeMatchers
<1> QED
  BY <1>1, <1>2, <1>3 DEF WholeMatchers, NestedMatchers

LEMMA EntryFacts ==
  ASSUME NEW e \in Entries
  PROVE  /\ e.authorise \in Authorisers /\ e.authorise \in WholeMatchers /\ e.authorise.info = NoInfo
         /\ e.info \in Infos /\ e.info.given /\ e.identify \in AllMatchers
         /\ e = [identify |-> e.identify, authorise |-> e.authorise, info |-> e.info, required |-> e.required, loads |-> e.loads]
BY DEF Entries, Authorisers, WholeMatchers

Reworded(e, m, i) == [e EXCEPT !.authorise = m, !.info = i]

LEMMA EntryWith ==
  ASSUME NEW e \in Entries, NEW m \in Authorisers, NEW i \in Infos, i.given
  PROVE  /\ Reworded(e, m, i) \in Entries
         /\ Reworded(e, m, i) =
              [identify |-> e.identify, authorise |-> m, info |-> i, required |-> e.required, loads |-> e.loads]
<1> DEFINE loads == [maxDepth : Nat, guard : AllMatchers]
           given == {info \in Infos : info.given}
           f == [e EXCEPT !.authorise = m, !.info = i]
<1>1. Entries = [identify : AllMatchers, authorise : Authorisers, info : given, required : SUBSET STRING, loads : loads]
  BY DEF Entries
<1>2. i \in given
  OBVIOUS
<1> HIDE DEF loads, given
<1>3. f \in Entries
  BY <1>1, <1>2
<1>4. f.identify = e.identify /\ f.authorise = m /\ f.info = i /\ f.required = e.required /\ f.loads = e.loads
  BY <1>1, <1>2
<1> HIDE DEF f
<1>5. f = [identify |-> e.identify, authorise |-> m, info |-> i, required |-> e.required, loads |-> e.loads]
  BY <1>1, <1>3, <1>4
<1> QED
  BY <1>3, <1>5 DEF f, Reworded

LEMMA NoInfoFacts ==
  /\ NoInfo \in Infos /\ ~NoInfo.given /\ ~Declined(NoInfo)
  /\ Pending \in Infos /\ Pending.given /\ ~Pending.authorised /\ Declined(Pending)
  /\ Recorded \in Infos /\ Recorded.given /\ Recorded.authorised /\ ~Declined(Recorded)
<1>1. NoInfo \in Infos /\ ~NoInfo.given /\ ~Declined(NoInfo)
  BY DEF NoInfo, Infos, Stamps, Declined
<1>2. Pending \in Infos /\ Pending.given /\ ~Pending.authorised /\ Declined(Pending)
  BY DEF Pending, Info, Infos, Stamps, Declined
<1>3. Recorded \in Infos /\ Recorded.given /\ Recorded.authorised /\ ~Declined(Recorded)
  BY DEF Recorded, Info, Infos, Stamps, Declined
<1> QED
  BY <1>1, <1>2, <1>3

LEMMA WrittenIsForm ==
  ASSUME NEW e \in Entries
  PROVE  Written(e) \in Forms /\ Written(e).items[1].info = e.info /\ Load(e, Written(e)) = e
<1> DEFINE m == e.authorise
<1>1. m \in WholeMatchers /\ m.info = NoInfo /\ e.info \in Infos /\ e.info.given
  BY EntryFacts
<1>2. CASE WritesList(e)
  <2>1. m.kind = "or" /\ (\A k \in 1 .. Len(m.children) : m.children[k].info.given) /\ m.children[1].info = e.info
    BY <1>2 DEF WritesList
  <2>2. m = [kind |-> "or", children |-> m.children, info |-> NoInfo] /\ m.children \in Seq(NestedMatchers)
        /\ Len(m.children) \in Nat \ {0}
    BY <1>1, <2>1, WholeWith
  <2>3. Written(e) = [form |-> "array", items |-> m.children]
    BY <1>2 DEF Written
  <2>4. Written(e) \in Forms
    BY <2>1, <2>2, <2>3 DEF Forms, Readable, Lists1
  <2>5. Or(m.children) = m
    BY <2>2 DEF Or
  <2>6. Load(e, Written(e)) = Reworded(e, m, e.info)
    <3>1. Written(e).form = "array" /\ Or(Written(e).items) = m /\ Written(e).items[1].info = e.info
      BY <2>1, <2>3, <2>5
    <3> QED
      BY <3>1 DEF Load, Reworded
  <2>7. Load(e, Written(e)) = e
    BY <2>6, EntryFacts, EntryWith
  <2> QED
    BY <2>1, <2>3, <2>4, <2>7
<1>3. CASE ~WritesList(e)
  <2> DEFINE item == With(m, e.info)
  <2>1. item \in WholeMatchers /\ item.info = e.info /\ item.kind = m.kind /\ With(item, NoInfo) = m
        /\ (m.kind = "or" => item.children = m.children)
    BY <1>1, WholeWith
  <2>2. Written(e) = [form |-> "single", items |-> <<item>>]
    BY <1>3 DEF Written
  <2>3. KeptSingle(item)
    BY <1>1, <1>3, <2>1, NoInfoFacts DEF KeptSingle, WritesList
  <2> HIDE DEF item
  <2>4. Written(e) \in Forms
    BY <1>1, <2>1, <2>2, <2>3 DEF Forms, Readable, Singles
  <2>5. Load(e, Written(e)) = Reworded(e, m, e.info)
    <3>1. Written(e).form = "single" /\ With(Written(e).items[1], NoInfo) = m /\ Written(e).items[1].info = e.info
      BY <2>1, <2>2
    <3> QED
      BY <3>1 DEF Load, Reworded
  <2>6. Load(e, Written(e)) = e
    BY <2>5, EntryFacts, EntryWith
  <2> QED
    BY <2>1, <2>2, <2>4, <2>6
<1> QED
  BY <1>2, <1>3

LEMMA LoadIsEntry ==
  ASSUME NEW e \in Entries, NEW raw \in Readable
  PROVE  /\ Load(e, raw) \in Entries
         /\ Load(e, raw).identify = e.identify /\ Load(e, raw).info = raw.items[1].info
         /\ Load(e, raw).authorise = IF raw.form = "array" THEN Or(raw.items) ELSE With(raw.items[1], NoInfo)
         /\ Load(Load(e, raw), raw) = Load(e, raw)
<1> DEFINE m == IF raw.form = "array" THEN Or(raw.items) ELSE With(raw.items[1], NoInfo)
<1>1. m \in Authorisers
  <2>1. CASE raw.form = "array"
    BY <2>1, FormFacts, NoInfoFacts DEF Authorisers, Or, Composites
  <2>2. CASE raw.form # "array"
    BY <2>2, FormFacts, NoInfoFacts, WholeWith DEF Authorisers, WholeMatchers
  <2> QED
    BY <2>1, <2>2
<1>2. Load(e, raw) = Reworded(e, m, raw.items[1].info)
  BY DEF Load, Reworded
<1>3. raw.items[1].info \in Infos /\ raw.items[1].info.given
  BY FormFacts
<1>4. Load(Load(e, raw), raw) = Reworded(Load(e, raw), m, raw.items[1].info)
  BY DEF Load, Reworded
<1> HIDE DEF m
<1>5. /\ Load(e, raw) \in Entries
      /\ Load(e, raw) = [identify |-> e.identify, authorise |-> m, info |-> raw.items[1].info, required |-> e.required, loads |-> e.loads]
  BY <1>1, <1>2, <1>3, EntryWith
<1>7. Load(Load(e, raw), raw) = Load(e, raw)
  <2>1. Load(Load(e, raw), raw) =
          [identify |-> Load(e, raw).identify, authorise |-> m, info |-> raw.items[1].info, required |-> Load(e, raw).required,
           loads |-> Load(e, raw).loads]
    BY <1>1, <1>3, <1>4, <1>5, EntryWith
  <2> QED
    BY <1>5, <2>1
<1> QED
  BY <1>5, <1>7 DEF m

LEMMA WrittenAgain ==
  ASSUME NEW e \in Entries, NEW raw \in Forms
  PROVE  Written(Load(e, raw)) = raw
<1> DEFINE f == Load(e, raw)
<1>1. raw \in Readable
  BY DEF Forms
<1>2. f \in Entries /\ f.info = raw.items[1].info
      /\ f.authorise = IF raw.form = "array" THEN Or(raw.items) ELSE With(raw.items[1], NoInfo)
  BY <1>1, LoadIsEntry
<1>3. raw = [form |-> raw.form, items |-> raw.items] /\ raw.form \in {"array", "single"}
  BY <1>1, FormFacts
<1> HIDE DEF f
<1>4. CASE raw.form = "array"
  <2>1. f.authorise.kind = "or" /\ f.authorise.children = raw.items /\ ~f.authorise.info.given
    BY <1>2, <1>4, NoInfoFacts DEF Or
  <2>2. \A k \in 1 .. Len(raw.items) : raw.items[k].info.given
    BY <1>1 DEF Readable
  <2>3. WritesList(f)
    BY <1>2, <2>1, <2>2 DEF WritesList
  <2> QED
    BY <1>3, <1>4, <2>1, <2>3 DEF Written, f
<1>5. CASE raw.form = "single"
  <2> DEFINE item == raw.items[1]
  <2>1. item \in WholeMatchers /\ item.info \in Infos /\ Len(raw.items) = 1 /\ raw.items \in Seq(WholeMatchers) /\ KeptSingle(item)
    BY <1>1, <1>5, FormFacts DEF Forms
  <2>2. f.authorise = With(item, NoInfo) /\ f.info = item.info
    BY <1>2, <1>5
  <2>3. With(With(item, NoInfo), item.info) = item /\ With(item, NoInfo).kind = item.kind
        /\ (item.kind = "or" => With(item, NoInfo).children = item.children)
    BY <2>1, WholeWith, NoInfoFacts
  <2>4. ~WritesList(f)
    BY <2>1, <2>2, <2>3 DEF WritesList, KeptSingle
  <2>5. raw.items = <<item>>
    BY <2>1
  <2>6. Written(f) = [form |-> "single", items |-> <<item>>]
    BY <2>2, <2>3, <2>4 DEF Written
  <2> QED
    BY <1>3, <1>5, <2>5, <2>6 DEF f
<1> QED
  BY <1>3, <1>4, <1>5
LEMMA AlternativesOf ==
  ASSUME NEW raw \in Readable
  PROVE  /\ Alternatives(raw) \in Seq(NestedMatchers) /\ Len(Alternatives(raw)) \in Nat \ {0}
         /\ \A k \in 1 .. Len(Alternatives(raw)) : Alternatives(raw)[k] \in NestedMatchers
<1>1. CASE raw.form = "single" /\ raw.items[1].kind = "or"
  <2>1. Alternatives(raw) = raw.items[1].children
    BY <1>1 DEF Alternatives
  <2> QED
    BY <1>1, <2>1, FormFacts, WholeWith
<1>2. CASE raw.form = "single" /\ raw.items[1].kind # "or"
  <2>1. Alternatives(raw) = raw.items
    BY <1>2 DEF Alternatives
  <2>2. raw.items[1] \in NestedMatchers /\ raw.items \in Seq(WholeMatchers) /\ Len(raw.items) = 1
    BY <1>2, FormFacts, WholeWith
  <2>3. raw.items = <<raw.items[1]>>
    BY <2>2
  <2>4. <<raw.items[1]>> \in Seq(NestedMatchers)
    BY <2>2
  <2> QED
    <3>1. raw.items \in Seq(NestedMatchers)
      BY <2>3, <2>4, Zenon
    <3> QED
      BY <2>1, <2>2, <3>1
<1>3. CASE raw.form = "array"
  <2>1. Alternatives(raw) = raw.items
    BY <1>3 DEF Alternatives
  <2>2. raw.items \in Seq(NestedMatchers) /\ Len(raw.items) \in Nat \ {0}
    BY <1>3, FormFacts
  <2> QED
    BY <2>1, <2>2
<1> QED
  BY <1>1, <1>2, <1>3, FormFacts

\* One alternative more, at the end, and the same word on the entry.
LEMMA AddingAlternative ==
  ASSUME NEW raw \in Forms, NEW m \in NestedMatchers, m.info.given
  PROVE  /\ AddAlternative(raw, m) \in Forms
         /\ AddAlternative(raw, m).items[1].info = raw.items[1].info
         /\ Alternatives(AddAlternative(raw, m)) = Append(Alternatives(raw), m)
         /\ AddAlternative(raw, m).form = "array" \/ AddAlternative(raw, m).items[1].kind = "or"
<1> DEFINE new == AddAlternative(raw, m)
<1>1. raw \in Readable
  BY DEF Forms
<1>2. CASE raw.form = "single" /\ raw.items[1].kind = "or"
  <2> DEFINE item == raw.items[1]
             longer == Longer(item, m)
  <2>1. /\ item \in WholeMatchers /\ item = [kind |-> "or", children |-> item.children, info |-> item.info]
        /\ item.children \in Seq(NestedMatchers) /\ Len(item.children) \in Nat \ {0} /\ item.info \in Infos /\ item.info.given
        /\ KeptSingle(item) /\ Len(raw.items) = 1 /\ raw.items \in Seq(WholeMatchers)
        /\ raw = [form |-> "single", items |-> raw.items]
    BY <1>1, <1>2, FormFacts, WholeWith DEF Forms
  <2>2. raw.items = <<item>>
    BY <2>1
  <2>3. new = [raw EXCEPT !.items[1].children = Append(@, m)]
    BY <1>2 DEF AddAlternative
  <2> HIDE DEF item
  <2>4. raw = [form |-> "single", items |-> <<item>>]
    BY <2>1, <2>2
  <2>5. item \in Composites({"or"}, NestedMatchers)
    BY <2>1 DEF Composites
  <2>6. new = [form |-> "single", items |-> <<longer>>]
    BY <2>3, <2>4 DEF Longer
  <2>7. Append(item.children, m) \in Seq(NestedMatchers) \ {<<>>} /\ Len(Append(item.children, m)) = Len(item.children) + 1
        /\ \A k \in 1 .. Len(item.children) : Append(item.children, m)[k] = item.children[k]
    BY <2>1
  <2>8. /\ longer \in WholeMatchers /\ longer.info = item.info /\ longer.kind = "or"
        /\ longer.children = Append(item.children, m)
    <3>1. longer \in Composites({"or"}, NestedMatchers) /\ longer.info = item.info /\ longer.kind = item.kind
          /\ longer.children = Append(item.children, m)
      BY <2>5, LongerComposite
    <3>2. item.kind = "or"
      BY <2>1
    <3> QED
      BY <3>1, <3>2 DEF WholeMatchers
  <2> HIDE DEF longer
  <2>9. KeptSingle(longer)
    BY <2>1, <2>7, <2>8 DEF KeptSingle
  <2>10. new \in Singles
    BY <2>6, <2>8 DEF Singles
  <2>12. new \in Forms
    BY <2>1, <2>6, <2>8, <2>9, <2>10 DEF Forms, Readable
  <2>13. Alternatives(new) = longer.children /\ Alternatives(raw) = item.children
    BY <1>2, <2>6, <2>8 DEF Alternatives, item
  <2> QED
    BY <2>2, <2>6, <2>8, <2>12, <2>13
<1>3. CASE ~ (raw.form = "single" /\ raw.items[1].kind = "or")
  <2>1. new = [form |-> "array", items |-> Append(raw.items, m)] /\ Alternatives(raw) = raw.items
    BY <1>3 DEF AddAlternative, Alternatives
  <2>2. raw.items \in Seq(NestedMatchers) /\ Len(raw.items) \in Nat \ {0}
    BY <1>1, <2>1, AlternativesOf
  <2>3. Append(raw.items, m) \in Seq(NestedMatchers) \ {<<>>} /\ Len(Append(raw.items, m)) = Len(raw.items) + 1
        /\ (\A k \in 1 .. Len(raw.items) : Append(raw.items, m)[k] = raw.items[k]) /\ Append(raw.items, m)[Len(raw.items) + 1] = m
    BY <2>2
  <2>4. \A k \in 1 .. Len(raw.items) : raw.items[k].info.given
    BY <1>1 DEF Readable
  <2>5. \A k \in 1 .. Len(Append(raw.items, m)) : Append(raw.items, m)[k].info.given
    BY <2>2, <2>3, <2>4
  <2> DEFINE items == Append(raw.items, m)
  <2> HIDE DEF items, new
  <2>6. new \in Lists1
    BY <2>1, <2>3 DEF Lists1, items
  <2>7. new.items = items /\ new.form = "array"
    BY <2>1 DEF items
  <2>8. new \in Forms
    BY <2>5, <2>6, <2>7 DEF Forms, Readable, items
  <2>9. Alternatives(new) = items
    BY <2>7 DEF Alternatives
  <2>10. items[1].info = raw.items[1].info
    BY <2>2, <2>3 DEF items
  <2> QED
    BY <2>1, <2>7, <2>8, <2>9, <2>10 DEF items, new
<1> QED
  BY <1>2, <1>3
(***************************************************************************)
(* What a written form could admit, whatever its infos say.                *)
(***************************************************************************)
Offers(raw, r) == \E k \in 1 .. Len(Alternatives(raw)) : Identify(Alternatives(raw)[k], r)

ByValue(raw, r) == raw.form = "single" /\ raw.items[1].kind = "header-name" /\ HeaderNameAuthorises(raw.items[1], r)

LEMMA HeaderNameWith ==
  ASSUME NEW m \in WholeMatchers, NEW i \in Infos, NEW r, m.kind = "header-name"
  PROVE  HeaderNameAuthorises(With(m, i), r) <=> HeaderNameAuthorises(m, r)
<1>1. m \in PlainLeaves
  <2>1. m \in Leaves
    BY Children DEF WholeMatchers, NestedMatchers
  <2> QED
    BY <2>1 DEF Leaves, HashLeaves, ContentLeaves, CspLeaves, ChainLeaves
<1>2. With(m, i).accepts = m.accepts
  BY <1>1 DEF PlainLeaves, With
<1> QED
  BY <1>2 DEF HeaderNameAuthorises, Accepts

LEMMA OffersByItems ==
  ASSUME NEW raw \in Readable, NEW r
  PROVE  Offers(raw, r) <=> \E k \in 1 .. Len(raw.items) : Identify(raw.items[k], r)
<1>1. \A k \in 1 .. Len(Alternatives(raw)) : Identify(Alternatives(raw)[k], r) <=> IdentifyNested(Alternatives(raw)[k], r)
  BY AlternativesOf, IdentifyLevels
<1>2. CASE raw.form = "single" /\ raw.items[1].kind = "or"
  <2>1. Alternatives(raw) = raw.items[1].children /\ Len(raw.items) = 1
    BY <1>2, FormFacts DEF Alternatives
  <2>2. Identify(raw.items[1], r) <=> Offers(raw, r)
    BY <1>1, <1>2, <2>1 DEF Identify, IdentifyBy, Offers
  <2> QED
    BY <2>1, <2>2
<1>3. CASE ~ (raw.form = "single" /\ raw.items[1].kind = "or")
  BY <1>3 DEF Alternatives, Offers
<1> QED
  BY <1>2, <1>3

LEMMA ReadOffers ==
  ASSUME NEW e \in Entries, NEW raw \in Readable, NEW r
  PROVE  CouldAdmit(Load(e, raw), r) <=> Identify(e.identify, r) /\ (Offers(raw, r) \/ ByValue(raw, r))
<1> DEFINE m == Load(e, raw).authorise
<1>1. /\ Load(e, raw).identify = e.identify
      /\ m = IF raw.form = "array" THEN Or(raw.items) ELSE With(raw.items[1], NoInfo)
  BY LoadIsEntry
<1>2. Offers(raw, r) <=> \E k \in 1 .. Len(raw.items) : Identify(raw.items[k], r)
  BY OffersByItems
<1> HIDE DEF m
<1>3. CASE raw.form = "array"
  <2>1. m.kind = "or" /\ m.children = raw.items
    BY <1>1, <1>3 DEF Or
  <2>2. \A k \in 1 .. Len(raw.items) : Identify(raw.items[k], r) <=> IdentifyNested(raw.items[k], r)
    BY <1>3, FormFacts, IdentifyLevels
  <2>3. Identify(m, r) <=> Offers(raw, r)
    BY <1>2, <2>1, <2>2 DEF Identify, IdentifyBy
  <2> QED
    BY <1>1, <1>3, <2>1, <2>3 DEF CouldAdmit, ByValue, m
<1>4. CASE raw.form = "single"
  <2> DEFINE item == raw.items[1]
  <2>1. item \in WholeMatchers /\ item \in AllMatchers /\ NoInfo \in Infos /\ Len(raw.items) = 1
    BY <1>4, FormFacts, NoInfoFacts, Shapes DEF WholeMatchers, AllMatchers, Composites
  <2>2. m = With(item, NoInfo) /\ m.kind = item.kind
    BY <1>1, <1>4, <2>1, WholeWith
  <2>3. Identify(m, r) <=> Identify(item, r)
    BY <2>1, <2>2, IdentifyWith
  <2>4. m.kind = "header-name" => (HeaderNameAuthorises(m, r) <=> HeaderNameAuthorises(item, r))
    BY <2>1, <2>2, HeaderNameWith
  <2>5. Identify(item, r) <=> Offers(raw, r)
    BY <1>2, <2>1
  <2> QED
    BY <1>1, <1>4, <2>2, <2>3, <2>4, <2>5 DEF CouldAdmit, ByValue, m
<1> QED
  BY <1>3, <1>4, FormFacts

(***************************************************************************)
(* A reviewer's approval: other infos, the same matchers.                  *)
(***************************************************************************)
LEMMA ApproveInfo ==
  ASSUME NEW i \in Infos
  PROVE  Approve(i) \in Infos /\ Approve(i).given = i.given /\ Approve(i).authorised
BY DEF Approve, Infos
LEMMA WholeIsAll == WholeMatchers \subseteq AllMatchers
BY Shapes DEF WholeMatchers, AllMatchers, Composites

\* The same composite, of other children.
OfChildren(m, children) == [m EXCEPT !.children = children]

LEMMA OtherChildren ==
  ASSUME NEW K, NEW S, NEW m \in Composites(K, S), NEW children \in Seq(S) \ {<<>>}
  PROVE  /\ OfChildren(m, children) \in Composites(K, S)
         /\ OfChildren(m, children).kind = m.kind /\ OfChildren(m, children).info = m.info
         /\ OfChildren(m, children).children = children
BY DEF Composites, OfChildren

LEMMA ApprovingItem ==
  ASSUME NEW raw \in Readable, NEW k \in 1 .. Len(raw.items), NEW r
  PROVE  /\ ApproveItem(raw, k) \in WholeMatchers
         /\ raw.form = "array" => ApproveItem(raw, k) \in NestedMatchers
         /\ ApproveItem(raw, k).info.given
         /\ Identify(ApproveItem(raw, k), r) <=> Identify(raw.items[k], r)
         /\ ApproveItem(raw, k).kind = raw.items[k].kind
         /\ raw.items[k].kind = "header-name" =>
              (HeaderNameAuthorises(ApproveItem(raw, k), r) <=> HeaderNameAuthorises(raw.items[k], r))
<1> DEFINE x == raw.items[k]
           info == Approve(x.info)
           y == Approved(x)
<1>1. x \in WholeMatchers /\ x.info \in Infos /\ x.info.given
  <2>1. x \in WholeMatchers
    BY FormFacts
  <2>2. x.info \in Infos
    BY <2>1, WholeWith, NoInfoFacts
  <2> QED
    BY <2>1, <2>2 DEF Readable
<1>2. info \in Infos /\ info.given
  BY <1>1, ApproveInfo
<1>3. y = With(x, info)
  BY DEF Approved
<1> HIDE DEF x, y, info
<1>4. /\ y \in WholeMatchers /\ y.info = info /\ y.kind = x.kind
      /\ x \in NestedMatchers => y \in NestedMatchers
      /\ x.kind = "or" => y.children = x.children
  BY <1>1, <1>2, <1>3, WholeWith
<1>5. Identify(y, r) <=> Identify(x, r)
  BY <1>1, <1>2, <1>3, WholeIsAll, IdentifyWith
<1>6. x.kind = "header-name" => (HeaderNameAuthorises(y, r) <=> HeaderNameAuthorises(x, r))
  BY <1>1, <1>2, <1>3, HeaderNameWith
<1>7. CASE raw.form = "single" /\ y.kind = "or"
  <2> DEFINE children == Each(y.children, Approved)
  <2>1. ApproveItem(raw, k) = OfChildren(y, children)
    BY <1>7 DEF ApproveItem, OfChildren, y, x
  <2>2. y.children \in Seq(NestedMatchers) /\ Len(y.children) \in Nat \ {0} /\ y = [kind |-> "or", children |-> y.children, info |-> info]
        /\ \A j \in 1 .. Len(y.children) : y.children[j] \in NestedMatchers
    BY <1>2, <1>4, <1>7, WholeWith
  <2>3. ASSUME NEW j \in 1 .. Len(y.children)
        PROVE  Approved(y.children[j]) \in NestedMatchers
               /\ (IdentifyNested(Approved(y.children[j]), r) <=> IdentifyNested(y.children[j], r))
    <3>1. y.children[j] \in WholeMatchers /\ y.children[j] \in NestedMatchers
      BY <2>2 DEF WholeMatchers
    <3>2. Approve(y.children[j].info) \in Infos
      BY <3>1, WholeWith, NoInfoFacts, ApproveInfo
    <3> QED
      BY <3>1, <3>2, WholeWith, IdentifyWith DEF Approved
  <2>4. children \in Seq(NestedMatchers) \ {<<>>} /\ Len(children) = Len(y.children)
        /\ \A j \in 1 .. Len(y.children) : children[j] = Approved(y.children[j])
    BY <2>2, <2>3 DEF Each
  <2> HIDE DEF children
  <2>5. y \in Composites({"or"}, NestedMatchers)
    BY <1>2, <2>2 DEF Composites
  <2>6. OfChildren(y, children) \in WholeMatchers /\ OfChildren(y, children).kind = "or"
        /\ OfChildren(y, children).info = info /\ OfChildren(y, children).children = children
    BY <1>4, <1>7, <2>4, <2>5, OtherChildren DEF WholeMatchers
  <2>7. Identify(OfChildren(y, children), r) <=> Identify(y, r)
    BY <1>7, <2>3, <2>4, <2>6 DEF Identify, IdentifyBy
  <2> QED
    BY <1>2, <1>4, <1>5, <1>7, <2>1, <2>6, <2>7 DEF x
<1>8. CASE ~ (raw.form = "single" /\ y.kind = "or")
  <2>1. ApproveItem(raw, k) = y
    BY <1>8 DEF ApproveItem, y, x
  <2>2. raw.form = "array" => x \in NestedMatchers
    BY FormFacts DEF x
  <2> QED
    BY <1>2, <1>4, <1>5, <1>6, <2>1, <2>2 DEF x
<1> QED
  BY <1>7, <1>8

LEMMA ApprovingItems ==
  ASSUME NEW raw \in Readable, NEW which, NEW r
  PROVE  /\ ApproveItems(raw, which) \in Readable
         /\ Offers(ApproveItems(raw, which), r) <=> Offers(raw, r)
         /\ ByValue(ApproveItems(raw, which), r) <=> ByValue(raw, r)
<1> DEFINE items == [k \in 1 .. Len(raw.items) |-> IF k \in which THEN ApproveItem(raw, k) ELSE raw.items[k]]
           new == ApproveItems(raw, which)
<1>1. raw.items \in Seq(WholeMatchers) /\ Len(raw.items) \in Nat \ {0} /\ raw = [form |-> raw.form, items |-> raw.items]
      /\ raw.form \in {"array", "single"}
      /\ (raw.form = "array" => raw.items \in Seq(NestedMatchers)) /\ (raw.form = "single" => Len(raw.items) = 1)
  BY FormFacts
<1>2. new = [form |-> raw.form, items |-> items]
  <2>1. new = [raw EXCEPT !.items = items]
    BY DEF ApproveItems
  <2> HIDE DEF items, new
  <2> QED
    BY <1>1, <2>1
<1>3. ASSUME NEW k \in 1 .. Len(raw.items)
      PROVE  /\ items[k] \in WholeMatchers
             /\ raw.form = "array" => items[k] \in NestedMatchers
             /\ items[k].info.given
             /\ Identify(items[k], r) <=> Identify(raw.items[k], r)
             /\ items[k].kind = raw.items[k].kind
             /\ raw.items[k].kind = "header-name" => (HeaderNameAuthorises(items[k], r) <=> HeaderNameAuthorises(raw.items[k], r))
  <2>1. CASE k \in which
    <3>1. items[k] = ApproveItem(raw, k)
      BY <2>1
    <3> QED
      BY <3>1, ApprovingItem
  <2>2. CASE k \notin which
    <3>1. items[k] = raw.items[k]
      BY <2>2
    <3> QED
      BY <1>1, <3>1 DEF Readable
  <2> QED
    BY <2>1, <2>2
<1>4. items \in Seq(WholeMatchers) /\ Len(items) = Len(raw.items) /\ items # <<>>
  BY <1>1, <1>3
<1>5. raw.form = "array" => items \in Seq(NestedMatchers)
  BY <1>1, <1>3
<1> HIDE DEF items
<1>6. new \in Readable
  <2>1. CASE raw.form = "array"
    BY <1>2, <1>3, <1>4, <1>5, <2>1 DEF Readable, Lists1
  <2>2. CASE raw.form = "single"
    BY <1>1, <1>2, <1>3, <1>4, <2>2 DEF Readable, Singles
  <2> QED
    BY <1>1, <2>1, <2>2
<1>7. Offers(new, r) <=> Offers(raw, r)
  BY <1>2, <1>3, <1>4, <1>6, OffersByItems
<1>8. ByValue(new, r) <=> ByValue(raw, r)
  BY <1>1, <1>2, <1>3 DEF ByValue
<1> QED
  BY <1>6, <1>7, <1>8
(***************************************************************************)
(* The diff, one result after the other.                                   *)
(***************************************************************************)
LEMMA UpdatingSteps ==
  ASSUME NEW list, NEW e, NEW k, NEW results, Len(results) \in Nat
  PROVE  /\ Updating(list, e, k, results)[0] = Written(e)
         /\ \A n \in 1 .. Len(results) :
              Updating(list, e, k, results)[n] = Revised(list, k, Updating(list, e, k, results)[n - 1], results[n])
<1> DEFINE len == Len(results)
           Step(before, result) == Revised(list, k, before, result)
           Run(m, g) == g = [n \in 0 .. m |-> IF n = 0 THEN Written(e) ELSE Step(g[n - 1], results[n])]
           T == {m \in Nat : \E g : Run(m, g)}
<1>1. 0 \in T
  <2> DEFINE g == [n \in 0 .. 0 |-> Written(e)]
  <2>1. Run(0, g)
    OBVIOUS
  <2> QED
    BY <2>1
<1>2. ASSUME NEW m \in T PROVE m + 1 \in T
  <2>1. PICK g : Run(m, g)
    BY <1>2
  <2> DEFINE h == [n \in 0 .. m + 1 |-> IF n = m + 1 THEN Step(g[m], results[m + 1]) ELSE g[n]]
  <2> HIDE DEF Step
  <2>2. ASSUME NEW n \in 0 .. m + 1
        PROVE  h[n] = IF n = 0 THEN Written(e) ELSE Step(h[n - 1], results[n])
    <3>1. CASE n = m + 1
      BY <3>1
    <3>2. CASE n # m + 1
      <4>1. n \in 0 .. m /\ h[n] = g[n] /\ (n # 0 => h[n - 1] = g[n - 1])
        BY <3>2
      <4> QED
        BY <2>1, <4>1
    <3> QED
      BY <3>1, <3>2
  <2>3. h = [n \in 0 .. m + 1 |-> h[n]]
    OBVIOUS
  <2> HIDE DEF h
  <2>4. Run(m + 1, h)
    BY <2>2, <2>3
  <2>5. m + 1 \in Nat
    OBVIOUS
  <2> HIDE DEF Run
  <2> QED
    BY <2>4, <2>5
<1>3. len \in T
  BY <1>1, <1>2, SetInduction
<1>4. PICK f : f = [n \in 0 .. Len(results) |-> IF n = 0 THEN Written(e) ELSE Step(f[n - 1], results[n])] /\ Updating(list, e, k, results) = f
  BY <1>3 DEF Updating
<1> HIDE DEF Step
<1>5. /\ f[0] = Written(e)
      /\ \A n \in 1 .. Len(results) : n \in 0 .. Len(results) /\ n # 0 /\ f[n] = Step(f[n - 1], results[n])
  BY <1>4
<1> QED
  BY <1>4, <1>5 DEF Step

LEMMA AddingSteps ==
  ASSUME NEW list, NEW entries, NEW results, Len(results) \in Nat
  PROVE  /\ Adding(list, entries, results)[0] = entries
         /\ \A n \in 1 .. Len(results) :
              Adding(list, entries, results)[n] = Extended(list, Adding(list, entries, results)[n - 1], results[n])
<1> DEFINE len == Len(results)
           Step(before, result) == Extended(list, before, result)
           Run(m, g) == g = [n \in 0 .. m |-> IF n = 0 THEN entries ELSE Step(g[n - 1], results[n])]
           T == {m \in Nat : \E g : Run(m, g)}
<1>1. 0 \in T
  <2> DEFINE g == [n \in 0 .. 0 |-> entries]
  <2>1. Run(0, g)
    OBVIOUS
  <2> QED
    BY <2>1
<1>2. ASSUME NEW m \in T PROVE m + 1 \in T
  <2>1. PICK g : Run(m, g)
    BY <1>2
  <2> DEFINE h == [n \in 0 .. m + 1 |-> IF n = m + 1 THEN Step(g[m], results[m + 1]) ELSE g[n]]
  <2> HIDE DEF Step
  <2>2. ASSUME NEW n \in 0 .. m + 1
        PROVE  h[n] = IF n = 0 THEN entries ELSE Step(h[n - 1], results[n])
    <3>1. CASE n = m + 1
      BY <3>1
    <3>2. CASE n # m + 1
      <4>1. n \in 0 .. m /\ h[n] = g[n] /\ (n # 0 => h[n - 1] = g[n - 1])
        BY <3>2
      <4> QED
        BY <2>1, <4>1
    <3> QED
      BY <3>1, <3>2
  <2>3. h = [n \in 0 .. m + 1 |-> h[n]]
    OBVIOUS
  <2> HIDE DEF h
  <2>4. Run(m + 1, h)
    BY <2>2, <2>3
  <2>5. m + 1 \in Nat
    OBVIOUS
  <2> HIDE DEF Run
  <2> QED
    BY <2>4, <2>5
<1>3. len \in T
  BY <1>1, <1>2, SetInduction
<1>4. PICK f : f = [n \in 0 .. Len(results) |-> IF n = 0 THEN entries ELSE Step(f[n - 1], results[n])] /\ Adding(list, entries, results) = f
  BY <1>3 DEF Adding
<1> HIDE DEF Step
<1>5. /\ f[0] = entries
      /\ \A n \in 1 .. Len(results) : n \in 0 .. Len(results) /\ n # 0 /\ f[n] = Step(f[n - 1], results[n])
  BY <1>4
<1> QED
  BY <1>4, <1>5 DEF Step
(***************************************************************************)
(* What the comparison says.                                               *)
(***************************************************************************)
\* An approved entry is about it.
Known(entries, r) == \E k \in 1 .. Len(entries) : entries[k].info.authorised /\ Identify(entries[k].identify, r)

LEMMA Finding ==
  ASSUME NEW entries \in Seq(Entries), NEW r
  PROVE  LET k == FindMatchingEntry(entries, r) IN
         IF Known(entries, r)
           THEN /\ k \in 1 .. Len(entries) /\ entries[k].info.authorised /\ Identify(entries[k].identify, r)
                /\ \A j \in 1 .. Len(entries) : entries[j].info.authorised /\ Identify(entries[j].identify, r) => k <= j
         ELSE k = 0
<1> DEFINE hits == {k \in 1 .. Len(entries) : entries[k].info.authorised /\ Identify(entries[k].identify, r)}
<1>1. Known(entries, r) <=> hits # {}
  BY DEF Known
<1>2. hits \in SUBSET Nat
  OBVIOUS
<1>3. FindMatchingEntry(entries, r) = IF hits = {} THEN 0 ELSE CHOOSE k \in hits : \A j \in hits : k <= j
  BY DEF FindMatchingEntry, FirstOf
<1>4. CASE hits # {}
  <2> HIDE DEF hits
  <2>1. \E k \in hits : \A j \in hits : k <= j
    BY <1>2, <1>4, LeastMember
  <2>2. /\ FindMatchingEntry(entries, r) \in hits
        /\ \A j \in hits : FindMatchingEntry(entries, r) <= j
    BY <1>3, <1>4, <2>1
  <2> QED
    BY <1>1, <1>4, <2>2 DEF hits
<1> QED
  BY <1>1, <1>3, <1>4

LEMMA Comparing ==
  ASSUME NEW inventory \in Inventories, NEW list \in Lists, NEW r
  PROVE  LET result == Compare(inventory, list, r)
             k == result.entry
             blank == list = "scripts" /\ r.content = "" IN
         /\ result.resource = r
         /\ result.verdict \in {"authorised", "denied", "unknown"}
         /\ result.verdict = "unknown" <=> blank \/ ~Known(inventory[list], r)
         /\ result.verdict # "unknown" =>
              /\ k = FindMatchingEntry(inventory[list], r)
              /\ k \in 1 .. Len(inventory[list]) /\ inventory[list][k].info.authorised
              /\ Identify(inventory[list][k].identify, r)
         /\ result.verdict = "authorised" => Authorize(inventory[list][k].authorise, r) /\ r.content # ""
         /\ result.verdict = "denied" /\ r.content # "" => ~Authorize(inventory[list][k].authorise, r)
<1> DEFINE entries == inventory[list]
           k == FindMatchingEntry(entries, r)
<1>1. entries \in Seq(Entries) /\ (list = "scripts" => entries = inventory.scripts) /\ (list # "scripts" => entries = inventory.headers)
  BY DEF Inventories, Lists
<1> HIDE DEF entries
<1>2. IF Known(entries, r) THEN k \in 1 .. Len(entries) /\ entries[k].info.authorised /\ Identify(entries[k].identify, r) /\ k # 0
      ELSE k = 0
  BY <1>1, Finding
<1> DEFINE authorised == entries[k].info.authorised /\ Authorize(entries[k].authorise, r)
           judged == IF list = "scripts" THEN authorised ELSE r.content # "" /\ authorised
<1>3. Compare(inventory, list, r) =
        IF (list = "scripts" /\ r.content = "") \/ k = 0 THEN Result("unknown", 0, r)
        ELSE Result(IF judged THEN "authorised" ELSE "denied", k, r)
  BY <1>1 DEF Compare, CompareScript, CompareHeader, EvaluateScript, ScriptVerdict, HeaderVerdict
<1> DEFINE result == Compare(inventory, list, r)
           verdict == IF judged THEN "authorised" ELSE "denied"
<1> HIDE DEF judged, result
<1>4. result = IF (list = "scripts" /\ r.content = "") \/ k = 0 THEN Result("unknown", 0, r) ELSE Result(verdict, k, r)
  BY <1>3 DEF result
<1>5. CASE (list = "scripts" /\ r.content = "") \/ k = 0
  <2>1. result.verdict = "unknown" /\ result.resource = r
    BY <1>4, <1>5 DEF Result
  <2>2. (list = "scripts" /\ r.content = "") \/ ~Known(entries, r)
    BY <1>2, <1>5
  <2> QED
    BY <2>1, <2>2 DEF entries, result
<1>6. CASE ~ ((list = "scripts" /\ r.content = "") \/ k = 0)
  <2>1. result.verdict = verdict /\ result.entry = k /\ result.resource = r
    <3>1. result = Result(verdict, k, r)
      BY <1>4, <1>6
    <3> HIDE DEF verdict
    <3> QED
      BY <3>1 DEF Result
  <2>2. k \in 1 .. Len(entries) /\ entries[k].info.authorised /\ Identify(entries[k].identify, r) /\ Known(entries, r)
    BY <1>2, <1>6
  <2>3. judged => Authorize(entries[k].authorise, r) /\ r.content # ""
    BY <1>1, <1>6 DEF Lists, judged
  <2>4. ~judged /\ r.content # "" => ~Authorize(entries[k].authorise, r)
    BY <1>1, <1>6, <2>2 DEF judged
  <2>5. result.verdict # "unknown" /\ (result.verdict = "authorised" <=> judged)
    BY <2>1
  <2>6. result.verdict \in {"authorised", "denied", "unknown"}
    BY <2>1
  <2> HIDE DEF verdict
  <2> QED
    BY <1>6, <2>1, <2>2, <2>3, <2>4, <2>5, <2>6 DEF entries, result, k
<1> QED
  BY <1>5, <1>6

LEMMA TheCatalogue ==
  ASSUME NEW list \in Lists, NEW r \in Everything(list)
  PROVE  /\ r \in Resources
         /\ r.name = KnownByOpening(list) => Opening[r.content] \in SUBSET STRING
<1>1. PICK p \in Places : p[2] = list /\ r \in Catalogue[p[1]][p[2]][p[3]]
  BY DEF Everything
<1>2. PICK w \in Names, l \in Lists : p \in {<<w, l, k>> : k \in 1 .. Len(Catalogue[w][l])}
  BY <1>1 DEF Places
<1>3. PICK k \in 1 .. Len(Catalogue[w][l]) : p = <<w, l, k>>
  BY <1>2
<1>4. Catalogue[w][l] \in Seq(SUBSET Resources)
  BY LifecycleAssumption
<1>5. Catalogue[w][l][k] \in SUBSET Resources
  BY <1>4
<1>6. r \in Resources
  BY <1>1, <1>3, <1>5
<1> QED
  BY <1>1, <1>6, LifecycleAssumption

LEMMA ServedIsCatalogued ==
  ASSUME page \in Pages, NEW list \in Lists
  PROVE  /\ Served(list) \subseteq Everything(list)
         /\ \A w \in Names : /\ Len(page[w][list]) \in Nat
                             /\ \A k \in 1 .. Len(page[w][list]) : page[w][list][k] \in Served(list)
         /\ \A r \in Served(list) : \E w \in Names : \E k \in 1 .. Len(page[w][list]) : r = page[w][list][k]
<1>1. ASSUME NEW w \in Names
      PROVE  /\ page[w][list] \in Seq(Resources) /\ Len(page[w][list]) = Len(Catalogue[w][list])
             /\ \A k \in 1 .. Len(page[w][list]) :
                  page[w][list][k] \in Catalogue[w][list][k] /\ <<w, list, k>> \in Places
  <2>1. page \in [Names -> [Lists -> Seq(Resources)]]
    BY DEF Pages
  <2>2. page[w][list] \in Seq(Resources)
    BY <2>1
  <2>3. Len(page[w][list]) = Len(Catalogue[w][list])
        /\ \A k \in 1 .. Len(Catalogue[w][list]) : page[w][list][k] \in Catalogue[w][list][k]
    BY DEF Pages
  <2>4. \A k \in 1 .. Len(Catalogue[w][list]) : <<w, list, k>> \in Places
    <3> DEFINE here == {<<w, list, k>> : k \in 1 .. Len(Catalogue[w][list])}
    <3>1. here \in {{<<v, l, k>> : k \in 1 .. Len(Catalogue[v][l])} : v \in Names, l \in Lists}
      OBVIOUS
    <3> HIDE DEF here
    <3>2. here \subseteq Places
      BY <3>1 DEF Places
    <3> QED
      BY <3>2 DEF here
  <2> QED
    BY <2>2, <2>3, <2>4
<1>2. ASSUME NEW w \in Names
      PROVE  Len(page[w][list]) \in Nat /\ \A k \in 1 .. Len(page[w][list]) : page[w][list][k] \in Served(list)
  <2>1. Len(page[w][list]) \in Nat
    BY <1>1
  <2>2. ASSUME NEW k \in 1 .. Len(page[w][list]) PROVE page[w][list][k] \in Served(list)
    <3> DEFINE p == <<w, list, k>>
    <3>1. p \in Places /\ p[1] = w /\ p[2] = list /\ p[3] = k
      BY <1>1
    <3> HIDE DEF p
    <3> QED
      BY <3>1 DEF Served
  <2> QED
    BY <2>1, <2>2
<1>3. ASSUME NEW r \in Served(list)
      PROVE  r \in Everything(list) /\ \E w \in Names : \E k \in 1 .. Len(page[w][list]) : r = page[w][list][k]
  <2>1. PICK p \in Places : p[2] = list /\ r = page[p[1]][p[2]][p[3]]
    BY <1>3 DEF Served
  <2>2. PICK w \in Names, l \in Lists : p \in {<<w, l, k>> : k \in 1 .. Len(Catalogue[w][l])}
    BY <2>1 DEF Places
  <2>3. PICK k \in 1 .. Len(Catalogue[w][l]) : p = <<w, l, k>>
    BY <2>2
  <2>4. l = list /\ r = page[w][list][k]
    BY <2>1, <2>3
  <2>5. k \in 1 .. Len(page[w][list])
    BY <1>1, <2>3, <2>4
  <2>6. r \in Catalogue[p[1]][p[2]][p[3]]
    BY <1>1, <2>3, <2>4, <2>5
  <2> QED
    BY <2>1, <2>4, <2>5, <2>6 DEF Everything
<1> QED
  BY <1>2, <1>3

LEMMA TheResults ==
  ASSUME page \in Pages, NEW inventory, NEW list \in Lists
  PROVE  LET said == {Compare(inventory, list, r) : r \in Served(list)} IN
         Results(inventory, list) \in Seq(said) /\ ToSet(Results(inventory, list)) = said
<1> DEFINE said == {Compare(inventory, list, r) : r \in Served(list)}
           Of(w) == [k \in 1 .. Len(page[w][list]) |-> Compare(inventory, list, page[w][list][k])]
           seqs == [i \in 1 .. Len(Workflows) |-> Of(Workflows[i])]
<1>1. Results(inventory, list) = FlattenSeq(seqs)
  BY DEF Results, Each
<1>2. Len(Workflows) \in Nat /\ \A i \in 1 .. Len(Workflows) : Workflows[i] \in Names
  BY LifecycleAssumption DEF Names
<1>3. \A w \in Names : \E i \in 1 .. Len(Workflows) : Workflows[i] = w
  BY DEF Names
<1>4. ASSUME NEW w \in Names PROVE Of(w) \in Seq(said) /\ Len(Of(w)) = Len(page[w][list]) /\ DOMAIN Of(w) = 1 .. Len(page[w][list])
  BY ServedIsCatalogued
<1> HIDE DEF said, Of
<1>5. seqs \in Seq(Seq(said)) /\ Len(seqs) = Len(Workflows) /\ \A i \in 1 .. Len(Workflows) : seqs[i] = Of(Workflows[i])
  BY <1>2, <1>4
<1> HIDE DEF seqs
<1>6. FlattenSeq(seqs) \in Seq(said) /\ ToSet(FlattenSeq(seqs)) = UNION {ToSet(seqs[i]) : i \in 1 .. Len(seqs)}
  BY <1>5, ElementsOfFlatten
<1>7. ToSet(FlattenSeq(seqs)) \subseteq said
  BY <1>6, ElementsOf
<1>8. ASSUME NEW r \in Served(list) PROVE Compare(inventory, list, r) \in ToSet(FlattenSeq(seqs))
  <2>1. PICK w \in Names : \E k \in 1 .. Len(page[w][list]) : r = page[w][list][k]
    BY ServedIsCatalogued
  <2>2. PICK k \in 1 .. Len(page[w][list]) : r = page[w][list][k]
    BY <2>1
  <2>3. k \in DOMAIN Of(w) /\ Of(w)[k] = Compare(inventory, list, r)
    BY <1>4, <2>2 DEF Of
  <2>4. Compare(inventory, list, r) \in ToSet(Of(w))
    BY <2>3 DEF ToSet
  <2> QED
    BY <1>3, <1>5, <1>6, <2>4
<1>9. said \subseteq ToSet(FlattenSeq(seqs))
  BY <1>8 DEF said
<1> QED
  BY <1>1, <1>6, <1>7, <1>9 DEF said
(***************************************************************************)
(* What is proposed: leaves, in the workflow that showed it.               *)
(***************************************************************************)
LEMMA NewLeaves ==
  ASSUME NEW text \in STRING
  PROVE  /\ \A kind \in PlainKinds : Leaf(kind, {text}) \in Leaves /\ Leaf(kind, {text}).info = NoInfo
         /\ Leaf("hash", {text}) \in HashLeaves /\ Leaf("hash", {text}) \in Leaves /\ Leaf("hash", {text}).info = NoInfo
<1>1. IsFiniteSet({text}) /\ {text} \in SUBSET STRING
  BY FS_Singleton
<1>2. Leaf("hash", {text}) \in HashLeaves
  BY <1>1, NoInfoFacts DEF Leaf, HashLeaves
<1>3. \A kind \in PlainKinds : Leaf(kind, {text}) \in PlainLeaves
  BY <1>1, NoInfoFacts DEF Leaf, PlainLeaves
<1> QED
  BY <1>2, <1>3 DEF Leaves, Leaf

LEMMA NewContentLeaf ==
  ASSUME NEW accepts \in SUBSET STRING, NEW anchor \in {"none", "start", "end"}
  PROVE  ContentLeaf(accepts, anchor) \in Leaves /\ ContentLeaf(accepts, anchor).info = NoInfo
<1>1. ContentLeaf(accepts, anchor) \in ContentLeaves
  BY NoInfoFacts DEF ContentLeaf, ContentLeaves
<1> QED
  BY <1>1 DEF Leaves, ContentLeaf

LEMMA Sections ==
  ASSUME NEW S, NEW s \in Seq(S), NEW t \in Seq(S), s # <<>> \/ t # <<>>
  PROVE  s \o t \in Seq(S) \ {<<>>}
<1>1. s \o t \in Seq(S) /\ Len(s \o t) = Len(s) + Len(t) /\ Len(s) \in Nat /\ Len(t) \in Nat
  OBVIOUS
<1>2. Len(s) # 0 \/ Len(t) # 0
  BY EmptyAndLength
<1>3. Len(s \o t) # 0
  BY <1>1, <1>2
<1> QED
  BY <1>1, <1>3

LEMMA Short ==
  ASSUME NEW S, NEW x \in S, NEW y \in S
  PROVE  /\ <<>> \in Seq(S) /\ <<x>> \in Seq(S) /\ <<x>> # <<>>
         /\ <<x, y>> \in Seq(S) \ {<<>>} /\ Len(<<x, y>>) = 2 /\ <<x, y>>[1] = x /\ <<x, y>>[2] = y
OBVIOUS

LEMMA InWorkflowIsFlat ==
  ASSUME NEW leaves \in Seq(Leaves), leaves # <<>>, NEW w \in STRING
  PROVE  InWorkflow(leaves, w) \in FlatMatchers
<1> DEFINE first == IF w = "" THEN <<>> ELSE <<WorkflowLeaf(w)>>
           all == first \o leaves
<1>1. WorkflowLeaf(w) \in Leaves
  <2>1. "workflow" \in PlainKinds
    BY DEF PlainKinds
  <2> QED
    BY <2>1, NewLeaves DEF WorkflowLeaf
<1>2. first \in Seq(Leaves)
  <2>1. CASE w = ""
    BY <1>1, <2>1, Short
  <2>2. CASE w # ""
    BY <1>1, <2>2, Short
  <2> QED
    BY <2>1, <2>2
<1> HIDE DEF first
<1>3. all \in Seq(Leaves) \ {<<>>} /\ Len(all) \in Nat
  <2>1. all \in Seq(Leaves) \ {<<>>}
    BY <1>2, Sections
  <2> QED
    BY <2>1
<1> HIDE DEF all
<1>4. InWorkflow(leaves, w) = IF Len(all) = 1 THEN all[1] ELSE And(all)
  BY DEF InWorkflow, all, first
<1>5. CASE Len(all) = 1
  BY <1>3, <1>4, <1>5, Shapes
<1>6. CASE Len(all) # 1
  <2>1. And(all) \in Composites({"or", "and"}, Leaves)
    BY <1>3, NoInfoFacts DEF And, Composites
  <2> QED
    BY <1>4, <1>6, <2>1 DEF FlatMatchers
<1> QED
  BY <1>5, <1>6

LEMMA ScopedIsFlat ==
  ASSUME NEW m \in Leaves, NEW w \in STRING, NEW r
  PROVE  /\ Scoped(m, w) \in FlatMatchers /\ Scoped(m, w) \in NestedMatchers /\ Scoped(m, w).info = Recorded
         /\ Identify(Scoped(m, w), r) => Identify(m, r)
<1>1. CASE w = ""
  <2>1. Scoped(m, w) = With(m, Recorded)
    BY <1>1 DEF Scoped
  <2>2. m \in AllMatchers
    BY Shapes
  <2> QED
    BY <2>1, <2>2, LeafWith, IdentifyWith, NoInfoFacts, Shapes
<1>2. CASE w # ""
  <2> DEFINE both == <<WorkflowLeaf(w), m>>
  <2>1. WorkflowLeaf(w) \in Leaves
    <3>1. "workflow" \in PlainKinds
      BY DEF PlainKinds
    <3> QED
      BY <3>1, NewLeaves DEF WorkflowLeaf
  <2>2. both \in Seq(Leaves) \ {<<>>} /\ Len(both) = 2 /\ both[2] = m
    BY <2>1, Short
  <2> HIDE DEF both
  <2>3. Scoped(m, w) = With(And(both), Recorded)
    BY <1>2 DEF Scoped, both
  <2>4. And(both) \in Composites({"or", "and"}, Leaves) /\ And(both).kind = "and" /\ And(both).children = both
    BY <2>2, NoInfoFacts DEF And, Composites
  <2> HIDE DEF Scoped
  <2>5. Scoped(m, w) \in Composites({"or", "and"}, Leaves) /\ Scoped(m, w).info = Recorded
        /\ Scoped(m, w).kind = "and" /\ Scoped(m, w).children = both
    BY <2>3, <2>4, CompositeWith, NoInfoFacts
  <2>6. Identify(Scoped(m, w), r) => IdentifyNested(m, r)
    BY <2>2, <2>5 DEF Identify, IdentifyBy
  <2> QED
    BY <2>5, <2>6, IdentifyLevels, Shapes DEF FlatMatchers
<1> QED
  BY <1>1, <1>2

\* Being recorded changes nothing about what an alternative is about.
LEMMA ConfinedIdentifies ==
  ASSUME NEW m \in Leaves, NEW w \in STRING, NEW r
  PROVE  Identify(Scoped(m, w), r) => Identify(Confined(m, w), r)
<1>1. Confined(m, w) \in AllMatchers
  <2>1. CASE w = ""
    BY <2>1, Shapes DEF Confined
  <2>2. CASE w # ""
    <3>1. WorkflowLeaf(w) \in Leaves
      <4>1. "workflow" \in PlainKinds
        BY DEF PlainKinds
      <4> QED
        BY <4>1, NewLeaves DEF WorkflowLeaf
    <3>2. <<WorkflowLeaf(w), m>> \in Seq(Leaves) \ {<<>>}
      BY <3>1, Short
    <3>3. And(<<WorkflowLeaf(w), m>>) \in Composites({"or", "and"}, Leaves)
      BY <3>2, NoInfoFacts DEF And, Composites
    <3> QED
      BY <2>2, <3>3, Shapes DEF Confined, FlatMatchers
  <2> QED
    BY <2>1, <2>2
<1>2. Scoped(m, w) = With(Confined(m, w), Recorded)
  BY DEF Scoped, Confined
<1> QED
  BY <1>1, <1>2, IdentifyWith, NoInfoFacts

LEMMA ValueLeafIsLeaf ==
  ASSUME NEW r \in Resources
  PROVE  ValueLeaf(r) \in Leaves /\ ValueLeaf(r).info = NoInfo /\ ValueLeaf(r).kind \in {"content", "csp-directive"}
<1>1. r.policy \in Policies /\ r.content \in STRING
  BY DEF Resources
<1>2. CASE r.policy # NoPolicy
  <2>1. r.policy.directive \in STRING /\ r.policy.sources \in SUBSET STRING /\ r.policy.nonces \in Nat
    BY <1>1 DEF Policies
  <2>2. ValueLeaf(r) = [kind |-> "csp-directive", directive |-> r.policy.directive, allow |-> r.policy.sources,
                        nonces |-> r.policy.nonces, info |-> NoInfo]
    BY <1>2 DEF ValueLeaf, CspLeaf
  <2>3. ValueLeaf(r) \in CspLeaves
    BY <2>1, <2>2, NoInfoFacts DEF CspLeaves
  <2> QED
    BY <2>2, <2>3 DEF Leaves
<1>3. CASE r.policy = NoPolicy
  <2>1. ValueLeaf(r) = ContentLeaf({r.content}, "none")
    BY <1>3 DEF ValueLeaf
  <2>2. {r.content} \in SUBSET STRING /\ "none" \in {"none", "start", "end"}
    BY <1>1
  <2>3. ContentLeaf({r.content}, "none") \in Leaves /\ ContentLeaf({r.content}, "none").info = NoInfo
    BY <2>2, NewContentLeaf
  <2>4. ContentLeaf({r.content}, "none").kind = "content"
    BY DEF ContentLeaf
  <2> QED
    BY <2>1, <2>3, <2>4
<1> QED
  BY <1>2, <1>3

LEMMA NewIdentity ==
  ASSUME NEW list \in Lists, NEW r \in Everything(list)
  PROVE  Proposal(list, r).identify \in FlatMatchers /\ Proposal(list, r).identify \in AllMatchers
<1>1. /\ r.name \in STRING /\ r.host \in STRING /\ r.workflow \in STRING
      /\ r.name = KnownByOpening(list) => Opening[r.content] \in SUBSET STRING
  BY TheCatalogue DEF Resources
<1>2. {"name", "header-name", "host"} \subseteq PlainKinds
  BY DEF PlainKinds
<1>3. Leaf("name", {r.name}) \in Leaves /\ Leaf("header-name", {r.name}) \in Leaves /\ Leaf("host", {r.host}) \in Leaves
  BY <1>1, <1>2, NewLeaves
<1> DEFINE hosts == IF r.host = "" THEN <<>> ELSE <<Leaf("host", {r.host})>>
<1>4. hosts \in Seq(Leaves)
  <2>1. CASE r.host = ""
    BY <1>3, <2>1, Short
  <2>2. CASE r.host # ""
    BY <1>3, <2>2, Short
  <2> QED
    BY <2>1, <2>2
<1> HIDE DEF hosts
<1>5. CASE list = "scripts"
  <2>1. Proposal(list, r).identify = IdentifyScriptBy(r)
    BY <1>5 DEF Proposal, NewScript, Entry
  <2>2. CASE r.name # FallbackName
    <3>1. <<Leaf("name", {r.name})>> \in Seq(Leaves) /\ <<Leaf("name", {r.name})>> # <<>>
      BY <1>3
    <3> QED
      BY <1>1, <2>1, <2>2, <3>1, InWorkflowIsFlat, Shapes DEF IdentifyScriptBy
  <2>3. CASE r.name = FallbackName
    <3> DEFINE opening == ContentLeaf(Opening[r.content], IF Opening[r.content] = {r.content} THEN "none" ELSE "start")
    <3>1. opening \in Leaves
      BY <1>1, <1>5, <2>3, NewContentLeaf DEF KnownByOpening
    <3> HIDE DEF opening
    <3>2. hosts \o <<opening>> \in Seq(Leaves) \ {<<>>}
      <4>1. <<opening>> \in Seq(Leaves) /\ <<opening>> # <<>>
        BY <3>1
      <4> QED
        BY <1>4, <4>1, Sections
    <3>3. IdentifyScriptBy(r) = InWorkflow(hosts \o <<opening>>, r.workflow)
      BY <2>3 DEF IdentifyScriptBy, hosts, opening
    <3> QED
      BY <1>1, <2>1, <3>2, <3>3, InWorkflowIsFlat, Shapes
  <2> QED
    BY <2>2, <2>3
<1>6. CASE list = "headers"
  <2> DEFINE name == <<Leaf("header-name", {r.name})>>
             cookie == IF r.name = "set-cookie" THEN <<ContentLeaf(Opening[r.content], "start")>> ELSE <<>>
  <2>1. Proposal(list, r).identify = IdentifyHeaderBy(r)
    BY <1>6 DEF Proposal, NewHeader, Entry
  <2>2. name \in Seq(Leaves) /\ name # <<>>
    BY <1>3
  <2>3. cookie \in Seq(Leaves)
    <3>1. CASE r.name = "set-cookie"
      <4>1. Opening[r.content] \in SUBSET STRING
        BY <1>1, <1>6, <3>1 DEF KnownByOpening
      <4>2. ContentLeaf(Opening[r.content], "start") \in Leaves
        BY <4>1, NewContentLeaf
      <4> QED
        BY <3>1, <4>2
    <3>2. CASE r.name # "set-cookie"
      BY <3>2
    <3> QED
      BY <3>1, <3>2
  <2> HIDE DEF name, cookie
  <2>4. name \o cookie \in Seq(Leaves) \ {<<>>}
    BY <2>2, <2>3, Sections
  <2>5. (name \o cookie) \o hosts \in Seq(Leaves) \ {<<>>}
    BY <1>4, <2>4, Sections
  <2>6. IdentifyHeaderBy(r) = InWorkflow((name \o cookie) \o hosts, r.workflow)
    BY DEF IdentifyHeaderBy, name, cookie, hosts
  <2> QED
    BY <1>1, <2>1, <2>5, <2>6, InWorkflowIsFlat, Shapes
<1> QED
  BY <1>5, <1>6 DEF Lists

LEMMA ProposalIsEntry ==
  ASSUME NEW list \in Lists, NEW r \in Everything(list)
  PROVE  Proposal(list, r) \in Entries /\ Proposal(list, r).info = Pending
<1> DEFINE authorise == IF list = "scripts" THEN AuthoriseScriptBy(r) ELSE ValueLeaf(r)
           identify == Proposal(list, r).identify
<1>1. r \in Resources
  BY TheCatalogue
<1>2. authorise \in Authorisers
  <2>1. r.hash \in STRING /\ r.name \in STRING /\ "name" \in PlainKinds
    BY <1>1 DEF Resources, PlainKinds
  <2>2. AuthoriseScriptBy(r) \in Leaves /\ AuthoriseScriptBy(r).info = NoInfo
    BY <2>1, NewLeaves DEF AuthoriseScriptBy
  <2>3. authorise \in Leaves /\ authorise.info = NoInfo
    BY <1>1, <2>2, ValueLeafIsLeaf
  <2> HIDE DEF authorise
  <2> QED
    BY <2>3, Shapes DEF Authorisers
<1>3. Leaf("url", {}) \in AllMatchers
  <2>1. Leaf("url", {}) \in PlainLeaves
    BY NoInfoFacts DEF Leaf, PlainLeaves, PlainKinds
  <2> QED
    BY <2>1, Shapes DEF Leaves
<1>4. Proposal(list, r) = [identify |-> identify, authorise |-> authorise, info |-> Pending, required |-> {},
                           loads |-> [maxDepth |-> 0, guard |-> Leaf("url", {})]]
  BY DEF Proposal, NewScript, NewHeader, Entry
<1>5. identify \in AllMatchers
  BY NewIdentity
<1> HIDE DEF identify, authorise
<1> QED
  BY <1>2, <1>3, <1>4, <1>5, NoInfoFacts DEF Entries
(***************************************************************************)
(* What one denied result does to a written form.                          *)
(***************************************************************************)
\* A hash the more, in an entry of hashes.
Joined(raw, hash) == [raw EXCEPT !.items[1].accepts = @ \cup {hash}]

Accepting(m, accepts) == [m EXCEPT !.accepts = accepts]

LEMMA AcceptingHashes ==
  ASSUME NEW m \in HashLeaves, NEW accepts \in SUBSET STRING, IsFiniteSet(accepts)
  PROVE  /\ Accepting(m, accepts) \in HashLeaves /\ Accepting(m, accepts).kind = "hash"
         /\ Accepting(m, accepts).info = m.info /\ Accepting(m, accepts).accepts = accepts
BY DEF HashLeaves, Accepting

LEMMA Joining ==
  ASSUME NEW raw \in Forms, raw.form = "single", raw.items[1].kind = "hash", NEW hash \in STRING
  PROVE  LET new == Joined(raw, hash) IN
         /\ new \in Forms /\ new.form = "single"
         /\ raw.items[1] \in HashLeaves /\ new.items[1] \in HashLeaves
         /\ new.items[1].info = raw.items[1].info
         /\ new.items[1].accepts = raw.items[1].accepts \cup {hash}
         /\ Alternatives(raw) = <<raw.items[1]>> /\ Alternatives(new) = <<new.items[1]>>
<1> DEFINE item == raw.items[1]
           accepts == item.accepts \cup {hash}
           joined == Accepting(item, accepts)
           new == Joined(raw, hash)
<1>1. /\ item \in WholeMatchers /\ item.info \in Infos /\ item.info.given /\ Len(raw.items) = 1
      /\ raw.items \in Seq(WholeMatchers) /\ raw = [form |-> "single", items |-> raw.items]
  BY FormFacts DEF Forms
<1>2. item \in HashLeaves
  <2>1. item \in Leaves
    BY <1>1, Children DEF WholeMatchers, NestedMatchers
  <2> QED
    BY <2>1 DEF Leaves, PlainLeaves, PlainKinds, ContentLeaves, CspLeaves, ChainLeaves
<1>3. raw.items = <<item>>
  BY <1>1
<1>4. accepts \in SUBSET STRING /\ IsFiniteSet(accepts)
  BY <1>2, FS_AddElement DEF HashLeaves
<1>5. new = [raw EXCEPT !.items[1].accepts = @ \cup {hash}]
  BY DEF Joined
<1> HIDE DEF item
<1>6. raw = [form |-> "single", items |-> <<item>>]
  BY <1>1, <1>3
<1>7. new = [form |-> "single", items |-> <<joined>>]
  BY <1>5, <1>6 DEF Accepting
<1>8. joined \in HashLeaves /\ joined.kind = "hash" /\ joined.info = item.info /\ joined.accepts = accepts
  BY <1>2, <1>4, AcceptingHashes
<1> HIDE DEF joined
<1>9. joined \in WholeMatchers
  BY <1>8, Shapes DEF Leaves, WholeMatchers
<1>10. <<joined>> \in {s \in Seq(WholeMatchers) : Len(s) = 1} /\ <<joined>>[1] = joined
  BY <1>9
<1> HIDE DEF new
<1>11. new \in Forms
  BY <1>1, <1>7, <1>8, <1>10 DEF Forms, Readable, Singles, KeptSingle
<1>12. Alternatives(raw) = <<item>> /\ Alternatives(new) = <<joined>>
  <2>1. new.items = <<joined>> /\ new.items[1] = joined /\ item.kind # "or"
    BY <1>7, <1>10 DEF item
  <2> QED
    BY <1>3, <1>8, <2>1 DEF Alternatives, item
<1> QED
  BY <1>2, <1>7, <1>8, <1>11, <1>12 DEF item, new

\* What was found, whoever showed it.
Found(list, r) == IF list = "scripts" THEN Leaf("hash", {r.hash}) ELSE ValueLeaf(r)

\* Nothing, an alternative of its workflow, or another hash.
LEMMA ApplyCases ==
  ASSUME NEW list \in Lists, NEW r, NEW raw
  PROVE  \/ ApplyTo(list, raw, r) = raw
         \/ ApplyTo(list, raw, r) = AddAlternative(raw, Scoped(Found(list, r), r.workflow))
         \/ /\ list = "scripts" /\ raw.form = "single" /\ raw.items[1].kind = "hash"
            /\ r.workflow = "" /\ ApplyTo(list, raw, r) = Joined(raw, r.hash)
<1>1. CASE list = "scripts"
  BY <1>1 DEF ApplyTo, ApplyHash, Joined, Found
<1>2. CASE list # "scripts"
  BY <1>2 DEF ApplyTo, ApplyValue, Found
<1> QED
  BY <1>1, <1>2

LEMMA Applying ==
  ASSUME NEW list \in Lists, NEW r \in Everything(list), NEW raw \in Forms
  PROVE  LET new == ApplyTo(list, raw, r) IN
         /\ new \in Forms /\ new.items[1].info = raw.items[1].info
         /\ \A x : Offers(new, x) => Offers(raw, x) \/ Identify(Alternative(list, r), x)
         /\ \A x : ByValue(new, x) => ByValue(raw, x)
<1>0. \/ ApplyTo(list, raw, r) = raw
      \/ ApplyTo(list, raw, r) = AddAlternative(raw, Scoped(Found(list, r), r.workflow))
      \/ /\ list = "scripts" /\ raw.form = "single" /\ raw.items[1].kind = "hash"
         /\ r.workflow = "" /\ ApplyTo(list, raw, r) = Joined(raw, r.hash)
  BY ApplyCases
<1> DEFINE new == ApplyTo(list, raw, r)
           m == Found(list, r)
<1>1. r \in Resources /\ r.hash \in STRING /\ r.workflow \in STRING
  BY TheCatalogue DEF Resources
<1>2. m \in Leaves /\ m.info = NoInfo
  BY <1>1, NewLeaves, ValueLeafIsLeaf DEF Found
<1>3. \A x : Identify(Scoped(m, r.workflow), x) => Identify(Alternative(list, r), x)
  <2>1. CASE list = "scripts"
    BY <1>1, <1>2, <2>1, ConfinedIdentifies DEF Alternative, Found
  <2>2. CASE list # "scripts"
    BY <1>1, <1>2, <2>2, ScopedIsFlat DEF Alternative, Found
  <2> QED
    BY <2>1, <2>2
<1>4. CASE new = AddAlternative(raw, Scoped(m, r.workflow))
  <2> DEFINE alternative == Scoped(m, r.workflow)
  <2>1. alternative \in NestedMatchers /\ alternative.info = Recorded /\ alternative.info.given
    BY <1>1, <1>2, ScopedIsFlat, NoInfoFacts
  <2> HIDE DEF alternative
  <2>2. /\ new \in Forms /\ new.items[1].info = raw.items[1].info
        /\ Alternatives(new) = Append(Alternatives(raw), alternative)
        /\ new.form = "array" \/ new.items[1].kind = "or"
    BY <1>4, <2>1, AddingAlternative DEF alternative
  <2>3. Len(Alternatives(raw)) \in Nat /\ Alternatives(raw) \in Seq(NestedMatchers)
    BY AlternativesOf DEF Forms
  <2>4. ASSUME NEW x, Offers(new, x) PROVE Offers(raw, x) \/ Identify(alternative, x)
    BY <2>1, <2>2, <2>3, <2>4 DEF Offers
  <2>5. \A x : ~ByValue(new, x)
    BY <2>2 DEF ByValue
  <2> QED
    BY <1>3, <2>2, <2>4, <2>5 DEF alternative
<1>5. CASE /\ list = "scripts" /\ raw.form = "single" /\ raw.items[1].kind = "hash"
           /\ r.workflow = "" /\ new = Joined(raw, r.hash)
  <2> DEFINE old == raw.items[1]
             joined == new.items[1]
  <2>1. /\ new \in Forms /\ new.form = "single" /\ old \in HashLeaves /\ joined \in HashLeaves
        /\ joined.info = old.info /\ joined.accepts = old.accepts \cup {r.hash}
        /\ Alternatives(raw) = <<old>> /\ Alternatives(new) = <<joined>>
    BY <1>1, <1>5, Joining
  <2>2. Alternative(list, r) = m
    BY <1>5 DEF Alternative, Confined, Found
  <2> HIDE DEF old, joined
  <2>3. ASSUME NEW x PROVE Identify(joined, x) => Identify(old, x) \/ Identify(Alternative(list, r), x)
    <3>1. old.kind = "hash" /\ joined.kind = "hash" /\ m.kind = "hash" /\ m.accepts = {r.hash}
      BY <1>5, <2>1 DEF HashLeaves, Leaf, Found
    <3>2. Identify(joined, x) => x.hash \in joined.accepts \ {""}
      BY <3>1 DEF Identify, IdentifyBy, Satisfies, HashMatches, Accepts
    <3>3. x.hash \in old.accepts \ {""} => Identify(old, x)
      BY <3>1 DEF Identify, IdentifyBy, Satisfies, HashMatches, Accepts
    <3>4. x.hash \in m.accepts \ {""} => Identify(m, x)
      BY <3>1 DEF Identify, IdentifyBy, Satisfies, HashMatches, Accepts
    <3> QED
      BY <2>1, <2>2, <3>1, <3>2, <3>3, <3>4
  <2>4. joined.kind = "hash"
    BY <2>1 DEF HashLeaves
  <2>5. /\ \A x : Offers(raw, x) <=> Identify(old, x)
        /\ \A x : Offers(new, x) <=> Identify(joined, x)
    BY <2>1 DEF Offers
  <2> QED
    BY <2>1, <2>3, <2>4, <2>5 DEF old, joined, ByValue
<1>6. CASE new = raw
  BY <1>6
<1> QED
  BY <1>0, <1>4, <1>5, <1>6
(***************************************************************************)
(* What a pass makes of a list of entries.                                 *)
(***************************************************************************)
LEMMA OneResult ==
  ASSUME page \in Pages, NEW inventory \in Inventories, NEW list \in Lists
  PROVE  /\ Len(Results(inventory, list)) \in Nat
         /\ \A n \in 1 .. Len(Results(inventory, list)) :
              /\ Results(inventory, list)[n].resource \in Served(list)
              /\ Results(inventory, list)[n].resource \in Everything(list)
              /\ Results(inventory, list)[n] = Compare(inventory, list, Results(inventory, list)[n].resource)
         /\ \A r \in Served(list) :
              \E n \in 1 .. Len(Results(inventory, list)) :
                Results(inventory, list)[n] = Compare(inventory, list, r) /\ Results(inventory, list)[n].resource = r
<1> DEFINE said == {Compare(inventory, list, r) : r \in Served(list)}
           results == Results(inventory, list)
<1>1. results \in Seq(said) /\ ToSet(results) = said
  BY TheResults
<1>2. \A r : Compare(inventory, list, r).resource = r
  BY Comparing
<1>3. Served(list) \subseteq Everything(list)
  BY ServedIsCatalogued
<1> HIDE DEF results
<1>4. ASSUME NEW n \in 1 .. Len(results)
      PROVE  results[n].resource \in Served(list) /\ results[n] = Compare(inventory, list, results[n].resource)
  <2>1. PICK r \in Served(list) : results[n] = Compare(inventory, list, r)
    BY <1>1
  <2> QED
    BY <1>2, <2>1
<1>5. ASSUME NEW r \in Served(list)
      PROVE  \E n \in 1 .. Len(results) : results[n] = Compare(inventory, list, r)
  <2>1. Compare(inventory, list, r) \in ToSet(results) /\ DOMAIN results = 1 .. Len(results)
    BY <1>1
  <2> QED
    BY <2>1 DEF ToSet
<1> QED
  BY <1>1, <1>2, <1>3, <1>4, <1>5 DEF results

\* The alternatives an entry had, and what was served that it is about.
Widened(list, rs, old, new) ==
  /\ new \in Entries /\ new.identify = old.identify /\ new.info = old.info
  /\ \A x : CouldAdmit(new, x) =>
       \/ CouldAdmit(old, x)
       \/ Identify(old.identify, x) /\ \E r \in rs : Identify(old.identify, r) /\ Identify(Alternative(list, r), x)

LEMMA WidenedStays == ASSUME NEW list, NEW rs, NEW e \in Entries PROVE Widened(list, rs, e, e)
BY DEF Widened

LEMMA WidenedTwice ==
  ASSUME NEW list, NEW rs, NEW a, NEW b, NEW c, Widened(list, rs, a, b), Widened(list, rs, b, c)
  PROVE  Widened(list, rs, a, c)
<1> DEFINE By(e, x) == Identify(e.identify, x) /\ \E r \in rs : Identify(e.identify, r) /\ Identify(Alternative(list, r), x)
<1>1. /\ c \in Entries /\ b.identify = a.identify /\ c.identify = b.identify /\ c.info = a.info
      /\ \A x : CouldAdmit(b, x) => CouldAdmit(a, x) \/ By(a, x)
      /\ \A x : CouldAdmit(c, x) => CouldAdmit(b, x) \/ By(b, x)
  BY DEF Widened
<1>2. \A x : By(b, x) <=> By(a, x)
  BY <1>1
<1> HIDE DEF By
<1>3. \A x : CouldAdmit(c, x) => CouldAdmit(a, x) \/ By(a, x)
  BY <1>1, <1>2
<1> QED
  BY <1>1, <1>3 DEF Widened, By

LEMMA UpdatingForms ==
  ASSUME page \in Pages, NEW inventory \in Inventories, NEW list \in Lists, NEW k \in 1 .. Len(inventory[list])
  PROVE  LET e == inventory[list][k]
             results == Results(inventory, list) IN
         \A n \in 0 .. Len(results) :
           /\ Updating(list, e, k, results)[n] \in Forms
           /\ Updating(list, e, k, results)[n].items[1].info = e.info
           /\ Widened(list, Served(list), e, Load(e, Updating(list, e, k, results)[n]))
<1> DEFINE e == inventory[list][k]
           results == Results(inventory, list)
           Form(n) == Updating(list, e, k, results)[n]
           T == {n \in 0 .. Len(results) :
                   Form(n) \in Forms /\ Form(n).items[1].info = e.info /\ Widened(list, Served(list), e, Load(e, Form(n)))}
<1>1. e \in Entries
  BY DEF Inventories, Lists
<1>2. Len(results) \in Nat
  BY OneResult
<1>3. Form(0) = Written(e) /\ \A n \in 1 .. Len(results) : Form(n) = Revised(list, k, Form(n - 1), results[n])
  BY <1>2, UpdatingSteps
<1> HIDE DEF Form, results
<1>4. 0 \in T
  <2>1. Written(e) \in Forms /\ Written(e).items[1].info = e.info /\ Load(e, Written(e)) = e
    BY <1>1, WrittenIsForm
  <2> HIDE DEF e
  <2> QED
    BY <1>1, <1>2, <1>3, <2>1, WidenedStays
<1>5. ASSUME NEW n \in 1 .. Len(results), n - 1 \in T PROVE n \in T
  <2> DEFINE raw == Form(n - 1)
             r == results[n].resource
             new == ApplyTo(list, raw, r)
  <2>1. raw \in Forms /\ raw.items[1].info = e.info /\ Widened(list, Served(list), e, Load(e, raw))
    BY <1>5
  <2>2. CASE ~Denies(results[n], k)
    <3>1. Form(n) = raw
      BY <1>3, <2>2 DEF Revised
    <3> QED
      BY <1>2, <2>1, <3>1
  <2>3. CASE Denies(results[n], k)
    <3>1. Form(n) = new
      BY <1>3, <2>3 DEF Revised
    <3>2. r \in Served(list) /\ r \in Everything(list) /\ results[n] = Compare(inventory, list, r)
      BY OneResult DEF results
    <3>3. Identify(e.identify, r)
      <4>1. results[n].verdict = "denied" /\ results[n].entry = k
        BY <2>3 DEF Denies
      <4>2. Compare(inventory, list, r).verdict # "unknown"
        BY <3>2, <4>1
      <4> HIDE DEF r
      <4>3. Identify(inventory[list][Compare(inventory, list, r).entry].identify, r)
        BY <4>2, Comparing
      <4> QED
        BY <3>2, <4>1, <4>3
    <3> HIDE DEF r, raw
    <3>4. /\ new \in Forms /\ new.items[1].info = raw.items[1].info
          /\ \A x : Offers(new, x) => Offers(raw, x) \/ Identify(Alternative(list, r), x)
          /\ \A x : ByValue(new, x) => ByValue(raw, x)
      BY <2>1, <3>2, Applying
    <3> HIDE DEF new, e
    <3>5. raw \in Readable /\ new \in Readable
      BY <2>1, <3>4 DEF Forms
    <3>6. /\ \A x : CouldAdmit(Load(e, raw), x) <=> Identify(e.identify, x) /\ (Offers(raw, x) \/ ByValue(raw, x))
          /\ \A x : CouldAdmit(Load(e, new), x) <=> Identify(e.identify, x) /\ (Offers(new, x) \/ ByValue(new, x))
      BY <1>1, <3>5, ReadOffers
    <3>7. /\ Load(e, new) \in Entries /\ Load(e, new).identify = e.identify /\ Load(e, new).info = e.info
          /\ Load(e, raw).identify = e.identify /\ Load(e, raw).info = e.info
      BY <1>1, <2>1, <3>4, <3>5, LoadIsEntry
    <3>8. ASSUME NEW x, CouldAdmit(Load(e, new), x)
          PROVE  \/ CouldAdmit(Load(e, raw), x)
                 \/ Identify(e.identify, x) /\ Identify(Alternative(list, r), x)
      BY <3>4, <3>6, <3>8
    <3>9. Widened(list, Served(list), Load(e, raw), Load(e, new))
      BY <3>2, <3>3, <3>7, <3>8 DEF Widened
    <3>10. Widened(list, Served(list), e, Load(e, new))
      BY <2>1, <3>9, WidenedTwice
    <3> QED
      BY <1>2, <2>1, <3>1, <3>4, <3>10
  <2> QED
    BY <2>2, <2>3
<1>6. 0 .. Len(results) \subseteq T
  BY <1>2, <1>4, <1>5, SetInductionUpTo
<1> QED
  BY <1>6 DEF Form, results

LEMMA UpdatedIsWidened ==
  ASSUME page \in Pages, NEW inventory \in Inventories, NEW list \in Lists, NEW k \in 1 .. Len(inventory[list])
  PROVE  Widened(list, Served(list), inventory[list][k],
                 Updated(list, inventory[list][k], k, Results(inventory, list)))
<1> DEFINE e == inventory[list][k]
           results == Results(inventory, list)
<1>1. e \in Entries
  BY DEF Inventories, Lists
<1>2. Len(results) \in Nat
  BY OneResult
<1>3. Widened(list, Served(list), e, Load(e, Updating(list, e, k, results)[Len(results)]))
  BY <1>2, UpdatingForms
<1>4. \/ Updated(list, e, k, results) = e
      \/ Updated(list, e, k, results) = Load(e, Updating(list, e, k, results)[Len(results)])
  BY DEF Updated
<1> HIDE DEF e, results
<1>5. Widened(list, Served(list), e, Updated(list, e, k, results))
  BY <1>1, <1>3, <1>4, WidenedStays
<1> QED
  BY <1>5 DEF e, results
Changed(entries, k, e) == [entries EXCEPT ![k] = e]

LEMMA AddHeaderCases ==
  ASSUME NEW entries \in Seq(Entries), NEW r
  PROVE  /\ Covered(entries, r) => AddTo("headers", entries, r) = entries
         /\ ~Covered(entries, r) /\ SameIdentity(entries, r) = {} =>
              AddTo("headers", entries, r) = Append(entries, Proposal("headers", r))
         /\ ~Covered(entries, r) /\ SameIdentity(entries, r) # {} =>
              \E k \in SameIdentity(entries, r) :
                /\ \A j \in SameIdentity(entries, r) : k <= j
                /\ AddTo("headers", entries, r) =
                     IF CanAppend(entries[k].authorise) THEN Changed(entries, k, AppendPending(entries[k], r)) ELSE entries
<1> DEFINE same == SameIdentity(entries, r)
           k == CHOOSE i \in same : \A j \in same : i <= j
           changed == [entries EXCEPT ![k] = AppendPending(@, r)]
<1>1. AddTo("headers", entries, r) =
        IF Covered(entries, r) THEN entries
        ELSE IF same = {} THEN Append(entries, NewHeader(r))
        ELSE IF CanAppend(entries[k].authorise) THEN changed
        ELSE entries
  BY DEF AddTo, AddHeader, AddToFirst, AddToEntry, SameIdentity
<1>2. same # {} => k \in same /\ \A j \in same : k <= j
  <2>1. same \in SUBSET Nat
    BY DEF SameIdentity
  <2>2. same # {} => \E i \in same : \A j \in same : i <= j
    BY <2>1, LeastMember
  <2> QED
    BY <2>2
<1>3. changed = Changed(entries, k, AppendPending(entries[k], r))
  BY DEF Changed
<1>4. NewHeader(r) = Proposal("headers", r)
  BY DEF Proposal
<1> HIDE DEF k, changed, same
<1> QED
  BY <1>1, <1>2, <1>3, <1>4 DEF same

LEMMA AddScriptCases ==
  ASSUME NEW entries, NEW r
  PROVE  IF Covered(entries, r) \/ (r.name = FallbackName /\ r.content = "") THEN AddTo("scripts", entries, r) = entries
         ELSE AddTo("scripts", entries, r) = Append(entries, Proposal("scripts", r))
BY DEF AddTo, AddScript, Proposal

LEMMA AppendPendingCases ==
  ASSUME NEW e \in Entries, NEW r \in Everything("headers")
  PROVE  LET pending == With(ValueLeaf(r), Pending)
             longer == AddAlternative(Written(e), pending) IN
         /\ AppendPending(e, r) = IF \E k \in 1 .. Len(Alternatives(Written(e))) :
                                       Authorize(With(Alternatives(Written(e))[k], NoInfo), r)
                                    THEN e ELSE Load(e, longer)
         /\ pending \in Leaves /\ pending \in NestedMatchers /\ pending.info = Pending
         /\ longer \in Forms /\ longer.items[1].info = e.info
         /\ Alternatives(longer) = Append(Alternatives(Written(e)), pending)
         /\ longer.form = "array" \/ longer.items[1].kind = "or"
<1> DEFINE pending == With(ValueLeaf(r), Pending)
           raw == Written(e)
<1>1. raw \in Forms /\ raw.items[1].info = e.info
  BY WrittenIsForm
<1>2. pending \in Leaves /\ pending \in NestedMatchers /\ pending.info = Pending
  <2>1. ValueLeaf(r) \in Leaves
    BY TheCatalogue, ValueLeafIsLeaf DEF Lists
  <2> QED
    BY <2>1, LeafWith, NoInfoFacts, Shapes
<1>3. pending.info.given
  BY <1>2, NoInfoFacts
<1>4. AppendPending(e, r) = IF \E k \in 1 .. Len(Alternatives(raw)) : Authorize(With(Alternatives(raw)[k], NoInfo), r)
                              THEN e ELSE Load(e, AddAlternative(raw, pending))
  BY DEF AppendPending
<1> HIDE DEF pending, raw
<1>5. /\ AddAlternative(raw, pending) \in Forms
      /\ AddAlternative(raw, pending).items[1].info = raw.items[1].info
      /\ Alternatives(AddAlternative(raw, pending)) = Append(Alternatives(raw), pending)
      /\ AddAlternative(raw, pending).form = "array" \/ AddAlternative(raw, pending).items[1].kind = "or"
  BY <1>1, <1>2, <1>3, AddingAlternative
<1> QED
  BY <1>1, <1>2, <1>4, <1>5 DEF pending, raw

LEMMA AppendPendingWidens ==
  ASSUME NEW e \in Entries, NEW r \in Everything("headers"), NEW rs, r \in rs, Identify(e.identify, r)
  PROVE  Widened("headers", rs, e, AppendPending(e, r))
<1> DEFINE pending == With(ValueLeaf(r), Pending)
           raw == Written(e)
           longer == AddAlternative(raw, pending)
<1>1. raw \in Forms /\ raw \in Readable /\ Load(e, raw) = e
  BY WrittenIsForm DEF Forms
<1>2. /\ AppendPending(e, r) = e \/ AppendPending(e, r) = Load(e, longer)
      /\ pending \in NestedMatchers
      /\ longer \in Forms /\ longer.items[1].info = e.info
      /\ Alternatives(longer) = Append(Alternatives(raw), pending)
      /\ longer.form = "array" \/ longer.items[1].kind = "or"
  BY AppendPendingCases
<1>3. \A x : Identify(pending, x) => Identify(Alternative("headers", r), x)
  <2>1. ValueLeaf(r) \in Leaves
    BY TheCatalogue, ValueLeafIsLeaf DEF Lists
  <2>2. ValueLeaf(r) \in AllMatchers
    BY <2>1, Shapes
  <2>3. Alternative("headers", r) = ValueLeaf(r)
    BY DEF Alternative
  <2> QED
    BY <2>2, <2>3, IdentifyWith, NoInfoFacts
<1> HIDE DEF pending, raw, longer
<1>4. longer \in Readable
  BY <1>2 DEF Forms
<1>5. Len(Alternatives(raw)) \in Nat /\ Alternatives(raw) \in Seq(NestedMatchers)
  BY <1>1, AlternativesOf
<1>6. ASSUME NEW x, Offers(longer, x) PROVE Offers(raw, x) \/ Identify(Alternative("headers", r), x)
  <2>1. Offers(raw, x) \/ Identify(pending, x)
    BY <1>2, <1>5, <1>6 DEF Offers
  <2> QED
    BY <1>3, <2>1
<1>7. \A x : ~ByValue(longer, x)
  BY <1>2 DEF ByValue
<1>8. /\ \A x : CouldAdmit(e, x) <=> Identify(e.identify, x) /\ (Offers(raw, x) \/ ByValue(raw, x))
      /\ \A x : CouldAdmit(Load(e, longer), x) <=> Identify(e.identify, x) /\ (Offers(longer, x) \/ ByValue(longer, x))
  <2>1. \A x : CouldAdmit(Load(e, raw), x) <=> Identify(e.identify, x) /\ (Offers(raw, x) \/ ByValue(raw, x))
    BY <1>1, ReadOffers
  <2>2. \A x : CouldAdmit(Load(e, longer), x) <=> Identify(e.identify, x) /\ (Offers(longer, x) \/ ByValue(longer, x))
    BY <1>4, ReadOffers
  <2> QED
    BY <1>1, <2>1, <2>2
<1>9. Load(e, longer) \in Entries /\ Load(e, longer).identify = e.identify /\ Load(e, longer).info = e.info
  BY <1>2, <1>4, LoadIsEntry
<1>10. Widened("headers", rs, e, Load(e, longer))
  BY <1>6, <1>7, <1>8, <1>9 DEF Widened
<1> QED
  BY <1>2, <1>10, WidenedStays

\* The entries that were there, and proposals after them.
Grown(list, rs, old, new) ==
  /\ new \in Seq(Entries) /\ Len(old) <= Len(new)
  /\ \A k \in 1 .. Len(old) : Widened(list, rs, old[k], new[k])
  /\ \A k \in 1 .. Len(new) : k > Len(old) => \E r \in rs : Widened(list, rs, Proposal(list, r), new[k])

LEMMA GrownAppend ==
  ASSUME NEW list \in Lists, NEW rs, rs \subseteq Everything(list), NEW r \in rs, NEW old \in Seq(Entries),
         NEW new, Grown(list, rs, old, new)
  PROVE  Grown(list, rs, old, Append(new, Proposal(list, r)))
<1> DEFINE e == Proposal(list, r)
<1>1. e \in Entries
  BY ProposalIsEntry
<1>2. Widened(list, rs, e, e)
  BY <1>1, WidenedStays
<1> HIDE DEF e
<1>3. new \in Seq(Entries) /\ Len(old) \in Nat /\ Len(new) \in Nat /\ Len(old) <= Len(new)
  BY DEF Grown
<1>4. /\ Append(new, e) \in Seq(Entries) /\ Len(Append(new, e)) = Len(new) + 1
      /\ \A k \in 1 .. Len(new) : Append(new, e)[k] = new[k]
      /\ Append(new, e)[Len(new) + 1] = e
  BY <1>1, <1>3
<1>5. \A k \in 1 .. Len(old) : Widened(list, rs, old[k], Append(new, e)[k])
  BY <1>3, <1>4 DEF Grown
<1>6. ASSUME NEW k \in 1 .. Len(Append(new, e)), k > Len(old)
      PROVE  \E x \in rs : Widened(list, rs, Proposal(list, x), Append(new, e)[k])
  <2>1. CASE k = Len(new) + 1
    BY <1>2, <1>4, <2>1 DEF e
  <2>2. CASE k # Len(new) + 1
    <3>1. k \in 1 .. Len(new) /\ Append(new, e)[k] = new[k]
      BY <1>3, <1>4, <2>2
    <3> QED
      BY <1>6, <3>1 DEF Grown
  <2> QED
    BY <2>1, <2>2
<1>7. Grown(list, rs, old, Append(new, e))
  BY <1>3, <1>4, <1>5, <1>6 DEF Grown
<1> QED
  BY <1>7 DEF e

LEMMA GrownChange ==
  ASSUME NEW list \in Lists, NEW rs, NEW old \in Seq(Entries), NEW new, Grown(list, rs, old, new),
         NEW k \in 1 .. Len(new), NEW e, Widened(list, rs, new[k], e)
  PROVE  Grown(list, rs, old, Changed(new, k, e))
<1>1. new \in Seq(Entries) /\ Len(old) \in Nat /\ Len(new) \in Nat /\ Len(old) <= Len(new) /\ e \in Entries
  BY DEF Grown, Widened
<1>2. /\ Changed(new, k, e) \in Seq(Entries) /\ Len(Changed(new, k, e)) = Len(new)
      /\ \A j \in 1 .. Len(new) : Changed(new, k, e)[j] = IF j = k THEN e ELSE new[j]
  BY <1>1 DEF Changed
<1>3. ASSUME NEW j \in 1 .. Len(old) PROVE Widened(list, rs, old[j], Changed(new, k, e)[j])
  <2>1. Widened(list, rs, old[j], new[j]) /\ j \in 1 .. Len(new)
    BY <1>1 DEF Grown
  <2> QED
    BY <1>2, <2>1, WidenedTwice
<1>4. ASSUME NEW j \in 1 .. Len(new), j > Len(old)
      PROVE  \E x \in rs : Widened(list, rs, Proposal(list, x), Changed(new, k, e)[j])
  <2>1. PICK x \in rs : Widened(list, rs, Proposal(list, x), new[j])
    BY <1>4 DEF Grown
  <2>2. Widened(list, rs, Proposal(list, x), Changed(new, k, e)[j])
    BY <1>2, <2>1, WidenedTwice
  <2> QED
    BY <2>2
<1> QED
  BY <1>1, <1>2, <1>3, <1>4 DEF Grown

LEMMA AddingOne ==
  ASSUME NEW list \in Lists, NEW rs, rs \subseteq Everything(list), NEW r \in rs, NEW old \in Seq(Entries),
         NEW new, Grown(list, rs, old, new)
  PROVE  Grown(list, rs, old, AddTo(list, new, r))
<1>1. new \in Seq(Entries) /\ Grown(list, rs, old, Append(new, Proposal(list, r)))
  BY GrownAppend DEF Grown
<1>2. CASE list = "scripts"
  BY <1>1, <1>2, AddScriptCases
<1>3. CASE list = "headers"
  <2>1. CASE Covered(new, r)
    BY <1>1, <1>3, <2>1, AddHeaderCases
  <2>2. CASE ~Covered(new, r) /\ SameIdentity(new, r) = {}
    BY <1>1, <1>3, <2>2, AddHeaderCases
  <2>3. CASE ~Covered(new, r) /\ SameIdentity(new, r) # {}
    <3>1. PICK k \in SameIdentity(new, r) :
            AddTo("headers", new, r) =
              IF CanAppend(new[k].authorise) THEN Changed(new, k, AppendPending(new[k], r)) ELSE new
      BY <1>1, <2>3, AddHeaderCases
    <3>2. k \in 1 .. Len(new) /\ Identify(new[k].identify, r) /\ new[k] \in Entries
      BY <1>1 DEF SameIdentity
    <3>3. Widened("headers", rs, new[k], AppendPending(new[k], r))
      BY <1>3, <3>2, AppendPendingWidens
    <3>4. Grown(list, rs, old, Changed(new, k, AppendPending(new[k], r)))
      BY <1>3, <3>2, <3>3, GrownChange
    <3> QED
      BY <1>3, <3>1, <3>4
  <2> QED
    BY <2>1, <2>2, <2>3
<1> QED
  BY <1>2, <1>3 DEF Lists

LEMMA RecordingGrows ==
  ASSUME page \in Pages, NEW inventory \in Inventories, NEW list \in Lists
  PROVE  LET results == Results(inventory, list)
             updated == UpdateAll(list, inventory[list], results) IN
         /\ Len(updated) = Len(inventory[list])
         /\ \A n \in 0 .. Len(results) : Grown(list, Served(list), inventory[list], Adding(list, updated, results)[n])
         /\ Grown(list, Served(list), inventory[list], DiffOf(list, inventory[list], results))
<1> DEFINE entries == inventory[list]
           results == Results(inventory, list)
           rs == Served(list)
           updated == UpdateAll(list, entries, results)
           After(n) == Adding(list, updated, results)[n]
           T == {n \in 0 .. Len(results) : Grown(list, rs, entries, After(n))}
<1>1. entries \in Seq(Entries) /\ Len(entries) \in Nat
  BY DEF Inventories, Lists
<1>2. \A k \in 1 .. Len(entries) : Widened(list, rs, entries[k], Updated(list, entries[k], k, results))
  BY UpdatedIsWidened
<1>3. /\ Len(results) \in Nat /\ rs \subseteq Everything(list)
      /\ \A n \in 1 .. Len(results) : results[n].resource \in rs
  BY OneResult, ServedIsCatalogued
<1>4. After(0) = updated /\ \A n \in 1 .. Len(results) : After(n) = Extended(list, After(n - 1), results[n])
  BY <1>3, AddingSteps
<1> HIDE DEF entries, results, rs, After
<1>5. /\ updated \in Seq(Entries) /\ Len(updated) = Len(entries)
      /\ \A k \in 1 .. Len(entries) : updated[k] = Updated(list, entries[k], k, results)
  <2>1. \A k \in 1 .. Len(entries) : Updated(list, entries[k], k, results) \in Entries
    BY <1>2 DEF Widened
  <2> QED
    BY <1>1, <2>1 DEF UpdateAll
<1> HIDE DEF updated
<1>6. Grown(list, rs, entries, updated)
  BY <1>1, <1>2, <1>5 DEF Grown
<1>7. 0 \in T
  BY <1>3, <1>4, <1>6
<1>8. ASSUME NEW n \in 1 .. Len(results), n - 1 \in T PROVE n \in T
  <2>1. Grown(list, rs, entries, After(n - 1)) /\ results[n].resource \in rs
    BY <1>3, <1>8
  <2>2. Grown(list, rs, entries, AddTo(list, After(n - 1), results[n].resource))
    BY <1>1, <1>3, <2>1, AddingOne
  <2>3. After(n) = After(n - 1) \/ After(n) = AddTo(list, After(n - 1), results[n].resource)
    BY <1>4 DEF Extended
  <2> QED
    BY <1>3, <2>1, <2>2, <2>3
<1>9. 0 .. Len(results) \subseteq T
  BY <1>3, <1>7, <1>8, SetInductionUpTo
<1>10. \A n \in 0 .. Len(results) : Grown(list, rs, entries, After(n))
  BY <1>9
<1>11. Len(results) \in 0 .. Len(results)
  BY <1>3
<1>12. DiffOf(list, entries, results) = After(Len(results))
  BY DEF DiffOf, After, updated
<1> QED
  BY <1>5, <1>10, <1>11, <1>12 DEF After, entries, results, rs, updated
(***************************************************************************)
(* The steps.                                                              *)
(***************************************************************************)
LEMMA OfInventories ==
  ASSUME NEW inventory \in Inventories
  PROVE  /\ inventory = [scripts |-> inventory.scripts, headers |-> inventory.headers]
         /\ \A list \in Lists : /\ inventory[list] \in Seq(Entries) /\ Len(inventory[list]) \in Nat
                                /\ \A k \in 1 .. Len(inventory[list]) : inventory[list][k] \in Entries
BY DEF Inventories, Lists

LEMMA StoredIsSame ==
  ASSUME NEW inventory \in Inventories
  PROVE  Stored(inventory) = inventory
<1>1. ASSUME NEW entries \in Seq(Entries) PROVE Each(entries, Reload) = entries
  <2>1. \A k \in 1 .. Len(entries) : Reload(entries[k]) = entries[k]
    BY WrittenIsForm DEF Reload
  <2>2. Each(entries, Reload) = [k \in 1 .. Len(entries) |-> entries[k]]
    BY <2>1 DEF Each
  <2> QED
    BY <2>2
<1>2. inventory.scripts \in Seq(Entries) /\ inventory.headers \in Seq(Entries)
      /\ inventory = [scripts |-> inventory.scripts, headers |-> inventory.headers]
  BY DEF Inventories
<1>3. Each(inventory.scripts, Reload) = inventory.scripts /\ Each(inventory.headers, Reload) = inventory.headers
  BY <1>1, <1>2
<1> QED
  BY <1>2, <1>3 DEF Stored

LEMMA GrownStays == ASSUME NEW list, NEW rs, NEW entries \in Seq(Entries) PROVE Grown(list, rs, entries, entries)
<1>1. Len(entries) \in Nat /\ \A k \in 1 .. Len(entries) : entries[k] \in Entries
  OBVIOUS
<1> QED
  BY <1>1, WidenedStays DEF Grown

LEMMA RecordingIsInventory ==
  ASSUME page \in Pages, NEW inventory \in Inventories
  PROVE  /\ Recording(inventory) \in Inventories
         /\ \A list \in Lists :
              /\ Recording(inventory)[list] = DiffOf(list, inventory[list], Results(inventory, list))
              /\ Grown(list, Served(list), inventory[list], Recording(inventory)[list])
<1>1. \A list \in Lists : Grown(list, Served(list), inventory[list], DiffOf(list, inventory[list], Results(inventory, list)))
  BY RecordingGrows
<1>2. Recording(inventory) =
        [scripts |-> DiffOf("scripts", inventory.scripts, Results(inventory, "scripts")),
         headers |-> DiffOf("headers", inventory.headers, Results(inventory, "headers"))]
  BY DEF Recording, Diff
<1>3. ASSUME NEW list \in Lists PROVE Recording(inventory)[list] = DiffOf(list, inventory[list], Results(inventory, list))
  BY <1>2 DEF Lists
<1>4. \A list \in Lists : DiffOf(list, inventory[list], Results(inventory, list)) \in Seq(Entries)
  BY <1>1 DEF Grown
<1>5. Recording(inventory) \in Inventories
  BY <1>2, <1>4 DEF Inventories, Lists
<1> QED
  BY <1>1, <1>3, <1>5

LEMMA PassGrows ==
  ASSUME page \in Pages, branch \in Inventories, InventoryPass
  PROVE  branch' \in Inventories /\ \A list \in Lists : Grown(list, Served(list), branch[list], branch'[list])
<1>1. branch' = Recording(branch) \/ branch' = branch
  BY RecordingIsInventory, StoredIsSame DEF InventoryPass
<1> QED
  BY <1>1, RecordingIsInventory, GrownStays, OfInventories

\* As it was, but for its infos.
Reviewed(old, new) ==
  /\ new \in Entries /\ new.identify = old.identify
  /\ \A x : CouldAdmit(new, x) <=> CouldAdmit(old, x)

LEMMA ReviewedItems ==
  ASSUME NEW e \in Entries, NEW which
  PROVE  Reviewed(e, Load(e, ApproveItems(Written(e), which)))
<1> DEFINE raw == Written(e)
           new == ApproveItems(raw, which)
<1>1. raw \in Readable /\ Load(e, raw) = e
  BY WrittenIsForm DEF Forms
<1> HIDE DEF raw, new
<1>2. new \in Readable /\ \A x : (Offers(new, x) <=> Offers(raw, x)) /\ (ByValue(new, x) <=> ByValue(raw, x))
  BY <1>1, ApprovingItems DEF new
<1>3. Load(e, new) \in Entries /\ Load(e, new).identify = e.identify
  BY <1>2, LoadIsEntry
<1>4. \A x : CouldAdmit(Load(e, raw), x) <=> CouldAdmit(Load(e, new), x)
  BY <1>1, <1>2, ReadOffers
<1> QED
  BY <1>1, <1>3, <1>4 DEF Reviewed, new, raw

Parked(e) == [e EXCEPT !.info.authorised = FALSE]

LEMMA ParkedInfo ==
  ASSUME NEW i \in Infos
  PROVE  [i EXCEPT !.authorised = FALSE] \in Infos /\ [i EXCEPT !.authorised = FALSE].given = i.given
BY DEF Infos

LEMMA ReviewedParked ==
  ASSUME NEW e \in Entries
  PROVE  Reviewed(e, Parked(e))
<1> DEFINE i == [e.info EXCEPT !.authorised = FALSE]
<1>1. e.info \in Infos /\ e.info.given /\ e.authorise \in Authorisers
      /\ e = [identify |-> e.identify, authorise |-> e.authorise, info |-> e.info, required |-> e.required, loads |-> e.loads]
  BY EntryFacts
<1>2. i \in Infos /\ i.given
  BY <1>1, ParkedInfo
<1>3. Parked(e) = [e EXCEPT !.info = i]
  BY DEF Parked
<1> HIDE DEF i
<1>4. Parked(e) = Reworded(e, e.authorise, i)
  BY <1>1, <1>3 DEF Reworded
<1>5. /\ Reworded(e, e.authorise, i) \in Entries
      /\ Reworded(e, e.authorise, i).identify = e.identify /\ Reworded(e, e.authorise, i).authorise = e.authorise
  BY <1>1, <1>2, EntryWith
<1> QED
  BY <1>4, <1>5 DEF Reviewed, CouldAdmit

LEMMA ReviewedStays == \A e \in Entries : Reviewed(e, e)
BY DEF Reviewed

\* A reviewer's step: the same entries in the same places.
ReviewedAll(old, new) ==
  /\ new \in Inventories
  /\ \A list \in Lists : /\ Len(new[list]) = Len(old[list])
                         /\ \A k \in 1 .. Len(old[list]) : Reviewed(old[list][k], new[list][k])

ChangedIn(inventory, list, k, e) == [inventory EXCEPT ![list][k] = e]

LEMMA ReviewedOne ==
  ASSUME NEW inventory \in Inventories, NEW list \in Lists, NEW k \in 1 .. Len(inventory[list]),
         NEW e, Reviewed(inventory[list][k], e)
  PROVE  ReviewedAll(inventory, ChangedIn(inventory, list, k, e))
<1> DEFINE new == ChangedIn(inventory, list, k, e)
           entries == Changed(inventory[list], k, e)
<1>1. inventory = [scripts |-> inventory.scripts, headers |-> inventory.headers]
      /\ \A l \in Lists : /\ inventory[l] \in Seq(Entries) /\ Len(inventory[l]) \in Nat
                          /\ \A j \in 1 .. Len(inventory[l]) : inventory[l][j] \in Entries
  BY OfInventories
<1>2. e \in Entries
  BY DEF Reviewed
<1>3. /\ entries \in Seq(Entries) /\ Len(entries) = Len(inventory[list])
      /\ \A j \in 1 .. Len(inventory[list]) : entries[j] = IF j = k THEN e ELSE inventory[list][j]
  BY <1>1, <1>2 DEF Changed
<1>4. new = [inventory EXCEPT ![list] = entries]
  BY DEF ChangedIn, Changed
<1> HIDE DEF entries
<1>5. new = [scripts |-> IF list = "scripts" THEN entries ELSE inventory.scripts,
             headers |-> IF list = "headers" THEN entries ELSE inventory.headers]
  BY <1>1, <1>4 DEF Lists
<1> HIDE DEF new
<1>6. new \in Inventories
  BY <1>1, <1>3, <1>5 DEF Inventories, Lists
<1>7. \A l \in Lists : new[l] = IF l = list THEN entries ELSE inventory[l]
  BY <1>5 DEF Lists
<1>8. ASSUME NEW l \in Lists
      PROVE  /\ Len(new[l]) = Len(inventory[l])
             /\ \A j \in 1 .. Len(inventory[l]) : Reviewed(inventory[l][j], new[l][j])
  BY <1>1, <1>3, <1>7, ReviewedStays
<1> QED
  BY <1>6, <1>8 DEF ReviewedAll, new

LEMMA ReviewersStep ==
  ASSUME branch \in Inventories, ApproveAll \/ ApproveOne \/ Park
  PROVE  ReviewedAll(branch, branch')
<1>0. DOMAIN branch = Lists
  BY OfInventories DEF Lists
<1>1. CASE ApproveAll
  <2>1. ASSUME NEW entries \in Seq(Entries)
        PROVE  /\ Each(entries, ApproveEntry) \in Seq(Entries) /\ Len(Each(entries, ApproveEntry)) = Len(entries)
               /\ \A k \in 1 .. Len(entries) : Reviewed(entries[k], Each(entries, ApproveEntry)[k])
    <3>1. \A k \in 1 .. Len(entries) : Reviewed(entries[k], ApproveEntry(entries[k]))
      BY ReviewedItems DEF ApproveEntry
    <3>2. \A k \in 1 .. Len(entries) : ApproveEntry(entries[k]) \in Entries
      BY <3>1 DEF Reviewed
    <3>3. Len(entries) \in Nat
      OBVIOUS
    <3> QED
      BY <3>1, <3>2, <3>3 DEF Each
  <2>2. branch' = [scripts |-> Each(branch.scripts, ApproveEntry), headers |-> Each(branch.headers, ApproveEntry)]
    BY <1>1 DEF ApproveAll
  <2>3. branch.scripts \in Seq(Entries) /\ branch.headers \in Seq(Entries)
    BY DEF Inventories
  <2>4. branch' \in Inventories
    BY <2>1, <2>2, <2>3 DEF Inventories
  <2>5. \A list \in Lists : branch'[list] = Each(branch[list], ApproveEntry) /\ branch[list] \in Seq(Entries)
    BY <2>2, <2>3 DEF Lists
  <2> QED
    BY <2>1, <2>4, <2>5 DEF ReviewedAll
<1>2. CASE ApproveOne
  <2>1. PICK list \in Lists : \E k \in 1 .. Len(branch[list]) :
          \E j \in 1 .. Len(Written(branch[list][k]).items) :
            branch' = [branch EXCEPT ![list][k] = Load(@, ApproveItems(Written(branch[list][k]), {j}))]
    BY <1>0, <1>2 DEF ApproveOne
  <2>2. PICK k \in 1 .. Len(branch[list]) :
          \E j \in 1 .. Len(Written(branch[list][k]).items) :
            branch' = [branch EXCEPT ![list][k] = Load(@, ApproveItems(Written(branch[list][k]), {j}))]
    BY <2>1
  <2>3. PICK j : branch' = [branch EXCEPT ![list][k] = Load(@, ApproveItems(Written(branch[list][k]), {j}))]
    BY <2>2
  <2> DEFINE e == Load(branch[list][k], ApproveItems(Written(branch[list][k]), {j}))
  <2>4. branch' = ChangedIn(branch, list, k, e)
    BY <2>3 DEF ChangedIn
  <2>5. Reviewed(branch[list][k], e)
    BY OfInventories, ReviewedItems
  <2> QED
    BY <2>4, <2>5, ReviewedOne
<1>3. CASE Park
  <2>1. PICK list \in Lists : \E k \in 1 .. Len(branch[list]) :
          branch' = [branch EXCEPT ![list][k] = [@ EXCEPT !.info.authorised = FALSE]]
    BY <1>0, <1>3 DEF Park
  <2>2. PICK k \in 1 .. Len(branch[list]) : branch' = [branch EXCEPT ![list][k] = [@ EXCEPT !.info.authorised = FALSE]]
    BY <2>1
  <2>3. branch' = ChangedIn(branch, list, k, Parked(branch[list][k]))
    BY <2>2 DEF ChangedIn, Parked
  <2>4. Reviewed(branch[list][k], Parked(branch[list][k]))
    BY OfInventories, ReviewedParked
  <2> QED
    BY <2>3, <2>4, ReviewedOne
<1> QED
  BY <1>1, <1>2, <1>3
LEMMA DeployedPage ==
  ASSUME page \in Pages, Deploy
  PROVE  page' \in Pages
<1>1. PICK p \in Places : \E r \in Catalogue[p[1]][p[2]][p[3]] : page' = [page EXCEPT ![p[1]][p[2]][p[3]] = r]
  BY DEF Deploy
<1>2. PICK w \in Names, l \in Lists : p \in {<<w, l, k>> : k \in 1 .. Len(Catalogue[w][l])}
  BY DEF Places
<1>3. PICK k \in 1 .. Len(Catalogue[w][l]) : p = <<w, l, k>>
  BY <1>2
<1>4. PICK r \in Catalogue[w][l][k] : page' = [page EXCEPT ![w][l][k] = r]
  BY <1>1, <1>3
<1>5. r \in Resources
  <2>1. p \in Places /\ p[1] = w /\ p[2] = l /\ p[3] = k
    BY <1>3
  <2>2. r \in Everything(l)
    BY <1>4, <2>1 DEF Everything
  <2> QED
    BY <2>2, TheCatalogue
<1>6. /\ page \in [Names -> [Lists -> Seq(Resources)]]
      /\ \A v \in Names, list \in Lists :
           /\ Len(page[v][list]) = Len(Catalogue[v][list])
           /\ \A j \in 1 .. Len(Catalogue[v][list]) : page[v][list][j] \in Catalogue[v][list][j]
  BY DEF Pages
<1> DEFINE slots == [page[w][l] EXCEPT ![k] = r]
           lists == [page[w] EXCEPT ![l] = slots]
<1>7. page[w] \in [Lists -> Seq(Resources)] /\ page[w][l] \in Seq(Resources) /\ Len(page[w][l]) = Len(Catalogue[w][l])
  BY <1>6
<1>8. slots \in Seq(Resources) /\ Len(slots) = Len(Catalogue[w][l])
      /\ \A j \in 1 .. Len(Catalogue[w][l]) : slots[j] = IF j = k THEN r ELSE page[w][l][j]
  BY <1>5, <1>7
<1>9. page' = [page EXCEPT ![w] = lists]
  BY <1>4
<1> HIDE DEF slots
<1>10. lists \in [Lists -> Seq(Resources)] /\ \A list \in Lists : lists[list] = IF list = l THEN slots ELSE page[w][list]
  BY <1>7, <1>8
<1> HIDE DEF lists
<1>11. page' \in [Names -> [Lists -> Seq(Resources)]] /\ \A v \in Names : page'[v] = IF v = w THEN lists ELSE page[v]
  BY <1>6, <1>9, <1>10
<1>12. ASSUME NEW v \in Names, NEW list \in Lists
       PROVE  /\ Len(page'[v][list]) = Len(Catalogue[v][list])
              /\ \A j \in 1 .. Len(Catalogue[v][list]) : page'[v][list][j] \in Catalogue[v][list][j]
  <2>1. CASE v = w /\ list = l
    BY <1>4, <1>6, <1>8, <1>10, <1>11, <2>1
  <2>2. CASE ~ (v = w /\ list = l)
    <3>1. page'[v][list] = page[v][list]
      BY <1>10, <1>11, <2>2
    <3> QED
      BY <1>6, <3>1
  <2> QED
    BY <2>1, <2>2
<1> QED
  BY <1>11, <1>12 DEF Pages

\* Whatever the pages serve and whoever reviews, an inventory stays well
\* formed: what a pass adds to an entry and proposes can be written, read and
\* extended again (src/services/inventory.ts, src/utils/inventory.ts).
THEOREM TypeCorrect == Spec => []TypeOK
<1>1. Init => TypeOK
  BY LifecycleAssumption DEF Init, TypeOK
<1>2. ASSUME TypeOK, [Next]_vars PROVE TypeOK'
  <2> USE DEF TypeOK
  <2>1. CASE Deploy
    <3>1. page' \in Pages
      BY <1>2, <2>1, DeployedPage
    <3> QED
      BY <1>2, <2>1, <3>1, LifecycleAssumption DEF Deploy
  <2>2. CASE InventoryPass
    <3>1. branch' \in Inventories
      BY <1>2, <2>2, PassGrows
    <3>2. \A list \in Lists : Served(list) \subseteq Everything(list)
      BY <1>2, ServedIsCatalogued
    <3>3. Served("scripts") \subseteq Everything("scripts") /\ Served("headers") \subseteq Everything("headers")
      BY <3>2 DEF Lists
    <3> QED
      BY <1>2, <2>2, <3>1, <3>3 DEF InventoryPass
  <2>3. CASE ApproveAll
    <3>1. branch' \in Inventories
      BY <1>2, <2>3, ReviewersStep DEF ReviewedAll
    <3> QED
      BY <1>2, <2>3, <3>1 DEF ApproveAll
  <2>4. CASE ApproveOne
    <3>1. branch' \in Inventories
      BY <1>2, <2>4, ReviewersStep DEF ReviewedAll
    <3> QED
      BY <1>2, <2>4, <3>1, LifecycleAssumption DEF ApproveOne
  <2>5. CASE Park
    <3>1. branch' \in Inventories
      BY <1>2, <2>5, ReviewersStep DEF ReviewedAll
    <3> QED
      BY <1>2, <2>5, <3>1, LifecycleAssumption DEF Park
  <2>6. CASE Merge
    BY <1>2, <2>6 DEF Merge
  <2>7. CASE UNCHANGED vars
    BY <1>2, <2>7 DEF vars, Pages
  <2> QED
    BY <1>2, <2>1, <2>2, <2>3, <2>4, <2>5, <2>6, <2>7 DEF Next
<1> QED
  BY <1>1, <1>2, PTL DEF Spec

\* No approved entry is about it before a pass, none is after it.
LEMMA UnknownStays ==
  ASSUME NEW list \in Lists, NEW rs, rs \subseteq Everything(list), NEW old \in Seq(Entries), NEW new, Grown(list, rs, old, new), NEW r
  PROVE  Known(new, r) <=> Known(old, r)
<1>1. new \in Seq(Entries) /\ Len(old) \in Nat /\ Len(new) \in Nat /\ Len(old) <= Len(new)
  BY DEF Grown
<1>2. ASSUME NEW k \in 1 .. Len(old) PROVE new[k].info = old[k].info /\ new[k].identify = old[k].identify
  BY DEF Grown, Widened
<1>3. ASSUME NEW k \in 1 .. Len(new), k > Len(old) PROVE ~new[k].info.authorised
  <2>1. PICK x \in rs : Widened(list, rs, Proposal(list, x), new[k])
    BY <1>3 DEF Grown
  <2>2. new[k].info = Pending
    BY <2>1, ProposalIsEntry DEF Widened
  <2> QED
    BY <2>2, NoInfoFacts
<1>4. ASSUME Known(old, r) PROVE Known(new, r)
  <2>1. PICK k \in 1 .. Len(old) : old[k].info.authorised /\ Identify(old[k].identify, r)
    BY <1>4 DEF Known
  <2> QED
    BY <1>1, <1>2, <2>1 DEF Known
<1>5. ASSUME Known(new, r) PROVE Known(old, r)
  <2>1. PICK k \in 1 .. Len(new) : new[k].info.authorised /\ Identify(new[k].identify, r)
    BY <1>5 DEF Known
  <2>2. k \in 1 .. Len(old)
    BY <1>1, <1>3, <2>1
  <2> QED
    BY <1>2, <2>1, <2>2 DEF Known
<1> QED
  BY <1>4, <1>5

\* The pass and its writing and reading admit nothing by themselves: what no
\* approved entry speaks for stays unknown until a reviewer says so (diff and
\* push of src/services/inventory.ts).
THEOREM PassesAdmitNothing == Spec => OnlyReviewersAdmit
<1>1. ASSUME TypeOK, [Next]_vars
      PROVE  [passes' # passes => \A new \in {branch'} : \A list \in Lists : \A r \in Everything(list) :
                Compare(branch, list, r).verdict = "unknown" => Compare(new, list, r).verdict # "authorised"]_vars
  <2> SUFFICES ASSUME passes' # passes, NEW list \in Lists, NEW r \in Everything(list),
                      Compare(branch, list, r).verdict = "unknown"
               PROVE  Compare(branch', list, r).verdict # "authorised"
    OBVIOUS
  <2>1. InventoryPass
    BY <1>1 DEF Next, vars, Deploy, ApproveAll, ApproveOne, Park, Merge
  <2>2. page \in Pages /\ branch \in Inventories /\ branch' \in Inventories
        /\ Grown(list, Served(list), branch[list], branch'[list])
    BY <1>1, <2>1, PassGrows DEF TypeOK
  <2>3. branch[list] \in Seq(Entries) /\ Served(list) \subseteq Everything(list)
    BY <2>2, OfInventories, ServedIsCatalogued
  <2>4. (list = "scripts" /\ r.content = "") \/ ~Known(branch[list], r)
    BY <2>2, Comparing
  <2>5. (list = "scripts" /\ r.content = "") \/ ~Known(branch'[list], r)
    BY <2>2, <2>3, <2>4, UnknownStays
  <2>6. Compare(branch', list, r).verdict = "unknown"
    BY <2>2, <2>5, Comparing
  <2> QED
    BY <2>6
<1> QED
  BY <1>1, TypeCorrect, PTL DEF Spec, OnlyReviewersAdmit
(***************************************************************************)
(* What is approved.                                                       *)
(***************************************************************************)
\* Whom a matcher authorises it is about, but for a headerNameMatcher.
LEMMA AuthorizeIdentifies ==
  ASSUME NEW m, NEW r, Authorize(m, r)
  PROVE  Identify(m, r) \/ (m.kind = "header-name" /\ HeaderNameAuthorises(m, r))
<1>1. CASE m.kind = "or"
  <2>1. \E k \in 1 .. Len(m.children) : FirstAlternative(m, r, k)
    BY <1>1 DEF Authorize, AuthorizeBy
  <2> QED
    BY <1>1, <2>1 DEF Identify, IdentifyBy, FirstAlternative
<1>2. CASE m.kind = "and"
  BY <1>2 DEF Authorize, AuthorizeBy
<1>3. CASE m.kind # "or" /\ m.kind # "and"
  <2>1. AuthorisesLeaf(m, r)
    BY <1>3 DEF Authorize, AuthorizeBy
  <2>2. Identify(m, r) <=> Satisfies(m, r)
    BY <1>3 DEF Identify, IdentifyBy
  <2> QED
    BY <2>1, <2>2 DEF AuthorisesLeaf
<1> QED
  BY <1>1, <1>2, <1>3

\* What an inventory could come to accept is known, or people wrote it.
Contained(inventory, known) ==
  \A list \in Lists : \A k \in 1 .. Len(inventory[list]) :
    /\ inventory[list][k].identify \in Identities(list)
    /\ \A r \in Everything(list) : CouldAdmit(inventory[list][k], r) => r \in known \cup Admitted(Curated, list)

LEMMA ContainedReviewed ==
  ASSUME NEW old, NEW new, NEW known, Contained(old, known), ReviewedAll(old, new)
  PROVE  Contained(new, known)
BY DEF Contained, ReviewedAll, Reviewed

LEMMA ContainedGrown ==
  ASSUME EvidenceTells, page \in Pages, NEW old \in Inventories, NEW new, NEW known, NEW more,
         Contained(old, known), known \subseteq more,
         \A list \in Lists : Served(list) \subseteq more /\ Grown(list, Served(list), old[list], new[list])
  PROVE  Contained(new, more)
<1> SUFFICES ASSUME NEW list \in Lists, NEW k \in 1 .. Len(new[list])
             PROVE  /\ new[list][k].identify \in Identities(list)
                    /\ \A r \in Everything(list) : CouldAdmit(new[list][k], r) => r \in more \cup Admitted(Curated, list)
  BY DEF Contained
<1> DEFINE rs == Served(list)
           e == new[list][k]
<1>1. rs \subseteq Everything(list) /\ rs \subseteq more /\ Grown(list, rs, old[list], new[list])
  BY ServedIsCatalogued
<1>2. Len(old[list]) \in Nat
  BY OfInventories
<1> HIDE DEF rs
<1>3. PICK was : /\ Widened(list, rs, was, e)
                 /\ was.identify \in Identities(list)
                 /\ \A r \in Everything(list) : CouldAdmit(was, r) => r \in more \cup Admitted(Curated, list)
  <2>1. CASE k \in 1 .. Len(old[list])
    BY <1>1, <2>1 DEF Grown, Contained
  <2>2. CASE k \notin 1 .. Len(old[list])
    <3>1. k > Len(old[list])
      BY <1>2, <2>2
    <3>2. PICK x \in rs : Widened(list, rs, Proposal(list, x), e)
      BY <1>1, <3>1 DEF Grown
    <3>3. Proposal(list, x).identify \in Identities(list)
      BY <1>1 DEF Identities
    <3>4. \A r \in Everything(list) : CouldAdmit(Proposal(list, x), r) => r = x
      BY <1>1 DEF EvidenceTells
    <3> QED
      BY <1>1, <3>2, <3>3, <3>4
  <2> QED
    BY <2>1, <2>2
<1> HIDE DEF e
<1>4. e.identify = was.identify
  BY <1>3 DEF Widened
<1>5. ASSUME NEW r \in Everything(list), CouldAdmit(e, r) PROVE r \in more \cup Admitted(Curated, list)
  <2>1. CASE CouldAdmit(was, r)
    BY <1>3, <2>1
  <2>2. CASE ~CouldAdmit(was, r)
    <3>1. PICK x \in rs : Identify(was.identify, r) /\ Identify(was.identify, x) /\ Identify(Alternative(list, x), r)
      BY <1>3, <1>5, <2>2 DEF Widened
    <3>2. r = x
      BY <1>1, <1>3, <3>1 DEF EvidenceTells
    <3> QED
      BY <1>1, <3>2
  <2> QED
    BY <2>1, <2>2
<1> QED
  BY <1>3, <1>4, <1>5 DEF e

CouldStays == Contained(branch, shown) /\ Contained(base, shown)

LEMMA AdmittedCould ==
  ASSUME NEW inventory \in Inventories, NEW list \in Lists, NEW r \in Admitted(inventory, list)
  PROVE  r \in Everything(list) /\ \E k \in 1 .. Len(inventory[list]) : CouldAdmit(inventory[list][k], r)
<1> DEFINE k == Compare(inventory, list, r).entry
<1>1. r \in Everything(list) /\ Compare(inventory, list, r).verdict = "authorised"
  BY DEF Admitted
<1>2. /\ k \in 1 .. Len(inventory[list]) /\ Identify(inventory[list][k].identify, r)
      /\ Authorize(inventory[list][k].authorise, r)
  <2>1. Compare(inventory, list, r).verdict # "unknown"
    BY <1>1
  <2> QED
    BY <1>1, <2>1, Comparing
<1> HIDE DEF k
<1>3. CouldAdmit(inventory[list][k], r)
  BY <1>2, AuthorizeIdentifies DEF CouldAdmit
<1> QED
  BY <1>1, <1>2, <1>3

\* Approval reaches no further than what was shown: with evidence that tells
\* one variant from another, and nothing parked among what people wrote, no
\* course of passes, partial approvals and parkings makes an entry accept what
\* the inventory pass never saw (scopeNewAuthorisationAlternative and
\* appendPendingHeaderValue of src/services/inventory.ts).
THEOREM ApprovalsReachNoFurther ==
  ASSUME CuratedIsApproved, EvidenceTells
  PROVE  Spec => []ApprovalStays
<1>1. Init => CouldStays
  <2>1. Contained(Curated, {})
    BY CuratedIsApproved DEF Contained, CuratedIsApproved, Identities
  <2> QED
    BY <2>1 DEF Init, CouldStays
<1>2. ASSUME TypeOK, CouldStays, [Next]_vars PROVE CouldStays'
  <2>1. CASE InventoryPass
    <3>1. branch' \in Inventories /\ \A list \in Lists : Grown(list, Served(list), branch[list], branch'[list])
      BY <1>2, <2>1, PassGrows DEF TypeOK
    <3>2. base' = base /\ shown' = shown \cup Served("scripts") \cup Served("headers")
      BY <2>1 DEF InventoryPass
    <3>3. shown \subseteq shown' /\ \A list \in Lists : Served(list) \subseteq shown'
      BY <3>2 DEF Lists
    <3>4. Contained(branch', shown')
      BY <1>2, <3>1, <3>3, EvidenceTells, ContainedGrown DEF TypeOK, CouldStays
    <3>5. Contained(base', shown')
      BY <1>2, <3>2, <3>3 DEF CouldStays, Contained
    <3> QED
      BY <3>4, <3>5 DEF CouldStays
  <2>2. CASE ApproveAll \/ ApproveOne \/ Park
    <3>1. ReviewedAll(branch, branch')
      BY <1>2, <2>2, ReviewersStep DEF TypeOK
    <3>2. base' = base /\ shown' = shown
      BY <2>2 DEF ApproveAll, ApproveOne, Park
    <3> QED
      BY <1>2, <3>1, <3>2, ContainedReviewed DEF CouldStays
  <2>3. CASE Merge
    BY <1>2, <2>3 DEF Merge, CouldStays
  <2>4. CASE Deploy \/ UNCHANGED vars
    BY <1>2, <2>4 DEF Deploy, vars, CouldStays
  <2> QED
    BY <1>2, <2>1, <2>2, <2>3, <2>4 DEF Next
<1>3. TypeOK /\ CouldStays => ApprovalStays
  <2> SUFFICES ASSUME TypeOK, CouldStays, NEW list \in Lists, NEW r \in Admitted(base, list)
               PROVE  r \in shown \cup Admitted(Curated, list)
    BY DEF ApprovalStays
  <2>1. r \in Everything(list) /\ \E k \in 1 .. Len(base[list]) : CouldAdmit(base[list][k], r)
    BY AdmittedCould DEF TypeOK
  <2> QED
    BY <2>1 DEF CouldStays, Contained
<1> QED
  BY <1>1, <1>2, <1>3, TypeCorrect, PTL DEF Spec
(***************************************************************************)
(* What is proposed is about what it was proposed for.                     *)
(***************************************************************************)
AllSatisfied(leaves, r) == \A k \in 1 .. Len(leaves) : Satisfies(leaves[k], r)

LEMMA SatisfiedSections ==
  ASSUME NEW S, NEW s \in Seq(S), NEW t \in Seq(S), NEW r, AllSatisfied(s, r), AllSatisfied(t, r)
  PROVE  AllSatisfied(s \o t, r)
<1>1. \A k \in 1 .. Len(s \o t) : (k \in 1 .. Len(s) /\ (s \o t)[k] = s[k])
                                  \/ (k - Len(s) \in 1 .. Len(t) /\ (s \o t)[k] = t[k - Len(s)])
  OBVIOUS
<1> QED
  BY <1>1 DEF AllSatisfied

LEMMA LeafAccepts ==
  ASSUME NEW text, NEW r, text # ""
  PROVE  /\ r.name = text => Satisfies(Leaf("name", {text}), r) /\ Satisfies(Leaf("header-name", {text}), r)
         /\ r.host = text => Satisfies(Leaf("host", {text}), r)
         /\ r.hash = text => Satisfies(Leaf("hash", {text}), r)
         /\ r.workflow = text => Satisfies(WorkflowLeaf(text), r)
         /\ r.content # "" => \A accepts, anchor : r.content \in accepts => Satisfies(ContentLeaf(accepts, anchor), r)
BY DEF Satisfies, Leaf, ContentLeaf, WorkflowLeaf, NameMatches, HostMatches, HashMatches, WorkflowMatches, ContentMatches, Accepts

LEMMA OneSatisfied ==
  ASSUME NEW m, NEW r
  PROVE  AllSatisfied(<<m>>, r) <=> Satisfies(m, r)
BY DEF AllSatisfied

LEMMA NoneSatisfied ==
  ASSUME NEW r
  PROVE  <<>> \in Seq(Leaves) /\ AllSatisfied(<<>>, r)
BY DEF AllSatisfied

LEMMA InWorkflowIdentifies ==
  ASSUME NEW leaves \in Seq(Leaves), leaves # <<>>, NEW r \in Resources, AllSatisfied(leaves, r)
  PROVE  Identify(InWorkflow(leaves, r.workflow), r)
<1> DEFINE first == IF r.workflow = "" THEN <<>> ELSE <<WorkflowLeaf(r.workflow)>>
           all == first \o leaves
<1>1. WorkflowLeaf(r.workflow) \in Leaves
  <2>1. "workflow" \in PlainKinds /\ r.workflow \in STRING
    BY DEF PlainKinds, Resources
  <2> QED
    BY <2>1, NewLeaves DEF WorkflowLeaf
<1>2. first \in Seq(Leaves) /\ AllSatisfied(first, r)
  <2>1. CASE r.workflow = ""
    BY <2>1, NoneSatisfied
  <2>2. CASE r.workflow # ""
    <3>1. Satisfies(WorkflowLeaf(r.workflow), r)
      BY <2>2, LeafAccepts
    <3>2. <<WorkflowLeaf(r.workflow)>> \in Seq(Leaves) /\ AllSatisfied(<<WorkflowLeaf(r.workflow)>>, r)
      BY <1>1, <3>1, Short, OneSatisfied
    <3>3. first = <<WorkflowLeaf(r.workflow)>>
      BY <2>2
    <3> HIDE DEF first
    <3> QED
      BY <3>2, <3>3
  <2> QED
    BY <2>1, <2>2
<1> HIDE DEF first
<1>3. all \in Seq(Leaves) \ {<<>>} /\ AllSatisfied(all, r)
  BY <1>2, Sections, SatisfiedSections
<1> HIDE DEF all
<1>4. InWorkflow(leaves, r.workflow) = IF Len(all) = 1 THEN all[1] ELSE And(all)
  BY DEF InWorkflow, all, first
<1>5. Len(all) \in Nat \ {0} /\ \A k \in 1 .. Len(all) : all[k] \in Leaves
  BY <1>3
<1>6. CASE Len(all) = 1
  <2>1. all[1] \in Leaves /\ Satisfies(all[1], r)
    BY <1>3, <1>5, <1>6 DEF AllSatisfied
  <2> QED
    BY <1>4, <1>6, <2>1, IdentifyLevels
<1>7. CASE Len(all) # 1
  <2>1. And(all).kind = "and" /\ And(all).children = all
    BY DEF And
  <2>2. Identify(And(all), r)
    BY <1>3, <1>5, <2>1, IdentifyLevels DEF AllSatisfied, Identify, IdentifyBy
  <2> QED
    BY <1>4, <1>7, <2>2
<1> QED
  BY <1>6, <1>7

LEMMA HostsSatisfied ==
  ASSUME NEW r \in Resources
  PROVE  LET hosts == IF r.host = "" THEN <<>> ELSE <<Leaf("host", {r.host})>> IN
         hosts \in Seq(Leaves) /\ AllSatisfied(hosts, r)
<1>1. r.host \in STRING /\ "host" \in PlainKinds
  BY DEF Resources, PlainKinds
<1>2. CASE r.host = ""
  BY <1>2, NoneSatisfied
<1>3. CASE r.host # ""
  <2>1. Leaf("host", {r.host}) \in Leaves
    BY <1>1, NewLeaves
  <2>2. Satisfies(Leaf("host", {r.host}), r)
    BY <1>3, LeafAccepts
  <2>3. <<Leaf("host", {r.host})>> \in Seq(Leaves) /\ AllSatisfied(<<Leaf("host", {r.host})>>, r)
    BY <2>1, <2>2, Short, OneSatisfied
  <2>4. (IF r.host = "" THEN <<>> ELSE <<Leaf("host", {r.host})>>) = <<Leaf("host", {r.host})>>
    BY <1>3
  <2> QED
    BY <2>3, <2>4, Zenon
<1> QED
  BY <1>2, <1>3

LEMMA HeaderIdentifiesItself ==
  ASSUME HeadersAreNamed, NEW r \in Everything("headers")
  PROVE  Identify(Proposal("headers", r).identify, r)
<1>1. /\ r \in Resources /\ r.name \in STRING /\ "header-name" \in PlainKinds
      /\ r.name = "set-cookie" => Opening[r.content] \in SUBSET STRING
  BY TheCatalogue DEF Resources, PlainKinds, Lists, KnownByOpening
<1>2. r.name # "" /\ (r.name = "set-cookie" => r.content # "" /\ r.content \in Opening[r.content])
  BY DEF HeadersAreNamed
<1> DEFINE name == <<Leaf("header-name", {r.name})>>
           cookie == IF r.name = "set-cookie" THEN <<ContentLeaf(Opening[r.content], "start")>> ELSE <<>>
           hosts == IF r.host = "" THEN <<>> ELSE <<Leaf("host", {r.host})>>
<1>3. name \in Seq(Leaves) /\ name # <<>> /\ AllSatisfied(name, r)
  <2>1. Leaf("header-name", {r.name}) \in Leaves
    BY <1>1, NewLeaves
  <2>2. Satisfies(Leaf("header-name", {r.name}), r)
    BY <1>2, LeafAccepts
  <2> QED
    BY <2>1, <2>2, Short, OneSatisfied
<1>4. cookie \in Seq(Leaves) /\ AllSatisfied(cookie, r)
  <2>1. CASE r.name = "set-cookie"
    <3>1. ContentLeaf(Opening[r.content], "start") \in Leaves
      BY <1>1, <2>1, NewContentLeaf
    <3>2. Satisfies(ContentLeaf(Opening[r.content], "start"), r)
      BY <1>2, <2>1, LeafAccepts
    <3> QED
      BY <2>1, <3>1, <3>2, Short, OneSatisfied
  <2>2. CASE r.name # "set-cookie"
    BY <2>2, NoneSatisfied
  <2> QED
    BY <2>1, <2>2
<1>5. hosts \in Seq(Leaves) /\ AllSatisfied(hosts, r)
  BY <1>1, HostsSatisfied
<1>6. Proposal("headers", r).identify = InWorkflow((name \o cookie) \o hosts, r.workflow)
  BY DEF Proposal, NewHeader, Entry, IdentifyHeaderBy
<1> HIDE DEF name, cookie, hosts
<1>7. name \o cookie \in Seq(Leaves) \ {<<>>} /\ AllSatisfied(name \o cookie, r)
  BY <1>3, <1>4, Sections, SatisfiedSections
<1>8. (name \o cookie) \o hosts \in Seq(Leaves) \ {<<>>} /\ AllSatisfied((name \o cookie) \o hosts, r)
  BY <1>5, <1>7, Sections, SatisfiedSections
<1> QED
  BY <1>1, <1>6, <1>8, InWorkflowIdentifies

(***************************************************************************)
(* One entry per identity.                                                 *)
(***************************************************************************)
Distinct(entries) ==
  \A j, k \in 1 .. Len(entries) : entries[j].identify = entries[k].identify => j = k

LEMMA DistinctKept ==
  ASSUME NEW old \in Seq(Entries), NEW new \in Seq(Entries), Distinct(old), Len(new) = Len(old),
         \A k \in 1 .. Len(old) : new[k].identify = old[k].identify
  PROVE  Distinct(new)
BY DEF Distinct

LEMMA DistinctAppend ==
  ASSUME NEW entries \in Seq(Entries), NEW e \in Entries, Distinct(entries),
         \A k \in 1 .. Len(entries) : entries[k].identify # e.identify
  PROVE  Distinct(Append(entries, e))
<1>1. Len(Append(entries, e)) = Len(entries) + 1 /\ Append(entries, e)[Len(entries) + 1] = e /\ Len(entries) \in Nat
      /\ \A k \in 1 .. Len(entries) : Append(entries, e)[k] = entries[k]
  OBVIOUS
<1> QED
  BY <1>1 DEF Distinct

\* One unknown header at a time, among entries of which none approved is about it.
LEMMA AddingDistinct ==
  ASSUME HeadersAreNamed, NEW r \in Everything("headers"), NEW entries \in Seq(Entries),
         Distinct(entries), ~Known(entries, r)
  PROVE  Distinct(AddTo("headers", entries, r))
<1>1. CASE Covered(entries, r)
  BY <1>1, AddHeaderCases
<1>2. CASE ~Covered(entries, r) /\ SameIdentity(entries, r) = {}
  <2>1. \A k \in 1 .. Len(entries) : ~Identify(entries[k].identify, r)
    BY <1>2 DEF Known, SameIdentity
  <2>2. \A k \in 1 .. Len(entries) : entries[k].identify # Proposal("headers", r).identify
    BY <2>1, HeaderIdentifiesItself
  <2>3. Proposal("headers", r) \in Entries
    BY ProposalIsEntry DEF Lists
  <2> QED
    <3>1. Distinct(Append(entries, Proposal("headers", r)))
      BY <2>2, <2>3, DistinctAppend
    <3> QED
      BY <1>2, <3>1, AddHeaderCases
<1>3. CASE ~Covered(entries, r) /\ SameIdentity(entries, r) # {}
  <2>1. PICK k \in SameIdentity(entries, r) :
          AddTo("headers", entries, r) =
            IF CanAppend(entries[k].authorise) THEN Changed(entries, k, AppendPending(entries[k], r)) ELSE entries
    BY <1>3, AddHeaderCases
  <2>2. k \in 1 .. Len(entries) /\ Identify(entries[k].identify, r) /\ entries[k] \in Entries
    BY DEF SameIdentity
  <2>3. AppendPending(entries[k], r) \in Entries /\ AppendPending(entries[k], r).identify = entries[k].identify
    <3>1. Widened("headers", {r}, entries[k], AppendPending(entries[k], r))
      BY <2>2, AppendPendingWidens
    <3> QED
      BY <3>1 DEF Widened
  <2> DEFINE new == Changed(entries, k, AppendPending(entries[k], r))
  <2>4. new \in Seq(Entries) /\ Len(new) = Len(entries) /\ \A j \in 1 .. Len(entries) : new[j].identify = entries[j].identify
    BY <2>2, <2>3 DEF Changed
  <2>5. AddTo("headers", entries, r) = new \/ AddTo("headers", entries, r) = entries
    BY <2>1
  <2> HIDE DEF new
  <2>6. Distinct(new)
    BY <2>4, DistinctKept
  <2> QED
    BY <2>5, <2>6
<1> QED
  BY <1>1, <1>2, <1>3

LEMMA RecordingDistinct ==
  ASSUME HeadersAreNamed, page \in Pages, NEW inventory \in Inventories, Distinct(inventory.headers)
  PROVE  Distinct(Recording(inventory).headers)
<1> DEFINE entries == inventory["headers"]
           results == Results(inventory, "headers")
           rs == Served("headers")
           updated == UpdateAll("headers", entries, results)
           After(n) == Adding("headers", updated, results)[n]
           T == {n \in 0 .. Len(results) : Distinct(After(n))}
<1>0. "headers" \in Lists
  BY DEF Lists
<1>1. entries \in Seq(Entries) /\ Len(entries) \in Nat /\ Distinct(entries)
  <2>1. inventory["headers"] = inventory.headers
    OBVIOUS
  <2> QED
    BY <1>0, <2>1, OfInventories
<1>2. /\ Len(results) \in Nat /\ rs \subseteq Everything("headers")
      /\ \A n \in 1 .. Len(results) :
           results[n].resource \in rs /\ results[n] = Compare(inventory, "headers", results[n].resource)
  BY <1>0, OneResult, ServedIsCatalogued
<1>3. /\ Len(updated) = Len(entries)
      /\ \A n \in 0 .. Len(results) : Grown("headers", rs, entries, After(n))
  BY <1>0, RecordingGrows
<1>4. After(0) = updated /\ \A n \in 1 .. Len(results) : After(n) = Extended("headers", After(n - 1), results[n])
  BY <1>2, AddingSteps
<1>5. Recording(inventory).headers = After(Len(results))
  <2>1. Recording(inventory)["headers"] = DiffOf("headers", entries, results)
    BY <1>0, RecordingIsInventory
  <2> QED
    BY <2>1 DEF DiffOf
<1> HIDE DEF After, updated, results, rs, entries
<1>6. 0 \in T
  <2>1. Grown("headers", rs, entries, updated)
    BY <1>2, <1>3, <1>4
  <2>2. updated \in Seq(Entries) /\ \A k \in 1 .. Len(entries) : updated[k].identify = entries[k].identify
    BY <2>1 DEF Grown, Widened
  <2> QED
    BY <1>1, <1>2, <1>3, <1>4, <2>2, DistinctKept
<1>7. ASSUME NEW n \in 1 .. Len(results), n - 1 \in T PROVE n \in T
  <2> DEFINE r == results[n].resource
  <2>1. Distinct(After(n - 1)) /\ Grown("headers", rs, entries, After(n - 1)) /\ r \in rs /\ r \in Everything("headers")
    BY <1>2, <1>3, <1>7
  <2>2. CASE results[n].verdict = "unknown"
    <3>1. Compare(inventory, "headers", r).verdict = "unknown"
      BY <1>2, <2>2
    <3> HIDE DEF r
    <3>2. ~Known(entries, r)
      BY <1>0, <3>1, Comparing DEF entries
    <3>3. ~Known(After(n - 1), r)
      BY <1>0, <1>1, <1>2, <2>1, <3>2, UnknownStays
    <3>4. After(n - 1) \in Seq(Entries)
      BY <2>1 DEF Grown
    <3>5. Distinct(AddTo("headers", After(n - 1), r))
      BY <2>1, <3>3, <3>4, AddingDistinct
    <3> QED
      BY <1>2, <1>4, <2>2, <3>5 DEF Extended, r
  <2>3. CASE results[n].verdict # "unknown"
    BY <1>2, <1>4, <2>1, <2>3 DEF Extended
  <2> QED
    BY <2>2, <2>3
<1>8. 0 .. Len(results) \subseteq T
  BY <1>2, <1>6, <1>7, SetInductionUpTo
<1>9. Len(results) \in 0 .. Len(results)
  BY <1>2
<1> QED
  BY <1>5, <1>8, <1>9

\* No header entry is out of reach: values of one header that come in over
\* many passes, before any of them is approved and while some are, gather in
\* one entry (findPendingHeaderIdentity, addNewHeader and
\* appendPendingHeaderValue of src/services/inventory.ts).
THEOREM HeadersGather ==
  ASSUME HeadersAreNamed,
         \A j, k \in 1 .. Len(Curated.headers) : Curated.headers[j].identify = Curated.headers[k].identify => j = k
  PROVE  Spec => []OneIdentity
<1>1. Init => OneIdentity
  BY DEF Init, OneIdentity
<1>2. ASSUME TypeOK, OneIdentity, [Next]_vars PROVE OneIdentity'
  <2>0. branch \in Inventories /\ branch.headers = branch["headers"] /\ "headers" \in Lists
    BY <1>2 DEF TypeOK, Lists
  <2>1. CASE InventoryPass
    <3>1. branch' = Recording(branch) \/ branch' = branch
      BY <1>2, <2>1, RecordingIsInventory, StoredIsSame DEF InventoryPass, TypeOK
    <3>2. Distinct(Recording(branch).headers)
      BY <1>2, <2>0, RecordingDistinct DEF TypeOK, OneIdentity, Distinct
    <3> QED
      BY <1>2, <3>1, <3>2 DEF OneIdentity, Distinct
  <2>2. CASE ApproveAll \/ ApproveOne \/ Park
    <3>1. ReviewedAll(branch, branch') /\ branch'.headers = branch'["headers"]
      BY <2>0, <2>2, ReviewersStep
    <3>2. /\ Len(branch'.headers) = Len(branch.headers)
          /\ \A k \in 1 .. Len(branch.headers) : branch'.headers[k].identify = branch.headers[k].identify
      BY <2>0, <3>1 DEF ReviewedAll, Reviewed
    <3> QED
      BY <1>2, <3>2 DEF OneIdentity
  <2>3. CASE Deploy \/ Merge \/ UNCHANGED vars
    BY <1>2, <2>3 DEF Deploy, Merge, vars, OneIdentity
  <2> QED
    BY <1>2, <2>1, <2>2, <2>3 DEF Next
<1> QED
  BY <1>1, <1>2, TypeCorrect, PTL DEF Spec
(***************************************************************************)
(* Authorisation, level by level.                                          *)
(***************************************************************************)
LEMMA AuthorizeLevels ==
  ASSUME NEW r
  PROVE  /\ \A m \in Leaves : /\ Authorize(m, r) <=> AuthorisesLeaf(m, r)
                              /\ AuthorizeNested(m, r) <=> AuthorisesLeaf(m, r)
                              /\ AuthorizeFlat(m, r) <=> AuthorisesLeaf(m, r)
         /\ \A m \in FlatMatchers : AuthorizeNested(m, r) <=> AuthorizeFlat(m, r)
         /\ \A m \in NestedMatchers : Authorize(m, r) <=> AuthorizeNested(m, r)
<1>1. ASSUME NEW m \in Leaves
      PROVE  /\ Authorize(m, r) <=> AuthorisesLeaf(m, r)
             /\ AuthorizeNested(m, r) <=> AuthorisesLeaf(m, r)
             /\ AuthorizeFlat(m, r) <=> AuthorisesLeaf(m, r)
  <2>1. m.kind # "or" /\ m.kind # "and"
    BY Shapes DEF Composite
  <2> QED
    BY <2>1 DEF Authorize, AuthorizeNested, AuthorizeFlat, AuthorizeBy
<1>2. ASSUME NEW m \in FlatMatchers PROVE AuthorizeNested(m, r) <=> AuthorizeFlat(m, r)
  <2>1. CASE m \in Leaves
    BY <1>1, <2>1
  <2>2. CASE m \in Composites({"or", "and"}, Leaves)
    <3>1. /\ m.kind = "or" \/ m.kind = "and"
          /\ Len(m.children) \in Nat
          /\ \A k \in 1 .. Len(m.children) : AuthorizeFlat(m.children[k], r) <=> AuthorisesLeaf(m.children[k], r)
      BY <1>1, <2>2, Children
    <3>2. CASE m.kind = "or"
      BY <3>1, <3>2 DEF AuthorizeNested, AuthorizeFlat, AuthorizeBy
    <3>3. CASE m.kind = "and"
      BY <3>1, <3>3 DEF AuthorizeNested, AuthorizeFlat, AuthorizeBy
    <3> QED
      BY <3>1, <3>2, <3>3
  <2> QED
    BY <2>1, <2>2 DEF FlatMatchers
<1>3. ASSUME NEW m \in NestedMatchers PROVE Authorize(m, r) <=> AuthorizeNested(m, r)
  <2>1. CASE m \in Leaves
    BY <1>1, <2>1
  <2>2. CASE m \in Composites({"or", "and"}, FlatMatchers)
    <3>1. /\ m.kind = "or" \/ m.kind = "and"
          /\ Len(m.children) \in Nat
          /\ \A k \in 1 .. Len(m.children) : AuthorizeNested(m.children[k], r) <=> AuthorizeFlat(m.children[k], r)
      BY <1>2, <2>2, Children
    <3>2. CASE m.kind = "or"
      BY <3>1, <3>2 DEF Authorize, AuthorizeNested, AuthorizeBy
    <3>3. CASE m.kind = "and"
      BY <3>1, <3>3 DEF Authorize, AuthorizeNested, AuthorizeBy
    <3> QED
      BY <3>1, <3>2, <3>3
  <2> QED
    BY <2>1, <2>2 DEF NestedMatchers
<1> QED
  BY <1>1, <1>2, <1>3

\* A list without a word of its own goes by one of its alternatives.
LEMMA OneAuthorises ==
  ASSUME NEW m \in Composites({"or"}, NestedMatchers), m.info = NoInfo, NEW r, Authorize(m, r)
  PROVE  \E k \in 1 .. Len(m.children) : Authorize(m.children[k], r)
<1>1. m.kind = "or" /\ Len(m.children) \in Nat /\ ~m.info.given /\ \A j \in 1 .. Len(m.children) : m.children[j] \in NestedMatchers
  BY Children, NoInfoFacts
<1>2. \E k \in 1 .. Len(m.children) : AuthorizeNested(m.children[k], r)
  BY <1>1 DEF Authorize, AuthorizeBy
<1> QED
  BY <1>1, <1>2, AuthorizeLevels

\* A leaf a word was said of, and the word is not no.
LEMMA AuthorizeLeafWith ==
  ASSUME NEW m \in Leaves, m.kind # "header-name", NEW i \in Infos, ~Declined(i), NEW r
  PROVE  Authorize(With(m, i), r) <=> Satisfies(m, r)
<1>1. With(m, i) \in Leaves /\ With(m, i).info = i /\ With(m, i).kind = m.kind
  BY LeafWith
<1>2. Satisfies(With(m, i), r) <=> Satisfies(m, r)
  BY SatisfiesWith
<1> QED
  BY <1>1, <1>2, AuthorizeLevels DEF AuthorisesLeaf

LEMMA ScopedAuthorises ==
  ASSUME NEW m \in Leaves, m.info = NoInfo, m.kind # "header-name", NEW r \in Resources, Satisfies(m, r)
  PROVE  Authorize(Scoped(m, r.workflow), r)
<1>1. CASE r.workflow = ""
  <2>1. Scoped(m, r.workflow) = With(m, Recorded)
    BY <1>1 DEF Scoped
  <2> QED
    BY <2>1, AuthorizeLeafWith, NoInfoFacts
<1>2. CASE r.workflow # ""
  <2> DEFINE leaf == WorkflowLeaf(r.workflow)
             both == <<leaf, m>>
             x == And(both)
  <2>1. leaf \in Leaves /\ leaf.info = NoInfo /\ leaf.kind = "workflow"
    <3>1. "workflow" \in PlainKinds /\ r.workflow \in STRING
      BY DEF PlainKinds, Resources
    <3> QED
      BY <3>1, NewLeaves DEF WorkflowLeaf, Leaf
  <2>2. Satisfies(leaf, r)
    BY <1>2, LeafAccepts
  <2> HIDE DEF leaf
  <2>3. both \in Seq(Leaves) \ {<<>>} /\ Len(both) = 2 /\ both[1] = leaf /\ both[2] = m
    BY <2>1, Short
  <2>4. Scoped(m, r.workflow) = With(x, Recorded)
    BY <1>2 DEF Scoped, leaf
  <2> HIDE DEF both
  <2>5. x \in Composites({"or", "and"}, Leaves) /\ x.kind = "and" /\ x.children = both
    BY <2>3, NoInfoFacts DEF And, Composites
  <2> HIDE DEF x
  <2> DEFINE y == With(x, Recorded)
  <2>6. y \in Composites({"or", "and"}, Leaves) /\ y.kind = "and" /\ y.children = both /\ y.info = Recorded
    BY <2>5, CompositeWith, NoInfoFacts
  <2> HIDE DEF y
  <2>7. \A k \in 1 .. Len(both) : both[k] \in Leaves /\ Satisfies(both[k], r) /\ AuthorisesLeaf(both[k], r)
    BY <2>1, <2>2, <2>3, NoInfoFacts DEF AuthorisesLeaf
  <2>8. Identify(y, r)
    BY <2>6, <2>7, IdentifyLevels DEF Identify, IdentifyBy
  <2>9. Authorize(y, r)
    BY <2>6, <2>7, <2>8, AuthorizeLevels, NoInfoFacts DEF Authorize, AuthorizeBy
  <2> QED
    BY <2>4, <2>9 DEF y
<1> QED
  BY <1>1, <1>2
(***************************************************************************)
(* What was added once is not added again.                                 *)
(***************************************************************************)
LEMMA OnlyOne ==
  ASSUME NEW x
  PROVE  Len(<<x>>) = 1 /\ <<x>>[1] = x /\ 1 \in 1 .. Len(<<x>>)
OBVIOUS

LEMMA AppendHas ==
  ASSUME NEW s \in Seq(NestedMatchers), NEW m \in NestedMatchers
  PROVE  /\ \E k \in 1 .. Len(Append(s, m)) : Append(s, m)[k] = m
         /\ \A k \in 1 .. Len(s) : k \in 1 .. Len(Append(s, m)) /\ Append(s, m)[k] = s[k]
<1>1. /\ Len(s) \in Nat /\ Len(Append(s, m)) = Len(s) + 1 /\ Append(s, m)[Len(s) + 1] = m
      /\ \A k \in 1 .. Len(s) : Append(s, m)[k] = s[k]
  OBVIOUS
<1>2. Len(s) + 1 \in 1 .. Len(Append(s, m))
  BY <1>1
<1> QED
  BY <1>1, <1>2

\* The written form has nothing to learn of it.
Settled(list, raw, r) ==
  IF list = "scripts" /\ raw.form = "single" /\ raw.items[1].kind = "hash" THEN r.hash \in raw.items[1].accepts
  ELSE \E k \in 1 .. Len(Alternatives(raw)) : Authorize(Alternatives(raw)[k], r)

LEMMA SettledNothing ==
  ASSUME NEW list \in Lists, NEW raw, NEW r, Settled(list, raw, r)
  PROVE  ApplyTo(list, raw, r) = raw
<1>1. CASE list = "scripts"
  BY <1>1 DEF ApplyTo, ApplyHash, Settled
<1>2. CASE list # "scripts"
  BY <1>2 DEF ApplyTo, ApplyValue, Settled
<1> QED
  BY <1>1, <1>2

LEMMA UnsettledAdds ==
  ASSUME NEW list \in Lists, NEW raw, NEW r, ~Settled(list, raw, r)
  PROVE  \/ ApplyTo(list, raw, r) = AddAlternative(raw, Scoped(Found(list, r), r.workflow))
         \/ /\ list = "scripts" /\ raw.form = "single" /\ raw.items[1].kind = "hash"
            /\ ApplyTo(list, raw, r) = Joined(raw, r.hash)
<1>1. CASE list = "scripts"
  BY <1>1 DEF ApplyTo, ApplyHash, Settled, Found, Joined
<1>2. CASE list # "scripts"
  BY <1>2 DEF ApplyTo, ApplyValue, Settled, Found
<1> QED
  BY <1>1, <1>2

LEMMA FoundIsRead ==
  ASSUME Legible, NEW list \in Lists, NEW r \in Everything(list), r.content # ""
  PROVE  /\ r \in Resources /\ r.hash \in STRING
         /\ Found(list, r) \in Leaves /\ Found(list, r).info = NoInfo /\ Found(list, r).kind # "header-name"
         /\ Satisfies(Found(list, r), r)
         /\ list = "scripts" => r.hash # ""
<1>1. r \in Resources /\ r.hash \in STRING
  BY TheCatalogue DEF Resources
<1>2. CASE list = "scripts"
  <2>1. r.hash # ""
    BY <1>2 DEF Legible
  <2>2. Found(list, r) = Leaf("hash", {r.hash})
    BY <1>2 DEF Found
  <2>3. Leaf("hash", {r.hash}) \in Leaves /\ Leaf("hash", {r.hash}).info = NoInfo
    BY <1>1, NewLeaves
  <2>4. Satisfies(Leaf("hash", {r.hash}), r)
    BY <2>1, LeafAccepts
  <2>5. Leaf("hash", {r.hash}).kind # "header-name"
    BY DEF Leaf
  <2> QED
    BY <1>1, <2>1, <2>2, <2>3, <2>4, <2>5
<1>3. CASE list = "headers"
  <2>1. Found(list, r) = ValueLeaf(r)
    BY <1>3 DEF Found
  <2>2. ValueLeaf(r) \in Leaves /\ ValueLeaf(r).info = NoInfo /\ ValueLeaf(r).kind \in {"content", "csp-directive"}
    BY <1>1, ValueLeafIsLeaf
  <2>3. AnyNonce \notin r.policy.sources
    BY <1>3 DEF Legible
  <2>4. Satisfies(ValueLeaf(r), r)
    <3>1. CASE r.policy # NoPolicy
      BY <2>3, <3>1 DEF ValueLeaf, CspLeaf, Satisfies, SamePolicy
    <3>2. CASE r.policy = NoPolicy
      <4>1. ValueLeaf(r) = ContentLeaf({r.content}, "none")
        BY <3>2 DEF ValueLeaf
      <4>2. Satisfies(ContentLeaf({r.content}, "none"), r)
        BY DEF Satisfies, ContentLeaf, ContentMatches
      <4> QED
        BY <4>1, <4>2
    <3> QED
      BY <3>1, <3>2
  <2> QED
    BY <1>1, <1>3, <2>1, <2>2, <2>4
<1> QED
  BY <1>2, <1>3 DEF Lists

LEMMA SettledAfter ==
  ASSUME Legible, NEW list \in Lists, NEW r \in Everything(list), r.content # "", NEW raw \in Forms
  PROVE  Settled(list, ApplyTo(list, raw, r), r)
<1> DEFINE m == Scoped(Found(list, r), r.workflow)
<1>1. /\ r \in Resources /\ r.hash \in STRING /\ r.workflow \in STRING
      /\ Found(list, r) \in Leaves /\ Authorize(m, r) /\ m \in NestedMatchers /\ m.info.given
  <2>1. r \in Resources /\ r.hash \in STRING /\ r.workflow \in STRING
    BY TheCatalogue DEF Resources
  <2> QED
    BY <2>1, FoundIsRead, ScopedAuthorises, ScopedIsFlat, NoInfoFacts
<1> HIDE DEF m
<1>2. CASE Settled(list, raw, r)
  BY <1>2, SettledNothing
<1>3. CASE ~Settled(list, raw, r) /\ ApplyTo(list, raw, r) = AddAlternative(raw, m)
  <2> DEFINE new == AddAlternative(raw, m)
  <2>1. /\ Alternatives(new) = Append(Alternatives(raw), m)
        /\ new.form = "array" \/ new.items[1].kind = "or"
    BY <1>1, AddingAlternative
  <2> HIDE DEF new
  <2>2. Alternatives(raw) \in Seq(NestedMatchers)
    BY AlternativesOf DEF Forms
  <2>3. \E k \in 1 .. Len(Alternatives(new)) : Alternatives(new)[k] = m
    <3>1. \E k \in 1 .. Len(Append(Alternatives(raw), m)) : Append(Alternatives(raw), m)[k] = m
      BY <1>1, <2>2, AppendHas
    <3> QED
      BY <2>1, <3>1, Zenon
  <2>4. \E k \in 1 .. Len(Alternatives(new)) : Authorize(Alternatives(new)[k], r)
    BY <1>1, <2>3
  <2>5. ~ (new.form = "single" /\ new.items[1].kind = "hash")
    BY <2>1
  <2> QED
    BY <1>3, <2>4, <2>5 DEF Settled, new
<1>4. CASE /\ list = "scripts" /\ raw.form = "single" /\ raw.items[1].kind = "hash"
           /\ ApplyTo(list, raw, r) = Joined(raw, r.hash)
  <2> DEFINE new == Joined(raw, r.hash)
  <2>1. new.form = "single" /\ new.items[1] \in HashLeaves /\ r.hash \in new.items[1].accepts
    BY <1>1, <1>4, Joining
  <2>2. new.items[1].kind = "hash"
    BY <2>1 DEF HashLeaves
  <2> HIDE DEF new
  <2>3. Settled(list, new, r)
    BY <1>4, <2>1, <2>2 DEF Settled
  <2> QED
    BY <1>4, <2>3 DEF new
<1> QED
  BY <1>2, <1>3, <1>4, UnsettledAdds DEF m

LEMMA SettledKept ==
  ASSUME NEW list \in Lists, NEW other \in Everything(list), NEW raw \in Forms, raw.items[1].info.authorised,
         NEW r, list = "scripts" => r.hash # "", Settled(list, raw, r)
  PROVE  Settled(list, ApplyTo(list, raw, other), r)
<1> DEFINE m == Scoped(Found(list, other), other.workflow)
<1>1. /\ other \in Resources /\ other.hash \in STRING /\ m \in NestedMatchers /\ m.info.given
  <2>1. other \in Resources /\ other.hash \in STRING /\ other.workflow \in STRING
    BY TheCatalogue DEF Resources
  <2>2. Found(list, other) \in Leaves
    BY <2>1, NewLeaves, ValueLeafIsLeaf DEF Found
  <2> QED
    BY <2>1, <2>2, ScopedIsFlat, NoInfoFacts
<1> HIDE DEF m
<1>2. CASE Settled(list, raw, other)
  BY <1>2, SettledNothing
<1>3. CASE ApplyTo(list, raw, other) = AddAlternative(raw, m)
  <2> DEFINE new == AddAlternative(raw, m)
  <2>1. /\ Alternatives(new) = Append(Alternatives(raw), m)
        /\ new.form = "array" \/ new.items[1].kind = "or"
    BY <1>1, AddingAlternative
  <2> HIDE DEF new
  <2>2. Alternatives(raw) \in Seq(NestedMatchers)
    BY AlternativesOf DEF Forms
  <2>3. \A k \in 1 .. Len(Alternatives(raw)) :
          k \in 1 .. Len(Alternatives(new)) /\ Alternatives(new)[k] = Alternatives(raw)[k]
    <3>1. \A k \in 1 .. Len(Alternatives(raw)) :
            k \in 1 .. Len(Append(Alternatives(raw), m)) /\ Append(Alternatives(raw), m)[k] = Alternatives(raw)[k]
      BY <1>1, <2>2, AppendHas
    <3> QED
      BY <2>1, <3>1, Zenon
  <2>4. \E k \in 1 .. Len(Alternatives(raw)) : Authorize(Alternatives(raw)[k], r)
    <3>1. CASE list = "scripts" /\ raw.form = "single" /\ raw.items[1].kind = "hash"
      <4> DEFINE x == raw.items[1]
      <4>1. x \in HashLeaves /\ Alternatives(raw) = <<x>>
        BY <1>1, <3>1, Joining
      <4>2. r.hash \in x.accepts \ {""} /\ x.kind = "hash" /\ ~Declined(x.info)
        BY <3>1 DEF Settled, Declined
      <4> HIDE DEF x
      <4>3. AuthorisesLeaf(x, r) /\ x \in Leaves
        BY <4>1, <4>2 DEF AuthorisesLeaf, Satisfies, HashMatches, Accepts, Leaves
      <4>4. Authorize(x, r)
        BY <4>3, AuthorizeLevels
      <4>5. 1 \in 1 .. Len(<<x>>) /\ <<x>>[1] = x
        BY OnlyOne, Zenon
      <4>6. \E k \in 1 .. Len(<<x>>) : Authorize(<<x>>[k], r)
        BY <4>4, <4>5
      <4> QED
        BY <4>1, <4>6, Zenon
    <3>2. CASE ~ (list = "scripts" /\ raw.form = "single" /\ raw.items[1].kind = "hash")
      BY <3>2 DEF Settled
    <3> QED
      BY <3>1, <3>2
  <2>5. \E k \in 1 .. Len(Alternatives(new)) : Authorize(Alternatives(new)[k], r)
    BY <2>3, <2>4
  <2>6. ~ (new.form = "single" /\ new.items[1].kind = "hash")
    BY <2>1
  <2> QED
    BY <1>3, <2>5, <2>6 DEF Settled, new
<1>4. CASE /\ list = "scripts" /\ raw.form = "single" /\ raw.items[1].kind = "hash"
           /\ ApplyTo(list, raw, other) = Joined(raw, other.hash)
  <2> DEFINE new == Joined(raw, other.hash)
  <2>1. new.form = "single" /\ new.items[1] \in HashLeaves /\ new.items[1].accepts = raw.items[1].accepts \cup {other.hash}
    BY <1>1, <1>4, Joining
  <2>2. new.items[1].kind = "hash"
    BY <2>1 DEF HashLeaves
  <2> HIDE DEF new
  <2>3. Settled(list, new, r)
    BY <1>4, <2>1, <2>2 DEF Settled
  <2> QED
    BY <1>4, <2>3 DEF new
<1> QED
  BY <1>2, <1>3, <1>4, UnsettledAdds DEF m

\* What an entry that takes alternatives authorises it has nothing to learn of.
LEMMA AuthorisedIsSettled ==
  ASSUME NEW list \in Lists, NEW e \in Entries, e.info.authorised, Takes(list, e), NEW r, Authorize(e.authorise, r)
  PROVE  Settled(list, Written(e), r)
<1> DEFINE m == e.authorise
           raw == Written(e)
<1>1. m \in Authorisers /\ m \in WholeMatchers /\ m.info = NoInfo /\ e.info \in Infos /\ e.info.given /\ ~Declined(e.info)
  BY EntryFacts DEF Declined
<1>2. m.kind \in {"hash", "content", "csp-directive", "or"} /\ (m.kind = "hash" => list = "scripts")
  BY DEF Takes
<1>3. raw = IF WritesList(e) THEN [form |-> "array", items |-> m.children]
            ELSE [form |-> "single", items |-> <<With(m, e.info)>>]
  BY DEF Written
<1> HIDE DEF raw
<1>4. CASE m.kind = "or"
  <2>1. m \in Composites({"or"}, NestedMatchers)
    <3>1. m = [kind |-> "or", children |-> m.children, info |-> m.info] /\ m.children \in Seq(NestedMatchers)
          /\ Len(m.children) \in Nat \ {0}
      BY <1>1, <1>4, WholeWith
    <3> QED
      BY <1>1, <3>1, NoInfoFacts DEF Composites
  <2>2. \E k \in 1 .. Len(m.children) : Authorize(m.children[k], r)
    BY <1>1, <2>1, OneAuthorises
  <2>3. With(m, e.info).children = m.children /\ With(m, e.info).kind = "or"
    BY <1>1, <1>4, WholeWith
  <2>4. Alternatives(raw) = m.children /\ ~ (raw.form = "single" /\ raw.items[1].kind = "hash")
    BY <1>3, <2>3 DEF Alternatives
  <2> QED
    BY <2>2, <2>4 DEF Settled, raw
<1>5. CASE m.kind # "or"
  <2> DEFINE item == With(m, e.info)
  <2>1. m \in Leaves
    BY <1>1, <1>2, <1>5, Children DEF WholeMatchers, NestedMatchers
  <2>2. raw = [form |-> "single", items |-> <<item>>] /\ item.kind = m.kind /\ item \in Leaves
    BY <1>1, <1>3, <1>5, <2>1, LeafWith DEF WritesList
  <2>3. Satisfies(m, r)
    BY <1>2, <2>1, AuthorizeLevels DEF AuthorisesLeaf
  <2>4. Authorize(item, r)
    BY <1>1, <1>2, <2>1, <2>3, AuthorizeLeafWith
  <2>5. m.kind = "hash" => r.hash \in item.accepts
    <3>1. m.kind = "hash" => r.hash \in m.accepts
      BY <2>3 DEF Satisfies, HashMatches, Accepts
    <3>2. m.kind = "hash" => item.accepts = m.accepts
      BY <2>1 DEF Leaves, PlainLeaves, PlainKinds, HashLeaves, ContentLeaves, CspLeaves, ChainLeaves, With
    <3> QED
      BY <3>1, <3>2
  <2> HIDE DEF item
  <2>6. Alternatives(raw) = <<item>>
    BY <1>5, <2>2 DEF Alternatives
  <2> QED
    BY <1>2, <2>2, <2>4, <2>5, <2>6 DEF Settled, raw
<1> QED
  BY <1>4, <1>5
LEMMA FindingStays ==
  ASSUME NEW list \in Lists, NEW rs, rs \subseteq Everything(list), NEW old \in Seq(Entries), NEW new,
         Grown(list, rs, old, new), NEW r, Known(old, r)
  PROVE  FindMatchingEntry(new, r) = FindMatchingEntry(old, r)
<1> DEFINE j == FindMatchingEntry(new, r)
           k == FindMatchingEntry(old, r)
<1>1. new \in Seq(Entries) /\ Len(old) \in Nat /\ Len(new) \in Nat /\ Len(old) <= Len(new) /\ Known(new, r)
  BY UnknownStays DEF Grown
<1>2. ASSUME NEW i \in 1 .. Len(old)
      PROVE  i \in 1 .. Len(new) /\ new[i].info = old[i].info /\ new[i].identify = old[i].identify
  BY <1>1 DEF Grown, Widened
<1>3. ASSUME NEW i \in 1 .. Len(new), i > Len(old) PROVE ~new[i].info.authorised
  <2>1. PICK x \in rs : Widened(list, rs, Proposal(list, x), new[i])
    BY <1>3 DEF Grown
  <2>2. new[i].info = Pending
    BY <2>1, ProposalIsEntry DEF Widened
  <2> QED
    BY <2>2, NoInfoFacts
<1>4. /\ k \in 1 .. Len(old) /\ old[k].info.authorised /\ Identify(old[k].identify, r)
      /\ \A i \in 1 .. Len(old) : old[i].info.authorised /\ Identify(old[i].identify, r) => k <= i
  BY Finding
<1>5. /\ j \in 1 .. Len(new) /\ new[j].info.authorised /\ Identify(new[j].identify, r)
      /\ \A i \in 1 .. Len(new) : new[i].info.authorised /\ Identify(new[i].identify, r) => j <= i
  BY <1>1, Finding
<1> HIDE DEF j, k
<1>6. j \in 1 .. Len(old)
  BY <1>1, <1>3, <1>5
<1>7. j <= k /\ k <= j
  BY <1>2, <1>4, <1>5, <1>6
<1> QED
  BY <1>4, <1>6, <1>7 DEF j, k

\* What a comparison has something to say of.
Readers(list) == {r \in Everything(list) : r.content # ""}

LEMMA UpdatingSettles ==
  ASSUME Legible, page \in Pages, NEW inventory \in Inventories, NEW list \in Lists, NEW k \in 1 .. Len(inventory[list]),
         inventory[list][k].info.authorised
  PROVE  LET e == inventory[list][k]
             results == Results(inventory, list) IN
         \A n \in 0 .. Len(results) : \A r \in Readers(list) :
           Settled(list, Written(e), r) \/ (\E i \in 1 .. n : Denies(results[i], k) /\ results[i].resource = r) =>
             Settled(list, Updating(list, e, k, results)[n], r)
<1> DEFINE e == inventory[list][k]
           results == Results(inventory, list)
           Form(n) == Updating(list, e, k, results)[n]
           Spoken(n, r) == Settled(list, Written(e), r) \/ \E i \in 1 .. n : Denies(results[i], k) /\ results[i].resource = r
           T == {n \in 0 .. Len(results) : \A r \in Readers(list) : Spoken(n, r) => Settled(list, Form(n), r)}
<1>1. /\ Len(results) \in Nat
      /\ \A n \in 1 .. Len(results) : results[n].resource \in Everything(list)
  BY OneResult
<1>2. Form(0) = Written(e) /\ \A n \in 1 .. Len(results) : Form(n) = Revised(list, k, Form(n - 1), results[n])
  BY <1>1, UpdatingSteps
<1>3. \A n \in 0 .. Len(results) : Form(n) \in Forms /\ Form(n).items[1].info.authorised
  BY UpdatingForms
<1>4. \A r \in Readers(list) : r \in Everything(list) /\ r.content # "" /\ (list = "scripts" => r.hash # "")
  BY FoundIsRead DEF Readers
<1> HIDE DEF Form, results, e
<1>5. 0 \in T
  <2>1. \A r : Spoken(0, r) => Settled(list, Written(e), r)
    OBVIOUS
  <2> HIDE DEF Spoken
  <2> QED
    BY <1>1, <1>2, <2>1
<1>6. ASSUME NEW n \in 1 .. Len(results), n - 1 \in T PROVE n \in T
  <2> DEFINE raw == Form(n - 1)
             x == results[n].resource
  <2>1. raw \in Forms /\ raw.items[1].info.authorised /\ x \in Everything(list)
    BY <1>1, <1>3
  <2>2. Form(n) = IF Denies(results[n], k) THEN ApplyTo(list, raw, x) ELSE raw
    BY <1>2 DEF Revised
  <2>3. \A r \in Readers(list) : Spoken(n - 1, r) => Settled(list, raw, r)
    BY <1>6
  <2>4. ASSUME NEW r \in Readers(list), Spoken(n, r) PROVE Settled(list, Form(n), r)
    <3>1. CASE Spoken(n - 1, r)
      <4>1. Settled(list, raw, r)
        BY <2>3, <3>1
      <4> HIDE DEF raw, x
      <4>2. Settled(list, ApplyTo(list, raw, x), r)
        BY <1>4, <2>1, <4>1, SettledKept
      <4> QED
        BY <2>2, <4>1, <4>2
    <3>2. CASE ~Spoken(n - 1, r)
      <4>1. Denies(results[n], k) /\ x = r
        <5>1. PICK i \in 1 .. n : Denies(results[i], k) /\ results[i].resource = r
          BY <2>4, <3>2
        <5>2. i = n
          BY <1>1, <3>2, <5>1
        <5> QED
          BY <5>1, <5>2
      <4> HIDE DEF raw, x
      <4>2. Settled(list, ApplyTo(list, raw, r), r)
        BY <1>4, <2>1, SettledAfter
      <4> QED
        BY <2>2, <4>1, <4>2
    <3> QED
      BY <3>1, <3>2
  <2> HIDE DEF Spoken
  <2> QED
    BY <1>1, <2>4
<1>7. 0 .. Len(results) \subseteq T
  BY <1>1, <1>5, <1>6, SetInductionUpTo
<1>8. \A n \in 0 .. Len(results) : \A r \in Readers(list) : Spoken(n, r) => Settled(list, Form(n), r)
  BY <1>7
<1> QED
  BY <1>8 DEF Form, results, e

LEMMA UpTo == ASSUME NEW n \in Nat PROVE n \in 0 .. n
  OBVIOUS

\* After a pass an entry has nothing to learn of what it judged.
LEMMA EntrySettles ==
  ASSUME Legible, page \in Pages, NEW inventory \in Inventories, NEW list \in Lists,
         NEW r \in Served(list), r.content # "", Known(inventory[list], r),
         NEW k \in 1 .. Len(inventory[list]), FindMatchingEntry(inventory[list], r) = k, Takes(list, inventory[list][k])
  PROVE  Settled(list, Written(Updated(list, inventory[list][k], k, Results(inventory, list))), r)
<1> DEFINE e == inventory[list][k]
           results == Results(inventory, list)
           final == Updating(list, e, k, results)[Len(results)]
           result == Compare(inventory, list, r)
<1>1. e \in Entries /\ r \in Everything(list) /\ r \in Readers(list)
  BY OfInventories, ServedIsCatalogued DEF Readers
<1>2. result.verdict \in {"authorised", "denied"} /\ result.entry = k
  <2>1. result.verdict # "unknown"
    BY Comparing
  <2> QED
    BY <2>1, Comparing
<1>3. e.info.authorised
  BY <1>2, Comparing
<1>4. \E n \in 1 .. Len(results) : results[n] = result /\ results[n].resource = r
  BY OneResult
<1>8. Len(results) \in Nat /\ Len(results) \in 0 .. Len(results)
  <2>1. Len(results) \in Nat
    BY OneResult
  <2> HIDE DEF results
  <2> QED
    BY <2>1, UpTo, Zenon
<1>5. \A n \in 0 .. Len(results) : \A x \in Readers(list) :
        Settled(list, Written(e), x) \/ (\E i \in 1 .. n : Denies(results[i], k) /\ results[i].resource = x) =>
          Settled(list, Updating(list, e, k, results)[n], x)
  BY <1>3, UpdatingSettles
<1>6. final \in Forms
  <2>1. \A n \in 0 .. Len(results) : Updating(list, e, k, results)[n] \in Forms
    BY UpdatingForms
  <2> HIDE DEF e, results
  <2> QED
    BY <1>8, <2>1
<1>7. Written(Load(e, final)) = final
  BY <1>1, <1>6, WrittenAgain
<1>9. Updated(list, e, k, results) =
        IF \E n \in 1 .. Len(results) : Denies(results[n], k) THEN Load(e, final) ELSE e
  BY DEF Updated
<1> HIDE DEF e, results, result
<1>10. result.verdict = "authorised" => Settled(list, Written(e), r)
  <2>1. result.verdict = "authorised" => Authorize(e.authorise, r)
    BY <1>2, Comparing DEF result, e
  <2> QED
    BY <1>1, <1>3, <2>1, AuthorisedIsSettled DEF e
<1>11. result.verdict = "denied" => \E i \in 1 .. Len(results) : Denies(results[i], k) /\ results[i].resource = r
  BY <1>2, <1>4 DEF Denies
<1>12. Settled(list, final, r)
  BY <1>1, <1>2, <1>5, <1>8, <1>10, <1>11
<1> HIDE DEF final
<1>13. CASE \E n \in 1 .. Len(results) : Denies(results[n], k)
  BY <1>7, <1>9, <1>12, <1>13 DEF e, results
<1>14. CASE ~ \E n \in 1 .. Len(results) : Denies(results[n], k)
  BY <1>2, <1>9, <1>10, <1>11, <1>14 DEF e, results
<1> QED
  BY <1>13, <1>14

LEMMA UpdatingNothing ==
  ASSUME NEW list \in Lists, NEW e \in Entries, NEW k, NEW results, Len(results) \in Nat,
         \A n \in 1 .. Len(results) : Denies(results[n], k) => Settled(list, Written(e), results[n].resource)
  PROVE  Updated(list, e, k, results) = e
<1> DEFINE Form(n) == Updating(list, e, k, results)[n]
           T == {n \in 0 .. Len(results) : Form(n) = Written(e)}
<1>1. Form(0) = Written(e) /\ \A n \in 1 .. Len(results) : Form(n) = Revised(list, k, Form(n - 1), results[n])
  BY UpdatingSteps
<1>2. Updated(list, e, k, results) = e \/ Updated(list, e, k, results) = Load(e, Form(Len(results)))
  BY DEF Updated
<1> HIDE DEF Form
<1>3. 0 \in T
  BY <1>1
<1>4. ASSUME NEW n \in 1 .. Len(results), n - 1 \in T PROVE n \in T
  <2>1. Form(n) = Revised(list, k, Written(e), results[n])
    BY <1>1, <1>4
  <2>2. Revised(list, k, Written(e), results[n]) = Written(e)
    BY SettledNothing DEF Revised
  <2> QED
    BY <2>1, <2>2
<1>5. 0 .. Len(results) \subseteq T
  BY <1>3, <1>4, SetInductionUpTo
<1>6. Form(Len(results)) = Written(e)
  <2>1. Len(results) \in 0 .. Len(results)
    OBVIOUS
  <2> QED
    BY <1>5, <2>1
<1> QED
  BY <1>2, <1>6, WrittenIsForm

\* An approved entry gets no proposals.
LEMMA AddingKeepsApproved ==
  ASSUME NEW list \in Lists, NEW entries \in Seq(Entries), NEW r \in Everything(list),
         NEW k \in 1 .. Len(entries), entries[k].info.authorised
  PROVE  AddTo(list, entries, r)[k] = entries[k]
<1>1. Append(entries, Proposal(list, r))[k] = entries[k]
  BY ProposalIsEntry
<1>2. CASE list = "scripts"
  BY <1>1, <1>2, AddScriptCases
<1>3. CASE list = "headers"
  <2>1. CASE Covered(entries, r)
    BY <1>3, <2>1, AddHeaderCases
  <2>2. CASE ~Covered(entries, r) /\ SameIdentity(entries, r) = {}
    BY <1>1, <1>3, <2>2, AddHeaderCases
  <2>3. CASE ~Covered(entries, r) /\ SameIdentity(entries, r) # {}
    <3>1. PICK j \in SameIdentity(entries, r) :
            AddTo("headers", entries, r) =
              IF CanAppend(entries[j].authorise) THEN Changed(entries, j, AppendPending(entries[j], r)) ELSE entries
      BY <2>3, AddHeaderCases
    <3>2. j # k
      BY DEF SameIdentity
    <3>3. Changed(entries, j, AppendPending(entries[j], r))[k] = entries[k]
      BY <3>2 DEF Changed
    <3> QED
      BY <1>3, <3>1, <3>3
  <2> QED
    BY <2>1, <2>2, <2>3
<1> QED
  BY <1>2, <1>3 DEF Lists

\* What a pass leaves of an approved entry is what its updates made of it.
LEMMA ApprovedAreUpdated ==
  ASSUME page \in Pages, NEW inventory \in Inventories, NEW list \in Lists,
         NEW k \in 1 .. Len(inventory[list]), inventory[list][k].info.authorised
  PROVE  Recording(inventory)[list][k] = Updated(list, inventory[list][k], k, Results(inventory, list))
<1> DEFINE entries == inventory[list]
           results == Results(inventory, list)
           rs == Served(list)
           updated == UpdateAll(list, entries, results)
           After(n) == Adding(list, updated, results)[n]
           T == {n \in 0 .. Len(results) : After(n)[k] = updated[k]}
<1>1. /\ Len(results) \in Nat /\ rs \subseteq Everything(list)
      /\ \A n \in 1 .. Len(results) : results[n].resource \in Everything(list)
  BY OneResult, ServedIsCatalogued
<1>2. \A n \in 0 .. Len(results) : Grown(list, rs, entries, After(n))
  BY RecordingGrows
<1>3. After(0) = updated /\ \A n \in 1 .. Len(results) : After(n) = Extended(list, After(n - 1), results[n])
  BY <1>1, AddingSteps
<1>4. updated[k] = Updated(list, entries[k], k, results)
  BY DEF UpdateAll
<1>5. Recording(inventory)[list] = After(Len(results))
  BY RecordingIsInventory DEF DiffOf
<1>6. k \in 1 .. Len(entries) /\ entries[k].info.authorised /\ Len(entries) \in Nat
  BY OfInventories
<1> HIDE DEF After, updated, results, rs, entries
<1>7. 0 \in T
  BY <1>1, <1>3
<1>8. ASSUME NEW n \in 1 .. Len(results), n - 1 \in T PROVE n \in T
  <2>1. Grown(list, rs, entries, After(n - 1)) /\ After(n - 1)[k] = updated[k]
    BY <1>1, <1>2, <1>8
  <2>2. After(n - 1) \in Seq(Entries) /\ k \in 1 .. Len(After(n - 1)) /\ After(n - 1)[k].info.authorised
    BY <1>6, <2>1 DEF Grown, Widened
  <2>3. AddTo(list, After(n - 1), results[n].resource)[k] = After(n - 1)[k]
    BY <1>1, <2>2, AddingKeepsApproved
  <2>4. After(n) = After(n - 1) \/ After(n) = AddTo(list, After(n - 1), results[n].resource)
    BY <1>3 DEF Extended
  <2> QED
    BY <2>1, <2>3, <2>4
<1>9. 0 .. Len(results) \subseteq T
  BY <1>1, <1>7, <1>8, SetInductionUpTo
<1>10. After(Len(results))[k] = updated[k]
  BY <1>1, <1>9, UpTo
<1> QED
  BY <1>4, <1>5, <1>10 DEF entries, results

\* A second pass over the same page has no entry to update.
LEMMA NothingToUpdate ==
  ASSUME Legible, page \in Pages, NEW inventory \in Inventories, NEW list \in Lists
  PROVE  LET once == Recording(inventory)[list] IN
         UpdateAll(list, once, Results(Recording(inventory), list)) = once
<1> DEFINE once == Recording(inventory)
           results == Results(once, list)
           rs == Served(list)
<1>1. once \in Inventories /\ Grown(list, rs, inventory[list], once[list]) /\ rs \subseteq Everything(list)
  BY RecordingIsInventory, ServedIsCatalogued
<1>2. once[list] \in Seq(Entries) /\ Len(once[list]) \in Nat /\ \A k \in 1 .. Len(once[list]) : once[list][k] \in Entries
  BY <1>1, OfInventories
<1>3. inventory[list] \in Seq(Entries) /\ Len(inventory[list]) \in Nat
  BY OfInventories
<1>4. /\ Len(results) \in Nat
      /\ \A n \in 1 .. Len(results) :
           results[n].resource \in rs /\ results[n].resource \in Everything(list)
             /\ results[n] = Compare(once, list, results[n].resource)
  BY <1>1, OneResult
<1>5. \A k \in 1 .. Len(inventory[list]) : inventory[list][k].info.authorised =>
        once[list][k] = Updated(list, inventory[list][k], k, Results(inventory, list))
  BY ApprovedAreUpdated
<1> HIDE DEF once, results, rs
<1>6. ASSUME NEW k \in 1 .. Len(once[list]), Takes(list, once[list][k]),
             NEW n \in 1 .. Len(results), Denies(results[n], k)
      PROVE  Settled(list, Written(once[list][k]), results[n].resource)
  <2> DEFINE r == results[n].resource
  <2>1. r \in rs /\ r \in Everything(list) /\ Compare(once, list, r).verdict = "denied" /\ Compare(once, list, r).entry = k
    BY <1>4, <1>6 DEF Denies
  <2> HIDE DEF r
  <2>2. /\ Known(once[list], r) /\ (list = "scripts" => r.content # "")
        /\ k = FindMatchingEntry(once[list], r)
    BY <1>1, <2>1, Comparing
  <2>3. r.content # ""
    BY <2>1, <2>2 DEF Legible, Lists
  <2>4. Known(inventory[list], r)
    BY <1>1, <1>3, <2>2, UnknownStays
  <2>5. FindMatchingEntry(inventory[list], r) = k
    <3>1. FindMatchingEntry(once[list], r) = FindMatchingEntry(inventory[list], r)
      BY <1>1, <1>3, <2>4, FindingStays
    <3> QED
      BY <2>2, <3>1, Zenon
  <2>6. k \in 1 .. Len(inventory[list]) /\ inventory[list][k].info.authorised
    BY <1>3, <2>4, <2>5, Finding
  <2>7. once[list][k] = Updated(list, inventory[list][k], k, Results(inventory, list))
    BY <1>5, <2>6
  <2>8. Takes(list, inventory[list][k])
    BY <1>6, <2>7 DEF Updated
  <2>9. Settled(list, Written(once[list][k]), r)
    BY <2>1, <2>3, <2>4, <2>5, <2>6, <2>7, <2>8, EntrySettles DEF rs
  <2> QED
    BY <2>9 DEF r
<1>7. ASSUME NEW k \in 1 .. Len(once[list]) PROVE Updated(list, once[list][k], k, results) = once[list][k]
  <2>1. CASE Takes(list, once[list][k])
    BY <1>2, <1>4, <1>6, <2>1, UpdatingNothing
  <2>2. CASE ~Takes(list, once[list][k])
    BY <2>2 DEF Updated
  <2> QED
    BY <2>1, <2>2
<1>8. UpdateAll(list, once[list], results) = [k \in 1 .. Len(once[list]) |-> once[list][k]]
  BY <1>7 DEF UpdateAll
<1>9. UpdateAll(list, once[list], results) = once[list]
  BY <1>2, <1>8
<1> QED
  BY <1>9 DEF once, results

(***************************************************************************)
(* And nothing to add: what was found once is there.                       *)
(***************************************************************************)
Nameless(r) == r.name = FallbackName /\ r.content = ""

LEMMA ScriptIsCovered ==
  ASSUME Legible, NEW r \in Everything("scripts"), ~Nameless(r)
  PROVE  Covers(Proposal("scripts", r), r)
<1>1. /\ r \in Resources /\ r.name \in STRING /\ r.hash \in STRING /\ "name" \in PlainKinds
      /\ r.name = FallbackName => Opening[r.content] \in SUBSET STRING
  BY TheCatalogue DEF Resources, PlainKinds, Lists, KnownByOpening
<1>2. /\ r.name # "" /\ (r.content # "" => r.hash # "")
      /\ r.content # "" /\ r.name = FallbackName => r.content \in Opening[r.content]
  BY DEF Legible
<1>3. Leaf("name", {r.name}) \in Leaves /\ Satisfies(Leaf("name", {r.name}), r)
  BY <1>1, <1>2, NewLeaves, LeafAccepts
<1>4. Identify(IdentifyScriptBy(r), r)
  <2>1. CASE r.name # FallbackName
    <3>1. <<Leaf("name", {r.name})>> \in Seq(Leaves) /\ <<Leaf("name", {r.name})>> # <<>>
          /\ AllSatisfied(<<Leaf("name", {r.name})>>, r)
      BY <1>3, Short, OneSatisfied
    <3> QED
      BY <1>1, <2>1, <3>1, InWorkflowIdentifies DEF IdentifyScriptBy
  <2>2. CASE r.name = FallbackName
    <3> DEFINE hosts == IF r.host = "" THEN <<>> ELSE <<Leaf("host", {r.host})>>
               anchor == IF Opening[r.content] = {r.content} THEN "none" ELSE "start"
               opening == ContentLeaf(Opening[r.content], anchor)
    <3>1. hosts \in Seq(Leaves) /\ AllSatisfied(hosts, r)
      BY <1>1, HostsSatisfied
    <3>2. opening \in Leaves
      BY <1>1, <2>2, NewContentLeaf
    <3>3. Satisfies(opening, r)
      BY <1>2, <2>2, LeafAccepts DEF Nameless
    <3>4. IdentifyScriptBy(r) = InWorkflow(hosts \o <<opening>>, r.workflow)
      BY <2>2 DEF IdentifyScriptBy
    <3> HIDE DEF hosts, opening
    <3>5. <<opening>> \in Seq(Leaves) /\ <<opening>> # <<>> /\ AllSatisfied(<<opening>>, r)
      BY <3>2, <3>3, Short, OneSatisfied
    <3>6. hosts \o <<opening>> \in Seq(Leaves) \ {<<>>} /\ AllSatisfied(hosts \o <<opening>>, r)
      BY <3>1, <3>5, Sections, SatisfiedSections
    <3> QED
      BY <1>1, <3>4, <3>6, InWorkflowIdentifies
  <2> QED
    BY <2>1, <2>2
<1>5. Authorize(AuthoriseScriptBy(r), r)
  <2>1. ASSUME NEW m \in Leaves, m.kind \in {"hash", "name"}, m.info = NoInfo, Satisfies(m, r) PROVE Authorize(m, r)
    BY <2>1, AuthorizeLevels, NoInfoFacts DEF AuthorisesLeaf
  <2>2. CASE r.hash # ""
    <3>1. Leaf("hash", {r.hash}) \in Leaves /\ Satisfies(Leaf("hash", {r.hash}), r)
      BY <1>1, <2>2, NewLeaves, LeafAccepts
    <3>2. Leaf("hash", {r.hash}).kind = "hash" /\ Leaf("hash", {r.hash}).info = NoInfo
      BY DEF Leaf
    <3> QED
      BY <2>1, <2>2, <3>1, <3>2 DEF AuthoriseScriptBy
  <2>3. CASE r.hash = ""
    <3>1. Leaf("name", {r.name}).kind = "name" /\ Leaf("name", {r.name}).info = NoInfo
      BY DEF Leaf
    <3> QED
      BY <1>3, <2>1, <2>3, <3>1 DEF AuthoriseScriptBy
  <2> QED
    BY <2>2, <2>3
<1> QED
  BY <1>4, <1>5 DEF Covers, Proposal, NewScript, Entry

LEMMA CoveredAppend ==
  ASSUME NEW entries \in Seq(Entries), NEW e \in Entries, NEW r
  PROVE  /\ Covered(entries, r) => Covered(Append(entries, e), r)
         /\ Covers(e, r) => Covered(Append(entries, e), r)
<1>1. Len(Append(entries, e)) = Len(entries) + 1 /\ Append(entries, e)[Len(entries) + 1] = e /\ Len(entries) \in Nat
      /\ \A k \in 1 .. Len(entries) : Append(entries, e)[k] = entries[k]
  OBVIOUS
<1>2. Len(entries) + 1 \in 1 .. Len(Append(entries, e)) /\ 1 .. Len(entries) \subseteq 1 .. Len(Append(entries, e))
  BY <1>1
<1> QED
  BY <1>1, <1>2 DEF Covered

\* What the entries have to say of a value that awaits review: they accept
\* it, or the entry of its header takes no more or has it.
Holds(e, r) == \E k \in 1 .. Len(Alternatives(Written(e))) : Authorize(With(Alternatives(Written(e))[k], NoInfo), r)

Awaits(entries, r, k) ==
  /\ k \in SameIdentity(entries, r) /\ \A j \in SameIdentity(entries, r) : k <= j
  /\ ~CanAppend(entries[k].authorise) \/ Holds(entries[k], r)

Quiet(list, entries, r) ==
  \/ Covered(entries, r)
  \/ list = "scripts" /\ Nameless(r)
  \/ list = "headers" /\ \E k \in SameIdentity(entries, r) : Awaits(entries, r, k)

LEMMA QuietAddsNothing ==
  ASSUME NEW list \in Lists, NEW entries \in Seq(Entries), NEW r \in Everything(list), Quiet(list, entries, r)
  PROVE  AddTo(list, entries, r) = entries
<1>1. CASE list = "scripts"
  BY <1>1, AddScriptCases DEF Quiet, Nameless
<1>2. CASE list = "headers" /\ Covered(entries, r)
  BY <1>2, AddHeaderCases
<1>3. CASE list = "headers" /\ ~Covered(entries, r)
  <2>1. PICK k \in SameIdentity(entries, r) : Awaits(entries, r, k)
    BY <1>3 DEF Quiet
  <2>2. PICK j \in SameIdentity(entries, r) :
          /\ \A i \in SameIdentity(entries, r) : j <= i
          /\ AddTo("headers", entries, r) =
               IF CanAppend(entries[j].authorise) THEN Changed(entries, j, AppendPending(entries[j], r)) ELSE entries
    BY <1>3, <2>1, AddHeaderCases
  <2>3. j = k /\ k \in 1 .. Len(entries) /\ entries[k] \in Entries
    BY <2>1, <2>2 DEF Awaits, SameIdentity
  <2>4. CASE ~CanAppend(entries[k].authorise)
    BY <1>3, <2>2, <2>3, <2>4
  <2>5. CASE Holds(entries[k], r)
    <3>1. AppendPending(entries[k], r) = entries[k]
      BY <1>3, <2>3, <2>5, AppendPendingCases DEF Holds
    <3>2. Changed(entries, k, entries[k]) = entries
      BY <2>3 DEF Changed
    <3> QED
      BY <1>3, <2>2, <2>3, <3>1, <3>2
  <2> QED
    BY <2>1, <2>4, <2>5 DEF Awaits
<1> QED
  BY <1>1, <1>2, <1>3 DEF Lists

LEMMA BareAuthorises ==
  ASSUME NEW m \in Leaves, m.kind # "header-name", NEW i \in Infos, NEW r
  PROVE  Authorize(With(With(m, i), NoInfo), r) <=> Satisfies(m, r)
<1>1. With(With(m, i), NoInfo) = With(m, NoInfo)
  BY LeafWith
<1> QED
  BY <1>1, AuthorizeLeafWith, NoInfoFacts

\* A value just recorded is one that the entry has.
LEMMA PendingHolds ==
  ASSUME Legible, NEW r \in Everything("headers")
  PROVE  /\ Holds(Proposal("headers", r), r)
         /\ \A e \in Entries : Holds(AppendPending(e, r), r)
         /\ \A e \in Entries : \A x : Holds(e, x) => Holds(AppendPending(e, r), x)
<1> DEFINE value == ValueLeaf(r)
           pending == With(value, Pending)
<1>1. /\ value \in Leaves /\ value.info = NoInfo /\ value.kind # "header-name" /\ value.kind # "or"
      /\ Satisfies(value, r)
  <2>1. r \in Resources /\ r.content # ""
    BY TheCatalogue DEF Legible, Lists
  <2>2. Found("headers", r) = value /\ "headers" \in Lists
    BY DEF Found, Lists
  <2>3. Satisfies(value, r)
    BY <2>1, <2>2, FoundIsRead
  <2> QED
    BY <2>1, <2>3, ValueLeafIsLeaf
<1>2. Authorize(With(pending, NoInfo), r)
  BY <1>1, BareAuthorises, NoInfoFacts
<1>3. Holds(Proposal("headers", r), r)
  <2> DEFINE e == Proposal("headers", r)
  <2>1. e.authorise = value /\ e.info = Pending
    BY DEF Proposal, NewHeader, Entry
  <2>2. Written(e) = [form |-> "single", items |-> <<pending>>]
    BY <1>1, <2>1 DEF Written, WritesList
  <2>3. pending.kind # "or"
    BY <1>1, LeafWith, NoInfoFacts
  <2> HIDE DEF e, pending
  <2>4. Alternatives(Written(e)) = <<pending>>
    BY <2>2, <2>3 DEF Alternatives
  <2>5. Holds(e, r)
    BY <1>2, <2>4, OnlyOne DEF Holds
  <2> QED
    BY <2>5 DEF e
<1>4. ASSUME NEW e \in Entries
      PROVE  Holds(AppendPending(e, r), r) /\ \A x : Holds(e, x) => Holds(AppendPending(e, r), x)
  <2> DEFINE raw == Written(e)
             longer == AddAlternative(raw, pending)
  <2>1. raw \in Forms /\ raw \in Readable
    BY WrittenIsForm DEF Forms
  <2>2. /\ AppendPending(e, r) = IF Holds(e, r) THEN e ELSE Load(e, longer)
        /\ pending \in NestedMatchers /\ longer \in Forms
        /\ Alternatives(longer) = Append(Alternatives(raw), pending)
    BY AppendPendingCases DEF Holds
  <2>3. Written(Load(e, longer)) = longer
    BY <2>2, WrittenAgain
  <2>4. Alternatives(raw) \in Seq(NestedMatchers)
    BY <2>1, AlternativesOf
  <2>5. /\ \E k \in 1 .. Len(Alternatives(longer)) : Alternatives(longer)[k] = pending
        /\ \A k \in 1 .. Len(Alternatives(raw)) :
             k \in 1 .. Len(Alternatives(longer)) /\ Alternatives(longer)[k] = Alternatives(raw)[k]
    BY <2>2, <2>4, AppendHas
  <2> HIDE DEF longer, pending
  <2>6. Holds(Load(e, longer), r)
    BY <1>2, <2>3, <2>5 DEF Holds
  <2>7. \A x : Holds(e, x) => Holds(Load(e, longer), x)
    BY <2>3, <2>5 DEF Holds
  <2> QED
    BY <2>2, <2>6, <2>7
<1> QED
  BY <1>3, <1>4

\* So is one that it accepts, as long as it takes any more.
LEMMA AuthorisedHolds ==
  ASSUME NEW e \in Entries, CanAppend(e.authorise), NEW r, Authorize(e.authorise, r)
  PROVE  Holds(e, r)
<1> DEFINE m == e.authorise
           raw == Written(e)
<1>1. m \in Authorisers /\ m \in WholeMatchers /\ m.info = NoInfo /\ e.info \in Infos
  BY EntryFacts
<1>2. raw = IF WritesList(e) THEN [form |-> "array", items |-> m.children]
            ELSE [form |-> "single", items |-> <<With(m, e.info)>>]
  BY DEF Written
<1>3. ASSUME NEW n \in NestedMatchers, ValueShaped(n), Authorize(n, r)
      PROVE  n \in Leaves /\ n.kind # "header-name" /\ n.info \in Infos /\ With(n, n.info) = n /\ Satisfies(n, r)
  <2>1. n \in Leaves /\ n.kind \in {"content", "csp-directive"}
    BY <1>3, Children DEF NestedMatchers, ValueShaped
  <2>2. AuthorisesLeaf(n, r)
    BY <1>3, <2>1, AuthorizeLevels
  <2> QED
    BY <2>1, <2>2, LeafWith, NoInfoFacts DEF AuthorisesLeaf
<1> HIDE DEF raw
<1>4. CASE m.kind = "or"
  <2>1. m = [kind |-> "or", children |-> m.children, info |-> m.info] /\ m.children \in Seq(NestedMatchers)
        /\ Len(m.children) \in Nat \ {0} /\ \A k \in 1 .. Len(m.children) : m.children[k] \in NestedMatchers
    BY <1>1, <1>4, WholeWith
  <2>2. m \in Composites({"or"}, NestedMatchers)
    BY <1>1, <2>1, NoInfoFacts DEF Composites
  <2>3. PICK k \in 1 .. Len(m.children) : Authorize(m.children[k], r)
    BY <1>1, <2>2, OneAuthorises
  <2>4. With(m, e.info).children = m.children /\ With(m, e.info).kind = "or"
    BY <1>1, <1>4, WholeWith
  <2>5. Alternatives(raw) = m.children
    BY <1>2, <2>4 DEF Alternatives
  <2>6. m.children[k] \in NestedMatchers /\ ValueShaped(m.children[k])
    BY <1>4, <2>1 DEF CanAppend, ValueShaped
  <2> DEFINE n == m.children[k]
  <2> HIDE DEF n, m
  <2>7. Authorize(With(With(n, n.info), NoInfo), r) /\ With(n, n.info) = n
    BY <1>3, <2>3, <2>6, BareAuthorises DEF n
  <2> QED
    BY <2>5, <2>7 DEF Holds, raw, n
<1>5. CASE m.kind # "or"
  <2> DEFINE item == With(m, e.info)
  <2>1. m \in NestedMatchers /\ ValueShaped(m)
    BY <1>1, <1>5, WholeWith DEF CanAppend
  <2>2. m \in Leaves /\ m.kind # "header-name" /\ Satisfies(m, r)
    BY <1>3, <2>1
  <2>3. Authorize(With(item, NoInfo), r)
    BY <1>1, <2>2, BareAuthorises
  <2>4. raw = [form |-> "single", items |-> <<item>>] /\ item.kind # "or"
    BY <1>1, <1>2, <1>5, <2>2, LeafWith DEF WritesList
  <2> HIDE DEF item
  <2>5. Alternatives(raw) = <<item>>
    BY <2>4 DEF Alternatives
  <2> QED
    BY <2>3, <2>5, OnlyOne DEF Holds, raw
<1> QED
  BY <1>4, <1>5

LEMMA AppendAt ==
  ASSUME NEW S, NEW s \in Seq(S), NEW e \in S
  PROVE  /\ Append(s, e) \in Seq(S) /\ Len(s) \in Nat /\ Len(Append(s, e)) = Len(s) + 1
         /\ Append(s, e)[Len(s) + 1] = e /\ Len(s) + 1 \in 1 .. Len(Append(s, e))
         /\ \A k \in 1 .. Len(s) : k \in 1 .. Len(Append(s, e)) /\ Append(s, e)[k] = s[k]
         /\ \A k \in 1 .. Len(Append(s, e)) : k \in 1 .. Len(s) \/ k = Len(s) + 1
OBVIOUS

LEMMA AwaitsAppend ==
  ASSUME NEW entries \in Seq(Entries), NEW e \in Entries, NEW r
  PROVE  /\ \A k : Awaits(entries, r, k) => Awaits(Append(entries, e), r, k)
         /\ SameIdentity(entries, r) = {} /\ ~e.info.authorised /\ Identify(e.identify, r) /\ Holds(e, r) =>
              Awaits(Append(entries, e), r, Len(entries) + 1)
<1> DEFINE new == Append(entries, e)
           last == Len(entries) + 1
<1>1. /\ Len(entries) \in Nat /\ new[last] = e /\ last \in 1 .. Len(new) /\ last = Len(entries) + 1
      /\ \A k \in 1 .. Len(entries) : k \in 1 .. Len(new) /\ new[k] = entries[k]
      /\ \A k \in 1 .. Len(new) : k \in 1 .. Len(entries) \/ k = last
  BY AppendAt
<1> HIDE DEF new
<1>2. \A k \in SameIdentity(new, r) : k \in SameIdentity(entries, r) \/ k = last
  BY <1>1 DEF SameIdentity
<1>3. \A k \in SameIdentity(entries, r) : k \in SameIdentity(new, r) /\ new[k] = entries[k] /\ k <= last
  BY <1>1 DEF SameIdentity
<1>4. ~e.info.authorised /\ Identify(e.identify, r) => last \in SameIdentity(new, r)
  BY <1>1 DEF SameIdentity
<1>5. ASSUME NEW k, Awaits(entries, r, k) PROVE Awaits(new, r, k)
  <2>1. k \in SameIdentity(entries, r) /\ \A j \in SameIdentity(entries, r) : k <= j
    BY <1>5 DEF Awaits
  <2> QED
    BY <1>2, <1>3, <1>5, <2>1 DEF Awaits
<1>6. ASSUME SameIdentity(entries, r) = {}, ~e.info.authorised, Identify(e.identify, r), Holds(e, r) PROVE Awaits(new, r, last)
  BY <1>1, <1>2, <1>4, <1>6 DEF Awaits
<1> QED
  BY <1>5, <1>6 DEF new, last

LEMMA ChangedAt ==
  ASSUME NEW entries \in Seq(Entries), NEW k \in 1 .. Len(entries), NEW e \in Entries,
         e.identify = entries[k].identify, e.info = entries[k].info
  PROVE  /\ Changed(entries, k, e) \in Seq(Entries) /\ Len(Changed(entries, k, e)) = Len(entries)
         /\ Changed(entries, k, e)[k] = e
         /\ \A j \in 1 .. Len(entries) : j # k => Changed(entries, k, e)[j] = entries[j]
         /\ \A j \in 1 .. Len(entries) : Changed(entries, k, e)[j].identify = entries[j].identify
         /\ \A r : SameIdentity(Changed(entries, k, e), r) = SameIdentity(entries, r)
<1>1. /\ Changed(entries, k, e) \in Seq(Entries) /\ Len(Changed(entries, k, e)) = Len(entries)
      /\ \A j \in 1 .. Len(entries) : Changed(entries, k, e)[j] = IF j = k THEN e ELSE entries[j]
  BY DEF Changed
<1>2. \A j \in 1 .. Len(entries) : /\ Changed(entries, k, e)[j].identify = entries[j].identify
                                   /\ Changed(entries, k, e)[j].info = entries[j].info
  BY <1>1
<1> QED
  BY <1>1, <1>2 DEF SameIdentity

\* What was added is there.
LEMMA QuietAfter ==
  ASSUME Legible, NEW list \in Lists, NEW r \in Everything(list), NEW entries \in Seq(Entries)
  PROVE  Quiet(list, AddTo(list, entries, r), r)
<1>1. CASE list = "scripts"
  <2>1. CASE Covered(entries, r) \/ Nameless(r)
    BY <1>1, <2>1, AddScriptCases DEF Quiet, Nameless
  <2>2. CASE ~Covered(entries, r) /\ ~Nameless(r)
    <3>1. AddTo("scripts", entries, r) = Append(entries, Proposal("scripts", r))
      BY <2>2, AddScriptCases DEF Nameless
    <3>2. Covers(Proposal("scripts", r), r) /\ Proposal("scripts", r) \in Entries
      BY <1>1, <2>2, ScriptIsCovered, ProposalIsEntry
    <3>3. Covered(Append(entries, Proposal("scripts", r)), r)
      BY <3>2, CoveredAppend
    <3> QED
      BY <1>1, <3>1, <3>3 DEF Quiet
  <2> QED
    BY <2>1, <2>2
<1>2. CASE list = "headers"
  <2>1. CASE Covered(entries, r)
    BY <1>2, <2>1, AddHeaderCases DEF Quiet
  <2>2. CASE ~Covered(entries, r) /\ SameIdentity(entries, r) = {}
    <3> DEFINE e == Proposal("headers", r)
    <3>1. AddTo("headers", entries, r) = Append(entries, e)
      BY <2>2, AddHeaderCases
    <3>2. e \in Entries /\ ~e.info.authorised /\ Identify(e.identify, r) /\ Holds(e, r)
      <4>1. e \in Entries /\ e.info = Pending
        BY <1>2, ProposalIsEntry
      <4>2. Identify(e.identify, r) /\ Holds(e, r)
        BY <1>2, HeaderIdentifiesItself, PendingHolds DEF Legible
      <4> QED
        BY <4>1, <4>2, NoInfoFacts
    <3> HIDE DEF e
    <3>3. Awaits(Append(entries, e), r, Len(entries) + 1)
      BY <2>2, <3>2, AwaitsAppend
    <3>4. Len(entries) + 1 \in SameIdentity(Append(entries, e), r)
      BY <3>3 DEF Awaits
    <3> QED
      BY <1>2, <3>1, <3>3, <3>4 DEF Quiet
  <2>3. CASE ~Covered(entries, r) /\ SameIdentity(entries, r) # {}
    <3>1. PICK k \in SameIdentity(entries, r) :
            /\ \A j \in SameIdentity(entries, r) : k <= j
            /\ AddTo("headers", entries, r) =
                 IF CanAppend(entries[k].authorise) THEN Changed(entries, k, AppendPending(entries[k], r)) ELSE entries
      BY <2>3, AddHeaderCases
    <3>2. CASE ~CanAppend(entries[k].authorise)
      BY <1>2, <3>1, <3>2 DEF Quiet, Awaits
    <3>3. CASE CanAppend(entries[k].authorise)
      <4> DEFINE e == AppendPending(entries[k], r)
                 new == Changed(entries, k, e)
      <4>1. k \in 1 .. Len(entries) /\ Identify(entries[k].identify, r) /\ entries[k] \in Entries
        BY <3>1 DEF SameIdentity
      <4>2. Widened("headers", {r}, entries[k], e)
        BY <1>2, <4>1, AppendPendingWidens
      <4>3. Holds(e, r)
        BY <1>2, <4>1, PendingHolds
      <4>4. AddTo("headers", entries, r) = new
        BY <3>1, <3>3
      <4> HIDE DEF e
      <4>5. new[k] = e /\ SameIdentity(new, r) = SameIdentity(entries, r)
        BY <4>1, <4>2, ChangedAt DEF Widened
      <4> HIDE DEF new
      <4>6. Awaits(new, r, k)
        BY <3>1, <4>3, <4>5 DEF Awaits
      <4> QED
        BY <1>2, <4>4, <4>6 DEF Quiet, Awaits
    <3> QED
      BY <3>2, <3>3
  <2> QED
    BY <2>1, <2>2, <2>3
<1> QED
  BY <1>1, <1>2 DEF Lists

\* At most one entry is about a header.
Apart(entries) ==
  \A r \in Everything("headers") : \A j, k \in 1 .. Len(entries) :
    Identify(entries[j].identify, r) /\ Identify(entries[k].identify, r) => j = k

\* And stays there, whatever else is added: a value that only an entry of
\* its own header accepts remains among its alternatives.
LEMMA QuietKept ==
  ASSUME Legible, NEW list \in Lists, NEW r \in Everything(list), NEW other \in Everything(list), NEW entries \in Seq(Entries),
         Quiet(list, entries, r), list = "headers" => Apart(entries)
  PROVE  Quiet(list, AddTo(list, entries, other), r)
<1>1. ASSUME NEW e \in Entries PROVE Quiet(list, Append(entries, e), r)
  <2>1. CASE Covered(entries, r)
    BY <2>1, CoveredAppend DEF Quiet
  <2>2. CASE list = "scripts" /\ Nameless(r)
    BY <2>2 DEF Quiet
  <2>3. CASE list = "headers" /\ \E k \in SameIdentity(entries, r) : Awaits(entries, r, k)
    <3>1. PICK k \in SameIdentity(entries, r) : Awaits(entries, r, k)
      BY <2>3
    <3>2. Awaits(Append(entries, e), r, k)
      BY <3>1, AwaitsAppend
    <3>3. k \in SameIdentity(Append(entries, e), r)
      BY <3>2 DEF Awaits
    <3> QED
      BY <2>3, <3>2, <3>3 DEF Quiet
  <2> QED
    BY <2>1, <2>2, <2>3 DEF Quiet
<1>2. Proposal(list, other) \in Entries
  BY ProposalIsEntry
<1>3. CASE list = "scripts"
  BY <1>1, <1>2, <1>3, AddScriptCases
<1>4. CASE list = "headers"
  <2>1. CASE Covered(entries, other)
    BY <1>4, <2>1, AddHeaderCases
  <2>2. CASE ~Covered(entries, other) /\ SameIdentity(entries, other) = {}
    <3>1. AddTo("headers", entries, other) = Append(entries, Proposal("headers", other))
      BY <2>2, AddHeaderCases
    <3>2. Quiet(list, Append(entries, Proposal(list, other)), r)
      BY <1>1, <1>2
    <3> QED
      BY <1>4, <3>1, <3>2, Zenon
  <2>3. CASE ~Covered(entries, other) /\ SameIdentity(entries, other) # {}
    <3>1. PICK j \in SameIdentity(entries, other) :
            AddTo("headers", entries, other) =
              IF CanAppend(entries[j].authorise) THEN Changed(entries, j, AppendPending(entries[j], other)) ELSE entries
      BY <2>3, AddHeaderCases
    <3>2. CASE ~CanAppend(entries[j].authorise)
      BY <1>4, <3>1, <3>2
    <3>3. CASE CanAppend(entries[j].authorise)
      <4> DEFINE e == AppendPending(entries[j], other)
                 new == Changed(entries, j, e)
      <4>1. /\ j \in 1 .. Len(entries) /\ Identify(entries[j].identify, other) /\ ~entries[j].info.authorised
            /\ entries[j] \in Entries
        BY <3>1 DEF SameIdentity
      <4>2. Widened("headers", {other}, entries[j], e)
        BY <1>4, <4>1, AppendPendingWidens
      <4>3. Holds(entries[j], r) => Holds(e, r)
        BY <1>4, <4>1, PendingHolds
      <4>4. AddTo("headers", entries, other) = new
        BY <3>1, <3>3
      <4>5. Authorize(entries[j].authorise, r) => Holds(entries[j], r)
        BY <3>3, <4>1, AuthorisedHolds
      <4> HIDE DEF e
      <4>6. /\ Len(new) = Len(entries) /\ new[j] = e /\ SameIdentity(new, r) = SameIdentity(entries, r)
            /\ \A k \in 1 .. Len(entries) : k # j => new[k] = entries[k]
        BY <4>1, <4>2, ChangedAt DEF Widened
      <4> HIDE DEF new
      <4>7. CASE \E k \in SameIdentity(entries, r) : Awaits(entries, r, k)
        <5>1. PICK k \in SameIdentity(entries, r) : Awaits(entries, r, k)
          BY <4>7
        <5>2. k \in 1 .. Len(entries)
          BY DEF SameIdentity
        <5>3. Awaits(new, r, k)
          <6>1. CASE k = j
            BY <3>3, <4>3, <4>6, <5>1, <6>1 DEF Awaits
          <6>2. CASE k # j
            BY <4>6, <5>1, <5>2, <6>2 DEF Awaits
          <6> QED
            BY <6>1, <6>2
        <5> QED
          BY <1>4, <4>4, <5>3 DEF Quiet, Awaits
      <4>8. CASE Covered(entries, r)
        <5>1. PICK k \in 1 .. Len(entries) : Covers(entries[k], r)
          BY <4>8 DEF Covered
        <5>2. CASE k # j
          <6>1. Covered(new, r)
            BY <4>6, <5>1, <5>2 DEF Covered
          <6> QED
            BY <4>4, <1>4, <6>1 DEF Quiet
        <5>3. CASE k = j
          <6>1. j \in SameIdentity(entries, r) /\ \A i \in SameIdentity(entries, r) : i = j
            BY <1>4, <4>1, <5>1, <5>3 DEF Covers, SameIdentity, Apart
          <6>2. Holds(e, r)
            BY <4>3, <4>5, <5>1, <5>3 DEF Covers
          <6>3. Awaits(new, r, j)
            BY <4>1, <4>6, <6>1, <6>2 DEF Awaits
          <6> QED
            BY <1>4, <4>4, <6>3 DEF Quiet, Awaits
        <5> QED
          BY <5>2, <5>3
      <4> QED
        BY <1>4, <4>7, <4>8 DEF Quiet
    <3> QED
      BY <3>2, <3>3
  <2> QED
    BY <2>1, <2>2, <2>3
<1> QED
  BY <1>3, <1>4 DEF Lists

Gathered(entries) ==
  Apart(entries) /\ \A k \in 1 .. Len(entries) : entries[k].identify \in Identities("headers")

LEMMA IdentitiesCohere ==
  ASSUME HeadersApart, NEW identity \in Identities("headers"),
         NEW r1 \in Everything("headers"), NEW r2 \in Everything("headers"), SameHeader(r1, r2), Identify(identity, r1)
  PROVE  Identify(identity, r2)
<1>1. CASE \E k \in 1 .. Len(Curated["headers"]) : identity = Curated["headers"][k].identify
  <2>1. PICK k \in 1 .. Len(Curated.headers) : identity = Curated.headers[k].identify
    BY <1>1
  <2> QED
    BY <2>1 DEF HeadersApart
<1>2. CASE \E r \in Everything("headers") : identity = Proposal("headers", r).identify
  <2>1. PICK r \in Everything("headers") : identity = IdentifyHeaderBy(r)
    BY <1>2 DEF Proposal, NewHeader, Entry
  <2>2. SameHeader(r, r1)
    BY <2>1 DEF HeadersApart
  <2>3. SameHeader(r, r2)
    BY <2>2 DEF SameHeader
  <2> QED
    BY <2>1, <2>3 DEF HeadersApart
<1> QED
  BY <1>1, <1>2 DEF Identities

LEMMA GatheredKept ==
  ASSUME NEW old, NEW new, Gathered(old), Len(new) = Len(old),
         \A k \in 1 .. Len(old) : new[k].identify = old[k].identify
  PROVE  Gathered(new)
BY DEF Gathered, Apart

\* A header of which no entry is gets an entry, that is about no header of which one is.
LEMMA GatheredAppend ==
  ASSUME HeadersApart, NEW r \in Everything("headers"), NEW entries \in Seq(Entries), Gathered(entries),
         \A k \in 1 .. Len(entries) : ~Identify(entries[k].identify, r)
  PROVE  Gathered(Append(entries, Proposal("headers", r)))
<1> DEFINE e == Proposal("headers", r)
           new == Append(entries, e)
           last == Len(entries) + 1
<1>1. e \in Entries /\ e.identify \in Identities("headers") /\ e.identify = IdentifyHeaderBy(r)
  BY ProposalIsEntry DEF Lists, Identities, Proposal, NewHeader, Entry
<1> HIDE DEF e
<1>2. /\ Len(entries) \in Nat /\ new[last] = e
      /\ \A k \in 1 .. Len(entries) : new[k] = entries[k]
      /\ \A k \in 1 .. Len(new) : k \in 1 .. Len(entries) \/ k = last
  BY <1>1, AppendAt
<1> HIDE DEF new, last
<1>3. \A k \in 1 .. Len(new) : new[k].identify \in Identities("headers")
  BY <1>1, <1>2 DEF Gathered
<1>4. ASSUME NEW x \in Everything("headers"), NEW k \in 1 .. Len(entries),
             Identify(entries[k].identify, x), Identify(e.identify, x)
      PROVE  FALSE
  <2>1. SameHeader(r, x)
    BY <1>1, <1>4 DEF HeadersApart
  <2>2. SameHeader(x, r)
    BY <2>1 DEF SameHeader
  <2>3. Identify(entries[k].identify, r)
    BY <1>4, <2>2, IdentitiesCohere DEF Gathered
  <2> QED
    BY <2>3
<1>5. ASSUME NEW x \in Everything("headers"), NEW j \in 1 .. Len(new), NEW k \in 1 .. Len(new),
             Identify(new[j].identify, x), Identify(new[k].identify, x)
      PROVE  j = k
  <2>1. CASE j \in 1 .. Len(entries) /\ k \in 1 .. Len(entries)
    BY <1>2, <1>5, <2>1 DEF Gathered, Apart
  <2>2. CASE j \in 1 .. Len(entries) /\ k = last
    BY <1>2, <1>4, <1>5, <2>2
  <2>3. CASE j = last /\ k \in 1 .. Len(entries)
    BY <1>2, <1>4, <1>5, <2>3
  <2> QED
    BY <1>2, <2>1, <2>2, <2>3
<1>6. Gathered(new)
  BY <1>3, <1>5 DEF Gathered, Apart
<1> QED
  BY <1>6 DEF new, e

LEMMA AddingGathered ==
  ASSUME HeadersApart, NEW r \in Everything("headers"), NEW entries \in Seq(Entries), Gathered(entries), ~Known(entries, r)
  PROVE  Gathered(AddTo("headers", entries, r))
<1>1. CASE Covered(entries, r)
  BY <1>1, AddHeaderCases
<1>2. CASE ~Covered(entries, r) /\ SameIdentity(entries, r) = {}
  <2>1. \A k \in 1 .. Len(entries) : ~Identify(entries[k].identify, r)
    BY <1>2 DEF Known, SameIdentity
  <2>2. Gathered(Append(entries, Proposal("headers", r)))
    BY <2>1, GatheredAppend
  <2> QED
    BY <1>2, <2>2, AddHeaderCases
<1>3. CASE ~Covered(entries, r) /\ SameIdentity(entries, r) # {}
  <2>1. PICK k \in SameIdentity(entries, r) :
          AddTo("headers", entries, r) =
            IF CanAppend(entries[k].authorise) THEN Changed(entries, k, AppendPending(entries[k], r)) ELSE entries
    BY <1>3, AddHeaderCases
  <2>2. k \in 1 .. Len(entries) /\ Identify(entries[k].identify, r) /\ entries[k] \in Entries
    BY DEF SameIdentity
  <2> DEFINE e == AppendPending(entries[k], r)
             new == Changed(entries, k, e)
  <2>3. Widened("headers", {r}, entries[k], e)
    BY <2>2, AppendPendingWidens
  <2> HIDE DEF e
  <2>4. Len(new) = Len(entries) /\ \A j \in 1 .. Len(entries) : new[j].identify = entries[j].identify
    BY <2>2, <2>3, ChangedAt DEF Widened
  <2> HIDE DEF new
  <2>5. Gathered(new)
    BY <2>4, GatheredKept
  <2>6. AddTo("headers", entries, r) = new \/ AddTo("headers", entries, r) = entries
    BY <2>1 DEF new, e
  <2> QED
    BY <2>5, <2>6
<1> QED
  BY <1>1, <1>2, <1>3

\* A pass finds place for everything that was unknown.
LEMMA RecordingGathers ==
  ASSUME Legible, HeadersApart, page \in Pages, NEW inventory \in Inventories, Gathered(inventory.headers), NEW list \in Lists
  PROVE  /\ list = "headers" => Gathered(Recording(inventory)[list])
         /\ \A r \in Served(list) :
              Compare(inventory, list, r).verdict = "unknown" => Quiet(list, Recording(inventory)[list], r)
<1> DEFINE entries == inventory[list]
           results == Results(inventory, list)
           rs == Served(list)
           updated == UpdateAll(list, entries, results)
           After(n) == Adding(list, updated, results)[n]
           Placed(n) == \A m \in 1 .. n : results[m].verdict = "unknown" => Quiet(list, After(n), results[m].resource)
           T == {n \in 0 .. Len(results) : (list = "headers" => Gathered(After(n))) /\ Placed(n)}
<1>1. entries \in Seq(Entries) /\ Len(entries) \in Nat /\ (list = "headers" => Gathered(entries))
  BY OfInventories
<1>2. /\ Len(results) \in Nat /\ rs \subseteq Everything(list)
      /\ \A n \in 1 .. Len(results) :
           /\ results[n].resource \in rs /\ results[n].resource \in Everything(list)
           /\ results[n] = Compare(inventory, list, results[n].resource)
      /\ \A r \in rs : \E n \in 1 .. Len(results) : results[n] = Compare(inventory, list, r) /\ results[n].resource = r
  BY OneResult, ServedIsCatalogued
<1>3. \A n \in 0 .. Len(results) : Grown(list, rs, entries, After(n))
  BY RecordingGrows
<1>4. After(0) = updated /\ \A n \in 1 .. Len(results) : After(n) = Extended(list, After(n - 1), results[n])
  BY <1>2, AddingSteps
<1>5. Recording(inventory)[list] = After(Len(results))
  BY RecordingIsInventory DEF DiffOf
<1>6. Len(updated) = Len(entries)
  BY RecordingGrows
<1>7. \A r \in Everything(list) : Compare(inventory, list, r).verdict = "unknown" /\ list = "headers" => ~Known(entries, r)
  BY Comparing
<1> HIDE DEF After, updated, results, rs, entries
<1>8. 0 \in T
  <2>1. Grown(list, rs, entries, updated)
    BY <1>2, <1>3, <1>4
  <2>2. \A k \in 1 .. Len(entries) : updated[k].identify = entries[k].identify
    BY <2>1 DEF Grown, Widened
  <2>3. list = "headers" => Gathered(updated)
    BY <1>1, <1>6, <2>2, GatheredKept
  <2> QED
    BY <1>2, <1>4, <2>3
<1>9. ASSUME NEW n \in 1 .. Len(results), n - 1 \in T PROVE n \in T
  <2> DEFINE old == After(n - 1)
             r == results[n].resource
  <2>1. /\ list = "headers" => Gathered(old)
        /\ \A m \in 1 .. n - 1 : results[m].verdict = "unknown" => Quiet(list, old, results[m].resource)
        /\ Grown(list, rs, entries, old) /\ r \in rs /\ r \in Everything(list)
    BY <1>2, <1>3, <1>9
  <2>2. old \in Seq(Entries) /\ (list = "headers" => Apart(old))
    BY <2>1 DEF Grown, Gathered
  <2>3. After(n) = IF results[n].verdict = "unknown" THEN AddTo(list, old, r) ELSE old
    BY <1>4 DEF Extended
  <2>4. CASE results[n].verdict = "unknown"
    <3>1. list = "headers" => ~Known(entries, r)
      BY <1>2, <1>7, <2>1, <2>4
    <3> HIDE DEF old, r
    <3>2. list = "headers" => ~Known(old, r)
      BY <1>1, <1>2, <2>1, <3>1, UnknownStays
    <3>3. list = "headers" => Gathered(After(n))
      BY <2>1, <2>2, <2>3, <2>4, <3>2, AddingGathered
    <3>4. Quiet(list, After(n), r)
      BY <2>1, <2>2, <2>3, <2>4, QuietAfter
    <3>5. ASSUME NEW m \in 1 .. n - 1, results[m].verdict = "unknown" PROVE Quiet(list, After(n), results[m].resource)
      <4>1. Quiet(list, old, results[m].resource) /\ results[m].resource \in Everything(list)
        BY <1>2, <2>1, <3>5
      <4>2. Quiet(list, AddTo(list, old, r), results[m].resource)
        BY <2>1, <2>2, <4>1, QuietKept
      <4> QED
        BY <2>3, <2>4, <4>2
    <3>6. \A m \in 1 .. n : m \in 1 .. n - 1 \/ m = n
      OBVIOUS
    <3>7. Placed(n)
      BY <3>4, <3>5, <3>6 DEF r
    <3> HIDE DEF Placed
    <3> QED
      BY <1>2, <3>3, <3>7
  <2>5. CASE results[n].verdict # "unknown"
    <3>1. After(n) = old
      BY <2>3, <2>5
    <3> HIDE DEF old
    <3>2. \A m \in 1 .. n : m \in 1 .. n - 1 \/ m = n
      OBVIOUS
    <3>3. Placed(n)
      BY <2>1, <2>5, <3>1, <3>2
    <3> HIDE DEF Placed
    <3> QED
      BY <1>2, <2>1, <3>1, <3>3
  <2> QED
    BY <2>4, <2>5
<1>10. 0 .. Len(results) \subseteq T
  BY <1>2, <1>8, <1>9, SetInductionUpTo
<1>11. Len(results) \in T
  BY <1>2, <1>10, UpTo
<1>12. ASSUME NEW r \in rs, Compare(inventory, list, r).verdict = "unknown" PROVE Quiet(list, After(Len(results)), r)
  <2>1. PICK n \in 1 .. Len(results) : results[n] = Compare(inventory, list, r) /\ results[n].resource = r
    BY <1>2
  <2> QED
    BY <1>11, <1>12, <2>1
<1> QED
  BY <1>5, <1>11, <1>12 DEF rs

\* A second pass over the same page leaves everything as it is.
LEMMA SecondPass ==
  ASSUME Legible, HeadersApart, page \in Pages, NEW inventory \in Inventories, Gathered(inventory.headers)
  PROVE  Recording(Recording(inventory)) = Recording(inventory)
<1> DEFINE once == Recording(inventory)
<1>1. once \in Inventories /\ \A list \in Lists : Grown(list, Served(list), inventory[list], once[list])
  BY RecordingIsInventory
<1>2. ASSUME NEW list \in Lists PROVE Recording(once)[list] = once[list]
  <2> DEFINE entries == once[list]
             results == Results(once, list)
             After(n) == Adding(list, entries, results)[n]
             T == {n \in 0 .. Len(results) : After(n) = entries}
  <2>1. /\ Len(results) \in Nat
        /\ \A n \in 1 .. Len(results) :
             /\ results[n].resource \in Served(list) /\ results[n].resource \in Everything(list)
             /\ results[n] = Compare(once, list, results[n].resource)
    BY <1>1, OneResult
  <2>2. UpdateAll(list, entries, results) = entries
    BY NothingToUpdate
  <2>3. Recording(once)[list] = After(Len(results))
    BY <1>1, <2>2, RecordingIsInventory DEF DiffOf
  <2>4. After(0) = entries /\ \A n \in 1 .. Len(results) : After(n) = Extended(list, After(n - 1), results[n])
    BY <2>1, AddingSteps
  <2>5. \A r \in Served(list) : Compare(inventory, list, r).verdict = "unknown" => Quiet(list, entries, r)
    BY RecordingGathers
  <2>6. Grown(list, Served(list), inventory[list], entries) /\ entries \in Seq(Entries) /\ inventory[list] \in Seq(Entries)
    BY <1>1, OfInventories DEF Grown
  <2>7. \A r : /\ Compare(once, list, r).verdict = "unknown" <=> (list = "scripts" /\ r.content = "") \/ ~Known(entries, r)
               /\ Compare(inventory, list, r).verdict = "unknown" <=>
                    (list = "scripts" /\ r.content = "") \/ ~Known(inventory[list], r)
    BY <1>1, Comparing
  <2>8. \A r : Known(entries, r) <=> Known(inventory[list], r)
    BY <2>6, UnknownStays, ServedIsCatalogued
  <2> HIDE DEF After, results, entries, once
  <2>9. 0 \in T
    BY <2>1, <2>4
  <2>10. ASSUME NEW n \in 1 .. Len(results), n - 1 \in T PROVE n \in T
    <3> DEFINE r == results[n].resource
    <3>1. After(n - 1) = entries /\ r \in Served(list) /\ r \in Everything(list) /\ results[n] = Compare(once, list, r)
      BY <2>1, <2>10
    <3>2. After(n) = IF results[n].verdict = "unknown" THEN AddTo(list, entries, r) ELSE entries
      BY <2>4, <3>1 DEF Extended
    <3> HIDE DEF r
    <3>3. CASE results[n].verdict = "unknown"
      <4>1. Compare(inventory, list, r).verdict = "unknown"
        BY <2>7, <2>8, <3>1, <3>3
      <4>2. AddTo(list, entries, r) = entries
        BY <2>5, <2>6, <3>1, <4>1, QuietAddsNothing
      <4> QED
        BY <2>1, <3>2, <3>3, <4>2
    <3> QED
      BY <2>1, <3>2, <3>3
  <2>11. 0 .. Len(results) \subseteq T
    BY <2>1, <2>9, <2>10, SetInductionUpTo
  <2>12. After(Len(results)) = entries
    BY <2>1, <2>11, UpTo
  <2> QED
    BY <2>3, <2>12 DEF entries
<1>3. Recording(once) \in Inventories
  BY <1>1, RecordingIsInventory
<1> HIDE DEF once
<1>4. once["scripts"] = once.scripts /\ once["headers"] = once.headers
      /\ Recording(once)["scripts"] = Recording(once).scripts /\ Recording(once)["headers"] = Recording(once).headers
  OBVIOUS
<1>5. Recording(once).scripts = once.scripts /\ Recording(once).headers = once.headers
  BY <1>2, <1>4 DEF Lists
<1>6. Recording(once) = once
  BY <1>1, <1>3, <1>5, OfInventories
<1> QED
  BY <1>6 DEF once

(***************************************************************************)
(* The counters of a commit count.                                         *)
(***************************************************************************)
LEMMA TotalCounts ==
  ASSUME NEW counts \in Seq(Nat)
  PROVE  Total(counts) \in Nat
<1> DEFINE n == Len(counts)
           step == [p \in Nat \X Nat |-> IF p[1] \in 1 .. n THEN p[2] + counts[p[1]] ELSE p[2]]
<1>1. n \in Nat /\ \A k \in 1 .. n : counts[k] \in Nat
  OBVIOUS
<1>2. step \in [Nat \X Nat -> Nat]
  <2> HIDE DEF n
  <2> QED
    BY <1>1
<1> HIDE DEF n
<1>3. PICK g \in [0 .. n -> Nat] : g[0] = 0 /\ \A k \in 1 .. n : g[k] = step[<<k, g[k - 1]>>]
  <2> HIDE DEF step
  <2>1. Courses(Nat, 0, step, n) # {}
    BY <1>1, <1>2, Recursion
  <2> QED
    BY <2>1 DEF Courses
<1>4. ASSUME NEW k \in 1 .. n PROVE g[k] = g[k - 1] + counts[k]
  <2>1. k \in Nat /\ k - 1 \in 0 .. n
    BY <1>1
  <2>2. <<k, g[k - 1]>> \in Nat \X Nat
    BY <2>1
  <2> QED
    BY <1>3, <2>2
<1>5. g = [k \in 0 .. n |-> IF k = 0 THEN 0 ELSE g[k - 1] + counts[k]]
  <2>1. ASSUME NEW k \in 0 .. n PROVE g[k] = IF k = 0 THEN 0 ELSE g[k - 1] + counts[k]
    BY <1>1, <1>3, <1>4
  <2>2. g = [k \in 0 .. n |-> g[k]]
    OBVIOUS
  <2> QED
    BY <2>1, <2>2
<1>6. PICK f : f = [k \in 0 .. n |-> IF k = 0 THEN 0 ELSE f[k - 1] + counts[k]] /\ Total(counts) = f[n]
  BY <1>5 DEF Total, n
<1>7. f[0] = 0 /\ \A k \in 1 .. n : f[k] = f[k - 1] + counts[k]
  <2>1. 0 \in 0 .. n /\ \A k \in 1 .. n : k \in 0 .. n /\ k # 0
    BY <1>1
  <2> QED
    BY <1>6, <2>1
<1> DEFINE T == {k \in 0 .. n : f[k] \in Nat}
<1>8. 0 \in T
  BY <1>1, <1>7
<1>9. ASSUME NEW k \in 1 .. n, k - 1 \in T PROVE k \in T
  <2>1. f[k - 1] \in Nat
    BY <1>9
  <2>2. counts[k] \in Nat /\ k \in 0 .. n /\ f[k] = f[k - 1] + counts[k]
    BY <1>1, <1>7
  <2> QED
    BY <2>1, <2>2
<1>10. 0 .. n \subseteq T
  BY <1>1, <1>8, <1>9, SetInductionUpTo
<1>11. f[n] \in Nat
  BY <1>1, <1>10, UpTo
<1> QED
  BY <1>6, <1>11

\* Of what the children of a composite count each.
Counts(m, count) == [k \in 1 .. Len(m.children) |-> count[m.children[k]]]

LEMMA ChildrenCount ==
  ASSUME NEW K, NEW S, NEW m \in Composites(K, S), NEW count \in [S -> Nat]
  PROVE  Total(Counts(m, count)) \in Nat
<1>1. Len(m.children) \in Nat /\ \A k \in 1 .. Len(m.children) : m.children[k] \in S
  BY Children
<1>2. Counts(m, count) \in Seq(Nat)
  BY <1>1 DEF Counts
<1> QED
  BY <1>2, TotalCounts

LEMMA HashesCount == \A m \in AllMatchers : CountHashes(m) \in Nat
<1>1. ASSUME NEW m \in Leaves
      PROVE  /\ CountHashesLeaf(m) \in Nat /\ CountHashesFlat(m) \in Nat
             /\ CountHashesNested(m) \in Nat /\ CountHashes(m) \in Nat
  <2>1. ~Composite(m)
    BY Shapes
  <2>2. m.kind = "hash" => Cardinality(m.accepts) \in Nat
    <3>1. m.kind = "hash" => IsFiniteSet(m.accepts)
      BY DEF Leaves, PlainLeaves, PlainKinds, HashLeaves, ContentLeaves, CspLeaves, ChainLeaves
    <3> QED
      BY <3>1, FS_CardinalityType
  <2> QED
    BY <2>1, <2>2 DEF CountHashesLeaf, CountHashesFlat, CountHashesNested, CountHashes, CountHashesBy
<1>2. ASSUME NEW m \in FlatMatchers
      PROVE  CountHashesFlat(m) \in Nat /\ CountHashesNested(m) \in Nat
  <2>1. CASE m \in Composites({"or", "and"}, Leaves)
    <3>1. Composite(m) /\ m.kind # "hash" /\ \A k \in 1 .. Len(m.children) : m.children[k] \in Leaves
      BY <2>1, Children DEF Composite
    <3> DEFINE leaf == [child \in Leaves |-> CountHashesLeaf(child)]
               flat == [child \in Leaves |-> CountHashesFlat(child)]
    <3>2. Total(Counts(m, leaf)) \in Nat /\ Total(Counts(m, flat)) \in Nat
      <4>1. leaf \in [Leaves -> Nat] /\ flat \in [Leaves -> Nat]
        BY <1>1
      <4> HIDE DEF leaf, flat
      <4> QED
        BY <2>1, <4>1, ChildrenCount
    <3>3. CountHashesFlat(m) = Total(Counts(m, leaf))
      <4>1. Counts(m, leaf) = [k \in 1 .. Len(m.children) |-> CountHashesLeaf(m.children[k])]
        BY <3>1 DEF Counts
      <4> QED
        BY <3>1, <4>1 DEF CountHashesFlat, CountHashesBy, Each
    <3>4. CountHashesNested(m) = Total(Counts(m, flat))
      <4>1. Counts(m, flat) = [k \in 1 .. Len(m.children) |-> CountHashesFlat(m.children[k])]
        BY <3>1 DEF Counts
      <4> QED
        BY <3>1, <4>1 DEF CountHashesNested, CountHashesBy, Each
    <3> QED
      BY <3>2, <3>3, <3>4
  <2> QED
    BY <1>1, <2>1 DEF FlatMatchers
<1>3. ASSUME NEW m \in NestedMatchers PROVE CountHashesNested(m) \in Nat
  <2>1. CASE m \in Composites({"or", "and"}, FlatMatchers)
    <3>1. Composite(m) /\ m.kind # "hash" /\ \A k \in 1 .. Len(m.children) : m.children[k] \in FlatMatchers
      BY <2>1, Children DEF Composite
    <3> DEFINE flat == [child \in FlatMatchers |-> CountHashesFlat(child)]
    <3>2. Total(Counts(m, flat)) \in Nat
      <4>1. flat \in [FlatMatchers -> Nat]
        BY <1>2
      <4> HIDE DEF flat
      <4> QED
        BY <2>1, <4>1, ChildrenCount
    <3>3. Counts(m, flat) = [k \in 1 .. Len(m.children) |-> CountHashesFlat(m.children[k])]
      BY <3>1 DEF Counts
    <3> QED
      BY <3>1, <3>2, <3>3 DEF CountHashesNested, CountHashesBy, Each
  <2> QED
    BY <1>1, <2>1 DEF NestedMatchers
<1>4. ASSUME NEW m \in AllMatchers PROVE CountHashes(m) \in Nat
  <2>1. CASE m \in Composites({"or", "and"}, NestedMatchers)
    <3>1. Composite(m) /\ m.kind # "hash" /\ \A k \in 1 .. Len(m.children) : m.children[k] \in NestedMatchers
      BY <2>1, Children DEF Composite
    <3> DEFINE nested == [child \in NestedMatchers |-> CountHashesNested(child)]
    <3>2. Total(Counts(m, nested)) \in Nat
      <4>1. nested \in [NestedMatchers -> Nat]
        BY <1>3
      <4> HIDE DEF nested
      <4> QED
        BY <2>1, <4>1, ChildrenCount
    <3>3. Counts(m, nested) = [k \in 1 .. Len(m.children) |-> CountHashesNested(m.children[k])]
      BY <3>1 DEF Counts
    <3> QED
      BY <3>1, <3>2, <3>3 DEF CountHashes, CountHashesBy, Each
  <2> QED
    BY <1>1, <2>1 DEF AllMatchers
<1> QED
  BY <1>4

LEMMA AlternativesCount == \A m \in AllMatchers : CountAlternatives(m) \in Nat
<1>1. ASSUME NEW m, m.kind # "or"
      PROVE  CountAlternativesFlat(m) = 1 /\ CountAlternativesNested(m) = 1 /\ CountAlternatives(m) = 1
  BY <1>1 DEF CountAlternativesFlat, CountAlternativesNested, CountAlternatives, CountAlternativesBy
<1>2. ASSUME NEW m \in FlatMatchers PROVE CountAlternativesFlat(m) \in Nat
  <2>1. CASE m.kind = "or"
    <3>1. m \in Composites({"or", "and"}, Leaves)
      BY <2>1, Shapes DEF FlatMatchers, Composite
    <3> DEFINE one == [child \in Leaves |-> 1]
    <3>2. Total(Counts(m, one)) \in Nat
      <4>1. one \in [Leaves -> Nat]
        OBVIOUS
      <4> HIDE DEF one
      <4> QED
        BY <3>1, <4>1, ChildrenCount
    <3>3. Counts(m, one) = [k \in 1 .. Len(m.children) |-> 1]
      BY <3>1, Children DEF Counts
    <3> QED
      BY <2>1, <3>2, <3>3 DEF CountAlternativesFlat, CountAlternativesBy, Each
  <2> QED
    BY <1>1, <2>1
<1>3. ASSUME NEW m \in NestedMatchers PROVE CountAlternativesNested(m) \in Nat
  <2>1. CASE m.kind = "or"
    <3>1. m \in Composites({"or", "and"}, FlatMatchers)
      BY <2>1, Shapes DEF NestedMatchers, Composite
    <3> DEFINE flat == [child \in FlatMatchers |-> CountAlternativesFlat(child)]
    <3>2. Total(Counts(m, flat)) \in Nat
      <4>1. flat \in [FlatMatchers -> Nat]
        BY <1>2
      <4> HIDE DEF flat
      <4> QED
        BY <3>1, <4>1, ChildrenCount
    <3>3. Counts(m, flat) = [k \in 1 .. Len(m.children) |-> CountAlternativesFlat(m.children[k])]
      BY <3>1, Children DEF Counts
    <3> QED
      BY <2>1, <3>2, <3>3 DEF CountAlternativesNested, CountAlternativesBy, Each
  <2> QED
    BY <1>1, <2>1
<1>4. ASSUME NEW m \in AllMatchers PROVE CountAlternatives(m) \in Nat
  <2>1. CASE m.kind = "or"
    <3>1. m \in Composites({"or", "and"}, NestedMatchers)
      BY <2>1, Shapes DEF AllMatchers, Composite
    <3> DEFINE nested == [child \in NestedMatchers |-> CountAlternativesNested(child)]
    <3>2. Total(Counts(m, nested)) \in Nat
      <4>1. nested \in [NestedMatchers -> Nat]
        BY <1>3
      <4> HIDE DEF nested
      <4> QED
        BY <3>1, <4>1, ChildrenCount
    <3>3. Counts(m, nested) = [k \in 1 .. Len(m.children) |-> CountAlternativesNested(m.children[k])]
      BY <3>1, Children DEF Counts
    <3> QED
      BY <2>1, <3>2, <3>3 DEF CountAlternatives, CountAlternativesBy, Each
  <2> QED
    BY <1>1, <2>1
<1> QED
  BY <1>4

\* There is nothing to commit of what is as it was.
LEMMA NoChanges ==
  ASSUME NEW inventory \in Inventories
  PROVE  ~HasChanges(inventory, inventory)
<1>1. ASSUME NEW e \in Entries PROVE CountHashes(AsMatcher(e)) \in Nat /\ CountAlternatives(AsMatcher(e)) \in Nat
  <2> DEFINE raw == Written(e)
  <2>1. raw \in Readable
    BY WrittenIsForm DEF Forms
  <2>2. /\ raw.items[1] \in WholeMatchers /\ raw.items # <<>>
        /\ raw.form = "array" => raw.items \in Seq(NestedMatchers)
    BY <2>1, FormFacts
  <2>3. raw.form = "array" => Or(raw.items) \in AllMatchers
    BY <2>2, NoInfoFacts DEF Or, AllMatchers, Composites
  <2>4. AsMatcher(e) \in AllMatchers
    BY <2>2, <2>3, WholeIsAll DEF AsMatcher, MatcherOf
  <2> QED
    BY <2>4, HashesCount, AlternativesCount
<1>2. /\ Len(inventory.scripts) \in Nat /\ Len(inventory.headers) \in Nat
      /\ \A k \in 1 .. Len(inventory.scripts) : inventory.scripts[k] \in Entries
      /\ \A k \in 1 .. Len(inventory.headers) : inventory.headers[k] \in Entries
  BY DEF Inventories
<1>3. \A n \in Nat : ~(n > n)
  OBVIOUS
<1> QED
  BY <1>1, <1>2, <1>3 DEF HasChanges

\* A pass that finds what the last one found proposes nothing: whatever was
\* approved, parked or half approved before it, the diff of its results is
\* empty, and no commit is pushed run after run (diff and
\* buildInventoryCommitMessage of src/services/inventory.ts).  Of the headers
\* at most one entry is about each, which HeadersApart makes true at first and
\* every pass and review keeps: where two were, a value would be looked for in
\* one of them and recorded in the other.
THEOREM SecondPassAddsNothing ==
  ASSUME Legible, HeadersApart
  PROVE  Spec => []NothingGrows
<1>1. Init => Gathered(branch.headers)
  <2>1. ASSUME Init PROVE Gathered(branch.headers)
    <3>1. branch.headers = Curated.headers /\ Curated["headers"] = Curated.headers
      BY <2>1 DEF Init
    <3>2. \A r \in Everything("headers") : SameHeader(r, r)
      BY DEF SameHeader
    <3>3. Apart(Curated.headers)
      BY <3>2 DEF Apart, HeadersApart
    <3>4. \A k \in 1 .. Len(Curated.headers) : Curated.headers[k].identify \in Identities("headers")
      BY <3>1 DEF Identities
    <3> QED
      BY <3>1, <3>3, <3>4 DEF Gathered
  <2> QED
    BY <2>1
<1>2. ASSUME TypeOK, Gathered(branch.headers), [Next]_vars PROVE Gathered(branch.headers)'
  <2>0. page \in Pages /\ branch \in Inventories /\ branch.headers = branch["headers"] /\ "headers" \in Lists
    BY <1>2 DEF TypeOK, Lists
  <2>1. CASE InventoryPass
    <3>1. branch' = Recording(branch) \/ branch' = branch
      BY <2>0, <2>1, RecordingIsInventory, StoredIsSame DEF InventoryPass
    <3>2. Gathered(Recording(branch)["headers"])
      BY <1>2, <2>0, RecordingGathers
    <3> QED
      BY <1>2, <3>1, <3>2
  <2>2. CASE ApproveAll \/ ApproveOne \/ Park
    <3>1. ReviewedAll(branch, branch') /\ branch'.headers = branch'["headers"]
      BY <2>0, <2>2, ReviewersStep
    <3>2. /\ Len(branch'.headers) = Len(branch.headers)
          /\ \A k \in 1 .. Len(branch.headers) : branch'.headers[k].identify = branch.headers[k].identify
      BY <2>0, <3>1 DEF ReviewedAll, Reviewed
    <3>3. Gathered(branch'.headers)
      BY <1>2, <3>2, GatheredKept
    <3> QED
      BY <3>3
  <2>3. CASE Deploy \/ Merge \/ UNCHANGED vars
    <3>1. branch' = branch
      BY <2>3 DEF Deploy, Merge, vars
    <3> QED
      BY <1>2, <3>1
  <2> QED
    BY <1>2, <2>1, <2>2, <2>3 DEF Next
<1>3. ASSUME TypeOK, Gathered(branch.headers) PROVE NothingGrows
  <2>1. page \in Pages /\ branch \in Inventories
    BY <1>3 DEF TypeOK
  <2>2. Recording(branch) \in Inventories
    BY <2>1, RecordingIsInventory
  <2>3. Stored(Recording(branch)) = Recording(branch)
    BY <2>2, StoredIsSame
  <2>4. Recording(Recording(branch)) = Recording(branch)
    BY <1>3, <2>1, SecondPass
  <2>5. ~HasChanges(Recording(branch), Recording(branch))
    BY <2>2, NoChanges
  <2> QED
    BY <2>3, <2>4, <2>5 DEF NothingGrows
<1> QED
  BY <1>1, <1>2, <1>3, TypeCorrect, PTL DEF Spec

(***************************************************************************)
(* The walk of a chain: what it may go over.                               *)
(***************************************************************************)
\* The first hops there are, for the script a walk is for and the others.
HopsOf(run, o) == {FirstHop(run, o), Hop("unknown", "")} \cup {FirstHop(run, run[k]) : k \in 1 .. Len(run)}

\* Who may have loaded the script a hop names.
Loaders(run, hop) == {FirstHop(run, run[k]) : k \in {j \in 1 .. Len(run) : run[j].url = hop.url}}

Onward(run, hop) == Loaders(run, hop) \cup {Hop("unknown", "")}

\* A path: from the hop of the script's own evidence outward, each hop a loader
\* of the one before it, or unknown.
Trails(run, o) ==
  {path \in Seq(HopsOf(run, o)) :
     /\ Len(path) \in 1 .. MaxDepth /\ path[1] = FirstHop(run, o)
     /\ \A k \in 1 .. Len(path) - 1 : path[k + 1] \in Onward(run, path[k])}

VisitedBy(run, o) == {o.url} \cup {hop.url : hop \in HopsOf(run, o)}

WalkCalls(run, o) == [path : Trails(run, o), visited : SUBSET VisitedBy(run, o), ends : BOOLEAN]

WalkStates(run, o) == [paths : Seq(Trails(run, o)), calls : Seq(WalkCalls(run, o))]

\* Each of the hops of a sequence once is a sequence of these hops.
LEMMA OnceIsOf ==
  ASSUME NEW E, NEW hops \in Seq(E)
  PROVE  Once(hops) \in Seq(E)
<1> DEFINE seqs == [k \in 1 .. Len(hops) |->
                      IF hops[k] = NoHop \/ \E j \in 1 .. k - 1 : hops[j] = hops[k] THEN <<>> ELSE <<hops[k]>>]
<1>1. \A k \in 1 .. Len(hops) : seqs[k] \in Seq(E)
  OBVIOUS
<1>2. seqs \in Seq(Seq(E))
  BY <1>1
<1> QED
  BY <1>2, ElementsOfFlatten DEF Once

LEMMA ParentsAreLoaders ==
  ASSUME NEW run, Len(run) \in Nat, NEW hop
  PROVE  ParentsOf(run, hop) \in Seq(Loaders(run, hop))
<1> DEFINE E == Loaders(run, hop)
           seqs == [k \in 1 .. Len(run) |-> IF run[k].url = hop.url THEN <<FirstHop(run, run[k])>> ELSE <<>>]
<1>1. ASSUME NEW k \in 1 .. Len(run) PROVE seqs[k] \in Seq(E)
  <2>1. run[k].url = hop.url => FirstHop(run, run[k]) \in E
    BY DEF Loaders
  <2> HIDE DEF E
  <2> QED
    BY <2>1
<1> HIDE DEF E
<1>2. seqs \in Seq(Seq(E))
  BY <1>1
<1>3. HopsAt(run, hop.url) \in Seq(E)
  BY <1>2, ElementsOfFlatten DEF HopsAt
<1> QED
  BY <1>3, OnceIsOf DEF ParentsOf, E

LEMMA LongerSeq ==
  ASSUME NEW H, NEW path \in Seq(H), NEW hop \in H
  PROVE  /\ Append(path, hop) \in Seq(H) /\ Len(path) \in Nat /\ Len(Append(path, hop)) = Len(path) + 1
         /\ Append(path, hop)[Len(path) + 1] = hop
         /\ \A k \in 1 .. Len(path) : Append(path, hop)[k] = path[k]
OBVIOUS

LEMMA LongerTrail ==
  ASSUME NEW run, NEW o, NEW path \in Trails(run, o), Len(path) < MaxDepth, NEW hop \in Onward(run, path[Len(path)])
  PROVE  hop \in HopsOf(run, o) /\ Append(path, hop) \in Trails(run, o)
<1> DEFINE H == HopsOf(run, o)
           longer == Append(path, hop)
<1>1. hop \in H
  BY DEF HopsOf, Onward, Loaders
<1>2. path \in Seq(H) /\ Len(path) \in 1 .. MaxDepth /\ path[1] = FirstHop(run, o) /\ MaxDepth \in Nat
  BY LoadsAssumption DEF Trails
<1> HIDE DEF H
<1>3. /\ longer \in Seq(H) /\ Len(path) \in Nat /\ Len(longer) = Len(path) + 1 /\ longer[Len(path) + 1] = hop
      /\ \A k \in 1 .. Len(path) : longer[k] = path[k]
  BY <1>1, <1>2, LongerSeq
<1> HIDE DEF longer
<1> DEFINE len == Len(path)
<1>a. len \in Nat /\ len >= 1 /\ len < MaxDepth /\ MaxDepth \in Nat /\ Len(longer) = len + 1
  BY <1>2, <1>3
<1> HIDE DEF len
<1>4. Len(longer) \in 1 .. MaxDepth /\ longer[1] = FirstHop(run, o)
  <2>1. 1 \in 1 .. Len(path)
    BY <1>a DEF len
  <2> QED
    BY <1>2, <1>3, <1>a, <2>1
<1>5. ASSUME NEW k \in 1 .. Len(longer) - 1
      PROVE  longer[k + 1] \in Onward(run, longer[k])
  <2>1. CASE k = Len(path)
    <3>0. k \in 1 .. Len(path)
      BY <1>a, <2>1 DEF len
    <3>1. longer[k + 1] = hop /\ longer[k] = path[Len(path)]
      BY <1>3, <2>1, <3>0
    <3> QED
      BY <3>1
  <2>2. CASE k # Len(path)
    <3>1. k \in 1 .. Len(path) - 1 /\ k \in 1 .. Len(path) /\ k + 1 \in 1 .. Len(path)
      BY <1>a, <2>2 DEF len
    <3>2. longer[k] = path[k] /\ longer[k + 1] = path[k + 1]
      BY <1>3, <3>1
    <3>3. path[k + 1] \in Onward(run, path[k])
      BY <3>1 DEF Trails
    <3> QED
      BY <3>2, <3>3
  <2> QED
    BY <2>1, <2>2
<1> QED
  BY <1>1, <1>3, <1>4, <1>5 DEF Trails, H, longer

LEMMA CallForIsCall ==
  ASSUME NEW run, NEW o, NEW call \in WalkCalls(run, o), Len(call.path) < MaxDepth,
         NEW parent \in Loaders(run, LastHop(call))
  PROVE  CallFor(call, parent) \in WalkCalls(run, o)
<1>1. call.path \in Trails(run, o) /\ call.visited \in SUBSET VisitedBy(run, o)
  BY DEF WalkCalls
<1>2. parent \in HopsOf(run, o) /\ Append(call.path, parent) \in Trails(run, o)
  BY <1>1, LongerTrail DEF LastHop, Onward
<1>3. Visiting(call.visited, parent) \in SUBSET VisitedBy(run, o)
  BY <1>1, <1>2 DEF Visiting, VisitedBy
<1> QED
  BY <1>1, <1>2, <1>3 DEF CallFor, Call, WalkCalls

LEMMA ReturnsAndKeeps ==
  ASSUME NEW T, NEW C, NEW walk \in [paths : Seq(T), calls : Seq(C)], walk.calls # <<>>
  PROVE  /\ Head(walk.calls) \in C
         /\ Return(walk) \in [paths : Seq(T), calls : Seq(C)]
         /\ \A path \in T : Keep(walk, path) \in [paths : Seq(T), calls : Seq(C)]
<1>1. walk.paths \in Seq(T) /\ walk.calls \in Seq(C)
  OBVIOUS
<1>2. Head(walk.calls) \in C /\ Tail(walk.calls) \in Seq(C) /\ \A path \in T : Append(walk.paths, path) \in Seq(T)
  BY <1>1
<1> QED
  BY <1>1, <1>2 DEF Return, Keep

LEMMA ExtendIsWalk ==
  ASSUME NEW run, Len(run) \in Nat, NEW o, NEW walk \in WalkStates(run, o)
  PROVE  Extend(run, walk) \in WalkStates(run, o)
<1>1. CASE walk.calls = <<>>
  BY <1>1 DEF Extend
<1>2. CASE walk.calls # <<>>
  <2> DEFINE call == Head(walk.calls)
             last == LastHop(call)
             parents == ParentsOf(run, last)
             T == Trails(run, o)
             C == WalkCalls(run, o)
  <2>1. /\ call \in C /\ Return(walk) \in WalkStates(run, o)
        /\ \A path \in T : Keep(walk, path) \in WalkStates(run, o)
    BY <1>2, ReturnsAndKeeps DEF WalkStates
  <2>2. Extend(run, walk) = ExtendBy(walk, call, last, parents)
    BY <1>2 DEF Extend
  <2>3. parents \in Seq(Loaders(run, last))
    BY ParentsAreLoaders
  <2>4. call.path \in T /\ Len(call.path) \in Nat /\ MaxDepth \in Nat
    <3>1. call.path \in T
      BY <2>1 DEF WalkCalls
    <3>2. T \subseteq Seq(HopsOf(run, o))
      BY DEF Trails
    <3> HIDE DEF call, T
    <3> QED
      BY <3>1, <3>2, LoadsAssumption
  <2>5. walk.paths \in Seq(T) /\ walk.calls \in Seq(C)
    BY DEF WalkStates
  <2>6. CASE /\ ~call.ends /\ ~(Len(walk.paths) >= MaxPaths)
             /\ ~(last.kind # "script" \/ Len(call.path) >= MaxDepth)
    <3>1. Len(call.path) < MaxDepth
      BY <2>4, <2>6
    <3>2. CASE parents = <<>>
      <4>1. Append(call.path, Hop("unknown", "")) \in T
        BY <2>4, <3>1, LongerTrail DEF Onward
      <4>2. Extend(run, walk) = Keep(walk, Append(call.path, Hop("unknown", "")))
        BY <2>2, <2>6, <3>2 DEF ExtendBy
      <4> QED
        BY <2>1, <4>1, <4>2
    <3>3. CASE parents # <<>>
      <4> DEFINE calls == [k \in 1 .. Len(parents) |-> CallFor(call, parents[k])]
      <4>1. ASSUME NEW k \in 1 .. Len(parents) PROVE CallFor(call, parents[k]) \in C
        <5>1. parents[k] \in Loaders(run, last)
          BY <2>3
        <5> QED
          BY <2>1, <3>1, <5>1, CallForIsCall
      <4>2. Len(parents) \in Nat
        BY <2>3
      <4> HIDE DEF call, last, parents, C, T
      <4>3. calls \in Seq(C)
        BY <4>1, <4>2
      <4>4. Tail(walk.calls) \in Seq(C)
        BY <1>2, <2>5
      <4> HIDE DEF calls
      <4>5. calls \o Tail(walk.calls) \in Seq(C)
        BY <4>3, <4>4, ElementsOfConcat
      <4>6. Extend(run, walk) = [walk EXCEPT !.calls = calls \o Tail(@)]
        BY <2>2, <2>6, <3>3 DEF ExtendBy, CallAll, calls
      <4> QED
        BY <2>5, <4>5, <4>6 DEF WalkStates, T, C
    <3> QED
      BY <3>2, <3>3
  <2>7. CASE \/ call.ends \/ Len(walk.paths) >= MaxPaths
             \/ last.kind # "script" \/ Len(call.path) >= MaxDepth
    <3>1. Extend(run, walk) = Keep(walk, call.path) \/ Extend(run, walk) = Return(walk)
      <4> HIDE DEF call, last, parents
      <4> QED
        BY <2>2, <2>7 DEF ExtendBy
    <3> QED
      BY <2>1, <2>4, <3>1
  <2> QED
    BY <2>6, <2>7
<1> QED
  BY <1>1, <1>2

LEMMA WalkTakesSteps ==
  ASSUME NEW run, Len(run) \in Nat, NEW o, NEW start \in WalkStates(run, o)
  PROVE  Walks(run, start)[WalkSteps(run)] \in WalkStates(run, o)
<1> DEFINE S == WalkStates(run, o)
           n == WalkSteps(run)
           step == [s \in S |-> Extend(run, s)]
           Follows(f) == f = [k \in 0 .. n |-> IF k = 0 THEN start ELSE Extend(run, f[k - 1])]
<1>1. n \in Nat
  BY LoadsAssumption DEF WalkSteps
<1>2. step \in [S -> S]
  BY ExtendIsWalk
<1>3. \E f : Follows(f)
  <2> HIDE DEF S, n, step
  <2>1. PICK f \in [0 .. n -> S] : f = [k \in 0 .. n |-> IF k = 0 THEN start ELSE step[f[k - 1]]]
    <3>1. start \in S
      BY DEF S
    <3>2. Iterations(S, start, step, n) # {}
      BY <1>1, <1>2, <3>1, Iterates
    <3> QED
      BY <3>2 DEF Iterations
  <2>2. ASSUME NEW k \in 0 .. n
        PROVE  (IF k = 0 THEN start ELSE step[f[k - 1]]) = IF k = 0 THEN start ELSE Extend(run, f[k - 1])
    <3>1. k # 0 => k - 1 \in 0 .. n
      BY <1>1
    <3>2. k # 0 => f[k - 1] \in S
      BY <3>1
    <3> QED
      BY <3>2 DEF step
  <2>3. Follows(f)
    BY <2>1, <2>2, Zenon
  <2> QED
    BY <2>3
<1>4. PICK f : Follows(f) /\ Walks(run, start) = f
  BY <1>3 DEF Walks
<1> HIDE DEF S, n
<1>5. f[0] = start /\ \A k \in 1 .. n : f[k] = Extend(run, f[k - 1])
  BY <1>1, <1>4
<1> DEFINE T == {k \in 0 .. n : f[k] \in S}
<1>6. 0 \in T
  BY <1>1, <1>5 DEF S
<1>7. ASSUME NEW k \in 1 .. n, k - 1 \in T PROVE k \in T
  BY <1>1, <1>5, <1>7, ExtendIsWalk DEF S
<1>8. 0 .. n \subseteq T
  <2> HIDE DEF T
  <2> QED
    BY <1>1, <1>6, <1>7, SetInductionUpTo
<1>9. f[n] \in S
  BY <1>1, <1>8
<1> QED
  BY <1>4, <1>9, Zenon DEF S, n

\* What a walk leaves is paths.
LEMMA PathsAreTrails ==
  ASSUME NEW run, Len(run) \in Nat, NEW o
  PROVE  Paths(run, o) \in Seq(Trails(run, o))
<1> DEFINE first == FirstHop(run, o)
           start == StartOf(o, first)
<1>1. first \in HopsOf(run, o)
  BY DEF HopsOf
<1> HIDE DEF first
<1>2. <<first>> \in Seq(HopsOf(run, o)) /\ Len(<<first>>) = 1 /\ <<first>>[1] = first
  BY <1>1
<1>3. <<first>> \in Trails(run, o)
  <2>1. 1 \in 1 .. MaxDepth /\ 1 .. 1 - 1 = {}
    BY LoadsAssumption
  <2> QED
    BY <1>2, <2>1 DEF Trails, first
<1>4. Visiting({o.url}, first) \in SUBSET VisitedBy(run, o)
  BY <1>1 DEF Visiting, VisitedBy
<1>5. Call(<<first>>, Visiting({o.url}, first)) \in WalkCalls(run, o)
  BY <1>3, <1>4 DEF Call, WalkCalls
<1>6. start \in WalkStates(run, o)
  BY <1>5 DEF StartOf, WalkStates
<1>7. Walks(run, start)[WalkSteps(run)].paths \in Seq(Trails(run, o))
  <2> HIDE DEF start
  <2> QED
    BY <1>6, WalkTakesSteps DEF WalkStates
<1>8. <<>> \in Seq(Trails(run, o))
  OBVIOUS
<1>9. Paths(run, o) = WalkFrom(run, o, first)
  BY DEF Paths, first
<1> HIDE DEF start
<1> QED
  BY <1>7, <1>8, <1>9 DEF WalkFrom, start

(***************************************************************************)
(* What the first pass hands over: each observation with its paths.        *)
(***************************************************************************)
Judged(run, o) == [observation |-> o, result |-> CompareScript(Inventory, Resource(run, o))]

Judgements(run) == {Judged(run, o) : o \in ToSet(run)}

\* The paths of all that is judged are paths of its own.
HasItsPaths(run, judged) ==
  /\ Len(judged) \in Nat /\ DOMAIN run = 1 .. Len(run)
  /\ \A k \in 1 .. Len(judged) :
       /\ judged[k].observation \in ToSet(run)
       /\ PathsOf(judged[k]) \in Seq(Trails(run, judged[k].observation))

LEMMA ResultKeepsPaths ==
  ASSUME NEW run, NEW o
  PROVE  PathsOf(Judged(run, o)) = Paths(run, o) /\ Judged(run, o).observation = o
<1> DEFINE r == Resource(run, o)
<1>1. r.paths = Paths(run, o)
  BY DEF Resource, Unevidenced
<1> HIDE DEF r
<1>2. CompareScript(Inventory, r).resource = r
  BY DEF CompareScript, EvaluateScript, ScriptVerdict, Result
<1>3. Judged(run, o).result = CompareScript(Inventory, r) /\ Judged(run, o).observation = o
  BY DEF Judged, r
<1> HIDE DEF Judged
<1> QED
  BY <1>1, <1>2, <1>3 DEF PathsOf

LEMMA OfTypeIsOf ==
  ASSUME NEW run, Len(run) \in Nat, NEW type
  PROVE  OfType(run, type) \in Seq(ToSet(run))
<1> DEFINE E == ToSet(run)
           seqs == [k \in 1 .. Len(run) |-> IF run[k].type = type THEN <<run[k]>> ELSE <<>>]
<1>1. ASSUME NEW k \in 1 .. Len(run) PROVE seqs[k] \in Seq(E)
  <2>1. run[k] \in E
    BY DEF ToSet
  <2> HIDE DEF E
  <2> QED
    BY <2>1
<1> HIDE DEF E
<1>2. seqs \in Seq(Seq(E))
  BY <1>1
<1> QED
  BY <1>2, ElementsOfFlatten DEF OfType, E

LEMMA JudgeAllIsOf ==
  ASSUME NEW run, NEW observations \in Seq(ToSet(run))
  PROVE  JudgeAll(run, observations) \in Seq(Judgements(run))
<1>1. Len(observations) \in Nat /\ \A k \in 1 .. Len(observations) : observations[k] \in ToSet(run)
  OBVIOUS
<1>2. \A k \in 1 .. Len(observations) : Judged(run, observations[k]) \in Judgements(run)
  BY <1>1 DEF Judgements
<1>3. JudgeAll(run, observations) = [k \in 1 .. Len(observations) |-> Judged(run, observations[k])]
  BY DEF JudgeAll, Judged
<1> QED
  BY <1>1, <1>2, <1>3

LEMMA JudgeHasPaths ==
  ASSUME NEW X, NEW run \in Seq(X)
  PROVE  HasItsPaths(run, Judge(run))
<1>1. Len(run) \in Nat /\ DOMAIN run = 1 .. Len(run)
  OBVIOUS
<1>2. Judge(run) \in Seq(Judgements(run))
  BY <1>1, OfTypeIsOf, JudgeAllIsOf, ElementsOfConcat DEF Judge
<1>3. ASSUME NEW k \in 1 .. Len(Judge(run))
      PROVE  /\ Judge(run)[k].observation \in ToSet(run)
             /\ PathsOf(Judge(run)[k]) \in Seq(Trails(run, Judge(run)[k].observation))
  <2>1. Judge(run)[k] \in Judgements(run)
    BY <1>2
  <2>2. PICK o \in ToSet(run) : Judge(run)[k] = Judged(run, o)
    BY <2>1 DEF Judgements
  <2>3. Judge(run)[k].observation = o /\ PathsOf(Judge(run)[k]) = Paths(run, o)
    BY <2>2, ResultKeepsPaths
  <2> QED
    BY <1>1, <2>3, PathsAreTrails
<1>4. Len(Judge(run)) \in Nat
  BY <1>2
<1> QED
  BY <1>1, <1>3, <1>4 DEF HasItsPaths

(***************************************************************************)
(* The search: it crosses only what may be trusted.                        *)
(***************************************************************************)
\* A hop the search has gone past: a script that was read, all of whose copies
\* may be trusted.
Crossed(judged, trusted, hop) ==
  /\ hop.kind = "script" /\ ObservationsOf(judged, hop) # {}
  /\ Trusted(judged, trusted, hop.url)

\* A call of inheritFor has gone past the hops before its own.
InheritCalls(judged, trusted) ==
  {call \in [script : 1 .. Len(judged), path : Nat \ {0}, hop : Nat \ {0}] :
     call.path <= Len(PathsOf(judged[call.script])) =>
       \A h \in 1 .. call.hop - 1 :
         /\ h <= Len(PathsOf(judged[call.script])[call.path])
         /\ Crossed(judged, trusted, PathsOf(judged[call.script])[call.path][h])}

\* Only what may be trusted inherits.
SearchStates(judged, trusted) ==
  {search \in [memo : [1 .. Len(judged) -> {"open", "deciding", "inherits", "none"}],
               calls : Seq(InheritCalls(judged, trusted))] : InheritsIn(judged, search) \subseteq trusted}

LEMMA TrailHops ==
  ASSUME NEW run, NEW o, NEW path \in Trails(run, o)
  PROVE  /\ Len(path) \in Nat /\ Len(path) \in 1 .. MaxDepth /\ path[1] = FirstHop(run, o)
         /\ \A h \in 1 .. Len(path) - 1 : path[h + 1] \in Onward(run, path[h])
         /\ DOMAIN path = 1 .. Len(path)
BY LoadsAssumption DEF Trails

\* A hop that is a script is the script a first hop names.
LEMMA ScriptOnward ==
  ASSUME NEW run, NEW hop, NEW next \in Onward(run, hop), next.kind = "script"
  PROVE  next.url \in Inserters(run, hop.url)
<1>1. next # Hop("unknown", "")
  <2>1. Hop("unknown", "").kind = "unknown"
    BY DEF Hop
  <2> QED
    BY <2>1
<1>2. next \in Loaders(run, hop)
  BY <1>1 DEF Onward
<1>3. PICK k \in 1 .. Len(run) : run[k].url = hop.url /\ next = FirstHop(run, run[k])
  BY <1>2 DEF Loaders
<1> QED
  BY <1>3 DEF Inserters

\* The hops up to the one that grants make a route to it.
LEMMA PathIsRoute ==
  ASSUME NEW run, NEW judged, NEW k \in 1 .. Len(judged), NEW path \in Trails(run, judged[k].observation),
         NEW n \in 1 .. Len(path),
         \A h \in 1 .. n : path[h].kind = "script" /\ ObservationsOf(judged, path[h]) # {}
  PROVE  [i \in 1 .. n |-> path[i].url] \in Routes(run, judged, k, n)
<1> DEFINE urls == [i \in 1 .. n |-> path[i].url]
           U == {judged[j].observation.url : j \in 1 .. Len(judged)}
<1>1. /\ Len(path) \in Nat /\ n \in Nat /\ n >= 1 /\ path[1] = FirstHop(run, judged[k].observation)
      /\ \A h \in 1 .. Len(path) - 1 : path[h + 1] \in Onward(run, path[h])
  <2>1. /\ Len(path) \in Nat /\ path[1] = FirstHop(run, judged[k].observation)
        /\ \A h \in 1 .. Len(path) - 1 : path[h + 1] \in Onward(run, path[h])
    BY TrailHops
  <2> DEFINE len == Len(path)
  <2>2. n \in Nat /\ n >= 1
    <3>1. len \in Nat /\ n \in 1 .. len
      BY <2>1
    <3> HIDE DEF len
    <3> QED
      BY <3>1
  <2> QED
    BY <2>1, <2>2, Zenon
<1>2. ASSUME NEW i \in 1 .. n PROVE urls[i] = path[i].url /\ path[i].url \in U
  <2>1. PICK j \in 1 .. Len(judged) : judged[j].observation.url = path[i].url
    BY DEF ObservationsOf
  <2> QED
    BY <2>1
<1>3. urls \in [1 .. n -> U]
  <2> HIDE DEF U
  <2> QED
    BY <1>2
<1>4. LoadedBy(FirstHop(run, judged[k].observation), urls[1])
  <2>1. 1 \in 1 .. n
    BY <1>1
  <2> QED
    BY <1>1, <1>2, <2>1 DEF LoadedBy
<1>5. ASSUME NEW i \in 1 .. n - 1 PROVE urls[i + 1] \in Inserters(run, urls[i])
  <2>1. i \in 1 .. Len(path) - 1 /\ i \in 1 .. n /\ i + 1 \in 1 .. n
    BY <1>1
  <2>2. path[i + 1] \in Onward(run, path[i]) /\ path[i + 1].kind = "script"
    BY <1>1, <2>1
  <2>3. path[i + 1].url \in Inserters(run, path[i].url)
    BY <2>2, ScriptOnward
  <2>4. urls[i] = path[i].url /\ urls[i + 1] = path[i + 1].url
    BY <1>2, <2>1
  <2> QED
    BY <2>3, <2>4
<1> HIDE DEF urls
<1> QED
  BY <1>3, <1>4, <1>5 DEF Routes, U, urls

\* What a script inherits has a route of trusted scripts to what grants it.
LEMMA GrantedIsTrusted ==
  ASSUME NEW run, NEW judged, NEW trusted, Closed(judged, Grounds(run, judged), trusted),
         NEW k \in 1 .. Len(judged), MayInherit(judged[k]),
         NEW path \in Trails(run, judged[k].observation), NEW n \in 1 .. Len(path),
         path[n].kind = "script", GrantAt(judged, ObservationsOf(judged, path[n]), n, judged[k]),
         \A h \in 1 .. n - 1 : Crossed(judged, trusted, path[h])
  PROVE  k \in trusted
<1> DEFINE urls == [i \in 1 .. n |-> path[i].url]
           ground == [script |-> k, through |-> {urls[i] : i \in 1 .. n - 1}]
<1>1. Len(path) \in Nat /\ MaxDepth \in Nat /\ Len(path) <= MaxDepth /\ n \in Nat /\ n >= 1 /\ n \in 1 .. MaxDepth
  BY TrailHops, LoadsAssumption
<1>2. ObservationsOf(judged, path[n]) # {}
  BY DEF GrantAt
<1>3. ASSUME NEW h \in 1 .. n PROVE path[h].kind = "script" /\ ObservationsOf(judged, path[h]) # {}
  <2>1. h = n \/ h \in 1 .. n - 1
    BY <1>1
  <2> QED
    BY <1>2, <2>1 DEF Crossed
<1>4. urls \in Routes(run, judged, k, n)
  BY <1>3, PathIsRoute
<1>5. urls[n] = path[n].url /\ \A i \in 1 .. n - 1 : urls[i] = path[i].url
  BY <1>1
<1>6. Copies(judged, urls[n]) = ObservationsOf(judged, path[n])
  BY <1>5 DEF Copies, ObservationsOf
<1> HIDE DEF urls
<1>7. urls \in Granted(run, judged, k, n)
  BY <1>4, <1>6 DEF Granted
<1>8. ground \in Grounds(run, judged)
  <2> DEFINE Part(j, m) == {[script |-> j, through |-> {u[i] : i \in 1 .. m - 1}] : u \in Granted(run, judged, j, m)}
  <2>1. ground \in Part(k, n)
    BY <1>7
  <2>2. Grounds(run, judged) = UNION {Part(j, m) : j \in {l \in 1 .. Len(judged) : MayInherit(judged[l])}, m \in 1 .. MaxDepth}
    BY DEF Grounds
  <2> HIDE DEF Part, ground
  <2> QED
    BY <1>1, <2>1, <2>2
<1>9. \A url \in ground.through : Trusted(judged, trusted, url)
  BY <1>5 DEF Crossed
<1>10. ground.script = k
  OBVIOUS
<1> HIDE DEF ground
<1> QED
  BY <1>8, <1>9, <1>10 DEF Closed

\* What is returned from, asked for and gone on from stays a state of the search.
LEMMA CallsGoOn ==
  ASSUME NEW judged, NEW trusted, NEW search \in SearchStates(judged, trusted), search.calls # <<>>
  PROVE  /\ Head(search.calls) \in InheritCalls(judged, trusted)
         /\ [search EXCEPT !.calls = Tail(@)] \in SearchStates(judged, trusted)
         /\ \A call \in InheritCalls(judged, trusted) :
              /\ Continue(search, call) \in SearchStates(judged, trusted)
              /\ Push(search, call) \in SearchStates(judged, trusted)
<1> DEFINE C == InheritCalls(judged, trusted)
           M == [1 .. Len(judged) -> {"open", "deciding", "inherits", "none"}]
           Calling(calls) == [search EXCEPT !.calls = calls]
<1>1. search \in [memo : M, calls : Seq(C)] /\ InheritsIn(judged, search) \subseteq trusted
  BY DEF SearchStates
<1> HIDE DEF C, M
<1>2. Head(search.calls) \in C /\ Tail(search.calls) \in Seq(C)
  BY <1>1
<1>3. ASSUME NEW call \in C PROVE <<call>> \o Tail(search.calls) \in Seq(C) /\ <<call>> \o search.calls \in Seq(C)
  <2>1. <<call>> \in Seq(C) /\ search.calls \in Seq(C)
    BY <1>1
  <2> QED
    BY <1>2, <2>1, ElementsOfConcat
<1>4. ASSUME NEW calls \in Seq(C) PROVE Calling(calls) \in SearchStates(judged, trusted)
  <2>1. Calling(calls) \in [memo : M, calls : Seq(C)] /\ Calling(calls).memo = search.memo
    BY <1>1
  <2>2. InheritsIn(judged, Calling(calls)) = InheritsIn(judged, search)
    BY <2>1 DEF InheritsIn
  <2> HIDE DEF Calling
  <2> QED
    BY <1>1, <2>1, <2>2 DEF SearchStates, C, M
<1>5. /\ [search EXCEPT !.calls = Tail(@)] = Calling(Tail(search.calls))
      /\ \A call : /\ Continue(search, call) = Calling(<<call>> \o Tail(search.calls))
                   /\ Push(search, call) = Calling(<<call>> \o search.calls)
  BY <1>1 DEF Continue, Push
<1> HIDE DEF Calling
<1> QED
  BY <1>2, <1>3, <1>4, <1>5 DEF C

LEMMA DecidedStays ==
  ASSUME NEW judged, NEW trusted, NEW search \in SearchStates(judged, trusted), NEW k \in 1 .. Len(judged),
         NEW verdict \in {"open", "deciding", "inherits", "none"}, verdict = "inherits" => k \in trusted
  PROVE  Decide(search, k, verdict) \in SearchStates(judged, trusted)
<1> DEFINE C == InheritCalls(judged, trusted)
           V == {"open", "deciding", "inherits", "none"}
           M == [1 .. Len(judged) -> V]
           memo == [search.memo EXCEPT ![k] = verdict]
           next == Decide(search, k, verdict)
<1>1. search \in [memo : M, calls : Seq(C)] /\ InheritsIn(judged, search) \subseteq trusted
  BY DEF SearchStates
<1> HIDE DEF C
<1>2. memo \in M /\ memo[k] = verdict /\ \A j \in 1 .. Len(judged) : j # k => memo[j] = search.memo[j]
  <2> HIDE DEF V
  <2>1. search.memo \in [1 .. Len(judged) -> V] /\ verdict \in V
    BY <1>1 DEF V
  <2> QED
    BY <2>1
<1> HIDE DEF M, memo
<1>3. next = [search EXCEPT !.memo = memo]
  BY <1>1 DEF Decide, memo
<1>4. next \in [memo : M, calls : Seq(C)] /\ next.memo = memo
  BY <1>1, <1>2, <1>3
<1>5. InheritsIn(judged, next) \subseteq trusted
  BY <1>1, <1>2, <1>4 DEF InheritsIn
<1> HIDE DEF next
<1>6. next \in SearchStates(judged, trusted)
  BY <1>4, <1>5 DEF SearchStates, C, M, V
<1> QED
  BY <1>6 DEF next

\* A path is begun at its first hop.
LEMMA CallsBegin ==
  ASSUME NEW judged, NEW trusted
  PROVE  /\ \A k \in 1 .. Len(judged) : InheritFor(k) \in InheritCalls(judged, trusted)
         /\ \A call \in InheritCalls(judged, trusted) : NextPath(call) \in InheritCalls(judged, trusted)
<1>1. ASSUME NEW k \in 1 .. Len(judged) PROVE InheritFor(k) \in InheritCalls(judged, trusted)
  <2>1. InheritFor(k) \in [script : 1 .. Len(judged), path : Nat \ {0}, hop : Nat \ {0}]
    BY DEF InheritFor
  <2>2. 1 .. InheritFor(k).hop - 1 = {}
    BY DEF InheritFor
  <2> HIDE DEF InheritFor
  <2> QED
    BY <2>1, <2>2 DEF InheritCalls
<1>2. ASSUME NEW call \in InheritCalls(judged, trusted) PROVE NextPath(call) \in InheritCalls(judged, trusted)
  <2>1. call \in [script : 1 .. Len(judged), path : Nat \ {0}, hop : Nat \ {0}]
    BY DEF InheritCalls
  <2>2. NextPath(call) \in [script : 1 .. Len(judged), path : Nat \ {0}, hop : Nat \ {0}] /\ NextPath(call).hop = 1
    <3>1. call.script \in 1 .. Len(judged) /\ call.path + 1 \in Nat \ {0} /\ 1 \in Nat \ {0}
      BY <2>1
    <3> QED
      BY <3>1 DEF NextPath
  <2>3. 1 .. NextPath(call).hop - 1 = {}
    BY <2>2
  <2> HIDE DEF NextPath
  <2> QED
    BY <2>2, <2>3 DEF InheritCalls
<1> QED
  BY <1>1, <1>2

\* A hop is gone past when every copy of its script may be trusted.
LEMMA CallCrosses ==
  ASSUME NEW judged, NEW trusted, NEW call \in InheritCalls(judged, trusted),
         call.path <= Len(PathsOf(judged[call.script])) =>
           /\ call.hop <= Len(PathsOf(judged[call.script])[call.path])
           /\ Crossed(judged, trusted, PathsOf(judged[call.script])[call.path][call.hop])
  PROVE  NextHop(call) \in InheritCalls(judged, trusted)
<1> DEFINE paths == PathsOf(judged[call.script])
           next == NextHop(call)
<1>1. call \in [script : 1 .. Len(judged), path : Nat \ {0}, hop : Nat \ {0}]
  BY DEF InheritCalls
<1>2. next \in [script : 1 .. Len(judged), path : Nat \ {0}, hop : Nat \ {0}]
  BY <1>1 DEF NextHop
<1>3. next.script = call.script /\ next.path = call.path /\ next.hop = call.hop + 1
  BY <1>1 DEF NextHop
<1> HIDE DEF next
<1>4. ASSUME call.path <= Len(paths), NEW h \in 1 .. next.hop - 1
      PROVE  h <= Len(paths[call.path]) /\ Crossed(judged, trusted, paths[call.path][h])
  <2>1. h = call.hop \/ h \in 1 .. call.hop - 1
    BY <1>1, <1>3
  <2>2. CASE h = call.hop
    BY <1>4, <2>2
  <2>3. CASE h \in 1 .. call.hop - 1
    BY <1>4, <2>3 DEF InheritCalls
  <2> QED
    BY <2>1, <2>2, <2>3
<1>5. next \in InheritCalls(judged, trusted)
  BY <1>2, <1>3, <1>4 DEF InheritCalls
<1> QED
  BY <1>5 DEF next

\* A call is at a natural number of hops, and so is the end of its path.
LEMMA HopInPath ==
  ASSUME NEW run, NEW judged, HasItsPaths(run, judged), NEW trusted, NEW call \in InheritCalls(judged, trusted),
         call.path <= Len(PathsOf(judged[call.script]))
  PROVE  /\ call.hop \in Nat \ {0} /\ call.path \in Nat \ {0}
         /\ Len(PathsOf(judged[call.script])[call.path]) \in Nat
         /\ PathsOf(judged[call.script])[call.path] \in Trails(run, judged[call.script].observation)
<1>1. call.script \in 1 .. Len(judged) /\ call.path \in Nat \ {0} /\ call.hop \in Nat \ {0}
  BY DEF InheritCalls
<1>2. PathsOf(judged[call.script]) \in Seq(Trails(run, judged[call.script].observation))
  BY <1>1 DEF HasItsPaths
<1>3. PathsOf(judged[call.script])[call.path] \in Trails(run, judged[call.script].observation)
  BY <1>1, <1>2
<1> QED
  BY <1>1, <1>3, TrailHops

PathOf(judged, call) == PathsOf(judged[call.script])[call.path]

\* Where a call judges what a hop stands for.
AtScript(judged, call) ==
  /\ MayInherit(judged[call.script]) /\ call.path <= Len(PathsOf(judged[call.script]))
  /\ call.hop <= Len(PathOf(judged, call)) /\ PathOf(judged, call)[call.hop].kind = "script"

CopiesAt(judged, call) == ObservationsOf(judged, PathOf(judged, call)[call.hop])

LEMMA AtScriptFacts ==
  ASSUME NEW run, NEW judged, HasItsPaths(run, judged), NEW trusted,
         NEW call \in InheritCalls(judged, trusted), AtScript(judged, call)
  PROVE  /\ call.script \in 1 .. Len(judged) /\ MayInherit(judged[call.script])
         /\ PathOf(judged, call) \in Trails(run, judged[call.script].observation)
         /\ call.hop \in 1 .. Len(PathOf(judged, call)) /\ PathOf(judged, call)[call.hop].kind = "script"
         /\ \A h \in 1 .. call.hop - 1 : Crossed(judged, trusted, PathOf(judged, call)[h])
<1> DEFINE path == PathOf(judged, call)
<1>1. /\ call.script \in 1 .. Len(judged) /\ call.hop \in Nat \ {0}
      /\ call.path <= Len(PathsOf(judged[call.script])) =>
           \A h \in 1 .. call.hop - 1 : Crossed(judged, trusted, path[h])
  BY DEF InheritCalls, PathOf
<1>2. /\ MayInherit(judged[call.script]) /\ call.path <= Len(PathsOf(judged[call.script]))
      /\ call.hop <= Len(path) /\ path[call.hop].kind = "script"
  BY DEF AtScript
<1>3. path \in Trails(run, judged[call.script].observation) /\ Len(path) \in Nat
  BY <1>2, HopInPath DEF PathOf
<1> HIDE DEF path
<1>4. call.hop \in 1 .. Len(path)
  BY <1>1, <1>2, <1>3
<1> QED
  BY <1>1, <1>2, <1>3, <1>4 DEF path

LEMMA JudgingIsSound ==
  ASSUME NEW run, NEW judged, HasItsPaths(run, judged),
         NEW trusted, Closed(judged, Grounds(run, judged), trusted),
         NEW search \in SearchStates(judged, trusted), search.calls # <<>>,
         AtScript(judged, Head(search.calls))
  PROVE  Judging(judged, search, Head(search.calls), CopiesAt(judged, Head(search.calls)),
                 Doubtful(judged, search, CopiesAt(judged, Head(search.calls)))) \in SearchStates(judged, trusted)
<1> DEFINE call == Head(search.calls)
           k == call.script
           path == PathOf(judged, call)
           copies == CopiesAt(judged, call)
           doubtful == Doubtful(judged, search, copies)
           next == Judging(judged, search, call, copies, doubtful)
<1>1. call \in InheritCalls(judged, trusted)
  BY CallsGoOn
<1>2. /\ k \in 1 .. Len(judged) /\ MayInherit(judged[k]) /\ path \in Trails(run, judged[k].observation)
      /\ call.hop \in 1 .. Len(path) /\ path[call.hop].kind = "script"
      /\ \A h \in 1 .. call.hop - 1 : Crossed(judged, trusted, path[h])
  BY <1>1, AtScriptFacts
<1>3. /\ copies = ObservationsOf(judged, path[call.hop]) /\ copies \subseteq 1 .. Len(judged)
      /\ doubtful = {c \in copies : ~Authorised(judged[c]) /\ search.memo[c] # "inherits"}
  BY DEF CopiesAt, ObservationsOf, Doubtful
<1>4. next = Judging(judged, search, call, copies, doubtful)
  OBVIOUS
<1> SUFFICES next \in SearchStates(judged, trusted)
  OBVIOUS
<1> HIDE DEF call, k, path, copies, doubtful, next
<1>5. /\ \A goal \in InheritCalls(judged, trusted) :
           Continue(search, goal) \in SearchStates(judged, trusted) /\ Push(search, goal) \in SearchStates(judged, trusted)
      /\ NextPath(call) \in InheritCalls(judged, trusted)
      /\ \A c \in 1 .. Len(judged) : InheritFor(c) \in InheritCalls(judged, trusted)
  BY <1>1, CallsGoOn, CallsBegin
<1>6. CASE GrantAt(judged, copies, call.hop, judged[k])
  <2>1. GrantAt(judged, ObservationsOf(judged, path[call.hop]), call.hop, judged[k])
    BY <1>3, <1>6, Zenon
  <2>2. k \in trusted
    BY <1>2, <2>1, GrantedIsTrusted
  <2>3. next = Decide(search, k, "inherits")
    BY <1>4, <1>6 DEF Judging, k
  <2> QED
    BY <1>2, <2>2, <2>3, DecidedStays
<1>7. CASE ~GrantAt(judged, copies, call.hop, judged[k]) /\ copies = {}
  <2>1. next = Continue(search, NextPath(call))
    BY <1>4, <1>7 DEF Judging, k
  <2> QED
    BY <1>5, <2>1
<1>8. CASE ~GrantAt(judged, copies, call.hop, judged[k]) /\ copies # {} /\ doubtful = {}
  <2>1. ASSUME NEW c \in Copies(judged, path[call.hop].url) PROVE Authorised(judged[c]) \/ c \in trusted
    <3>1. c \in copies /\ c \in 1 .. Len(judged)
      BY <1>3 DEF Copies, ObservationsOf
    <3>2. Authorised(judged[c]) \/ search.memo[c] = "inherits"
      BY <1>3, <1>8, <3>1
    <3>3. InheritsIn(judged, search) \subseteq trusted
      BY DEF SearchStates
    <3> QED
      BY <3>1, <3>2, <3>3 DEF InheritsIn
  <2>2. Crossed(judged, trusted, path[call.hop])
    BY <1>2, <1>3, <1>8, <2>1 DEF Crossed, Trusted
  <2>3. NextHop(call) \in InheritCalls(judged, trusted)
    BY <1>1, <1>2, <2>2, TrailHops, CallCrosses DEF path, k, PathOf
  <2>4. next = Continue(search, NextHop(call))
    BY <1>4, <1>8 DEF Judging, k
  <2> QED
    BY <1>5, <2>3, <2>4
<1>9. CASE ~GrantAt(judged, copies, call.hop, judged[k]) /\ copies # {} /\ doubtful # {}
  <2> DEFINE copy == CHOOSE c \in doubtful : \A d \in doubtful : c <= d
  <2>1. copy \in doubtful
    <3>1. doubtful \in SUBSET Nat
      BY <1>3
    <3>2. \E c \in doubtful : \A d \in doubtful : c <= d
      BY <1>9, <3>1, LeastMember
    <3> QED
      BY <3>2
  <2>2. copy \in 1 .. Len(judged)
    BY <1>3, <2>1
  <2>3. next = AskFor(judged, search, call, copy)
    BY <1>4, <1>9 DEF Judging, k
  <2> HIDE DEF copy
  <2>4. next = Push(search, InheritFor(copy)) \/ next = Continue(search, NextPath(call))
    BY <2>3 DEF AskFor
  <2> QED
    BY <1>5, <2>2, <2>4
<1> QED
  BY <1>6, <1>7, <1>8, <1>9

LEMMA LengthsOf ==
  ASSUME NEW run, NEW judged, HasItsPaths(run, judged), NEW trusted, NEW call \in InheritCalls(judged, trusted)
  PROVE  call.path \in Nat /\ Len(PathsOf(judged[call.script])) \in Nat /\ call.hop \in Nat
<1>1. call.script \in 1 .. Len(judged) /\ call.path \in Nat /\ call.hop \in Nat
  BY DEF InheritCalls
<1>2. PathsOf(judged[call.script]) \in Seq(Trails(run, judged[call.script].observation))
  BY <1>1 DEF HasItsPaths
<1> QED
  BY <1>1, <1>2

LEMMA SearchIsSound ==
  ASSUME NEW run, NEW judged, HasItsPaths(run, judged),
         NEW trusted, Closed(judged, Grounds(run, judged), trusted),
         NEW search \in SearchStates(judged, trusted)
  PROVE  Search(judged, search) \in SearchStates(judged, trusted)
<1>1. CASE search.calls = <<>>
  BY <1>1 DEF Search
<1>2. CASE search.calls # <<>>
  <2> DEFINE call == Head(search.calls)
             k == call.script
             path == PathOf(judged, call)
             at == AtHop(judged, search, call, path)
             next == Search(judged, search)
             returned == [search EXCEPT !.calls = Tail(@)]
  <2>1. call \in InheritCalls(judged, trusted) /\ k \in 1 .. Len(judged) /\ returned \in SearchStates(judged, trusted)
    BY <1>2, CallsGoOn DEF InheritCalls
  <2>2. Continue(search, NextPath(call)) \in SearchStates(judged, trusted)
    BY <1>2, <2>1, CallsGoOn, CallsBegin
  <2>3. next = IF search.memo[k] \in {"inherits", "none"} \/ ~MayInherit(judged[k]) THEN returned
               ELSE IF search.memo[k] = "open" THEN Decide(search, k, "deciding")
               ELSE IF call.path > Len(PathsOf(judged[k])) THEN Decide(search, k, "none")
               ELSE at
    BY <1>2 DEF Search, Inherit, PathOf
  <2>4. Decide(search, k, "deciding") \in SearchStates(judged, trusted) /\ Decide(search, k, "none") \in SearchStates(judged, trusted)
    BY <2>1, DecidedStays
  <2>5. at = Continue(search, NextPath(call)) \/ (AtScript(judged, call) /\ at = Judging(judged, search, call, CopiesAt(judged, call), Doubtful(judged, search, CopiesAt(judged, call))))
        \/ ~MayInherit(judged[k]) \/ call.path > Len(PathsOf(judged[k]))
    <3>1. CASE MayInherit(judged[k]) /\ ~(call.path > Len(PathsOf(judged[k]))) /\ ~(call.hop > Len(path)) /\ path[call.hop].kind = "script"
      <4>1. call.path \in Nat /\ Len(PathsOf(judged[k])) \in Nat /\ call.hop \in Nat
        BY <2>1, LengthsOf
      <4>2. call.path <= Len(PathsOf(judged[k]))
        BY <3>1, <4>1
      <4>3. Len(path) \in Nat
        BY <2>1, <4>2, HopInPath DEF PathOf
      <4>4. call.hop <= Len(path)
        BY <3>1, <4>1, <4>3
      <4>5. AtScript(judged, call)
        BY <3>1, <4>2, <4>4 DEF AtScript
      <4>6. at = Judging(judged, search, call, CopiesAt(judged, call), Doubtful(judged, search, CopiesAt(judged, call)))
        BY <3>1 DEF AtHop, CopiesAt
      <4> QED
        BY <4>5, <4>6
    <3>2. CASE call.hop > Len(path) \/ path[call.hop].kind # "script"
      BY <3>2 DEF AtHop
    <3> QED
      BY <3>1, <3>2
  <2>6. AtScript(judged, call) =>
          Judging(judged, search, call, CopiesAt(judged, call), Doubtful(judged, search, CopiesAt(judged, call))) \in SearchStates(judged, trusted)
    BY <1>2, JudgingIsSound
  <2> HIDE DEF call, k, path, at, next, returned
  <2>7. next \in SearchStates(judged, trusted)
    BY <2>1, <2>2, <2>3, <2>4, <2>5, <2>6
  <2> QED
    BY <2>7 DEF next
<1> QED
  BY <1>1, <1>2

AnyHops(run) == {Hop("unknown", "")} \cup {FirstHop(run, run[k]) : k \in 1 .. Len(run)}

LEMMA AllPathsArePaths ==
  ASSUME NEW run, NEW judged, HasItsPaths(run, judged)
  PROVE  AllPaths(judged) \in Seq(Seq(AnyHops(run)))
<1> DEFINE E == AnyHops(run)
           seqs == [k \in 1 .. Len(judged) |-> PathsOf(judged[k])]
<1>1. ASSUME NEW k \in 1 .. Len(judged) PROVE PathsOf(judged[k]) \in Seq(Seq(E))
  <2> DEFINE o == judged[k].observation
  <2>1. o \in ToSet(run) /\ PathsOf(judged[k]) \in Seq(Trails(run, o))
    BY DEF HasItsPaths
  <2>2. HopsOf(run, o) \subseteq E
    <3>1. PICK i \in 1 .. Len(run) : o = run[i]
      BY <2>1 DEF HasItsPaths, ToSet
    <3>2. FirstHop(run, o) = FirstHop(run, run[i])
      BY <3>1, Zenon
    <3> QED
      BY <3>2 DEF HopsOf, AnyHops
  <2>3. Trails(run, o) \subseteq Seq(HopsOf(run, o))
    BY DEF Trails
  <2> HIDE DEF E, o
  <2>4. Trails(run, o) \subseteq Seq(E)
    BY <2>2, <2>3, SeqOfMore
  <2> QED
    BY <2>1, <2>4, SeqOfMore
<1> HIDE DEF E
<1>2. seqs \in Seq(Seq(Seq(E)))
  <2>1. Len(judged) \in Nat
    BY DEF HasItsPaths
  <2> QED
    BY <1>1, <2>1
<1> HIDE DEF seqs
<1>3. FlattenSeq(seqs) \in Seq(Seq(E))
  BY <1>2, ElementsOfFlatten
<1> QED
  BY <1>3 DEF AllPaths, seqs, E

LEMMA SearchStepsIsNat ==
  ASSUME NEW run, NEW judged, HasItsPaths(run, judged)
  PROVE  SearchSteps(judged, AllPaths(judged)) \in Nat
<1> DEFINE paths == AllPaths(judged)
           hops == FlattenSeq(paths)
<1>1. paths \in Seq(Seq(AnyHops(run)))
  BY AllPathsArePaths
<1> HIDE DEF paths
<1>2. hops \in Seq(AnyHops(run))
  BY <1>1, ElementsOfFlatten
<1> HIDE DEF hops
<1>3. Len(paths) \in Nat /\ Len(hops) \in Nat /\ Len(judged) \in Nat
  BY <1>1, <1>2 DEF HasItsPaths
<1>4. SearchSteps(judged, paths) = 5 * Len(judged) + Len(paths) + Len(hops)
  BY DEF SearchSteps, hops
<1> QED
  BY <1>3, <1>4 DEF paths

LEMMA SearchTakesSteps ==
  ASSUME NEW run, NEW judged, HasItsPaths(run, judged),
         NEW trusted, Closed(judged, Grounds(run, judged), trusted), NEW n \in Nat
  PROVE  Searches(judged, n) \in SearchStates(judged, trusted)
<1> DEFINE S == SearchStates(judged, trusted)
           start == [memo |-> [k \in 1 .. Len(judged) |-> "open"], calls |-> [k \in 1 .. Len(judged) |-> InheritFor(k)]]
           step == [s \in S |-> Search(judged, s)]
           Follows(f) == f = [k \in 0 .. n |-> IF k = 0 THEN start ELSE Search(judged, f[k - 1])]
<1>1. start \in S
  <2>1. Len(judged) \in Nat
    BY DEF HasItsPaths
  <2>2. start.calls \in Seq(InheritCalls(judged, trusted))
    BY <2>1, CallsBegin
  <2>3. start.memo \in [1 .. Len(judged) -> {"open", "deciding", "inherits", "none"}]
    OBVIOUS
  <2>4. InheritsIn(judged, start) = {}
    BY DEF InheritsIn
  <2>5. start = [memo |-> start.memo, calls |-> start.calls]
    OBVIOUS
  <2> HIDE DEF start
  <2> QED
    BY <2>2, <2>3, <2>4, <2>5 DEF SearchStates
<1>2. step \in [S -> S]
  BY SearchIsSound
<1> HIDE DEF start
<1>3. \E f : Follows(f)
  <2> HIDE DEF S, step
  <2>1. PICK f \in [0 .. n -> S] : f = [k \in 0 .. n |-> IF k = 0 THEN start ELSE step[f[k - 1]]]
    <3>1. Iterations(S, start, step, n) # {}
      BY <1>1, <1>2, Iterates
    <3> QED
      BY <3>1 DEF Iterations
  <2>2. ASSUME NEW k \in 0 .. n
        PROVE  (IF k = 0 THEN start ELSE step[f[k - 1]]) = IF k = 0 THEN start ELSE Search(judged, f[k - 1])
    <3>1. k # 0 => k - 1 \in 0 .. n
      OBVIOUS
    <3>2. k # 0 => f[k - 1] \in S
      BY <3>1
    <3> QED
      BY <3>2 DEF step
  <2>3. Follows(f)
    BY <2>1, <2>2, Zenon
  <2> QED
    BY <2>3
<1>4. PICK f : Follows(f) /\ Searches(judged, n) = f[n]
  BY <1>3 DEF Searches, start
<1> HIDE DEF S
<1>5. f[0] = start /\ \A k \in 1 .. n : f[k] = Search(judged, f[k - 1])
  BY <1>4
<1> DEFINE T == {k \in 0 .. n : f[k] \in S}
<1>6. 0 \in T
  BY <1>1, <1>5
<1>7. ASSUME NEW k \in 1 .. n, k - 1 \in T PROVE k \in T
  BY <1>5, <1>7, SearchIsSound DEF S
<1>8. 0 .. n \subseteq T
  <2> HIDE DEF T
  <2> QED
    BY <1>6, <1>7, SetInductionUpTo
<1>9. f[n] \in S
  BY <1>8
<1> QED
  BY <1>4, <1>9, Zenon DEF S

\* What inherits has grounds, whatever was observed and whatever the shim says.
LEMMA InheritingIsGrounded ==
  ASSUME NEW X, NEW run \in Seq(X)
  PROVE  Inheriting(run) \subseteq Grounded(run)
<1> DEFINE judged == Judge(run)
           grounds == Grounds(run, judged)
           found == Searches(judged, SearchSteps(judged, AllPaths(judged)))
<1>1. HasItsPaths(run, judged)
  BY JudgeHasPaths
<1>2. Inheriting(run) = InheritsIn(judged, found) /\ Grounded(run) = GroundedIn(judged, grounds)
  BY DEF Inheriting, InheritAuthorisation, Grounded, GroundedOf
<1> HIDE DEF judged
<1>3. ASSUME NEW trusted, Closed(judged, grounds, trusted) PROVE InheritsIn(judged, found) \subseteq trusted
  <2>1. SearchSteps(judged, AllPaths(judged)) \in Nat
    BY <1>1, SearchStepsIsNat
  <2>2. found \in SearchStates(judged, trusted)
    BY <1>1, <1>3, <2>1, SearchTakesSteps
  <2> QED
    BY <2>2 DEF SearchStates
<1>4. InheritsIn(judged, found) \subseteq 1 .. Len(judged)
  BY DEF InheritsIn
<1> HIDE DEF grounds, found
<1>5. InheritsIn(judged, found) \subseteq GroundedIn(judged, grounds)
  BY <1>3, <1>4 DEF GroundedIn
<1> QED
  BY <1>2, <1>5

\* A run observes in order.
SeenInOrder == seen \in Seq(Observations)

LEMMA SeenAreObservations == LoadsSpec => []SeenInOrder
<1>1. LoadsInit => SeenInOrder
  BY DEF LoadsInit, SeenInOrder
<1>2. SeenInOrder /\ [LoadsNext]_loadsVars => SeenInOrder'
  <2> SUFFICES ASSUME seen \in Seq(Observations), [LoadsNext]_loadsVars PROVE seen' \in Seq(Observations)
    BY DEF SeenInOrder
  <2>1. CASE Observe
    BY <2>1 DEF Observe
  <2>2. CASE Insert \/ UNCHANGED loadsVars
    BY <2>2 DEF Insert, loadsVars
  <2> QED
    BY <2>1, <2>2 DEF LoadsNext
<1> QED
  BY <1>1, <1>2, PTL DEF LoadsSpec

\* No script vouches for itself: however long and however looped the evidence, and
\* whatever the limits of the walk, each script that inherits has a route of
\* trusted scripts to one that grants it.
THEOREM InheritanceHasGrounds == LoadsSpec => []InheritanceIsGrounded
<1>1. SeenInOrder => InheritanceIsGrounded
  BY InheritingIsGrounded DEF InheritanceIsGrounded, SeenInOrder
<1> QED
  BY <1>1, SeenAreObservations, PTL

=============================================================================
