--------------------------- MODULE Telemetry_proofs ---------------------------
(***************************************************************************)
(* Servers run as they are defined, devices keep entities of their own,    *)
(* and messages say what was read, for any definitions, managed objects,   *)
(* device types and readings, checked by TLAPS.                            *)
(***************************************************************************)
EXTENDS Telemetry, SequenceTheorems, WellFoundedInduction, TLAPS

-----------------------------------------------------------------------------
(* Numbers and maps.                                                       *)

\* Of numbers that are bounded one is the greatest.
LEMMA Greatest ==
    ASSUME NEW n \in Nat, NEW S \in SUBSET (1 .. n), S # {}
    PROVE  \E i \in S : \A k \in S : k <= i
<1> DEFINE T == {n - i : i \in S}
<1>1. T \subseteq Nat /\ T # {}
  <2>1. \A i \in S : i \in 1 .. n
    OBVIOUS
  <2>2. \A i \in S : n - i \in Nat
    BY <2>1
  <2> QED
    BY <2>2
<1>2. PICK x \in T : \A y \in T : ~ (<<y, x>> \in OpToRel(<, Nat))
  <2> HIDE DEF T
  <2> QED
    BY <1>1, WFMin, NatLessThanWellFounded
<1>3. \A y \in T : ~(y < x)
  BY <1>1, <1>2 DEF OpToRel
<1>4. PICK i \in S : x = n - i
  OBVIOUS
<1>5. ASSUME NEW k \in S PROVE k <= i
  <2>1. n - k \in T /\ i \in Nat /\ k \in Nat
    OBVIOUS
  <2> HIDE DEF T
  <2> QED
    BY <1>3, <1>4, <2>1
<1> QED
  BY <1>5

\* A map is one of those between two sets exactly when it has their type.
LEMMA MapsAreTyped ==
    ASSUME NEW K, NEW V, NEW m
    PROVE  m \in MapsOf(K, V) <=> IsMap(m, K, V)
BY DEF MapsOf, IsMap

\* No entry at all.
LEMMA EmptyIsMap ==
    ASSUME NEW K, NEW V
    PROVE  EmptyMap \in MapsOf(K, V) /\ DOMAIN EmptyMap = {}
BY MapsAreTyped DEF IsMap, EmptyMap

\* An entry is put in.
LEMMA Inserted ==
    ASSUME NEW K, NEW V, NEW m \in MapsOf(K, V), NEW k \in K, NEW v \in V
    PROVE  /\ MapInsert(m, k, v) \in MapsOf(K, V)
           /\ DOMAIN MapInsert(m, k, v) = DOMAIN m \cup {k}
           /\ MapInsert(m, k, v)[k] = v
           /\ \A x \in DOMAIN m : x # k => MapInsert(m, k, v)[x] = m[x]
<1>1. IsMap(MapInsert(m, k, v), K, V)
  BY MapsAreTyped DEF IsMap, MapInsert
<1> QED
  BY <1>1, MapsAreTyped DEF MapInsert

-----------------------------------------------------------------------------
(* Units.                                                                  *)

\* Where the nodes of a device type are.
LEMMA NodesOf ==
    ASSUME NEW t \in Types \cup {NoType}
    PROVE  /\ t.nodes \in Seq(Nodes)
           /\ Len(t.nodes) \in Nat /\ DOMAIN t.nodes = 1 .. Len(t.nodes)
           /\ \A i \in DOMAIN t.nodes : t.nodes[i] \in Nodes
           /\ Units(t) \subseteq 1 .. Len(t.nodes)
<1>1. t.nodes \in Seq(Nodes)
  <2>1. CASE t \in Types
    BY <2>1, TypesAssumption
  <2>2. CASE t = NoType
    BY <2>2, EmptySeq DEF NoType
  <2> QED
    BY <2>1, <2>2
<1>2. /\ Len(t.nodes) \in Nat /\ DOMAIN t.nodes = 1 .. Len(t.nodes)
      /\ \A i \in DOMAIN t.nodes : t.nodes[i] \in Nodes
  BY <1>1, LenProperties, ElementOfSeq
<1>3. Units(t) \subseteq DOMAIN t.nodes
  BY DEF Units
<1> QED
  BY <1>1, <1>2, <1>3

\* The unit of a series is that of one of its nodes.
LEMMA UnitOfNode ==
    ASSUME NEW t \in Types, NEW series, UnitsOf(t, series) # {}
    PROVE  \E i \in UnitsOf(t, series) : LastUnit(t, series) = t.nodes[i].unit
<1>1. UnitsOf(t, series) \in SUBSET (1 .. Len(t.nodes)) /\ Len(t.nodes) \in Nat
  BY NodesOf DEF UnitsOf
<1>2. \E i \in UnitsOf(t, series) : \A k \in UnitsOf(t, series) : k <= i
  BY <1>1, Greatest
<1> QED
  BY <1>2 DEF LastUnit

\* What is declared are units, and of every series that has one.
LEMMA MetaOfNodes ==
    ASSUME NEW t \in Types
    PROVE  /\ measurement_meta(t) \in MapsOf(Series, {node.unit : node \in Nodes})
           /\ \A i \in Units(t) : series_name(t.nodes[i]) \in DOMAIN measurement_meta(t)
           /\ \A series \in DOMAIN measurement_meta(t) :
                 \E i \in UnitsOf(t, series) : measurement_meta(t)[series] = t.nodes[i].unit
<1> DEFINE m == measurement_meta(t)
<1>1. /\ DOMAIN m = {series_name(t.nodes[i]) : i \in Units(t)}
      /\ m = [series \in DOMAIN m |-> LastUnit(t, series)]
  BY DEF measurement_meta
<1>2. ASSUME NEW series \in DOMAIN m
      PROVE  \E i \in UnitsOf(t, series) : m[series] = t.nodes[i].unit
  <2>1. UnitsOf(t, series) # {} /\ m[series] = LastUnit(t, series)
    BY <1>1, <1>2 DEF UnitsOf
  <2> QED
    BY <2>1, UnitOfNode
<1>3. ASSUME NEW series \in DOMAIN m PROVE m[series] \in {node.unit : node \in Nodes}
  <2>1. PICK i \in UnitsOf(t, series) : m[series] = t.nodes[i].unit
    BY <1>2
  <2>2. t.nodes[i] \in Nodes
    BY <2>1, NodesOf DEF UnitsOf, Units
  <2> QED
    BY <2>1, <2>2
<1>4. DOMAIN m \subseteq Series
  BY <1>1, NodesOf DEF Series, Units
<1> HIDE DEF m
<1>5. IsMap(m, Series, {node.unit : node \in Nodes})
  BY <1>1, <1>3, <1>4 DEF IsMap
<1>6. m \in MapsOf(Series, {node.unit : node \in Nodes})
  BY <1>5, MapsAreTyped
<1> QED
  BY <1>1, <1>2, <1>6 DEF m

-----------------------------------------------------------------------------
(* Definitions.                                                            *)

\* The definitions of a list, by their ids.
LEMMA IdsOf ==
    ASSUME NEW list \in Seq(Definitions)
    PROVE  /\ Len(list) \in Nat /\ DOMAIN list = 1 .. Len(list)
           /\ \A i \in DOMAIN list : list[i] \in Definitions
           /\ DOMAIN Ids(list) = DOMAIN list
           /\ \A i \in DOMAIN list : Ids(list)[i] = list[i].id
BY LenProperties, ElementOfSeq DEF Ids

\* A definition is put in the place of the one with its id, or at the end.
LEMMA PutOne ==
    ASSUME NEW list \in Seq(Definitions), NEW s \in Definitions
    PROVE  /\ Put(list, s) \in Seq(Definitions)
           /\ IsInjective(Ids(Put(list, s))) =>
                 /\ IsInjective(Ids(list))
                 /\ ToSet(Put(list, s)) = {d \in ToSet(list) : d.id # s.id} \cup {s}
<1>1. /\ Len(list) \in Nat /\ DOMAIN list = 1 .. Len(list)
      /\ \A i \in DOMAIN list : list[i] \in Definitions
      /\ DOMAIN Ids(list) = DOMAIN list
      /\ \A i \in DOMAIN list : Ids(list)[i] = list[i].id
  BY IdsOf
<1>2. CASE s.id \notin ToSet(Ids(list))
  <2> DEFINE out == Append(list, s)
  <2>1. /\ Put(list, s) = out
        /\ \A i \in DOMAIN list : list[i].id # s.id
    BY <1>1, <1>2 DEF Put, ToSet
  <2>2. /\ out \in Seq(Definitions) /\ Len(out) = Len(list) + 1
        /\ \A i \in 1 .. Len(list) : out[i] = list[i]
        /\ out[Len(list) + 1] = s
    BY AppendProperties
  <2>3. /\ DOMAIN Ids(out) = 1 .. Len(list) + 1 /\ DOMAIN out = 1 .. Len(list) + 1
        /\ \A i \in 1 .. Len(list) + 1 : Ids(out)[i] = out[i].id
    BY <2>2, IdsOf
  <2> HIDE DEF out
  <2>4. ASSUME IsInjective(Ids(out)) PROVE IsInjective(Ids(list))
    <3> SUFFICES ASSUME NEW a \in DOMAIN Ids(list), NEW b \in DOMAIN Ids(list),
                        Ids(list)[a] = Ids(list)[b]
                 PROVE  a = b
      BY DEF IsInjective
    <3>1. a \in DOMAIN Ids(out) /\ b \in DOMAIN Ids(out) /\ Ids(out)[a] = Ids(out)[b]
      BY <1>1, <2>2, <2>3
    <3> QED
      BY <2>4, <3>1 DEF IsInjective
  <2>5. ToSet(out) = {d \in ToSet(list) : d.id # s.id} \cup {s}
    <3>1. ASSUME NEW d \in ToSet(out) PROVE d \in {x \in ToSet(list) : x.id # s.id} \cup {s}
      <4>1. PICK i \in 1 .. Len(list) + 1 : d = out[i]
        BY <2>3 DEF ToSet
      <4> QED
        BY <1>1, <2>1, <2>2, <4>1 DEF ToSet
    <3>2. ASSUME NEW d \in {x \in ToSet(list) : x.id # s.id} \cup {s} PROVE d \in ToSet(out)
      <4>1. CASE d = s
        <5>1. Len(list) + 1 \in DOMAIN out
          BY <1>1, <2>3
        <5> QED
          BY <2>2, <4>1, <5>1 DEF ToSet
      <4>2. CASE d # s
        <5>1. PICK i \in DOMAIN list : d = list[i]
          BY <3>2, <4>2 DEF ToSet
        <5>2. i \in DOMAIN out /\ out[i] = d
          BY <1>1, <2>2, <2>3, <5>1
        <5> QED
          BY <5>2 DEF ToSet
      <4> QED
        BY <4>1, <4>2
    <3> QED
      BY <3>1, <3>2
  <2> QED
    BY <2>1, <2>2, <2>4, <2>5
<1>3. CASE s.id \in ToSet(Ids(list))
  <2> DEFINE Replaced(i) == list[i].id = s.id /\ \A k \in 1 .. i - 1 : list[k].id # s.id
             out == [i \in DOMAIN list |-> IF Replaced(i) THEN s ELSE list[i]]
  <2>1. Put(list, s) = out
    BY <1>3 DEF Put
  <2>2. out \in [1 .. Len(list) -> Definitions]
    BY <1>1
  <2>3. out \in Seq(Definitions) /\ DOMAIN out = DOMAIN list
    BY <1>1, <2>2, SeqDef
  <2>4. /\ DOMAIN Ids(out) = DOMAIN list
        /\ \A i \in DOMAIN list : Ids(out)[i] = out[i].id /\ out[i].id = list[i].id
    <3>1. \A i \in DOMAIN list : out[i].id = list[i].id
      OBVIOUS
    <3> HIDE DEF out
    <3> QED
      BY <2>3, <3>1, IdsOf
  <2>5. IsInjective(Ids(out)) => IsInjective(Ids(list))
    <3> HIDE DEF out
    <3> QED
      BY <1>1, <2>4 DEF IsInjective
  <2>6. ASSUME IsInjective(Ids(list))
        PROVE  ToSet(out) = {d \in ToSet(list) : d.id # s.id} \cup {s}
    <3>1. PICK at \in DOMAIN list : list[at].id = s.id
      BY <1>1, <1>3 DEF ToSet
    <3>2. \A i \in DOMAIN list : list[i].id = s.id => i = at
      BY <1>1, <2>6, <3>1 DEF IsInjective
    <3>3. Replaced(at)
      BY <1>1, <3>1, <3>2
    <3>4. out[at] = s /\ \A i \in DOMAIN list : i # at => out[i] = list[i] /\ list[i].id # s.id
      BY <3>1, <3>2, <3>3
    <3> HIDE DEF out, Replaced
    <3> QED
      BY <2>3, <3>1, <3>4 DEF ToSet
  <2> HIDE DEF out
  <2> QED
    BY <2>1, <2>3, <2>5, <2>6
<1> QED
  BY <1>2, <1>3

\* The last definitions after one more.
LEMMA LatestOfMore ==
    ASSUME NEW list \in Seq(Definitions), NEW s \in Definitions
    PROVE  Latest(Append(list, s)) = {d \in Latest(list) : d.id # s.id} \cup {s}
<1> DEFINE out == Append(list, s)
           LastIn(l, j) == \A k \in j + 1 .. Len(l) : l[k].id # l[j].id
<1>1. /\ Len(list) \in Nat /\ DOMAIN list = 1 .. Len(list)
      /\ out \in Seq(Definitions) /\ Len(out) = Len(list) + 1
      /\ DOMAIN out = 1 .. Len(list) + 1
      /\ \A i \in 1 .. Len(list) : out[i] = list[i]
      /\ out[Len(list) + 1] = s
  BY AppendProperties, LenProperties
<1>2. /\ Latest(list) = {list[i] : i \in {j \in DOMAIN list : LastIn(list, j)}}
      /\ Latest(out) = {out[i] : i \in {j \in DOMAIN out : LastIn(out, j)}}
  BY DEF Latest
<1> HIDE DEF out
<1>3. LastIn(out, Len(list) + 1)
  BY <1>1
<1>4. ASSUME NEW j \in 1 .. Len(list)
      PROVE  LastIn(out, j) <=> LastIn(list, j) /\ list[j].id # s.id
  <2>1. \A k \in j + 1 .. Len(list) : k \in 1 .. Len(list)
    BY <1>1
  <2>2. j + 1 .. Len(out) = (j + 1 .. Len(list)) \cup {Len(list) + 1}
    BY <1>1
  <2> QED
    BY <1>1, <2>1, <2>2
<1> HIDE DEF LastIn
<1>5. ASSUME NEW d \in Latest(out) PROVE d \in {x \in Latest(list) : x.id # s.id} \cup {s}
  <2>1. PICK j \in 1 .. Len(list) + 1 : d = out[j] /\ LastIn(out, j)
    BY <1>1, <1>2
  <2>2. CASE j = Len(list) + 1
    BY <1>1, <2>1, <2>2
  <2>3. CASE j # Len(list) + 1
    <3>1. j \in 1 .. Len(list)
      BY <1>1, <2>3
    <3>2. d = list[j] /\ LastIn(list, j) /\ d.id # s.id
      BY <1>1, <1>4, <2>1, <3>1
    <3> QED
      BY <1>1, <1>2, <3>1, <3>2
  <2> QED
    BY <2>2, <2>3
<1>6. ASSUME NEW d \in {x \in Latest(list) : x.id # s.id} \cup {s} PROVE d \in Latest(out)
  <2>1. CASE d = s
    <3>1. Len(list) + 1 \in DOMAIN out
      BY <1>1
    <3> QED
      BY <1>1, <1>2, <1>3, <2>1, <3>1
  <2>2. CASE d # s
    <3>1. PICK j \in 1 .. Len(list) : d = list[j] /\ LastIn(list, j) /\ d.id # s.id
      BY <1>1, <1>2, <1>6, <2>2
    <3>2. j \in DOMAIN out /\ out[j] = d /\ LastIn(out, j)
      BY <1>1, <1>4, <3>1
    <3> QED
      BY <1>2, <3>2
  <2> QED
    BY <2>1, <2>2
<1> QED
  BY <1>5, <1>6 DEF out

\* Where no id is there twice, every definition is the last one.
LEMMA LatestOfDistinct ==
    ASSUME NEW list \in Seq(Definitions), IsInjective(Ids(list))
    PROVE  ToSet(list) = Latest(list)
<1>1. /\ Len(list) \in Nat /\ DOMAIN list = 1 .. Len(list)
      /\ \A i \in DOMAIN list : Ids(list)[i] = list[i].id
      /\ DOMAIN Ids(list) = DOMAIN list
  BY IdsOf
<1>2. \A j \in DOMAIN list : \A k \in j + 1 .. Len(list) : list[k].id # list[j].id
  <2> SUFFICES ASSUME NEW j \in DOMAIN list, NEW k \in j + 1 .. Len(list),
                      list[k].id = list[j].id
               PROVE  FALSE
    OBVIOUS
  <2>1. k \in DOMAIN list /\ k # j
    BY <1>1
  <2> QED
    BY <1>1, <2>1 DEF IsInjective
<1> QED
  BY <1>2 DEF ToSet, Latest

\* What the files hold.
LEMMA FilesOf ==
    ASSUME TypeOK
    PROVE  /\ files.inline \in Seq(Definitions)
           /\ files.pushed \in Seq(Definitions \cup {Malformed})
           /\ Len(files.pushed) \in Nat /\ DOMAIN files.pushed = 1 .. Len(files.pushed)
           /\ \A i \in DOMAIN files.pushed : files.pushed[i] \in Definitions \cup {Malformed}
           /\ Len(pushed) \in Nat /\ DOMAIN pushed = 1 .. Len(pushed)
           /\ \A i \in DOMAIN pushed : pushed[i] \in Definitions
<1>1. /\ files.inline \in Seq(Definitions)
      /\ files.pushed \in Seq(Definitions \cup {Malformed})
      /\ pushed \in Seq(Definitions)
  BY FilesAssumption DEF TypeOK
<1> QED
  BY <1>1, LenProperties, ElementOfSeq

\* One more entry is looked at.
LEMMA EntriesMore ==
    ASSUME TypeOK, entries < Len(files.pushed)
    PROVE  SubSeq(files.pushed, 1, entries + 1)
             = Append(SubSeq(files.pushed, 1, entries), files.pushed[entries + 1])
<1> DEFINE p == files.pushed
           D == Definitions \cup {Malformed}
<1>1. p \in Seq(D) /\ Len(p) \in Nat /\ entries \in Nat /\ entries + 1 \in 1 .. Len(p)
  BY FilesOf DEF TypeOK
<1> HIDE DEF p, D
<1> QED
  BY <1>1 DEF p

\* One more definition is merged.
LEMMA WrittenMore ==
    ASSUME TypeOK, merged < Len(pushed)
    PROVE  /\ pushed[merged + 1] \in Definitions
           /\ Written \in Seq(Definitions)
           /\ files.inline \o SubSeq(pushed, 1, merged + 1) = Append(Written, pushed[merged + 1])
<1> DEFINE p == pushed
<1>1. /\ files.inline \in Seq(Definitions)
      /\ Len(p) \in Nat /\ DOMAIN p = 1 .. Len(p)
      /\ \A i \in DOMAIN p : p[i] \in Definitions
      /\ merged \in Nat /\ merged + 1 \in 1 .. Len(p)
  BY FilesOf DEF TypeOK
<1>2. p \in Seq(Definitions)
  BY DEF TypeOK
<1> HIDE DEF p
<1>3. /\ SubSeq(p, 1, merged) \in Seq(Definitions)
      /\ SubSeq(p, 1, merged + 1) = Append(SubSeq(p, 1, merged), p[merged + 1])
  <2>1. \A i \in 1 .. merged : p[i] \in Definitions
    BY <1>1
  <2> QED
    BY <1>1, <1>2, <2>1
<1>4. files.inline \o SubSeq(p, 1, merged) \in Seq(Definitions)
  BY <1>1, <1>3, ConcatProperties
<1>5. files.inline \o Append(SubSeq(p, 1, merged), p[merged + 1])
        = Append(files.inline \o SubSeq(p, 1, merged), p[merged + 1])
  <2>1. p[merged + 1] \in Definitions /\ <<p[merged + 1]>> \in Seq(Definitions)
    BY <1>1
  <2> DEFINE x == p[merged + 1]
             w == SubSeq(p, 1, merged)
             l == files.inline
  <2>2. l \in Seq(Definitions) /\ w \in Seq(Definitions) /\ l \o w \in Seq(Definitions)
    BY <1>1, <1>3, <1>4
  <2> HIDE DEF x, w, l
  <2>3. Append(w, x) = w \o <<x>> /\ Append(l \o w, x) = (l \o w) \o <<x>>
    BY <2>1, <2>2, AppendIsConcat DEF x
  <2>4. (l \o w) \o <<x>> = l \o (w \o <<x>>)
    BY <2>1, <2>2, ConcatAssociative DEF x
  <2> QED
    BY <2>3, <2>4 DEF x, w, l
<1> QED
  BY <1>1, <1>3, <1>4, <1>5 DEF p, Written

-----------------------------------------------------------------------------
(* Messages.                                                               *)

\* One number more in a message.
LEMMA AddOne ==
    ASSUME NEW b \in Batches, NEW node \in Nodes, NEW r \in Readings, NEW time \in 1 .. MaxReadings
    PROVE  LET out == add(b, node, r, time)
               f == fragment_name(node)
               s == series_name(node)
           IN  /\ out \in Batches /\ out.entity = b.entity
               /\ out.time = (IF b.time = 0 THEN time ELSE b.time)
               /\ DOMAIN out.fragments = DOMAIN b.fragments \cup {f} \cup node.statics
               /\ \A g \in DOMAIN out.fragments :
                     DOMAIN out.fragments[g] =
                        (IF g \in DOMAIN b.fragments THEN DOMAIN b.fragments[g] ELSE {})
                            \cup (IF g = f THEN {s} ELSE {})
               /\ out.fragments[f][s] = r.n
               /\ \A g \in DOMAIN b.fragments : \A x \in DOMAIN b.fragments[g] :
                     g # f \/ x # s => out.fragments[g][x] = b.fragments[g][x]
<1> DEFINE f == fragment_name(node)
           s == series_name(node)
           Values == {x.n : x \in Readings}
           old == IF f \in DOMAIN b.fragments THEN b.fragments[f] ELSE EmptyMap
           new == MapInsert(old, s, r.n)
           put == MapInsert(b.fragments, f, new)
           all == Statics(put, node.statics)
           out == add(b, node, r, time)
<1>1. /\ b.fragments \in MapsOf(Fragments, MapsOf(Series, Values))
      /\ f \in Fragments /\ s \in Series /\ r.n \in Values /\ node.statics \subseteq Fragments
  BY DEF Batches, Contents, Fragments, Series
<1>2. IsMap(b.fragments, Fragments, MapsOf(Series, Values))
  <2> HIDE DEF Values
  <2> QED
    BY <1>1, MapsAreTyped
<1>3. old \in MapsOf(Series, Values)
  <2> HIDE DEF Values, f
  <2>1. CASE f \in DOMAIN b.fragments
    BY <1>2, <2>1 DEF IsMap
  <2>2. CASE f \notin DOMAIN b.fragments
    BY <2>2, EmptyIsMap
  <2> QED
    BY <2>1, <2>2
<1>4. /\ new \in MapsOf(Series, Values)
      /\ DOMAIN new = DOMAIN old \cup {s} /\ new[s] = r.n
      /\ \A x \in DOMAIN old : x # s => new[x] = old[x]
  <2> HIDE DEF Values, f, s, old
  <2> QED
    BY <1>1, <1>3, Inserted
<1>5. /\ put \in MapsOf(Fragments, MapsOf(Series, Values))
      /\ DOMAIN put = DOMAIN b.fragments \cup {f} /\ put[f] = new
      /\ \A g \in DOMAIN b.fragments : g # f => put[g] = b.fragments[g]
  <2> DEFINE V == MapsOf(Series, Values)
             m == b.fragments
  <2>1. m \in MapsOf(Fragments, V) /\ new \in V /\ f \in Fragments
    BY <1>1, <1>4
  <2> HIDE DEF Values, f, s, new, V, m
  <2>2. /\ MapInsert(m, f, new) \in MapsOf(Fragments, V)
        /\ DOMAIN MapInsert(m, f, new) = DOMAIN m \cup {f} /\ MapInsert(m, f, new)[f] = new
        /\ \A g \in DOMAIN m : g # f => MapInsert(m, f, new)[g] = m[g]
    BY <2>1, Inserted
  <2> QED
    BY <2>2 DEF V, m
<1>6. /\ DOMAIN all = DOMAIN put \cup node.statics
      /\ \A g \in DOMAIN all : all[g] = IF g \in DOMAIN put THEN put[g] ELSE EmptyMap
  <2> HIDE DEF put
  <2> QED
    BY DEF Statics
<1>7. IsMap(put, Fragments, MapsOf(Series, Values))
  <2> HIDE DEF Values, put
  <2> QED
    BY <1>5, MapsAreTyped
<1>8. all \in Contents
  <2> HIDE DEF Values, put
  <2>1. EmptyMap \in MapsOf(Series, Values)
    BY EmptyIsMap
  <2>2. \A g \in DOMAIN all : g \in Fragments /\ all[g] \in MapsOf(Series, Values)
    BY <1>1, <1>6, <1>7, <2>1 DEF IsMap
  <2>3. IsMap(all, Fragments, MapsOf(Series, Values))
    <3>1. all = [g \in DOMAIN all |-> all[g]]
      BY DEF Statics
    <3> HIDE DEF all
    <3> QED
      BY <2>2, <3>1 DEF IsMap
  <2> HIDE DEF all
  <2> QED
    BY <2>3, MapsAreTyped DEF Contents, Values
<1>9. out = [b EXCEPT !.fragments = all, !.time = IF @ = 0 THEN time ELSE @]
  BY DEF add
<1> HIDE DEF f, s, old, new, put, all, out, Values
<1>10. /\ out \in Batches /\ out.entity = b.entity /\ out.fragments = all
       /\ out.time = (IF b.time = 0 THEN time ELSE b.time)
  <2>1. /\ b.time \in 0 .. MaxReadings /\ time \in 0 .. MaxReadings
        /\ b.entity \in Entities \cup {<<>>}
        /\ b = [entity |-> b.entity, fragments |-> b.fragments, time |-> b.time]
    BY BoundsAssumption DEF Batches
  <2> DEFINE at == IF b.time = 0 THEN time ELSE b.time
  <2>2. out = [b EXCEPT !.fragments = all, !.time = at]
    BY <1>9
  <2>3. at \in 0 .. MaxReadings
    BY <2>1
  <2> HIDE DEF at
  <2>4. out = [entity |-> b.entity, fragments |-> all, time |-> at]
    BY <2>1, <2>2
  <2>5. out \in Batches
    BY <1>8, <2>1, <2>3, <2>4 DEF Batches
  <2> QED
    BY <2>4, <2>5 DEF at
<1>11. /\ f \in DOMAIN b.fragments => old = b.fragments[f]
       /\ f \notin DOMAIN b.fragments => DOMAIN old = {}
  BY EmptyIsMap DEF old
<1>12. ASSUME NEW g \in DOMAIN all
       PROVE  DOMAIN all[g] = (IF g \in DOMAIN b.fragments THEN DOMAIN b.fragments[g] ELSE {})
                                 \cup (IF g = f THEN {s} ELSE {})
  <2>1. CASE g = f
    BY <1>4, <1>5, <1>6, <1>11, <2>1
  <2>2. CASE g # f /\ g \in DOMAIN b.fragments
    BY <1>5, <1>6, <2>2
  <2>3. CASE g # f /\ g \notin DOMAIN b.fragments
    <3>1. all[g] = EmptyMap
      BY <1>5, <1>6, <2>3
    <3> QED
      BY <2>3, <3>1, EmptyIsMap
  <2> QED
    BY <2>1, <2>2, <2>3
<1>13. all[f][s] = r.n
  BY <1>4, <1>5, <1>6
<1>14. ASSUME NEW g \in DOMAIN b.fragments, NEW x \in DOMAIN b.fragments[g], g # f \/ x # s
       PROVE  all[g][x] = b.fragments[g][x]
  <2>1. CASE g = f
    BY <1>4, <1>5, <1>6, <1>11, <1>14, <2>1
  <2>2. CASE g # f
    BY <1>5, <1>6, <2>2
  <2> QED
    BY <2>1, <2>2
<1>15. DOMAIN all = DOMAIN b.fragments \cup {f} \cup node.statics
  BY <1>5, <1>6
<1> QED
  BY <1>10, <1>12, <1>13, <1>14, <1>15 DEF f, s, out

\* The numbers among readings, with one more of them.
LEMMA NumbersOfMore ==
    ASSUME NEW from \in Seq(Offers), NEW a \in Offers
    PROVE  /\ Len(from) \in Nat
           /\ Numbers(from) \subseteq 1 .. Len(from)
           /\ Numbers(Append(from, a)) =
                 Numbers(from) \cup (IF ~is_bad(a.reading) /\ is_number(a.reading)
                                     THEN {Len(from) + 1} ELSE {})
           /\ Append(from, a) \in Seq(Offers)
           /\ Append(from, a)[Len(from) + 1] = a
           /\ \A i \in 1 .. Len(from) : Append(from, a)[i] = from[i]
<1> DEFINE out == Append(from, a)
           Counts(x) == ~is_bad(x.reading) /\ is_number(x.reading)
<1>1. /\ Len(from) \in Nat /\ DOMAIN from = 1 .. Len(from)
      /\ out \in Seq(Offers) /\ DOMAIN out = 1 .. Len(from) + 1
      /\ \A i \in 1 .. Len(from) : out[i] = from[i]
      /\ out[Len(from) + 1] = a
  BY AppendProperties, LenProperties
<1>2. /\ Numbers(from) = {i \in 1 .. Len(from) : Counts(from[i])}
      /\ Numbers(out) = {i \in 1 .. Len(from) + 1 : Counts(out[i])}
  BY <1>1 DEF Numbers
<1>3. 1 .. Len(from) + 1 = 1 .. Len(from) \cup {Len(from) + 1}
  BY <1>1
<1> HIDE DEF out, Counts
<1>4. Numbers(out) = Numbers(from) \cup (IF Counts(a) THEN {Len(from) + 1} ELSE {})
  BY <1>1, <1>2, <1>3
<1> QED
  BY <1>1, <1>2, <1>4 DEF out, Counts

\* A number more is said.
LEMMA SaysMore ==
    ASSUME NEW from \in Seq(Offers), NEW b \in Batches, SaysSoFar(b, from),
           NEW node \in Nodes, NEW r \in Readings, NEW time \in 1 .. MaxReadings,
           ~is_bad(r), is_number(r)
    PROVE  SaysSoFar(add(b, node, r, time),
                     Append(from, [node |-> node, reading |-> r, time |-> time]))
<1> DEFINE a == [node |-> node, reading |-> r, time |-> time]
           to == Append(from, a)
           n == Len(from) + 1
           out == add(b, node, r, time)
           f == fragment_name(node)
           s == series_name(node)
<1>1. a \in Offers /\ a.node = node /\ a.reading = r /\ a.time = time
  BY DEF Offers
<1> HIDE DEF a
<1>2. /\ n \in Nat /\ n > 0 /\ Numbers(from) \subseteq 1 .. n - 1
      /\ Numbers(to) = Numbers(from) \cup {n}
      /\ to[n] = a
      /\ \A i \in Numbers(from) : i < n /\ i \in Nat /\ to[i] = from[i]
  BY <1>1, NumbersOfMore
<1>3. /\ out \in Batches
      /\ out.time = (IF b.time = 0 THEN time ELSE b.time)
      /\ DOMAIN out.fragments = DOMAIN b.fragments \cup {f} \cup node.statics
      /\ \A g \in DOMAIN out.fragments :
            DOMAIN out.fragments[g] =
               (IF g \in DOMAIN b.fragments THEN DOMAIN b.fragments[g] ELSE {})
                   \cup (IF g = f THEN {s} ELSE {})
      /\ out.fragments[f][s] = r.n
      /\ \A g \in DOMAIN b.fragments : \A x \in DOMAIN b.fragments[g] :
            g # f \/ x # s => out.fragments[g][x] = b.fragments[g][x]
  BY AddOne
<1> DEFINE F(i) == fragment_name(to[i].node)
           S(i) == series_name(to[i].node)
<1>4. F(n) = f /\ S(n) = s /\ to[n].reading.n = r.n /\ to[n].node = node /\ to[n].time = time
  BY <1>1, <1>2
<1>5. CASE Numbers(from) = {}
  <2>1. b.time = 0 /\ DOMAIN b.fragments = {}
    BY <1>5, EmptyIsMap DEF SaysSoFar
  <2>2. /\ Numbers(to) = {n} /\ out.time = time /\ out.time # 0
        /\ DOMAIN out.fragments = {f} \cup node.statics
        /\ \A g \in DOMAIN out.fragments : DOMAIN out.fragments[g] = IF g = f THEN {s} ELSE {}
    <3>1. Numbers(to) = {n} /\ time # 0
      BY <1>2, <1>5
    <3> HIDE DEF to, out, n, f, s
    <3>2. out.time = time /\ DOMAIN out.fragments = {f} \cup node.statics
      BY <1>3, <2>1
    <3>3. \A g \in DOMAIN out.fragments : DOMAIN out.fragments[g] = IF g = f THEN {s} ELSE {}
      BY <1>3, <2>1
    <3> QED
      BY <3>1, <3>2, <3>3
  <2> HIDE DEF to, out, n, f, s
  <2>3. Says(out, to)
    BY <1>2, <1>3, <1>4, <2>2 DEF Says
  <2> QED
    BY <2>2, <2>3 DEF SaysSoFar, a, to, out
<1>6. CASE Numbers(from) # {}
  <2>1. b.time # 0 /\ Says(b, from)
    BY <1>6 DEF SaysSoFar
  <2>2. out.time = b.time
    BY <1>3, <2>1
  <2> HIDE DEF to, out, n, f, s
  <2>3. \A i \in Numbers(from) :
          /\ F(i) = fragment_name(from[i].node) /\ S(i) = series_name(from[i].node)
          /\ to[i].node = from[i].node /\ to[i].reading = from[i].reading /\ to[i].time = from[i].time
    BY <1>2
  <2>4. \E i \in Numbers(to) : out.time = to[i].time /\ \A k \in Numbers(to) : i <= k
    <3>1. PICK i \in Numbers(from) : b.time = from[i].time /\ \A k \in Numbers(from) : i <= k
      BY <2>1 DEF Says
    <3>2. i \in Numbers(to) /\ i <= n /\ out.time = to[i].time
      BY <1>2, <2>2, <2>3, <3>1
    <3> QED
      BY <1>2, <3>1, <3>2
  <2>5. ASSUME NEW i \in Numbers(to)
        PROVE  /\ to[i].node.statics \subseteq DOMAIN out.fragments
               /\ F(i) \in DOMAIN out.fragments /\ S(i) \in DOMAIN out.fragments[F(i)]
               /\ \/ out.fragments[F(i)][S(i)] = to[i].reading.n
                  \/ \E k \in Numbers(to) : i < k /\ F(k) = F(i) /\ S(k) = S(i)
    <3>1. CASE i = n
      BY <1>3, <1>4, <3>1
    <3>2. CASE i \in Numbers(from)
      <4>1. /\ to[i].node.statics \subseteq DOMAIN b.fragments
            /\ F(i) \in DOMAIN b.fragments /\ S(i) \in DOMAIN b.fragments[F(i)]
            /\ \/ b.fragments[F(i)][S(i)] = to[i].reading.n
               \/ \E k \in Numbers(from) : i < k /\ F(k) = F(i) /\ S(k) = S(i)
        BY <2>1, <2>3, <3>2 DEF Says
      <4>2. /\ F(i) \in DOMAIN out.fragments
            /\ to[i].node.statics \subseteq DOMAIN out.fragments
            /\ S(i) \in DOMAIN out.fragments[F(i)]
        BY <1>3, <4>1
      <4>3. CASE F(i) = f /\ S(i) = s
        <5>1. n \in Numbers(to) /\ i < n
          BY <1>2, <3>2
        <5> QED
          BY <1>4, <4>2, <4>3, <5>1
      <4>4. CASE F(i) # f \/ S(i) # s
        <5>1. out.fragments[F(i)][S(i)] = b.fragments[F(i)][S(i)]
          BY <1>3, <4>1, <4>4
        <5>2. Numbers(from) \subseteq Numbers(to)
          BY <1>2
        <5> QED
          BY <4>1, <4>2, <5>1, <5>2
      <4> QED
        BY <4>3, <4>4
    <3> QED
      BY <1>2, <3>1, <3>2
  <2>6. ASSUME NEW g \in DOMAIN out.fragments, NEW x \in DOMAIN out.fragments[g]
        PROVE  \E i \in Numbers(to) : F(i) = g /\ S(i) = x
    <3>1. CASE g = f /\ x = s
      BY <1>2, <1>4, <3>1
    <3>2. CASE g \in DOMAIN b.fragments /\ x \in DOMAIN b.fragments[g]
      <4>1. PICK i \in Numbers(from) :
              fragment_name(from[i].node) = g /\ series_name(from[i].node) = x
        BY <2>1, <3>2 DEF Says
      <4> QED
        BY <1>2, <2>3, <4>1
    <3> QED
      BY <1>3, <2>6, <3>1, <3>2
  <2>7. ASSUME NEW g \in DOMAIN out.fragments
        PROVE  \E i \in Numbers(to) : g \in {F(i)} \cup to[i].node.statics
    <3>1. CASE g \in {f} \cup node.statics
      BY <1>2, <1>4, <3>1
    <3>2. CASE g \in DOMAIN b.fragments
      <4>1. PICK i \in Numbers(from) : g \in {fragment_name(from[i].node)} \cup from[i].node.statics
        BY <2>1, <3>2 DEF Says
      <4> QED
        BY <1>2, <2>3, <4>1
    <3> QED
      BY <1>3, <2>7, <3>1, <3>2
  <2>8. Says(out, to) /\ out.time # 0
    BY <2>1, <2>2, <2>4, <2>5, <2>6, <2>7 DEF Says
  <2>9. Numbers(to) # {}
    BY <1>2
  <2> QED
    BY <2>8, <2>9 DEF SaysSoFar, a, to, out
<1> QED
  BY <1>5, <1>6

\* A reading that is no number changes nothing that is said.
LEMMA SaysNoMore ==
    ASSUME NEW from \in Seq(Offers), NEW b \in Batches, SaysSoFar(b, from),
           NEW c, c.time = b.time, c.fragments = b.fragments,
           NEW a \in Offers, is_bad(a.reading) \/ ~is_number(a.reading)
    PROVE  SaysSoFar(c, Append(from, a))
<1> DEFINE to == Append(from, a)
<1>1. /\ Numbers(to) = Numbers(from)
      /\ \A i \in Numbers(from) : to[i] = from[i]
  BY NumbersOfMore
<1> HIDE DEF to
<1>2. Says(b, from) => Says(c, to)
  <2> SUFFICES ASSUME Says(b, from) PROVE Says(c, to)
    OBVIOUS
  <2>1. \E i \in Numbers(to) : c.time = to[i].time /\ \A k \in Numbers(to) : i <= k
    BY <1>1 DEF Says
  <2>2. ASSUME NEW i \in Numbers(to)
        PROVE  /\ to[i].node.statics \subseteq DOMAIN c.fragments
               /\ fragment_name(to[i].node) \in DOMAIN c.fragments
               /\ series_name(to[i].node) \in DOMAIN c.fragments[fragment_name(to[i].node)]
               /\ \/ c.fragments[fragment_name(to[i].node)][series_name(to[i].node)] = to[i].reading.n
                  \/ \E k \in Numbers(to) : /\ i < k
                                            /\ fragment_name(to[k].node) = fragment_name(to[i].node)
                                            /\ series_name(to[k].node) = series_name(to[i].node)
    BY <1>1 DEF Says
  <2>3. \A f \in DOMAIN c.fragments : \A s \in DOMAIN c.fragments[f] :
          \E i \in Numbers(to) : fragment_name(to[i].node) = f /\ series_name(to[i].node) = s
    BY <1>1 DEF Says
  <2>4. \A f \in DOMAIN c.fragments :
          \E i \in Numbers(to) : f \in {fragment_name(to[i].node)} \cup to[i].node.statics
    BY <1>1 DEF Says
  <2> QED
    BY <2>1, <2>2, <2>3, <2>4 DEF Says
<1> QED
  BY <1>1, <1>2 DEF SaysSoFar, to

-----------------------------------------------------------------------------
(* The invariant: types.                                                   *)

\* At the start.
LEMMA InitInv == Init => IInv
<1> SUFFICES ASSUME Init PROVE IInv
  OBVIOUS
<1>1. /\ 0 \in 0 .. MaxReadings /\ EmptyMap \in Contents
      /\ IsMap(meta, Entities, MapsOf(Series, {node.unit : node \in Nodes}))
  BY EmptyIsMap, MapsAreTyped, BoundsAssumption DEF Contents, Init
<1>2. Empty \in Batches /\ NoMessage \in Sent /\ added \in Seq(Offers)
  BY <1>1, EmptySeq DEF Init, Empty, NoMessage, Batches, Sent
<1>3. files \in Files /\ 0 \in 0 .. Len(files.pushed) /\ 0 \in 0 .. Len(pushed)
  <2>1. files.pushed \in Seq(Definitions \cup {Malformed})
    BY FilesAssumption DEF Init
  <2>2. pushed \in Seq(Definitions)
    BY EmptySeq DEF Init
  <2>3. Len(files.pushed) \in Nat /\ Len(pushed) \in Nat
    BY <2>1, <2>2, LenProperties
  <2> QED
    BY <2>3 DEF Init
<1>4. TypeOK
  BY <1>1, <1>2, <1>3, EmptySeq DEF Init, TypeOK
<1>5. Numbers(added) = {}
  BY DEF Init, Numbers
<1>6. Merged
  <2>1. SubSeq(files.pushed, 1, 0) = <<>>
    BY <1>4, FilesOf
  <2> QED
    BY <2>1 DEF Init, Merged
<1>7. Merged /\ NamedFor /\ Declared /\ OfOneEntity /\ BatchSays /\ AsRead
  BY <1>5, <1>6 DEF Init, NamedFor, Declared, OfOneEntity, ReadOf, BatchSays, SaysSoFar, AsRead,
              Empty, NoMessage
<1> QED
  BY <1>4, <1>7 DEF IInv

\* What may run, and what a device is of.
LEMMA DevicesOf ==
    ASSUME TypeOK
    PROVE  /\ desired \subseteq Servers
           /\ \A d \in devices : /\ d.entity \in Entities /\ d.type \in Types \cup {NoType}
                                 /\ d.server \in Servers \cup {NoServer}
                                 /\ ToSet(d.type.nodes) \subseteq Nodes
<1>1. ToSet(servers) \subseteq Servers
  BY IdsOf DEF TypeOK, ToSet, Servers
<1>2. desired \subseteq Servers
  BY <1>1 DEF desired, Servers, TypeOK
<1>3. ASSUME NEW d \in devices
      PROVE  /\ d.entity \in Entities /\ d.type \in Types \cup {NoType}
             /\ d.server \in Servers \cup {NoServer}
             /\ ToSet(d.type.nodes) \subseteq Nodes
  <2>1. d.entity \in Entities /\ d.type \in Types \cup {NoType} /\ d.server \in Servers \cup {NoServer}
    BY <1>3 DEF TypeOK
  <2>2. \A i \in DOMAIN d.type.nodes : d.type.nodes[i] \in Nodes
    BY <2>1, NodesOf
  <2> QED
    BY <2>1, <2>2 DEF ToSet
<1> QED
  BY <1>2, <1>3

\* Definitions are read, merged one by one, and taken or refused.
LEMMA LoadType ==
    ASSUME IInv, load_server_dir \/ load \/ merge_servers \/ validate
    PROVE  TypeOK' /\ Merged'
<1> USE DEF IInv
<1>1. CASE load_server_dir
  <2> DEFINE file == files.pushed[entries + 1]
             read == SubSeq(files.pushed, 1, entries)
  <2>1. /\ pc = "loading" /\ entries < Len(files.pushed) /\ entries' = entries + 1
        /\ UNCHANGED <<files, merged, servers, cloud, devices, meta, batch, added, sent>>
        /\ \/ lost' = TRUE /\ UNCHANGED <<pc, pushed>>
           \/ file = Malformed /\ pc' = "refused" /\ UNCHANGED <<pushed, lost>>
           \/ file # Malformed /\ pushed' = Append(pushed, file) /\ UNCHANGED <<pc, lost>>
    BY <1>1 DEF load_server_dir
  <2>2. /\ merged = 0 /\ merged' = 0
        /\ ~lost /\ pc # "refused" => pushed = read
    BY <2>1 DEF Merged
  <2>3. file \in Definitions \cup {Malformed} /\ entries' \in 0 .. Len(files.pushed)
    BY <2>1, FilesOf DEF TypeOK
  <2>4. SubSeq(files.pushed, 1, entries') = Append(read, file)
    BY <2>1, EntriesMore
  <2>5. pushed \in Seq(Definitions) /\ lost \in BOOLEAN
    BY DEF TypeOK
  <2> HIDE DEF file, read
  <2>6. /\ pushed' \in Seq(Definitions) /\ lost' \in BOOLEAN
        /\ pc' \in {"loading", "refused"}
    <3>1. CASE lost' = TRUE /\ UNCHANGED <<pc, pushed>>
      BY <2>1, <2>5, <3>1
    <3>2. CASE file = Malformed /\ pc' = "refused" /\ UNCHANGED <<pushed, lost>>
      BY <2>5, <3>2
    <3>3. CASE file # Malformed /\ pushed' = Append(pushed, file) /\ UNCHANGED <<pc, lost>>
      <4>1. file \in Definitions
        BY <2>3, <3>3
      <4>2. Append(pushed, file) \in Seq(Definitions)
        BY <2>5, <4>1, AppendProperties
      <4> QED
        BY <2>1, <2>5, <3>3, <4>2
    <3> QED
      BY <2>1, <3>1, <3>2, <3>3
  <2>7. ~lost' /\ pc' # "refused" => pushed' = SubSeq(files'.pushed, 1, entries')
    <3>1. ~lost' /\ pc' # "refused" => pushed' = Append(pushed, file) /\ ~lost /\ pc # "refused"
      BY <2>1
    <3>2. ~lost' /\ pc' # "refused" => pushed' = Append(read, file)
      BY <2>2, <3>1
    <3>3. files'.pushed = files.pushed
      BY <2>1
    <3> QED
      BY <2>4, <3>2, <3>3
  <2>8. 0 \in 0 .. Len(pushed')
    BY <2>6, LenProperties
  <2>9. TypeOK'
    BY <2>1, <2>2, <2>3, <2>6, <2>8 DEF TypeOK
  <2>10. Merged'
    BY <2>2, <2>6, <2>7 DEF Merged
  <2> QED
    BY <2>9, <2>10
<1>2. CASE load
  <2>1. /\ pc = "loading" /\ entries = Len(files.pushed) /\ pc' = "merging"
        /\ servers' = files.inline
        /\ UNCHANGED <<files, entries, pushed, lost, merged, cloud, devices, meta, batch, added, sent>>
    BY <1>2 DEF load
  <2>2. TypeOK'
    BY <2>1, FilesOf DEF TypeOK
  <2>3. merged = 0 /\ (~lost => pushed = SubSeq(files.pushed, 1, entries))
    BY <2>1 DEF Merged
  <2>4. Written' = files.inline
    <3>1. files.inline \in Seq(Definitions) /\ SubSeq(pushed, 1, 0) = <<>>
      BY FilesOf
    <3>2. files.inline \o <<>> = files.inline
      BY <3>1, ConcatEmptySeq
    <3> QED
      BY <2>1, <2>3, <3>1, <3>2 DEF Written
  <2>5. IsInjective(Ids(files.inline)) => ToSet(files.inline) = Latest(files.inline)
    BY FilesOf, LatestOfDistinct
  <2>6. Merged'
    BY <2>1, <2>3, <2>4, <2>5 DEF Merged
  <2> QED
    BY <2>2, <2>6
<1>3. CASE merge_servers
  <2> DEFINE s == pushed[merged + 1]
  <2>1. /\ pc = "merging" /\ merged < Len(pushed)
        /\ servers' = Put(servers, s) /\ merged' = merged + 1
        /\ UNCHANGED <<files, pc, entries, pushed, lost, cloud, devices, meta, batch, added, sent>>
    BY <1>3 DEF merge_servers
  <2>2. /\ s \in Definitions /\ Written \in Seq(Definitions) /\ Written' = Append(Written, s)
    BY <2>1, WrittenMore DEF Written
  <2>3. servers \in Seq(Definitions)
    BY DEF TypeOK
  <2> HIDE DEF s
  <2>4. /\ servers' \in Seq(Definitions)
        /\ IsInjective(Ids(servers')) =>
              /\ IsInjective(Ids(servers))
              /\ ToSet(servers') = {d \in ToSet(servers) : d.id # s.id} \cup {s}
    BY <2>1, <2>2, <2>3, PutOne
  <2>5. Latest(Written') = {d \in Latest(Written) : d.id # s.id} \cup {s}
    BY <2>2, LatestOfMore
  <2>6. merged' \in 0 .. Len(pushed)
    BY <2>1, FilesOf DEF TypeOK
  <2>7. TypeOK'
    BY <2>1, <2>4, <2>6 DEF TypeOK
  <2>8. IsInjective(Ids(servers)) => ToSet(servers) = Latest(Written)
    BY <2>1 DEF Merged
  <2>9. /\ ~lost => pushed = SubSeq(files.pushed, 1, entries)
        /\ entries = Len(files.pushed)
    BY <2>1 DEF Merged
  <2>10. Merged'
    BY <2>1, <2>4, <2>5, <2>8, <2>9 DEF Merged
  <2> QED
    BY <2>7, <2>10
<1>4. CASE validate
  <2>1. /\ pc = "merging" /\ merged = Len(pushed) /\ pc' \in {"running", "refused"}
        /\ pc' = "running" => IsInjective(Ids(servers))
        /\ UNCHANGED <<files, entries, pushed, lost, merged, servers, cloud, meta, batch, added, sent>>
        /\ devices' \in {devices, {Device(e, NoServer, NoType) : e \in {main_device, gateway_entity}}}
    BY <1>4 DEF validate
  <2>2. devices' \subseteq [entity : Entities, server : Servers \cup {NoServer},
                            type : Types \cup {NoType}]
    BY <2>1 DEF TypeOK, Device, Entities
  <2>3. TypeOK'
    BY <2>1, <2>2 DEF TypeOK
  <2>4. Merged'
    BY <2>1 DEF Merged, Written
  <2> QED
    BY <2>3, <2>4
<1> QED
  BY <1>1, <1>2, <1>3, <1>4

\* Servers are adopted and registered, and device types applied.
LEMMA WorldType ==
    ASSUME TypeOK,
           \/ \E object \in Objects : Adopt(object)
           \/ \E s \in desired : Register(s) \/ \E t \in Types : Apply(s, t)
    PROVE  TypeOK'
<1>1. CASE \E object \in Objects : Adopt(object)
  BY <1>1 DEF Adopt, TypeOK, config
<1>2. ASSUME NEW s \in desired, Register(s) PROVE TypeOK'
  <2>1. Device(topic_id(s), s, NoType) \in
          [entity : Entities, server : Servers \cup {NoServer}, type : Types \cup {NoType}]
    BY DevicesOf DEF Device, Entities
  <2> QED
    BY <1>2, <2>1 DEF Register, TypeOK, config
<1>3. ASSUME NEW s \in desired, NEW t \in Types, Apply(s, t) PROVE TypeOK'
  <2> DEFINE e == applied_entity(s, t)
             V == MapsOf(Series, {node.unit : node \in Nodes})
             m == measurement_meta(t)
  <2>1. e \in Entities /\ s \in Servers
    BY DevicesOf DEF Entities
  <2>2. m \in V
    BY MetaOfNodes
  <2>3. Device(e, s, t) \in
          [entity : Entities, server : Servers \cup {NoServer}, type : Types \cup {NoType}]
    BY <2>1 DEF Device
  <2>4. meta \in MapsOf(Entities, V)
    <3>1. IsMap(meta, Entities, V)
      BY DEF TypeOK
    <3> HIDE DEF V
    <3> QED
      BY <3>1, MapsAreTyped
  <2> HIDE DEF e, V, m
  <2>5. MapInsert(meta, e, m) \in MapsOf(Entities, V)
    BY <2>1, <2>2, <2>4, Inserted
  <2>6. IsMap(MapInsert(meta, e, m), Entities, V)
    BY <2>5, MapsAreTyped
  <2>7. /\ meta' \in {meta, MapInsert(meta, e, m)} /\ devices' = devices \cup {Device(e, s, t)}
        /\ UNCHANGED <<config, cloud, batch, added, sent>>
    BY <1>3 DEF Apply, e, m
  <2>8. IsMap(meta', Entities, V)
    <3>1. IsMap(meta, Entities, V)
      BY <2>4, MapsAreTyped
    <3> QED
      BY <2>6, <2>7, <3>1
  <2> QED
    BY <2>3, <2>7, <2>8 DEF TypeOK, V, config
<1> QED
  BY <1>1, <1>2, <1>3

-----------------------------------------------------------------------------
(* The invariant: what is registered, and what is said.                    *)

\* A configuration is read, and its first devices are registered.
LEMMA LoadInv ==
    ASSUME IInv, load_server_dir \/ load \/ merge_servers \/ validate
    PROVE  IInv'
<1>1. TypeOK' /\ Merged'
  BY LoadType
<1>2. /\ UNCHANGED <<meta, batch, added, sent>> /\ devices = {}
      /\ \/ devices' = devices /\ pc' # "running"
         \/ pc' = "running" /\ devices' = {Device(e, NoServer, NoType) : e \in {main_device, gateway_entity}}
  BY DEF load_server_dir, load, merge_servers, validate, IInv, NamedFor
<1>3. \A d \in devices' :
        d.server = NoServer /\ d.type = NoType /\ d.entity \in {main_device, gateway_entity}
  BY <1>2 DEF Device
<1>4. NamedFor'
  BY <1>2, <1>3 DEF NamedFor
<1>5. Declared'
  <2>1. Units(NoType) = {}
    BY DEF Units, NoType
  <2> QED
    BY <1>3, <2>1 DEF Declared
<1>6. OfOneEntity'
  BY <1>2 DEF IInv, OfOneEntity, ReadOf
<1>7. BatchSays' /\ AsRead'
  BY <1>2 DEF IInv, BatchSays, AsRead
<1> QED
  BY <1>1, <1>4, <1>5, <1>6, <1>7 DEF IInv

\* Devices only come: what was read of one still was.
LEMMA ReadStays ==
    ASSUME devices \subseteq devices', UNCHANGED <<batch, added, sent>>, OfOneEntity
    PROVE  OfOneEntity'
BY DEF OfOneEntity, ReadOf

\* Servers are adopted and registered, and device types applied.
LEMMA WorldInv ==
    ASSUME IInv,
           \/ \E object \in Objects : Adopt(object)
           \/ \E s \in desired : Register(s) \/ \E t \in Types : Apply(s, t)
    PROVE  IInv'
<1>1. TypeOK'
  BY WorldType DEF IInv
<1>2. UNCHANGED <<config, batch, added, sent>> /\ devices \subseteq devices'
  BY DEF Adopt, Register, Apply
<1>3. Merged'
  BY <1>2 DEF IInv, Merged, Written, config
<1>4. OfOneEntity' /\ BatchSays' /\ AsRead'
  BY <1>2, ReadStays DEF IInv, BatchSays, AsRead
<1>5. NamedFor' /\ Declared'
  <2>1. ASSUME NEW object \in Objects, Adopt(object) PROVE NamedFor' /\ Declared'
    BY <2>1 DEF Adopt, IInv, NamedFor, Declared, config
  <2>2. ASSUME NEW s \in desired, Register(s) PROVE NamedFor' /\ Declared'
    <3> DEFINE new == Device(topic_id(s), s, NoType)
    <3>1. /\ pc = "running" /\ pc' = pc /\ meta' = meta /\ devices' = devices \cup {new}
          /\ s \in Servers /\ new.entity = topic_id(s) /\ new.server = s /\ new.type = NoType
      BY <2>2, DevicesOf DEF Register, Device, IInv, config
    <3> HIDE DEF new
    <3>2. NamedFor'
      BY <3>1 DEF IInv, NamedFor
    <3>3. Units(new.type) = {}
      BY <3>1 DEF Units, NoType
    <3>4. Declared'
      BY <3>1, <3>3 DEF IInv, Declared
    <3> QED
      BY <3>2, <3>4
  <2>3. ASSUME NEW s \in desired, NEW t \in Types, Apply(s, t) PROVE NamedFor' /\ Declared'
    <3> DEFINE e == applied_entity(s, t)
               new == Device(e, s, t)
               m == measurement_meta(t)
    <3>1. /\ Device(topic_id(s), s, NoType) \in devices /\ pc' = pc
          /\ devices' = devices \cup {new}
          /\ meta' = (IF Units(t) = {} THEN meta ELSE MapInsert(meta, e, m))
          /\ s \in Servers /\ new.entity = e /\ new.server = s /\ new.type = t
      BY <2>3, DevicesOf DEF Apply, Device, IInv, config
    <3>2. pc = "running"
      BY <3>1 DEF IInv, NamedFor
    <3>3. NamedFor'
      BY <3>1, <3>2 DEF IInv, NamedFor
    <3> HIDE DEF new, m, e
    <3>4. CASE Units(t) = {}
      BY <3>1, <3>3, <3>4 DEF IInv, Declared
    <3>5. CASE Units(t) # {}
      <4>1. /\ e \in DOMAIN meta' /\ meta'[e] = m
            /\ \A x \in DOMAIN meta : x \in DOMAIN meta' /\ (x # e => meta'[x] = meta[x])
        BY <3>1, <3>5 DEF MapInsert
      <4>2. ASSUME NEW d \in devices', Units(d.type) # {}
            PROVE  \E w \in devices' :
                     /\ w.entity = d.entity /\ Units(w.type) # {}
                     /\ d.entity \in DOMAIN meta' /\ meta'[d.entity] = measurement_meta(w.type)
        <5>1. CASE d.entity = e
          <6>1. new \in devices' /\ new.type = t /\ new.entity = d.entity
            BY <3>1, <5>1
          <6> QED
            BY <3>5, <4>1, <5>1, <6>1 DEF m
        <5>2. CASE d.entity # e
          <6>1. d \in devices
            BY <3>1, <5>2
          <6> QED
            BY <3>1, <4>1, <4>2, <5>2, <6>1 DEF IInv, Declared
        <5> QED
          BY <5>1, <5>2
      <4> QED
        BY <3>3, <4>2 DEF Declared
    <3> QED
      BY <3>4, <3>5
  <2> QED
    BY <2>1, <2>2, <2>3
<1> QED
  BY <1>1, <1>3, <1>4, <1>5 DEF IInv

\* A reading is offered to the batch.
LEMMA AcceptInv ==
    ASSUME IInv, NEW d \in devices, NEW node \in ToSet(d.type.nodes), NEW r \in Readings,
           Accept(d, node, r)
    PROVE  IInv'
<1> DEFINE a == [node |-> node, reading |-> r, time |-> Len(added) + 1]
           b == [batch EXCEPT !.entity = d.entity]
<1>1. /\ added' = Append(added, a)
      /\ batch' = (IF is_bad(r) \/ ~is_number(r) THEN b ELSE add(b, node, r, Len(added) + 1))
      /\ added = <<>> \/ batch.entity = d.entity
      /\ Len(added) < MaxReadings
      /\ sent' = NoMessage
      /\ UNCHANGED <<config, cloud, devices, meta>>
  BY DEF Accept
<1>2. added \in Seq(Offers) /\ batch \in Batches
  BY DEF IInv, TypeOK
<1>3. /\ node \in Nodes /\ Len(added) + 1 \in 1 .. MaxReadings
      /\ a \in Offers /\ a.reading = r /\ a.node = node
  <2>1. Len(added) \in Nat /\ Len(added) + 1 \in 1 .. MaxReadings
    BY <1>1, <1>2, LenProperties, BoundsAssumption
  <2>2. node \in Nodes
    BY DevicesOf DEF IInv
  <2> QED
    BY <2>1, <2>2 DEF Offers
<1>4. /\ b \in Batches /\ b.entity = d.entity /\ b.time = batch.time
      /\ b.fragments = batch.fragments
  <2>1. d.entity \in Entities
    BY DevicesOf DEF IInv
  <2> QED
    BY <1>2, <2>1 DEF Batches
<1> HIDE DEF a, b
<1>5. batch' \in Batches /\ batch'.entity = d.entity
  BY <1>1, <1>3, <1>4, AddOne
<1>6. added' \in Seq(Offers)
  BY <1>1, <1>2, <1>3, AppendProperties
<1>7. NoMessage \in Sent
  BY EmptyIsMap, EmptySeq, BoundsAssumption DEF NoMessage, Sent, Contents
<1>8. TypeOK'
  BY <1>1, <1>5, <1>6, <1>7 DEF IInv, TypeOK, config
<1>9. Merged' /\ NamedFor' /\ Declared'
  BY <1>1 DEF IInv, Merged, Written, NamedFor, Declared, config
<1>10. SaysSoFar(batch', added')
  <2>1. SaysSoFar(batch, added)
    BY DEF IInv, BatchSays
  <2>2. CASE is_bad(r) \/ ~is_number(r)
    BY <1>1, <1>2, <1>3, <1>4, <2>1, <2>2, SaysNoMore
  <2>3. CASE ~is_bad(r) /\ is_number(r)
    <3>1. SaysSoFar(b, added)
      BY <1>4, <2>1 DEF SaysSoFar, Says
    <3>2. SaysSoFar(add(b, node, r, Len(added) + 1), Append(added, a))
      BY <1>2, <1>3, <1>4, <2>3, <3>1, SaysMore DEF a
    <3> QED
      BY <1>1, <2>3, <3>2
  <2> QED
    BY <2>2, <2>3
<1>11. OfOneEntity'
  <2>1. ASSUME NEW i \in DOMAIN added'
        PROVE  \E x \in devices : x.entity = d.entity /\ added'[i].node \in ToSet(x.type.nodes)
    <3>1. /\ Len(added) \in Nat /\ DOMAIN added = 1 .. Len(added)
          /\ i \in 1 .. Len(added) + 1
          /\ added'[Len(added) + 1] = a
          /\ \A k \in 1 .. Len(added) : added'[k] = added[k]
      BY <1>1, <1>2, <1>3, <1>6, <2>1, AppendProperties, LenProperties
    <3>2. CASE i = Len(added) + 1
      BY <1>3, <3>1, <3>2
    <3>3. CASE i \in 1 .. Len(added)
      <4>1. PICK x \in devices : x.entity = batch.entity /\ added[i].node \in ToSet(x.type.nodes)
        BY <3>1, <3>3 DEF IInv, OfOneEntity, ReadOf
      <4>2. added # <<>>
        BY <3>1, <3>3
      <4> QED
        BY <1>1, <3>1, <3>3, <4>1, <4>2
    <3> QED
      BY <3>1, <3>2, <3>3
  <2>2. sent'.from = <<>>
    BY <1>1 DEF NoMessage
  <2> QED
    BY <1>1, <1>5, <2>1, <2>2 DEF OfOneEntity, ReadOf
<1>12. AsRead'
  BY <1>1 DEF AsRead
<1> QED
  BY <1>8, <1>9, <1>10, <1>11, <1>12 DEF IInv, BatchSays

\* The batch is sent, if it holds a number, and a new one begins.
LEMMA FlushInv ==
    ASSUME IInv, flush
    PROVE  IInv'
<1>1. /\ sent' = (IF batch.time = 0 THEN NoMessage
                  ELSE [entity |-> batch.entity, fragments |-> batch.fragments,
                        time |-> batch.time, from |-> added])
      /\ batch' = Empty /\ added' = <<>>
      /\ UNCHANGED <<config, cloud, devices, meta>>
  BY DEF flush
<1>2. Empty \in Batches /\ NoMessage \in Sent /\ added' \in Seq(Offers)
  BY <1>1, EmptyIsMap, EmptySeq, BoundsAssumption DEF Empty, NoMessage, Batches, Sent, Contents
<1>3. /\ batch.entity \in Entities \cup {<<>>} /\ batch.fragments \in Contents
      /\ batch.time \in 0 .. MaxReadings /\ added \in Seq(Offers)
  BY DEF IInv, TypeOK, Batches
<1>4. sent' \in Sent
  BY <1>1, <1>2, <1>3 DEF Sent
<1>5. TypeOK'
  BY <1>1, <1>2, <1>4 DEF IInv, TypeOK, config
<1>6. Merged' /\ NamedFor' /\ Declared'
  BY <1>1 DEF IInv, Merged, Written, NamedFor, Declared, config
<1>7. BatchSays'
  BY <1>1 DEF BatchSays, SaysSoFar, Numbers, Empty
<1>8. CASE batch.time = 0
  <2>1. sent' = NoMessage /\ sent'.from = <<>>
    BY <1>1, <1>8 DEF NoMessage
  <2>2. AsRead' /\ OfOneEntity'
    BY <1>1, <2>1 DEF AsRead, OfOneEntity, ReadOf
  <2> QED
    BY <1>5, <1>6, <1>7, <2>2 DEF IInv
<1>9. CASE batch.time # 0
  <2>1. /\ sent'.from = added /\ sent'.entity = batch.entity /\ sent'.time = batch.time
        /\ sent'.fragments = batch.fragments
    BY <1>1, <1>9
  <2>2. Says(batch, added)
    BY <1>9 DEF IInv, BatchSays, SaysSoFar
  <2>3. Says(sent', added)
    BY <2>1, <2>2 DEF Says
  <2>4. AsRead' /\ OfOneEntity'
    BY <1>1, <2>1, <2>3 DEF AsRead, IInv, OfOneEntity, ReadOf
  <2> QED
    BY <1>5, <1>6, <1>7, <2>4 DEF IInv
<1> QED
  BY <1>8, <1>9

\* Every step.
LEMMA NextInv == IInv /\ [Next]_vars => IInv'
<1> SUFFICES ASSUME IInv, [Next]_vars PROVE IInv'
  OBVIOUS
<1>1. CASE load_server_dir \/ load \/ merge_servers \/ validate
  BY <1>1, LoadInv
<1>2. CASE Reads
  BY <1>2, AcceptInv DEF Reads
<1>3. CASE flush
  BY <1>3, FlushInv
<1>4. CASE \/ \E object \in Objects : Adopt(object)
           \/ \E s \in desired : Register(s) \/ \E t \in Types : Apply(s, t)
  BY <1>4, WorldInv
<1>5. CASE UNCHANGED vars
  <2>1. UNCHANGED <<files, pc, entries, pushed, lost, merged, servers, cloud, devices, meta, batch, added,
                     sent>>
    BY <1>5 DEF vars
  <2>2. TypeOK' /\ Merged' /\ NamedFor' /\ Declared'
    BY <2>1 DEF IInv, TypeOK, Merged, Written, NamedFor, Declared
  <2>3. OfOneEntity' /\ BatchSays' /\ AsRead'
    BY <2>1 DEF IInv, OfOneEntity, ReadOf, BatchSays, AsRead
  <2> QED
    BY <2>2, <2>3 DEF IInv
<1> QED
  BY <1>1, <1>2, <1>3, <1>4, <1>5 DEF Next

\* The inductive invariant holds in every behaviour.
THEOREM Inductive == Spec => []IInv
<1> QED
  BY InitInv, NextInv, PTL DEF Spec

\* Every variable has its type: what is merged are definitions, what is
\* registered are entities of servers and device types, what is sent is a
\* message of the fragments and series of the device types.
THEOREM TypeCorrect == Spec => []TypeOK
<1>1. IInv => TypeOK
  BY DEF IInv
<1> QED
  BY Inductive, <1>1, PTL

-----------------------------------------------------------------------------
(* The properties.                                                         *)

\* However many definitions there are inline and pushed, a gateway that starts
\* has the last one of every id, once (merge_servers and validate of config.rs).
THEOREM DefinitionsServed == Spec => []ServedAsWritten
<1>1. IInv => ServedAsWritten
  <2> SUFFICES ASSUME IInv, pc = "running"
               PROVE  /\ IsInjective(Ids(servers))
                      /\ ToSet(servers) = Latest(files.inline \o pushed)
                      /\ ~lost => pushed = files.pushed
    BY DEF ServedAsWritten
  <2>1. /\ merged = Len(pushed) /\ IsInjective(Ids(servers))
        /\ ToSet(servers) = Latest(Written) /\ entries = Len(files.pushed)
        /\ ~lost => pushed = SubSeq(files.pushed, 1, entries)
    BY DEF IInv, Merged
  <2>2. /\ SubSeq(pushed, 1, Len(pushed)) = pushed
        /\ SubSeq(files.pushed, 1, Len(files.pushed)) = files.pushed
    <3>1. pushed \in Seq(Definitions) /\ files.pushed \in Seq(Definitions \cup {Malformed})
      BY FilesOf DEF IInv, TypeOK
    <3> QED
      BY <3>1
  <2> QED
    BY <2>1, <2>2 DEF Written
<1> QED
  BY Inductive, <1>1, PTL

\* Whatever is read, in whatever order, a message holds the newest number of
\* every series, is dated by the first, and holds nothing else but the static
\* fragments (MeasurementBuilder::add of payload.rs).
THEOREM MessagesAsRead == Spec => []AsRead
<1>1. IInv => AsRead
  BY DEF IInv
<1> QED
  BY Inductive, <1>1, PTL

\* The units of what a message was read from are declared under the names it
\* uses, unless nodes or device types that share a name disagree
\* (measurement_meta and publish_units).
THEOREM UnitsDeclared == Spec => []UnitsFit
<1>1. IInv => UnitsFit
  <2> DEFINE Sharing == {d \in devices : d.entity = sent.entity /\ Units(d.type) # {}}
             Contested(node) ==
               \E d \in Sharing :
                 \/ node \notin ToSet(d.type.nodes)
                 \/ \E other \in ToSet(d.type.nodes) :
                      series_name(other) = series_name(node) /\ other.unit \notin {None, node.unit}
  <2> SUFFICES ASSUME IInv, NEW i \in DOMAIN sent.from, NEW node, node = sent.from[i].node,
                      node.unit # None, ~Contested(node)
               PROVE  /\ sent.entity \in DOMAIN meta
                      /\ series_name(node) \in DOMAIN meta[sent.entity]
                      /\ meta[sent.entity][series_name(node)] = node.unit
    BY DEF UnitsFit
  <2>1. PICK d \in devices : d.entity = sent.entity /\ node \in ToSet(d.type.nodes)
    BY DEF IInv, OfOneEntity, ReadOf
  <2>2. Units(d.type) # {}
    BY <2>1 DEF Units, ToSet
  <2>3. PICK e \in devices :
          /\ e.entity = sent.entity /\ Units(e.type) # {}
          /\ sent.entity \in DOMAIN meta /\ meta[sent.entity] = measurement_meta(e.type)
    BY <2>1, <2>2 DEF IInv, Declared
  <2>4. e \in Sharing
    BY <2>3
  <2>5. /\ node \in ToSet(e.type.nodes)
        /\ \A other \in ToSet(e.type.nodes) :
              series_name(other) = series_name(node) => other.unit \in {None, node.unit}
    BY <2>4
  <2> HIDE DEF Sharing, Contested
  <2>6. e.type \in Types
    <3>1. e.type \in Types \cup {NoType} /\ Units(NoType) = {}
      BY DevicesOf DEF IInv, Units, NoType
    <3> QED
      BY <2>3, <3>1
  <2>7. PICK k \in Units(e.type) : e.type.nodes[k] = node
    BY <2>5 DEF Units, ToSet
  <2>8. series_name(node) \in DOMAIN measurement_meta(e.type)
    BY <2>6, <2>7, MetaOfNodes
  <2>9. PICK j \in UnitsOf(e.type, series_name(node)) :
          measurement_meta(e.type)[series_name(node)] = e.type.nodes[j].unit
    BY <2>6, <2>8, MetaOfNodes
  <2>10. e.type.nodes[j].unit = node.unit
    BY <2>5, <2>9 DEF UnitsOf, Units, ToSet
  <2> QED
    BY <2>3, <2>8, <2>9, <2>10
<1> QED
  BY Inductive, <1>1, PTL

\* Two words of digits with a dash between them.
LEMMA Dashed ==
    ASSUME NEW x \in Seq(Digits), NEW u \in Seq(Digits)
    PROVE  LET w == x \o <<"-">> \o u
           IN  /\ w \in Seq(Digits \cup {"-"})
               /\ Len(x) \in Nat /\ Len(u) \in Nat /\ Len(w) = Len(x) + 1 + Len(u)
               /\ DOMAIN x = 1 .. Len(x) /\ DOMAIN u = 1 .. Len(u)
               /\ w[Len(x) + 1] = "-"
               /\ \A i \in 1 .. Len(x) : w[i] = x[i] /\ x[i] # "-"
               /\ \A i \in 1 .. Len(u) : w[Len(x) + 1 + i] = u[i]
<1> DEFINE D == Digits \cup {"-"}
           xd == x \o <<"-">>
<1>1. x \in Seq(D) /\ u \in Seq(D) /\ <<"-">> \in Seq(D) /\ Len(<<"-">>) = 1 /\ <<"-">>[1] = "-"
  OBVIOUS
<1>2. /\ Len(x) \in Nat /\ Len(u) \in Nat
      /\ DOMAIN x = 1 .. Len(x) /\ DOMAIN u = 1 .. Len(u)
      /\ \A i \in 1 .. Len(x) : x[i] \in Digits
  BY LenProperties, ElementOfSeq
<1> HIDE DEF D
<1>3. /\ xd \in Seq(D) /\ Len(xd) = Len(x) + 1
      /\ \A i \in 1 .. Len(x) : xd[i] = x[i]
      /\ xd[Len(x) + 1] = "-"
  BY <1>1, <1>2, ConcatProperties
<1> HIDE DEF xd
<1>4. /\ xd \o u \in Seq(D) /\ Len(xd \o u) = Len(x) + 1 + Len(u)
      /\ \A i \in 1 .. Len(x) + 1 : (xd \o u)[i] = xd[i]
      /\ \A i \in 1 .. Len(u) : (xd \o u)[Len(x) + 1 + i] = u[i]
  <2>1. /\ xd \o u \in Seq(D) /\ Len(xd \o u) = Len(xd) + Len(u)
        /\ \A i \in 1 .. Len(xd) + Len(u) :
              (xd \o u)[i] = IF i <= Len(xd) THEN xd[i] ELSE u[i - Len(xd)]
    BY <1>1, <1>3, ConcatProperties
  <2>2. \A i \in 1 .. Len(x) + 1 : i \in 1 .. Len(xd) + Len(u) /\ i <= Len(xd)
    BY <1>2, <1>3
  <2>3. \A i \in 1 .. Len(u) : /\ Len(x) + 1 + i \in 1 .. Len(xd) + Len(u)
                               /\ ~(Len(x) + 1 + i <= Len(xd))
                               /\ Len(x) + 1 + i - Len(xd) = i
    BY <1>2, <1>3
  <2> QED
    BY <1>3, <2>1, <2>2, <2>3
<1>5. \A i \in 1 .. Len(x) : x[i] # "-"
  BY <1>2, ObjectsAssumption
<1>6. /\ (xd \o u)[Len(x) + 1] = "-"
      /\ \A i \in 1 .. Len(x) : (xd \o u)[i] = x[i]
  BY <1>2, <1>3, <1>4
<1> QED
  BY <1>2, <1>4, <1>5, <1>6 DEF xd, D

\* The dash tells the two words apart.
LEMMA DashSeparates ==
    ASSUME NEW x \in Seq(Digits), NEW y \in Seq(Digits), NEW u \in Seq(Digits), NEW v \in Seq(Digits),
           x \o <<"-">> \o u = y \o <<"-">> \o v
    PROVE  x = y /\ u = v
<1> DEFINE w == x \o <<"-">> \o u
           z == y \o <<"-">> \o v
<1>0. w = z
  OBVIOUS
<1>1. /\ Len(x) \in Nat /\ Len(u) \in Nat /\ Len(w) = Len(x) + 1 + Len(u)
      /\ DOMAIN x = 1 .. Len(x) /\ DOMAIN u = 1 .. Len(u)
      /\ w[Len(x) + 1] = "-"
      /\ \A i \in 1 .. Len(x) : w[i] = x[i] /\ x[i] # "-"
      /\ \A i \in 1 .. Len(u) : w[Len(x) + 1 + i] = u[i]
  BY Dashed
<1>2. /\ Len(y) \in Nat /\ Len(v) \in Nat /\ Len(z) = Len(y) + 1 + Len(v)
      /\ DOMAIN y = 1 .. Len(y) /\ DOMAIN v = 1 .. Len(v)
      /\ z[Len(y) + 1] = "-"
      /\ \A i \in 1 .. Len(y) : z[i] = y[i] /\ y[i] # "-"
      /\ \A i \in 1 .. Len(v) : z[Len(y) + 1 + i] = v[i]
  BY Dashed
<1> HIDE DEF w, z
<1>3. Len(x) = Len(y)
  <2>1. Len(x) < Len(y) => Len(x) + 1 \in 1 .. Len(y)
    BY <1>1, <1>2
  <2>2. Len(y) < Len(x) => Len(y) + 1 \in 1 .. Len(x)
    BY <1>1, <1>2
  <2>3. ~(Len(x) < Len(y)) /\ ~(Len(y) < Len(x))
    BY <1>0, <1>1, <1>2, <2>1, <2>2
  <2>4. Len(x) \in Nat /\ Len(y) \in Nat
    BY <1>1, <1>2
  <2> QED
    BY <2>3, <2>4
<1>4. Len(u) = Len(v)
  <2>1. Len(x) + 1 + Len(u) = Len(y) + 1 + Len(v)
    BY <1>0, <1>1, <1>2
  <2>2. Len(x) \in Nat /\ Len(y) \in Nat /\ Len(u) \in Nat /\ Len(v) \in Nat
    BY <1>1, <1>2
  <2> QED
    BY <1>3, <2>1, <2>2
<1>5. \A i \in 1 .. Len(x) : x[i] = y[i]
  BY <1>0, <1>1, <1>2, <1>3
<1>6. \A i \in 1 .. Len(u) : u[i] = v[i]
  BY <1>0, <1>1, <1>2, <1>3, <1>4
<1> QED
  BY <1>3, <1>4, <1>5, <1>6, SeqEqual

\* And they are no single word.
LEMMA DashShows ==
    ASSUME NEW x \in Seq(Digits), NEW y \in Seq(Digits), NEW u \in Seq(Digits)
    PROVE  y # x \o <<"-">> \o u
<1> DEFINE w == x \o <<"-">> \o u
<1>1. /\ Len(x) \in Nat /\ Len(u) \in Nat /\ Len(w) = Len(x) + 1 + Len(u)
      /\ w[Len(x) + 1] = "-"
  BY Dashed
<1>2. \A i \in 1 .. Len(y) : y[i] # "-"
  BY Dashed
<1> HIDE DEF w
<1>3. y # w
  <2> SUFFICES ASSUME y = w PROVE FALSE
    OBVIOUS
  <2>1. Len(x) + 1 \in 1 .. Len(y)
    BY <1>1
  <2> QED
    BY <1>1, <1>2, <2>1
<1> QED
  BY <1>3 DEF w

\* An adopted server has its managed object for an entity.
LEMMA ServerOfObject ==
    ASSUME NEW s \in Servers, s.topic_id # <<>>
    PROVE  \E object \in Objects :
               s = Adopted(object) /\ topic_id(s) = object /\ object \in Seq(Digits)
<1>1. PICK object \in Objects : s = Adopted(object)
  BY FilesAssumption DEF Servers
<1>2. s.topic_id = object /\ sanitize_id(object) = object /\ object \in Seq(Digits)
  BY <1>1, ObjectsAssumption DEF Adopted
<1> QED
  BY <1>1, <1>2 DEF topic_id

\* Whatever servers and device types there are, and whatever their names, no two
\* devices that are known by managed objects have one entity, nor one that is the
\* gateway's (sanitize_id of topic.rs and AppliedDeviceType::new).
THEOREM EntitiesApart == Spec => []DevicesApart
<1>1. IInv => DevicesApart
  <2> SUFFICES ASSUME IInv, NEW d \in devices, NEW e \in devices,
                      OfCumulocity(d), OfCumulocity(e), d.entity = e.entity
               PROVE  d = e
    BY DEF DevicesApart
  <2> DEFINE Gateway(x) == /\ x.server = NoServer /\ x.type = NoType
                           /\ x.entity \in {main_device, gateway_entity}
             Server(x, o) == x.server = Adopted(o) /\ x.type = NoType /\ x.entity = o
             Applied(x, o, t) == /\ x.server = Adopted(o) /\ x.type = t /\ t.pulled
                                 /\ x.entity = o \o <<"-">> \o t.id
             Named == {o \in Objects : o \in Seq(Digits)}
             Pulled == {t \in Types : t.pulled /\ t.id \in Seq(Digits)}
  <2>1. ASSUME NEW x \in devices, OfCumulocity(x)
        PROVE  \/ Gateway(x)
               \/ \E o \in Named : Server(x, o) \/ \E t \in Pulled : Applied(x, o, t)
    <3>1. \/ Gateway(x)
          \/ x.server \in Servers /\ x.type = NoType /\ x.entity = topic_id(x.server)
          \/ /\ x.server \in Servers /\ x.type \in Types
             /\ x.entity = applied_entity(x.server, x.type)
      BY DEF IInv, NamedFor
    <3>2. CASE x.server \in Servers
      <4>1. x.server # NoServer
        <5>1. \A o \in Objects : Adopted(o) # NoServer
          BY ObjectsAssumption DEF Adopted, NoServer
        <5>2. NoServer \notin Definitions
          BY DEF Definitions, Malformed
        <5> QED
          BY <3>2, <5>1, <5>2 DEF Servers
      <4>2. x.server.topic_id # <<>> /\ (x.type = NoType \/ x.type.pulled)
        BY <2>1, <4>1 DEF OfCumulocity
      <4>3. PICK o \in Named : x.server = Adopted(o) /\ topic_id(x.server) = o
        BY <3>2, <4>2, ServerOfObject
      <4>4. CASE x.type = NoType
        <5>1. x.entity = o
          BY <3>1, <4>1, <4>3, <4>4, TypesAssumption
        <5> QED
          BY <4>3, <4>4, <5>1
      <4>5. CASE x.type # NoType
        <5>1. /\ x.type \in Types /\ x.type.pulled
              /\ x.entity = applied_entity(x.server, x.type)
          BY <3>1, <4>1, <4>2, <4>5
        <5>2. x.type.id \in Seq(Digits) /\ sanitize_id(x.type.id) = x.type.id
          BY <5>1, ObjectsAssumption
        <5>3. Applied(x, o, x.type)
          BY <4>3, <5>1, <5>2 DEF applied_entity
        <5> QED
          BY <4>3, <5>1, <5>2, <5>3
      <4> QED
        BY <4>4, <4>5
    <3> QED
      BY <3>1, <3>2
  <2>2. \A o \in Named : \A t \in Pulled :
          o \in Seq(Digits \cup {"-"}) /\ o \o <<"-">> \o t.id \in Seq(Digits \cup {"-"})
    BY Dashed
  <2>3. \A x \in devices : x = [entity |-> x.entity, server |-> x.server, type |-> x.type]
    BY DEF IInv, TypeOK
  <2>4. ASSUME NEW x \in devices, NEW y \in devices, x.entity = y.entity, Gateway(x),
               NEW o \in Named
        PROVE  ~Server(y, o) /\ \A t \in Pulled : ~Applied(y, o, t)
    <3>1. x.entity \notin Seq(Digits \cup {"-"})
      BY <2>4, GatewayAssumption
    <3>2. o \in Seq(Digits \cup {"-"})
      OBVIOUS
    <3> QED
      BY <2>2, <2>4, <3>1, <3>2
  <2>5. CASE Gateway(d) /\ Gateway(e)
    BY <2>3, <2>5
  <2>6. CASE Gateway(d) /\ ~Gateway(e)
    BY <2>1, <2>4, <2>6
  <2>7. CASE ~Gateway(d) /\ Gateway(e)
    BY <2>1, <2>4, <2>7
  <2>8. CASE ~Gateway(d) /\ ~Gateway(e)
    <3>1. PICK o \in Named : Server(d, o) \/ \E t \in Pulled : Applied(d, o, t)
      BY <2>1, <2>8
    <3>2. PICK p \in Named : Server(e, p) \/ \E t \in Pulled : Applied(e, p, t)
      BY <2>1, <2>8
    <3>3. CASE Server(d, o) /\ Server(e, p)
      BY <2>3, <3>3
    <3>4. ASSUME Server(d, o), NEW t \in Pulled, Applied(e, p, t) PROVE FALSE
      BY <3>4, DashShows
    <3>5. ASSUME Server(e, p), NEW t \in Pulled, Applied(d, o, t) PROVE FALSE
      BY <3>5, DashShows
    <3>6. ASSUME NEW t \in Pulled, Applied(d, o, t), NEW u \in Pulled, Applied(e, p, u)
          PROVE  d = e
      <4>1. o = p /\ t.id = u.id
        <5>1. /\ o \in Seq(Digits) /\ p \in Seq(Digits)
              /\ t.id \in Seq(Digits) /\ u.id \in Seq(Digits)
          OBVIOUS
        <5>2. o \o <<"-">> \o t.id = p \o <<"-">> \o u.id
          BY <3>6
        <5> QED
          BY <5>1, <5>2, DashSeparates
      <4>2. t = u
        BY <4>1, TypesAssumption
      <4> QED
        BY <2>3, <3>6, <4>1, <4>2
    <3> QED
      BY <3>1, <3>2, <3>3, <3>4, <3>5, <3>6
  <2> QED
    BY <2>5, <2>6, <2>7, <2>8
<1> QED
  BY Inductive, <1>1, PTL

=============================================================================
