----------------------------- MODULE ScriptProofs -----------------------------
(* Proofs about Script and Layers: names and numbers of layers are unique, but    *)
(* for what the layer map says, and what it joins stays joined; to the layers a   *)
(* script of any length is a behaviour of Layers; and its commands work on the    *)
(* objects of the blocks around them, however deep these are nested.              *)
EXTENDS Script, Foundations, FiniteSetTheorems, SequenceTheorems

-------------------------------------------------------------------------------
(* The layers of the technology.                                                  *)

TypeOK ==
  /\ DOMAIN tech \subseteq Addr
  /\ \A a \in DOMAIN tech : tech[a] \in [name : Name \cup {NoName}, id : Nat]
  /\ map \in [Name -> Id \cup {-1}]

NamesUnique ==
  \A a, b \in DOMAIN tech : tech[a].name = tech[b].name /\ tech[a].name # NoName => a = b

\* Layers of one number are those that the map gives it to.
IdsMapped ==
  \A a, b \in DOMAIN tech :
    tech[a].id = tech[b].id /\ tech[a].id # 0 /\ a # b =>
      tech[a].name \in Name /\ map[tech[a].name] = tech[a].id

\* What the map says is there, and while it is loaded there is nothing else.
MapKept ==
  \A n \in Name : map[n] # -1 => \E a \in DOMAIN tech : tech[a] = [name |-> n, id |-> map[n]]
OnlyMapped ==
  mapping => \A a \in DOMAIN tech : tech[a].name \in Name /\ tech[a].id = map[tech[a].name]

IInv == TypeOK /\ NamesUnique /\ IdsMapped /\ MapKept /\ OnlyMapped

-------------------------------------------------------------------------------

LEMMA FirstOfOne ==
  ASSUME NEW a \in Nat
  PROVE  First({a}) = a
<1>1. \A b \in {a} : a <= b OBVIOUS
<1> QED BY <1>1 DEF First

LEMMA FirstIsIn ==
  ASSUME NEW S \in SUBSET Nat, S # {}
  PROVE  First(S) \in S
<1>1. PICK a \in S : \A b \in S : <<b, a>> \notin OpToRel(<, Nat)
  BY WFMin, NatLessThanWellFounded
<1>2. ASSUME NEW b \in S PROVE a <= b
  <2>1. ~(b < a)
    BY <1>1 DEF OpToRel
  <2> QED BY <2>1
<1> QED BY <1>2 DEF First

LEMMA FoundByName ==
  ASSUME IInv, NEW n \in Name
  PROVE  \/ Named(n) = {} /\ ByName(n) = 0
         \/ \E a \in DOMAIN tech : Named(n) = {a} /\ ByName(n) = a /\ a # 0 /\ tech[a].name = n
<1>1. CASE Named(n) = {}
  BY <1>1 DEF ByName
<1>2. CASE Named(n) # {}
  <2>1. PICK a \in DOMAIN tech : tech[a].name = n
    BY <1>2 DEF Named
  <2>2. Named(n) = {a}
    BY <2>1, NoNameAssumption DEF Named, IInv, NamesUnique
  <2>3. a \in Nat \ {0}
    BY AddrAssumption DEF IInv, TypeOK
  <2>4. ByName(n) = a
    BY <2>2, <2>3, FirstOfOne DEF ByName
  <2> QED BY <2>1, <2>2, <2>3, <2>4
<1> QED BY <1>1, <1>2

LEMMA FoundById ==
  ASSUME IInv, NEW i \in Id
  PROVE  \/ Numbered(i) = {} /\ ById(i) = 0
         \/ ById(i) \in DOMAIN tech /\ ById(i) # 0 /\ tech[ById(i)].id = i
<1>1. CASE Numbered(i) = {}
  BY <1>1 DEF ById
<1>2. CASE Numbered(i) # {}
  <2>1. Numbered(i) \subseteq Nat \ {0}
    BY AddrAssumption DEF Numbered, IInv, TypeOK
  <2>2. First(Numbered(i)) \in Numbered(i)
    BY <1>2, <2>1, FirstIsIn
  <2> QED BY <1>2, <2>1, <2>2 DEF ById, Numbered
<1> QED BY <1>1, <1>2

-------------------------------------------------------------------------------

LEMMA InitInv == Init => IInv
BY DEF Init, IInv, TypeOK, NamesUnique, IdsMapped, MapKept, OnlyMapped

\* A layer that is made with a name and a number that no other has.
LEMMA NewLayer ==
  ASSUME IInv, NEW a \in Fresh, NEW n \in Name \cup {NoName}, NEW i \in Nat,
         ~mapping, UNCHANGED <<mapping, map>>,
         tech' = WithLayer(a, n, i),
         n # NoName => Named(n) = {},
         i # 0 => Numbered(i) = {}
  PROVE  IInv'
<1>1. /\ DOMAIN tech' = DOMAIN tech \cup {a}
      /\ tech'[a] = [name |-> n, id |-> i]
      /\ \A b \in DOMAIN tech : tech'[b] = tech[b]
      /\ a \in Addr /\ a \notin DOMAIN tech
  BY DEF WithLayer, Fresh
<1>2. TypeOK'
  BY <1>1 DEF IInv, TypeOK
<1>3. NamesUnique'
  BY <1>1 DEF IInv, NamesUnique, Named
<1>4. IdsMapped'
  BY <1>1 DEF IInv, IdsMapped, Numbered
<1>5. MapKept'
  BY <1>1 DEF IInv, MapKept
<1>6. OnlyMapped'
  BY DEF OnlyMapped
<1> QED BY <1>2, <1>3, <1>4, <1>5, <1>6 DEF IInv

\* A line of the map gives a name a number, that other names may have.
LEMMA MapLineInv ==
  ASSUME IInv, NEW n \in Name, NEW i \in Id, MapLine(n, i)
  PROVE  IInv'
<1>1. /\ mapping /\ mapping'
      /\ map \in [Name -> Id \cup {-1}]
      /\ map' = [map EXCEPT ![n] = i]
      /\ i \in Nat
      /\ n # NoName
  BY IdAssumption, NoNameAssumption DEF MapLine, IInv, TypeOK
<1>2. \A b \in DOMAIN tech : tech[b].name \in Name /\ tech[b].id = map[tech[b].name]
  BY <1>1 DEF IInv, OnlyMapped
<1>3. PICK a \in Addr :
        /\ DOMAIN tech' = DOMAIN tech \cup {a}
        /\ tech'[a] = [name |-> n, id |-> i]
        /\ \A b \in DOMAIN tech \ {a} : tech'[b] = tech[b] /\ tech[b].name # n
        /\ a \in DOMAIN tech => tech[a].name = n
  <2>1. CASE ByName(n) # 0
    <3>1. PICK a \in DOMAIN tech : Named(n) = {a} /\ ByName(n) = a /\ tech[a].name = n
      BY <2>1, FoundByName
    <3>2. tech' = [tech EXCEPT ![a].id = i]
      BY <2>1, <3>1 DEF MapLine
    <3>3. tech'[a] = [name |-> n, id |-> i]
      BY <3>1, <3>2 DEF IInv, TypeOK
    <3>4. \A b \in DOMAIN tech \ {a} : tech'[b] = tech[b] /\ tech[b].name # n
      BY <3>1, <3>2 DEF Named
    <3>5. a \in Addr /\ DOMAIN tech' = DOMAIN tech \cup {a}
      BY <3>1, <3>2 DEF IInv, TypeOK
    <3> QED BY <3>1, <3>3, <3>4, <3>5
  <2>2. CASE ByName(n) = 0
    <3>1. Named(n) = {}
      BY <2>2, FoundByName
    <3>2. PICK a \in Fresh : tech' = WithLayer(a, n, i)
      BY <2>2 DEF MapLine
    <3> QED BY <3>1, <3>2 DEF WithLayer, Fresh, Named
  <2> QED BY <2>1, <2>2
<1>4. TypeOK'
  BY <1>1, <1>3 DEF IInv, TypeOK
<1>5. NamesUnique'
  BY <1>3 DEF IInv, NamesUnique
<1>6. OnlyMapped'
  BY <1>1, <1>2, <1>3 DEF OnlyMapped
<1>7. IdsMapped'
  BY <1>1, <1>6 DEF IdsMapped, OnlyMapped
<1>8. MapKept'
  <2> SUFFICES ASSUME NEW m \in Name, map'[m] # -1
               PROVE  \E b \in DOMAIN tech' : tech'[b] = [name |-> m, id |-> map'[m]]
    BY DEF MapKept
  <2>1. CASE m = n
    BY <1>1, <1>3, <2>1
  <2>2. CASE m # n
    <3>1. map'[m] = map[m]
      BY <1>1, <2>2
    <3>2. PICK b \in DOMAIN tech : tech[b] = [name |-> m, id |-> map[m]]
      BY <3>1 DEF IInv, MapKept
    <3>3. b # a
      BY <1>3, <2>2, <3>2
    <3> QED BY <1>3, <3>1, <3>2, <3>3
  <2> QED BY <2>1, <2>2
<1> QED BY <1>4, <1>5, <1>6, <1>7, <1>8 DEF IInv

LEMMA StepInv == IInv /\ [Next]_vars => IInv'
<1> SUFFICES ASSUME IInv, [Next]_vars PROVE IInv'
  OBVIOUS
<1> USE DEF IInv
<1>1. ASSUME UNCHANGED <<tech, map>>, mapping' => mapping
      PROVE  IInv'
  BY <1>1 DEF TypeOK, NamesUnique, IdsMapped, MapKept, OnlyMapped
<1>2. ASSUME NEW n \in Name, NEW i \in Id, MapLine(n, i) PROVE IInv'
  BY <1>2, MapLineInv
<1>3. CASE MapLoaded
  BY <1>3, <1>1 DEF MapLoaded
<1>4. ASSUME NEW g \in Geometry, NEW i \in Id, GdsElem(g, i) PROVE IInv'
  <2>1. CASE ById(i) # 0
    BY <1>1, <1>4, <2>1 DEF GdsElem
  <2>2. CASE ById(i) = 0
    <3>1. PICK a \in Fresh : tech' = WithLayer(a, NoName, i)
      BY <1>4, <2>2 DEF GdsElem
    <3>2. Numbered(i) = {}
      BY <2>2, FoundById
    <3>3. i \in Nat /\ ~mapping /\ UNCHANGED <<mapping, map>>
      BY <1>4, IdAssumption DEF GdsElem
    <3> QED BY <3>1, <3>2, <3>3, NewLayer
  <2> QED BY <2>1, <2>2
<1>5. ASSUME NEW g \in Geometry, NEW n \in Name, LefShape(g, n) PROVE IInv'
  <2>1. CASE UNCHANGED tech
    BY <1>1, <1>5, <2>1 DEF LefShape
  <2>2. CASE ~UNCHANGED tech
    <3>1. ByName(n) = 0 /\ \E a \in Fresh : tech' = WithLayer(a, n, 0)
      BY <1>5, <2>2 DEF LefShape
    <3>2. Named(n) = {}
      BY <3>1, FoundByName
    <3>3. 0 \in Nat /\ ~mapping /\ UNCHANGED <<mapping, map>>
      BY <1>5 DEF LefShape
    <3> QED BY <3>1, <3>2, <3>3, NewLayer
  <2> QED BY <2>1, <2>2
<1>6. ASSUME NEW g \in Geometry, NEW n \in Name, LayerCommand(g, n) PROVE IInv'
  BY <1>1, <1>6 DEF LayerCommand
<1>7. CASE UNCHANGED vars
  BY <1>1, <1>7 DEF vars
<1> QED BY <1>2, <1>3, <1>4, <1>5, <1>6, <1>7 DEF Next

LEMMA Invariance == Spec => []IInv
BY InitInv, StepInv, PTL DEF Spec

-------------------------------------------------------------------------------

\* What the map numbers i is there, by its name and by the number.
LEMMA CalledAreThere ==
  ASSUME IInv, NEW n \in Name, map[n] # -1
  PROVE  ByName(n) # 0 /\ ByName(n) \in DOMAIN tech /\ tech[ByName(n)] = [name |-> n, id |-> map[n]]
<1>1. PICK a \in DOMAIN tech : tech[a] = [name |-> n, id |-> map[n]]
  BY DEF IInv, MapKept
<1>2. a \in Named(n)
  BY <1>1 DEF Named
<1> QED BY <1>1, <1>2, FoundByName

\* A number of the map is that of the layers the map gives it to, and no other.
LEMMA NumberedAreCalled ==
  ASSUME IInv, NEW i \in Id \ {0}, Called(i) # {}
  PROVE  Numbered(i) = Called(i)
<1>1. i # -1
  BY IdAssumption
<1>2. \A n \in Name : map[n] = i => ByName(n) \in DOMAIN tech /\ tech[ByName(n)].id = i
  <2> SUFFICES ASSUME NEW n \in Name, map[n] = i PROVE ByName(n) \in DOMAIN tech /\ tech[ByName(n)].id = i
    OBVIOUS
  <2>1. ByName(n) \in DOMAIN tech /\ tech[ByName(n)] = [name |-> n, id |-> i]
    BY <1>1, CalledAreThere
  <2> QED BY <2>1
<1>3. ASSUME NEW a \in Called(i) PROVE a \in Numbered(i)
  <2>1. PICK n \in Name : map[n] = i /\ a = ByName(n)
    BY DEF Called
  <2> QED BY <1>2, <2>1 DEF Numbered
<1>4. PICK m \in Name : map[m] = i
  BY DEF Called
<1>5. ASSUME NEW a \in Numbered(i) PROVE a \in Called(i)
  <2>1. a \in DOMAIN tech /\ tech[a].id = i
    BY <1>5 DEF Numbered
  <2>2. CASE a = ByName(m)
    BY <1>4, <2>2 DEF Called
  <2>3. CASE a # ByName(m)
    <3>1. tech[a].name \in Name /\ map[tech[a].name] = i
      <4>1. ByName(m) \in DOMAIN tech /\ tech[ByName(m)].id = i
        BY <1>2, <1>4
      <4>2. i # 0
        OBVIOUS
      <4> QED BY <2>1, <2>3, <4>1, <4>2 DEF IInv, IdsMapped
    <3>2. a \in Named(tech[a].name)
      BY <2>1 DEF Named
    <3>3. ByName(tech[a].name) = a
      BY <3>1, <3>2, FoundByName
    <3> QED BY <3>1, <3>3 DEF Called
  <2> QED BY <2>2, <2>3
<1> QED BY <1>3, <1>5

LEMMA Uniqueness == IInv => FoundWherever
<1> SUFFICES ASSUME IInv PROVE FoundWherever
  OBVIOUS
<1>1. Cardinality({}) = 0 /\ \A x : Cardinality({x}) = 1
  BY FS_EmptySet, FS_Singleton
<1>2. ASSUME NEW n \in Name PROVE Cardinality(Named(n)) <= 1
  <2>1. Named(n) = {} \/ \E a \in DOMAIN tech : Named(n) = {a}
    BY FoundByName
  <2>2. Cardinality(Named(n)) \in {0, 1}
    BY <1>1, <2>1, Zenon
  <2> QED BY ONLY <2>2
<1>3. ASSUME NEW i \in Id \ {0}, Called(i) = {} PROVE Cardinality(Numbered(i)) <= 1
  <2>1. ASSUME NEW a \in Numbered(i), NEW b \in Numbered(i) PROVE a = b
    <3>1. a \in DOMAIN tech /\ b \in DOMAIN tech /\ tech[a].id = i /\ tech[b].id = i
      BY <2>1 DEF Numbered
    <3>2. CASE a # b
      <4>1. tech[a].name \in Name /\ map[tech[a].name] = i
        BY <3>1, <3>2 DEF IInv, IdsMapped
      <4> QED BY <1>3, <4>1 DEF Called
    <3> QED BY <3>2
  <2>2. Numbered(i) = {} \/ \E a : Numbered(i) = {a}
    BY <2>1
  <2>3. Cardinality(Numbered(i)) \in {0, 1}
    BY <1>1, <2>2, Zenon
  <2> QED BY ONLY <2>3
<1> QED BY <1>2, <1>3, NumberedAreCalled DEF FoundWherever

LEMMA Unity == IInv => MapUnites
<1> SUFFICES ASSUME IInv, NEW n \in Name, map[n] > 0
             PROVE  ByName(n) # 0 /\ ById(map[n]) \in Called(map[n])
  BY DEF MapUnites
<1>1. map[n] \in Id \ {0} /\ map[n] # -1
  BY DEF IInv, TypeOK
<1>2. ByName(n) # 0 /\ ByName(n) \in Called(map[n])
  BY <1>1, CalledAreThere DEF Called
<1>3. Numbered(map[n]) = Called(map[n])
  BY <1>1, <1>2, NumberedAreCalled
<1>4. ById(map[n]) \in Numbered(map[n])
  BY <1>1, <1>2, <1>3, FoundById DEF Numbered
<1> QED BY <1>2, <1>3, <1>4

(* Whatever the layer map says and whatever files are loaded, a name is that of   *)
(* one layer; and a number, other than zero, is that of one layer or of those     *)
(* that the map gives it to.                                                      *)
THEOREM LayersAreUnique == Spec => []FoundWherever
BY Invariance, Uniqueness, PTL

(* What the layer map calls by a name and by a number of its own stays one layer, *)
(* and a number of several names stays theirs.                                    *)
THEOREM NamesMeetNumbers == Spec => []MapUnites
BY Invariance, Unity, PTL

-------------------------------------------------------------------------------
(* The layers of geometries.                                                      *)

(* array_bsearch: what is found is what was searched, and in a sorted array all   *)
(* that is there is found.                                                        *)
LEMMA SearchFacts ==
  ASSUME NEW layers \in Seq(Nat), NEW a \in Nat
  PROVE  /\ Search(layers, a) # 0 => Search(layers, a) \in DOMAIN layers /\ layers[Search(layers, a)] = a
         /\ SortedForSearch(layers) /\ Search(layers, a) = 0 => \A k \in DOMAIN layers : layers[k] # a
<1> DEFINE len == Len(layers)
           Spans == (0 .. len) \X (0 .. len)
           mid(r) == r[1] + (r[2] - r[1]) \div 2
           Half(f, r) == IF r[1] >= r[2] THEN 0
                         ELSE IF a < layers[mid(r) + 1] THEN f[<<r[1], mid(r)>>]
                         ELSE IF a > layers[mid(r) + 1] THEN f[<<mid(r) + 1, r[2]>>]
                         ELSE mid(r) + 1
           find == CHOOSE f : f = [r \in Spans |-> Half(f, r)]
           rank == [r \in Spans |-> IF r[1] < r[2] THEN r[2] - r[1] ELSE 0]
           R == {e \in Spans \X Spans : rank[e[1]] < rank[e[2]]}
           F == [f \in [Spans -> 0 .. len] |-> [r \in Spans |-> Half(f, r)]]
<1>1. len \in Nat /\ DOMAIN layers = 1 .. len /\ \A k \in 1 .. len : layers[k] \in Nat
  OBVIOUS
<1>2. Search(layers, a) = find[<<0, len>>]
  BY DEF Search
<1> HIDE DEF len
<1>3. \A r \in Spans : r[1] \in 0 .. len /\ r[2] \in 0 .. len /\ r = <<r[1], r[2]>>
  OBVIOUS
<1>4. ASSUME NEW r \in Spans, r[1] < r[2]
      PROVE  /\ mid(r) \in 0 .. len /\ r[1] <= mid(r) /\ mid(r) < r[2]
             /\ mid(r) + 1 \in 0 .. len /\ mid(r) + 1 \in 1 .. len
             /\ <<r[1], mid(r)>> \in Spans /\ <<mid(r) + 1, r[2]>> \in Spans
             /\ <<<<r[1], mid(r)>>, r>> \in R /\ <<<<mid(r) + 1, r[2]>>, r>> \in R
  <2>1. /\ mid(r) \in Int /\ r[1] <= mid(r) /\ mid(r) < r[2]
        /\ r[1] \in 0 .. len /\ r[2] \in 0 .. len
    BY <1>1, <1>3, <1>4
  <2>2. mid(r) \in 0 .. len /\ mid(r) + 1 \in 0 .. len /\ mid(r) + 1 \in 1 .. len
    <3> HIDE DEF mid
    <3> QED BY <1>1, <2>1
  <2> HIDE DEF mid
  <2>3. <<r[1], mid(r)>> \in Spans /\ <<mid(r) + 1, r[2]>> \in Spans
    BY <2>1, <2>2
  <2>4. /\ rank[<<r[1], mid(r)>>] < rank[r] /\ rank[<<mid(r) + 1, r[2]>>] < rank[r]
    BY <1>1, <1>4, <2>1, <2>2, <2>3
  <2> HIDE DEF rank, Spans
  <2> QED BY <2>1, <2>2, <2>3, <2>4
<1>5. IsWellFoundedOn(R, Spans)
  <2>1. rank \in [Spans -> Nat]
    BY <1>1, <1>3
  <2> HIDE DEF rank, Spans
  <2> QED BY <2>1, RankIsWellFounded
<1>6. find = [r \in Spans |-> Half(find, r)]
  <2>1. ASSUME NEW f \in [Spans -> 0 .. len], NEW r \in Spans PROVE Half(f, r) \in 0 .. len
    <3>1. r[1] < r[2] => /\ f[<<r[1], mid(r)>>] \in 0 .. len /\ f[<<mid(r) + 1, r[2]>>] \in 0 .. len
                         /\ mid(r) + 1 \in 0 .. len
      <4> HIDE DEF mid, Spans, R
      <4> QED BY <1>4
    <3>2. 0 \in 0 .. len /\ (r[1] >= r[2] \/ r[1] < r[2])
      <4>1. r[1] \in 0 .. len /\ r[2] \in 0 .. len
        <5> HIDE DEF Spans
        <5> QED BY <1>3
      <4> QED BY <1>1, <4>1
    <3> HIDE DEF mid, Spans
    <3> QED BY <3>1, <3>2
  <2>2. F \in [[Spans -> 0 .. len] -> [Spans -> 0 .. len]]
    <3> HIDE DEF Half, Spans
    <3> QED BY <2>1
  <2>3. ASSUME NEW g \in [Spans -> 0 .. len], NEW h \in [Spans -> 0 .. len], NEW r \in Spans,
               \A q \in Spans : <<q, r>> \in R => g[q] = h[q]
        PROVE  F[g][r] = F[h][r]
    <3>1. Half(g, r) = Half(h, r)
      <4>1. r[1] >= r[2] \/ r[1] < r[2]
        BY <1>1, <1>3
      <4> HIDE DEF mid, Spans, R
      <4> QED BY <1>4, <2>3, <4>1
    <3> HIDE DEF Half, Spans
    <3> QED BY <3>1
  <2> HIDE DEF F, R, Half, Spans
  <2> DEFINE X == 0 .. len
  <2>4. Local(F, R, Spans, X)
    BY <2>2, <2>3 DEF Local
  <2>5. X # {}
    <3>1. 0 \in 0 .. len
      BY <1>1
    <3> QED BY <3>1
  <2>6. \E f \in [Spans -> X] : f = F[f]
    <3> HIDE DEF X
    <3> QED BY <1>5, <2>4, <2>5, Recursion
  <2>7. \E f : f = [r \in Spans |-> Half(f, r)]
    BY <2>6 DEF F
  <2> QED BY <2>7
<1> DEFINE Good(r) == /\ find[r] # 0 => find[r] \in 1 .. len /\ layers[find[r]] = a
                      /\ SortedForSearch(layers) /\ find[r] = 0 => \A k \in r[1] + 1 .. r[2] : layers[k] # a
           Bad == {r \in Spans : ~Good(r)}
<1>7. Bad = {}
  <2> SUFFICES ASSUME Bad # {} PROVE FALSE
    OBVIOUS
  <2>1. PICK r \in Bad : \A q \in Bad : <<q, r>> \notin R
    <3>1. Bad \subseteq Spans
      OBVIOUS
    <3> HIDE DEF Bad, R, Spans
    <3> QED BY <1>5, <3>1, WFMin
  <2>2. r \in Spans
    OBVIOUS
  <2>3. find[r] = Half(find, r)
    <3> HIDE DEF Half, find, Spans, Bad
    <3> QED BY <1>6, <2>2
  <2>r. r[1] \in 0 .. len /\ r[2] \in 0 .. len
    <3> HIDE DEF Spans, Bad
    <3> QED BY <1>3, <2>2
  <2> SUFFICES Good(r)
    OBVIOUS
  <2>4. CASE r[1] >= r[2]
    <3>1. find[r] = 0
      BY <2>3, <2>4
    <3>2. r[1] + 1 .. r[2] = {}
      <4> HIDE DEF Good, Bad, Spans
      <4> QED BY <1>1, <2>r, <2>4
    <3> HIDE DEF find
    <3> QED BY <3>1, <3>2
  <2>5. CASE r[1] < r[2]
    <3> DEFINE m == mid(r)
    <3>1. /\ m \in 0 .. len /\ r[1] <= m /\ m < r[2] /\ m + 1 \in 1 .. len
          /\ Good(<<r[1], m>>) /\ Good(<<m + 1, r[2]>>)
      <4>1. \A q \in Spans : <<q, r>> \in R => Good(q)
        <5> HIDE DEF Good, R
        <5> QED BY <2>1
      <4> HIDE DEF mid, Good, R, Spans
      <4> QED BY <1>4, <2>2, <2>5, <4>1
    <3>2. find[r] = IF a < layers[m + 1] THEN find[<<r[1], m>>]
                    ELSE IF a > layers[m + 1] THEN find[<<m + 1, r[2]>>]
                    ELSE m + 1
      <4> HIDE DEF find, mid
      <4>1. ~(r[1] >= r[2])
        BY <1>1, <2>r, <2>5
      <4> QED BY <2>3, <4>1
    <3> HIDE DEF m, find
    <3>3. r[1] \in 0 .. len /\ r[2] \in 0 .. len /\ layers[m + 1] \in Nat
      BY <1>1, <2>r, <3>1
    <3>4. find[r] # 0 => find[r] \in 1 .. len /\ layers[find[r]] = a
      BY <1>1, <3>1, <3>2, <3>3
    <3>5. ASSUME SortedForSearch(layers), find[r] = 0, NEW k \in r[1] + 1 .. r[2], layers[k] = a
          PROVE  FALSE
      <4>0. k \in 1 .. len
        BY <1>1, <3>3
      <4>1. k \in 1 .. len /\ \A j \in 1 .. len : (j < k => layers[j] < a) /\ (j > k => layers[j] > a)
        <5>1. \A i, j \in 1 .. len : i < j => layers[i] < layers[j]
          BY <1>1, <3>5 DEF SortedForSearch
        <5>2. \A j \in 1 .. len : j < k => layers[j] < layers[k]
          BY <4>0, <5>1
        <5>3. \A j \in 1 .. len : j > k => layers[k] < layers[j]
          BY <4>0, <5>1
        <5> QED BY <1>1, <3>5, <4>0, <5>2, <5>3
      <4>2. CASE a < layers[m + 1]
        <5>1. find[<<r[1], m>>] = 0
          BY <3>2, <3>5, <4>2
        <5>2. \A j \in r[1] + 1 .. m : layers[j] # a
          BY <3>1, <3>5, <5>1
        <5>3. ~(k <= m)
          BY <3>1, <3>3, <3>5, <4>1, <5>2
        <5>4. k = m + 1 \/ m + 1 < k
          BY <3>1, <4>1, <5>3
        <5>5. m + 1 < k => layers[m + 1] < a
          BY <3>1, <4>1
        <5>6. layers[m + 1] = a \/ layers[m + 1] < a
          BY <3>5, <5>4, <5>5
        <5> QED BY <3>3, <4>2, <5>6
      <4>3. CASE ~(a < layers[m + 1]) /\ a > layers[m + 1]
        <5>1. find[<<m + 1, r[2]>>] = 0
          BY <3>2, <3>5, <4>3
        <5>2. \A j \in m + 1 + 1 .. r[2] : layers[j] # a
          BY <3>1, <3>5, <5>1
        <5>3. ~(k > m + 1)
          BY <3>1, <3>3, <3>5, <4>1, <5>2
        <5>4. k = m + 1 \/ m + 1 > k
          BY <3>1, <4>1, <5>3
        <5>5. m + 1 > k => layers[m + 1] > a
          BY <3>1, <4>1
        <5>6. layers[m + 1] = a \/ layers[m + 1] > a
          BY <3>5, <5>4, <5>5
        <5> QED BY <3>3, <4>3, <5>6
      <4>4. CASE ~(a < layers[m + 1]) /\ ~(a > layers[m + 1])
        BY <3>1, <3>2, <3>5, <4>4
      <4> QED BY <4>2, <4>3, <4>4
    <3> QED BY <3>4, <3>5
  <2>6. r[1] >= r[2] \/ r[1] < r[2]
    <3> HIDE DEF Good, Bad, Spans
    <3> QED BY <1>1, <2>r
  <2> QED BY <2>4, <2>5, <2>6
<1>8. <<0, len>> \in Spans /\ 0 + 1 = 1
  BY <1>1
<1>9. Good(<<0, len>>)
  <2> HIDE DEF Good
  <2> QED BY <1>7, <1>8
<1> HIDE DEF find
<1> QED BY <1>1, <1>2, <1>8, <1>9

LEMMA OnLayerFacts ==
  ASSUME geo \in [Geometry -> Seq(Nat)], NEW g \in Geometry, NEW a \in Nat, OnLayer(g, a)
  PROVE  /\ geo' \in [Geometry -> Seq(Nat)]
         /\ \A h \in Geometry \ {g} : geo'[h] = geo[h]
         /\ \A k \in DOMAIN geo[g] : k \in DOMAIN geo'[g] /\ geo'[g][k] = geo[g][k]
         /\ \A k \in DOMAIN geo'[g] : k \in DOMAIN geo[g] \/ geo'[g][k] = a
         /\ SortedForSearch(geo[g]) /\ Len(geo'[g]) > Len(geo[g]) =>
              \A k \in DOMAIN geo[g] : geo[g][k] # geo'[g][Len(geo'[g])]
         /\ \E k \in DOMAIN geo'[g] : /\ k = (IF geo'[g] = geo[g] THEN Search(geo'[g], a) ELSE Len(geo'[g]))
                                      /\ geo'[g][k] = a
<1>1. geo[g] \in Seq(Nat) /\ Len(geo[g]) \in Nat /\ DOMAIN geo[g] = 1 .. Len(geo[g])
  OBVIOUS
<1>2. CASE Search(geo[g], a) # 0
  <2>1. geo' = geo
    BY <1>2 DEF OnLayer
  <2>2. Search(geo[g], a) \in DOMAIN geo[g] /\ geo[g][Search(geo[g], a)] = a
    BY <1>1, <1>2, SearchFacts
  <2> QED BY <1>1, <2>1, <2>2
<1>3. CASE Search(geo[g], a) = 0
  <2>1. geo' = [geo EXCEPT ![g] = Append(@, a)]
    BY <1>3 DEF OnLayer
  <2>2. geo'[g] = Append(geo[g], a) /\ geo' \in [Geometry -> Seq(Nat)] /\ \A h \in Geometry \ {g} : geo'[h] = geo[h]
    BY <1>1, <2>1
  <2>3. /\ Len(geo'[g]) = Len(geo[g]) + 1 /\ geo'[g][Len(geo'[g])] = a
        /\ \A k \in DOMAIN geo[g] : geo'[g][k] = geo[g][k]
    BY <1>1, <2>2
  <2>4. DOMAIN geo'[g] = 1 .. Len(geo'[g])
    BY <2>2
  <2>5. DOMAIN geo'[g] = DOMAIN geo[g] \cup {Len(geo'[g])}
    BY <1>1, <2>3, <2>4
  <2>6. SortedForSearch(geo[g]) => \A k \in DOMAIN geo[g] : geo[g][k] # a
    BY <1>1, <1>3, SearchFacts
  <2>7. geo'[g] # geo[g]
    BY <1>1, <2>3
  <2> HIDE DEF SortedForSearch
  <2> QED BY <2>2, <2>3, <2>5, <2>6, <2>7
<1> QED BY <1>2, <1>3

\* The layers of geometries are layers of the technology.
GeoOK ==
  /\ geo \in [Geometry -> Seq(Nat)]
  /\ \A g \in Geometry : \A k \in DOMAIN geo[g] : geo[g][k] \in DOMAIN tech

\* Layers stay where they are and keep their names.
LayersStay ==
  /\ \A a \in DOMAIN tech : a \in DOMAIN tech' /\ tech'[a].name = tech[a].name
  /\ \A g \in Geometry : \A k \in DOMAIN geo[g] : k \in DOMAIN geo'[g] /\ geo'[g][k] = geo[g][k]

AddedOnce ==
  \A g \in Geometry :
    SortedForSearch(geo[g]) /\ Len(geo'[g]) > Len(geo[g]) =>
      \A k \in DOMAIN geo[g] : geo[g][k] # geo'[g][Len(geo'[g])]

\* An element or a shape is put on layer a, of geometry g.
LEMMA PutOnLayer ==
  ASSUME IInv, GeoOK, NEW g \in Geometry, NEW a \in DOMAIN tech', OnLayer(g, a),
         IInv',
         \A b \in DOMAIN tech : b \in DOMAIN tech' /\ tech'[b].name = tech[b].name
  PROVE  GeoOK' /\ LayersStay /\ AddedOnce
<1>1. a \in Nat /\ geo \in [Geometry -> Seq(Nat)]
  BY AddrAssumption DEF IInv, TypeOK, GeoOK
<1>2. GeoOK'
  <2> SUFFICES ASSUME NEW h \in Geometry, NEW k \in DOMAIN geo'[h] PROVE geo'[h][k] \in DOMAIN tech'
    BY <1>1, OnLayerFacts DEF GeoOK
  <2>1. CASE h = g
    <3>1. (k \in DOMAIN geo[g] /\ geo'[g][k] = geo[g][k]) \/ geo'[g][k] = a
      BY <1>1, <2>1, OnLayerFacts
    <3> QED BY <2>1, <3>1 DEF GeoOK
  <2>2. CASE h # g
    <3>1. geo'[h] = geo[h]
      BY <1>1, <2>2, OnLayerFacts
    <3> QED BY <3>1 DEF GeoOK
  <2> QED BY <2>1, <2>2
<1>3. LayersStay
  <2> SUFFICES ASSUME NEW h \in Geometry, NEW k \in DOMAIN geo[h] PROVE k \in DOMAIN geo'[h] /\ geo'[h][k] = geo[h][k]
    BY DEF LayersStay
  <2>1. CASE h = g
    BY <1>1, <2>1, OnLayerFacts
  <2>2. CASE h # g
    <3>1. geo'[h] = geo[h]
      BY <1>1, <2>2, OnLayerFacts
    <3> QED BY <3>1
  <2> QED BY <2>1, <2>2
<1>4. AddedOnce
  <2> SUFFICES ASSUME NEW h \in Geometry, SortedForSearch(geo[h]), Len(geo'[h]) > Len(geo[h])
               PROVE  \A k \in DOMAIN geo[h] : geo[h][k] # geo'[h][Len(geo'[h])]
    BY DEF AddedOnce
  <2>1. CASE h = g
    BY <1>1, <2>1, OnLayerFacts
  <2>2. CASE h # g
    <3>1. geo'[h] = geo[h] /\ Len(geo[h]) \in Nat
      BY <1>1, <2>2, OnLayerFacts
    <3> QED BY <3>1
  <2> QED BY <2>1, <2>2
<1> QED BY <1>2, <1>3, <1>4

LEMMA GeoKept ==
  ASSUME IInv, GeoOK, [Next]_vars
  PROVE  GeoOK' /\ LayersStay /\ AddedOnce
<1>1. IInv'
  BY StepInv
<1>2. ASSUME UNCHANGED geo, \A b \in DOMAIN tech : b \in DOMAIN tech' /\ tech'[b].name = tech[b].name
      PROVE  GeoOK' /\ LayersStay /\ AddedOnce
  <2>1. \A g \in Geometry : Len(geo[g]) \in Nat
    BY DEF GeoOK
  <2> QED BY <1>2, <2>1 DEF GeoOK, LayersStay, AddedOnce
<1>3. ASSUME NEW b \in Fresh, NEW n, NEW i, tech' = WithLayer(b, n, i)
      PROVE  /\ b \in DOMAIN tech'
             /\ \A a \in DOMAIN tech : a \in DOMAIN tech' /\ tech'[a].name = tech[a].name
  BY <1>3 DEF WithLayer, Fresh
<1>4. ASSUME NEW n \in Name, NEW i \in Id, MapLine(n, i) PROVE GeoOK' /\ LayersStay /\ AddedOnce
  <2>1. CASE ByName(n) # 0
    <3>1. PICK a \in DOMAIN tech : ByName(n) = a
      BY <2>1, FoundByName
    <3>2. tech' = [tech EXCEPT ![a].id = i] /\ UNCHANGED geo
      BY <1>4, <2>1, <3>1 DEF MapLine
    <3>3. \A b \in DOMAIN tech : b \in DOMAIN tech' /\ tech'[b].name = tech[b].name
      BY <3>1, <3>2 DEF IInv, TypeOK
    <3> QED BY <1>2, <3>2, <3>3
  <2>2. CASE ByName(n) = 0
    <3>1. PICK a \in Fresh : tech' = WithLayer(a, n, i)
      BY <1>4, <2>2 DEF MapLine
    <3> QED BY <1>2, <1>3, <1>4, <3>1 DEF MapLine
  <2> QED BY <2>1, <2>2
<1>5. CASE MapLoaded
  BY <1>2, <1>5 DEF MapLoaded
<1>6. ASSUME NEW g \in Geometry, NEW i \in Id, GdsElem(g, i) PROVE GeoOK' /\ LayersStay /\ AddedOnce
  <2>1. CASE ById(i) # 0
    <3>1. PICK a \in DOMAIN tech : ById(i) = a
      BY <2>1, FoundById
    <3> QED BY <1>1, <1>6, <2>1, <3>1, PutOnLayer DEF GdsElem
  <2>2. CASE ById(i) = 0
    <3>1. PICK a \in Fresh : tech' = WithLayer(a, NoName, i) /\ OnLayer(g, a)
      BY <1>6, <2>2 DEF GdsElem
    <3> QED BY <1>1, <1>3, <3>1, PutOnLayer
  <2> QED BY <2>1, <2>2
<1>7. ASSUME NEW g \in Geometry, NEW n \in Name, LefShape(g, n) PROVE GeoOK' /\ LayersStay /\ AddedOnce
  <2>1. CASE Crashes(n)
    BY <1>2, <1>7, <2>1 DEF LefShape
  <2>2. CASE ~Crashes(n) /\ ByName(n) # 0
    <3>1. PICK a \in DOMAIN tech : ByName(n) = a
      BY <2>2, FoundByName
    <3>2. OnLayer(g, a) /\ UNCHANGED tech
      BY <1>7, <2>2, <3>1 DEF LefShape
    <3> QED BY <1>1, <3>1, <3>2, PutOnLayer
  <2>3. CASE ~Crashes(n) /\ ByName(n) = 0
    <3>1. PICK a \in Fresh : tech' = WithLayer(a, n, 0) /\ OnLayer(g, a)
      BY <1>7, <2>3 DEF LefShape
    <3> QED BY <1>1, <1>3, <3>1, PutOnLayer
  <2> QED BY <2>1, <2>2, <2>3
<1>8. ASSUME NEW g \in Geometry, NEW n \in Name, LayerCommand(g, n) PROVE GeoOK' /\ LayersStay /\ AddedOnce
  <2>1. CASE Crashes(n)
    BY <1>2, <1>8, <2>1 DEF LayerCommand
  <2>2. CASE ~Crashes(n)
    <3>1. ByName(n) # 0 /\ OnLayer(g, ByName(n)) /\ UNCHANGED tech
      BY <1>8, <2>2 DEF LayerCommand
    <3>2. ByName(n) \in DOMAIN tech
      BY <3>1, FoundByName
    <3> QED BY <1>1, <3>1, <3>2, PutOnLayer
  <2> QED BY <2>1, <2>2
<1>9. CASE UNCHANGED vars
  BY <1>2, <1>9 DEF vars
<1> QED BY <1>4, <1>5, <1>6, <1>7, <1>8, <1>9 DEF Next

LEMMA GeoInit == Init => GeoOK
BY DEF Init, GeoOK

(* A layer that is added to a geometry whose layers are sorted is not there yet.  *)
THEOREM SortedFindsAll == Spec => OnceIfSorted
<1>1. IInv /\ GeoOK /\ [Next]_vars => GeoOK' /\ [AddedOnce]_vars
  BY GeoKept
<1>2. AddedOnce <=> \A g \in Geometry :
                      SortedForSearch(geo[g]) /\ Len(geo'[g]) > Len(geo[g]) =>
                        \A k \in DOMAIN geo[g] : geo[g][k] # geo'[g][Len(geo'[g])]
  BY DEF AddedOnce
<1> QED BY <1>1, <1>2, InitInv, StepInv, GeoInit, PTL DEF Spec, OnceIfSorted

-------------------------------------------------------------------------------
(* Scripts.                                                                       *)

\* The lines that the map may have name layers and numbers.
LinesOK == plan.lines \subseteq Name \X Id

LEMMA LinesInit == Start => LinesOK
BY PlansAssumption DEF Start, LinesOK

LEMMA LinesKept == LinesOK /\ [Step]_scriptVars => LinesOK'
<1> SUFFICES ASSUME LinesOK, [Step]_scriptVars PROVE LinesOK'
  OBVIOUS
<1>1. CASE UNCHANGED plan
  BY <1>1 DEF LinesOK
<1>2. ASSUME NEW st, Reads(st) PROVE LinesOK'
  BY <1>2 DEF Reads, LinesOK
<1> QED
  BY <1>1, <1>2 DEF Step, LoadMap, Refuse, CellBlock, InstBlock, PinBlock, GeometryBlock, LayerBlock, GdsBlock,
     SetSize, SetPosition, Rect, WriteGds, LoadGds, LoadLef, Acts, Close, EndOfFile, EndInWord, scriptVars

\* A context holds no cell or geometry but the script's.
Context(c) ==
  /\ DOMAIN c = {"cell", "inst", "geometry", "layer", "gds"}
  /\ c.cell \in Cell \cup {NoName} /\ c.geometry \in Cell \cup {NoName}

StackOK ==
  /\ \E S : stack \in Seq(S)
  /\ Len(stack) > 0
  /\ \A k \in 1 .. Len(stack) : Context(stack[k])

LEMMA StackInit == Start => StackOK
<1> SUFFICES ASSUME Start PROVE StackOK
  OBVIOUS
<1>1. stack = <<NoContext>>
  BY DEF Start
<1>2. stack \in Seq({NoContext}) /\ Len(stack) = 1 /\ stack[1] = NoContext
  BY <1>1
<1>3. Context(NoContext)
  BY DEF Context, NoContext
<1> QED
  BY <1>2, <1>3 DEF StackOK

LEMMA ContextOnTop == StackOK => Context(ctx)
BY DEF StackOK, ctx, Last

\* parse_sub adds a context or none.
LEMMA SubKeeps ==
  ASSUME StackOK, NEW st, NEW c, Context(c), Sub(st, c)
  PROVE  StackOK'
<1>1. CASE stack' = stack
  BY <1>1 DEF StackOK
<1>2. CASE stack' = Append(stack, c)
  <2>1. PICK S : stack \in Seq(S)
    BY DEF StackOK
  <2>2. stack \in Seq(S \cup {c})
    BY <2>1
  <2>3. /\ stack' \in Seq(S \cup {c})
        /\ Len(stack') = Len(stack) + 1
        /\ \A k \in 1 .. Len(stack) : stack'[k] = stack[k]
        /\ stack'[Len(stack) + 1] = c
    BY <2>2, <1>2
  <2>4. Len(stack) \in Nat
    BY <2>1
  <2>5. \A k \in 1 .. Len(stack') : Context(stack'[k])
    BY <2>3, <2>4 DEF StackOK
  <2> QED
    BY <2>3, <2>4, <2>5 DEF StackOK
<1> QED
  BY <1>1, <1>2 DEF Sub

LEMMA CloseKeeps ==
  ASSUME StackOK, Close
  PROVE  StackOK'
<1>1. PICK S : stack \in Seq(S)
  BY DEF StackOK
<1>2. Len(stack) # 1 /\ stack' = SubSeq(stack, 1, Len(stack) - 1)
  BY DEF Close, Refused, St, Front
<1>3. Len(stack) \in Nat /\ Len(stack) > 1
  <2>1. Len(stack) > 0
    BY DEF StackOK
  <2>2. Len(stack) \in Nat
    BY <1>1
  <2>3. \A n \in Nat : n > 0 /\ n # 1 => n > 1
    OBVIOUS
  <2> QED
    BY <1>2, <2>1, <2>2, <2>3, Zenon
<1>4. /\ stack' \in Seq(S) /\ Len(stack') = Len(stack) - 1
      /\ \A k \in 1 .. Len(stack) - 1 : stack'[k] = stack[k]
  BY <1>1, <1>2, <1>3
<1> QED
  BY <1>3, <1>4 DEF StackOK

LEMMA StackKept == StackOK /\ [Step]_scriptVars => StackOK'
<1> SUFFICES ASSUME StackOK, [Step]_scriptVars PROVE StackOK'
  OBVIOUS
<1>1. Context(ctx)
  BY ContextOnTop
<1>2. CASE UNCHANGED stack
  BY <1>2 DEF StackOK
<1>3. CASE CellBlock
  <2>1. PICK c \in Cell, e \in Ends : Sub(St("cell", c, e), [ctx EXCEPT !.cell = c])
    BY <1>3 DEF CellBlock
  <2>2. Context([ctx EXCEPT !.cell = c])
    BY <1>1 DEF Context
  <2> QED
    BY <2>1, <2>2, SubKeeps
<1>4. CASE InstBlock
  <2>1. PICK st : Sub(st, [ctx EXCEPT !.inst = this])
    BY <1>4 DEF InstBlock
  <2>2. Context([ctx EXCEPT !.inst = this])
    BY <1>1 DEF Context
  <2> QED
    BY <2>1, <2>2, SubKeeps
<1>5. CASE PinBlock
  <2>1. PICK st : Sub(st, ctx)
    BY <1>5 DEF PinBlock
  <2> QED
    BY <2>1, <1>1, SubKeeps
<1>6. CASE GeometryBlock
  <2>1. PICK st : Sub(st, [ctx EXCEPT !.geometry = ctx.cell])
    BY <1>6 DEF GeometryBlock
  <2>2. Context([ctx EXCEPT !.geometry = ctx.cell])
    BY <1>1 DEF Context
  <2> QED
    BY <2>1, <2>2, SubKeeps
<1>7. CASE LayerBlock
  <2>1. CASE UNCHANGED stack
    BY <2>1, <1>2
  <2>2. CASE ~ UNCHANGED stack
    <3>1. PICK st, p : Sub(st, [ctx EXCEPT !.layer = p])
      BY <1>7, <2>2 DEF LayerBlock
    <3>2. Context([ctx EXCEPT !.layer = p])
      BY <1>1 DEF Context
    <3> QED
      BY <3>1, <3>2, SubKeeps
  <2> QED
    BY <2>1, <2>2
<1>8. CASE GdsBlock
  <2>1. PICK st : Sub(st, [ctx EXCEPT !.gds = this])
    BY <1>8 DEF GdsBlock
  <2>2. Context([ctx EXCEPT !.gds = this])
    BY <1>1 DEF Context
  <2> QED
    BY <2>1, <2>2, SubKeeps
<1>9. CASE Close
  BY <1>9, CloseKeeps
<1> QED
  BY <1>2, <1>3, <1>4, <1>5, <1>6, <1>7, <1>8, <1>9 DEF Step, LoadMap, Refuse,
     SetSize, SetPosition, Rect, WriteGds, LoadGds, LoadLef, EndOfFile, EndInWord, scriptVars

-------------------------------------------------------------------------------

\* Every step of a script is one of the layers or leaves them alone.
LEMMA StepOfLayers == LinesOK /\ StackOK /\ [Step]_scriptVars => [Next]_vars
<1> SUFFICES ASSUME LinesOK, StackOK, [Step]_scriptVars PROVE [Next]_vars
  OBVIOUS
<1>1. CASE LoadMap
  <2>1. CASE \E l \in plan.lines : MapLine(l[1], l[2])
    BY <2>1 DEF LinesOK, Next
  <2> QED BY <1>1, <2>1 DEF LoadMap, Next
<1>2. CASE LayerBlock
  <2>1. PICK n \in Name, e \in Ends : ~Refused(St("layer", n, e)) /\ LayerCommand(ctx.geometry, n)
    BY <1>2 DEF LayerBlock
  <2>2. ctx.geometry # NoName
    BY <2>1 DEF Refused, St, Needs
  <2>3. ctx.geometry \in Geometry
    BY <2>2, ContextOnTop, CellAssumption DEF Context
  <2> QED BY <2>1, <2>3 DEF Next
<1>3. CASE LoadGds
  BY <1>3, CellAssumption DEF LoadGds, Next
<1>4. CASE LoadLef
  BY <1>4 DEF LoadLef, Next
<1>5. CASE UNCHANGED vars
  BY <1>5
<1> QED
  BY <1>1, <1>2, <1>3, <1>4, <1>5 DEF Step, Refuse, CellBlock, InstBlock, PinBlock, GeometryBlock, GdsBlock,
     SetSize, SetPosition, Rect, WriteGds, Close, EndOfFile, EndInWord, scriptVars

(* To the layers, a script of any length is what Layers says that files and       *)
(* commands may do: no block is open without the geometry it works on.            *)
THEOREM ScriptsUseLayers == ScriptSpec => Spec
<1>1. Start => Init
  BY DEF Start
<1> QED
  BY <1>1, LinesInit, LinesKept, StackInit, StackKept, StepOfLayers, PTL DEF ScriptSpec, Spec

(* Whatever a script loads and draws, in whatever order, a name and a number that *)
(* the layer map does not give to several names stay those of one layer, the map  *)
(* keeps joining them, and no geometry whose layers are sorted gets one it has.   *)
THEOREM ScriptsKeepLayers == ScriptSpec => [](FoundWherever /\ MapUnites) /\ OnceIfSorted
BY ScriptsUseLayers, LayersAreUnique, NamesMeetNumbers, SortedFindsAll, PTL

-------------------------------------------------------------------------------
(* Braces. A statement that is read changes nothing of what stands before it.     *)

FileOK == \E S : file \in Seq(S)

BeginsBlock(st) == st.word \in Blocks /\ st.end = "{"
EndsBlock(st)   == st.word = "}"
Up(st)          == IF BeginsBlock(st) THEN 1 ELSE 0
Down(st)        == IF EndsBlock(st) THEN 1 ELSE 0

LEMMA FileGrows ==
  ASSUME FileOK, NEW st, file' = Append(file, st)
  PROVE  /\ FileOK'
         /\ Len(file) \in Nat /\ Len(file') = this
         /\ DOMAIN file = 1 .. Len(file) /\ DOMAIN file' = 1 .. this
         /\ \A k \in 1 .. Len(file) : file'[k] = file[k]
         /\ file'[this] = st
<1>1. PICK S : file \in Seq(S)
  BY DEF FileOK
<1>2. file \in Seq(S \cup {st})
  BY <1>1
<1>3. file' \in Seq(S \cup {st})
  BY <1>2
<1>4. /\ Len(file) \in Nat /\ Len(file') = Len(file) + 1
      /\ \A k \in 1 .. Len(file) : file'[k] = file[k]
      /\ file'[Len(file) + 1] = st
      /\ DOMAIN file = 1 .. Len(file)
  BY <1>2
<1>5. DOMAIN file' = 1 .. Len(file')
  BY <1>3
<1> QED BY <1>3, <1>4, <1>5 DEF FileOK, this

LEMMA CountsAreNumbers ==
  ASSUME NEW i \in Int, NEW j \in Int
  PROVE  /\ Opened(i, j) \in Nat /\ Closed(i, j) \in Nat
         /\ IsFiniteSet({k \in i .. j : Opens(k)}) /\ IsFiniteSet({k \in i .. j : Closes(k)})
<1>1. IsFiniteSet(i .. j)
  BY FS_Interval
<1>2. IsFiniteSet({k \in i .. j : Opens(k)}) /\ IsFiniteSet({k \in i .. j : Closes(k)})
  BY <1>1, FS_Subset
<1> QED BY <1>2, FS_CardinalityType DEF Opened, Closed

LEMMA CountsStay ==
  ASSUME FileOK, NEW st, file' = Append(file, st), NEW i \in Nat \ {0}, NEW j \in 0 .. Len(file)
  PROVE  Opened(i, j)' = Opened(i, j) /\ Closed(i, j)' = Closed(i, j)
<1>1. \A k \in i .. j : file'[k] = file[k]
  BY FileGrows
<1>2. {k \in i .. j : Opens(k)'} = {k \in i .. j : Opens(k)} /\ {k \in i .. j : Closes(k)'} = {k \in i .. j : Closes(k)}
  BY <1>1 DEF Opens, Closes
<1> QED BY <1>2 DEF Opened, Closed

LEMMA CountsGrow ==
  ASSUME FileOK, NEW st, file' = Append(file, st), NEW n, n = this, NEW i \in 1 .. n
  PROVE  /\ Opened(i, n)' = Opened(i, n - 1) + Up(st)
         /\ Closed(i, n)' = Closed(i, n - 1) + Down(st)
<1>1. n \in Nat /\ n > 0 /\ Len(file) = n - 1 /\ file'[n] = st /\ \A k \in 1 .. n - 1 : file'[k] = file[k]
  BY FileGrows DEF this
<1>2. i .. n = (i .. n - 1) \cup {n} /\ n \notin i .. n - 1 /\ \A k \in i .. n - 1 : k \in 1 .. n - 1
  BY <1>1
<1> DEFINE O == {k \in i .. n - 1 : Opens(k)}
           C == {k \in i .. n - 1 : Closes(k)}
<1>3. /\ {k \in i .. n : Opens(k)'} = IF BeginsBlock(st) THEN O \cup {n} ELSE O
      /\ {k \in i .. n : Closes(k)'} = IF EndsBlock(st) THEN C \cup {n} ELSE C
  BY <1>1, <1>2 DEF Opens, Closes, BeginsBlock, EndsBlock
<1>4. n \notin O /\ n \notin C
  BY <1>2
<1>5. IsFiniteSet(O) /\ IsFiniteSet(C) /\ Cardinality(O) \in Nat /\ Cardinality(C) \in Nat
  <2>1. i \in Int /\ n - 1 \in Int
    BY <1>1
  <2>2. IsFiniteSet(O) /\ IsFiniteSet(C)
    BY <2>1, CountsAreNumbers
  <2> QED BY <2>2, FS_CardinalityType
<1>6. /\ Opened(i, n - 1) = Cardinality(O) /\ Closed(i, n - 1) = Cardinality(C)
      /\ Opened(i, n)' = Cardinality({k \in i .. n : Opens(k)'})
      /\ Closed(i, n)' = Cardinality({k \in i .. n : Closes(k)'})
  BY DEF Opened, Closed
<1> HIDE DEF O, C
<1>7. Cardinality(O \cup {n}) = Cardinality(O) + 1 /\ Cardinality(C \cup {n}) = Cardinality(C) + 1
  BY <1>4, <1>5, FS_AddElement
<1>8. Opened(i, n)' = Opened(i, n - 1) + Up(st)
  <2>1. CASE BeginsBlock(st)
    BY <1>3, <1>6, <1>7, <2>1 DEF Up
  <2>2. CASE ~BeginsBlock(st)
    <3>1. Opened(i, n)' = Opened(i, n - 1)
      BY <1>3, <1>6, <2>2
    <3>2. Opened(i, n - 1) \in Nat /\ Up(st) = 0
      BY <1>5, <1>6, <2>2 DEF Up
    <3> QED BY <3>1, <3>2
  <2> QED BY <2>1, <2>2
<1>9. Closed(i, n)' = Closed(i, n - 1) + Down(st)
  <2>1. CASE EndsBlock(st)
    BY <1>3, <1>6, <1>7, <2>1 DEF Down
  <2>2. CASE ~EndsBlock(st)
    <3>1. Closed(i, n)' = Closed(i, n - 1)
      BY <1>3, <1>6, <2>2
    <3>2. Closed(i, n - 1) \in Nat /\ Down(st) = 0
      BY <1>5, <1>6, <2>2 DEF Down
    <3> QED BY <3>1, <3>2
  <2> QED BY <2>1, <2>2
<1> QED BY <1>8, <1>9

-------------------------------------------------------------------------------
(* The blocks around a statement.                                                 *)

LEMMA AroundFacts ==
  ASSUME NEW k \in Nat
  PROVE  Around(k) \subseteq 1 .. k - 1
BY DEF Around

LEMMA AroundStays ==
  ASSUME FileOK, NEW st, file' = Append(file, st), NEW k \in 0 .. this
  PROVE  Around(k)' = Around(k)
<1>1. Len(file) \in Nat
  BY FileGrows
<1>2. ASSUME NEW b \in 1 .. k - 1 PROVE b \in Around(k)' <=> b \in Around(k)
  <2>1. b \in Nat \ {0} /\ b \in 1 .. Len(file)
    BY <1>1 DEF this
  <2>2. Opens(b)' <=> Opens(b)
    BY <2>1, FileGrows DEF Opens
  <2>3. \A j \in b .. k - 1 : j \in 0 .. Len(file)
    BY <1>1, <2>1 DEF this
  <2>4. \A j \in b .. k - 1 : Opened(b, j)' = Opened(b, j) /\ Closed(b, j)' = Closed(b, j)
    BY <2>1, <2>3, CountsStay
  <2> QED BY <2>2, <2>4 DEF Around
<1>3. Around(k) \subseteq 1 .. k - 1 /\ Around(k)' \subseteq 1 .. k - 1
  BY DEF Around
<1> QED BY <1>2, <1>3

\* The blocks around the next statement, behind st.
LEMMA AroundGrows ==
  ASSUME FileOK, NEW st, file' = Append(file, st), NEW n, n = this
  PROVE  /\ BeginsBlock(st) => Around(n + 1)' = Around(n) \cup {n}
         /\ ~BeginsBlock(st) /\ ~EndsBlock(st) => Around(n + 1)' = Around(n)
         /\ EndsBlock(st) => Around(n + 1)' = {b \in Around(n) : Opened(b, n - 1) - Closed(b, n - 1) > 1}
<1>1. n \in Nat /\ n > 0 /\ Len(file) = n - 1 /\ file'[n] = st /\ \A k \in 1 .. n - 1 : file'[k] = file[k]
  BY FileGrows DEF this
<1>2. Around(n + 1)' = {b \in 1 .. n : Opens(b)' /\ \A j \in b .. n : Opened(b, j)' > Closed(b, j)'}
  BY <1>1 DEF Around
<1>3. Around(n) = {b \in 1 .. n - 1 : Opens(b) /\ \A j \in b .. n - 1 : Opened(b, j) > Closed(b, j)}
  BY DEF Around
<1>4. ASSUME NEW b \in 1 .. n - 1
      PROVE  b \in Around(n + 1)' <=> b \in Around(n) /\ Opened(b, n)' > Closed(b, n)'
  <2>1. Opens(b)' <=> Opens(b)
    BY <1>1 DEF Opens
  <2>2. \A j \in b .. n - 1 : Opened(b, j)' = Opened(b, j) /\ Closed(b, j)' = Closed(b, j)
    BY <1>1, CountsStay
  <2>3. b .. n = (b .. n - 1) \cup {n}
    BY <1>1
  <2>4. b \in 1 .. n
    BY <1>1
  <2> QED BY <1>2, <1>3, <2>1, <2>2, <2>3, <2>4
<1>5. ASSUME NEW b \in Around(n)
      PROVE  /\ b \in 1 .. n - 1 /\ b \in 1 .. n /\ b \in Int
             /\ Opened(b, n - 1) \in Nat /\ Closed(b, n - 1) \in Nat /\ Opened(b, n - 1) > Closed(b, n - 1)
  <2>1. b \in 1 .. n - 1 /\ b \in 1 .. n /\ b \in Int /\ n - 1 \in b .. n - 1 /\ n - 1 \in Int
    BY <1>1, <1>3
  <2> QED BY <1>3, <2>1, CountsAreNumbers
<1>6. n \in Around(n + 1)' <=> BeginsBlock(st)
  <2>1. Opens(n)' <=> BeginsBlock(st)
    BY <1>1 DEF Opens, BeginsBlock
  <2>2. n .. n = {n} /\ n \in 1 .. n /\ n \in Int /\ n - 1 \in Int
    BY <1>1
  <2>3. Opened(n, n - 1) = 0 /\ Closed(n, n - 1) = 0
    <3>1. n .. n - 1 = {}
      BY <1>1
    <3> QED BY <3>1, FS_EmptySet DEF Opened, Closed
  <2>4. Opened(n, n)' = Up(st) /\ Closed(n, n)' = Down(st)
    <3>1. Up(st) \in Nat /\ Down(st) \in Nat
      BY DEF Up, Down
    <3> QED BY <2>2, <2>3, <3>1, CountsGrow
  <2>5. BeginsBlock(st) => Up(st) = 1 /\ Down(st) = 0
    BY DEF BeginsBlock, EndsBlock, Up, Down, Blocks
  <2> QED BY <1>2, <2>1, <2>2, <2>4, <2>5
<1>7. ASSUME NEW b \in Around(n)
      PROVE  /\ ~EndsBlock(st) => Opened(b, n)' > Closed(b, n)'
             /\ EndsBlock(st) => (Opened(b, n)' > Closed(b, n)' <=> Opened(b, n - 1) - Closed(b, n - 1) > 1)
  <2>1. /\ Opened(b, n)' = Opened(b, n - 1) + Up(st)
        /\ Closed(b, n)' = Closed(b, n - 1) + Down(st)
    BY <1>5, CountsGrow
  <2>2. EndsBlock(st) => Up(st) = 0 /\ Down(st) = 1
    BY DEF BeginsBlock, EndsBlock, Up, Down, Blocks
  <2>3. ~EndsBlock(st) => Up(st) \in Nat /\ Down(st) = 0
    BY DEF Up, Down
  <2> QED BY <1>5, <2>1, <2>2, <2>3
<1>8. Around(n) \subseteq 1 .. n - 1 /\ n \notin Around(n) /\ Around(n + 1)' \subseteq (1 .. n - 1) \cup {n}
  BY <1>1, <1>2, <1>3
<1> QED
  <2>1. \A b \in 1 .. n - 1 : b \in Around(n + 1)' <=> b \in Around(n) /\ Opened(b, n)' > Closed(b, n)'
    BY <1>4
  <2>2. EndsBlock(st) => ~BeginsBlock(st)
    BY DEF BeginsBlock, EndsBlock, Blocks
  <2> QED BY <1>6, <1>7, <1>8, <2>1, <2>2

LEMMA WithinFacts ==
  ASSUME NEW k \in Nat, NEW w
  PROVE  /\ Within(k, w) \in 0 .. k /\ (k > 0 => Within(k, w) < k)
         /\ Within(k, w) # 0 => Within(k, w) \in Around(k) /\ file[Within(k, w)].word = w
         /\ \A b \in Around(k) : file[b].word = w => b <= Within(k, w)
<1> DEFINE S == {0} \cup {b \in Around(k) : file[b].word = w}
<1>1. S \in SUBSET (0 .. k) /\ S # {} /\ (k > 0 => \A x \in S : x < k)
  BY AroundFacts
<1>2. Within(k, w) = Max(S)
  BY DEF Within
<1>3. Max(S) \in S /\ \A x \in S : x <= Max(S)
  <2> HIDE DEF S
  <2> QED BY <1>1, LargestThere
<1> QED BY <1>1, <1>2, <1>3

\* Where the same blocks are around, the innermost ones are the same.
LEMMA WithinSame ==
  ASSUME FileOK, NEW st, file' = Append(file, st), NEW k \in 0 .. this, NEW j \in Nat, Around(j)' = Around(k)
  PROVE  (\A w : Within(j, w)' = Within(k, w)) /\ CellOf(j)' = CellOf(k)
<1>0. Len(file) \in Nat /\ k \in Nat /\ Around(k) \subseteq 1 .. Len(file)
  <2>1. Len(file) \in Nat
    BY FileGrows
  <2>2. k \in Nat /\ \A x \in 1 .. k - 1 : x \in 1 .. Len(file)
    BY <2>1 DEF this
  <2> QED BY <2>1, <2>2, AroundFacts
<1>1. \A b \in Around(k) : file'[b] = file[b]
  BY <1>0, FileGrows
<1>2. ASSUME NEW w PROVE Within(j, w)' = Within(k, w)
  <2>1. {b \in Around(j)' : file'[b].word = w} = {b \in Around(k) : file[b].word = w}
    BY <1>1
  <2> QED BY <2>1 DEF Within
<1>3. CellOf(j)' = CellOf(k)
  <2>1. Within(j, "cell")' = Within(k, "cell")
    BY <1>2
  <2>2. Within(k, "cell") # 0 => Within(k, "cell") \in Around(k)
    BY <1>0, WithinFacts
  <2> QED BY <1>1, <2>1, <2>2 DEF CellOf
<1> QED BY <1>2, <1>3

LEMMA WithinStays ==
  ASSUME FileOK, NEW st, file' = Append(file, st), NEW k \in 0 .. this
  PROVE  (\A w : Within(k, w)' = Within(k, w)) /\ CellOf(k)' = CellOf(k) /\ BodyOf(k)' = BodyOf(k)
<1>1. Len(file) \in Nat
  BY FileGrows
<1>2. ASSUME NEW j \in 0 .. this PROVE (\A w : Within(j, w)' = Within(j, w)) /\ CellOf(j)' = CellOf(j)
  <2>1. j \in Nat
    BY <1>1 DEF this
  <2> QED BY <2>1, AroundStays, WithinSame
<1>3. Within(k, "geometry") \in 0 .. this
  <2>1. k \in Nat
    BY <1>1 DEF this
  <2>2. Within(k, "geometry") \in 0 .. k
    BY <2>1, WithinFacts
  <2> QED BY <1>1, <2>2 DEF this
<1>4. BodyOf(k)' = BodyOf(k)
  <2>1. Within(k, "geometry")' = Within(k, "geometry")
    BY <1>2
  <2>2. \A j \in 0 .. this : CellOf(j)' = CellOf(j)
    BY <1>2
  <2> QED BY <1>3, <2>1, <2>2 DEF BodyOf
<1> QED BY <1>2, <1>4

LEMMA BodySame ==
  ASSUME FileOK, NEW st, file' = Append(file, st), NEW k \in 0 .. this, NEW j \in Nat, Around(j)' = Around(k)
  PROVE  BodyOf(j)' = BodyOf(k)
<1>1. Within(j, "geometry")' = Within(k, "geometry")
  BY WithinSame
<1>2. BodyOf(k)' = BodyOf(k) /\ Within(k, "geometry")' = Within(k, "geometry")
  BY WithinStays
<1> QED BY <1>1, <1>2 DEF BodyOf

\* In a block that has begun its head is the innermost of its kind.
LEMMA WithinBegun ==
  ASSUME FileOK, NEW st, file' = Append(file, st), BeginsBlock(st), NEW n, n = this
  PROVE  /\ \A w : Within(n + 1, w)' = IF st.word = w THEN n ELSE Within(n, w)
         /\ CellOf(n + 1)' = IF st.word = "cell" THEN st.arg ELSE CellOf(n)
         /\ BodyOf(n + 1)' = IF st.word = "geometry" THEN CellOf(n) ELSE BodyOf(n)
<1>1. n \in Nat /\ n > 0 /\ Len(file) = n - 1 /\ file'[n] = st /\ \A k \in 1 .. n - 1 : file'[k] = file[k]
  BY FileGrows DEF this
<1>2. Around(n + 1)' = Around(n) \cup {n} /\ Around(n) \subseteq 1 .. n - 1
  BY <1>1, AroundGrows, AroundFacts
<1>3. ASSUME NEW w PROVE Within(n + 1, w)' = IF st.word = w THEN n ELSE Within(n, w)
  <2> DEFINE S == {0} \cup {b \in Around(n) : file[b].word = w}
             T == {0} \cup {b \in Around(n + 1)' : file'[b].word = w}
  <2>1. Within(n + 1, w)' = Max(T) /\ Within(n, w) = Max(S)
    BY DEF Within
  <2>2. CASE st.word # w
    <3>1. T = S
      BY <1>1, <1>2, <2>2
    <3> HIDE DEF S, T
    <3> QED BY <2>1, <2>2, <3>1
  <2>3. CASE st.word = w
    <3>1. n \in T /\ T \in SUBSET (0 .. n)
      BY <1>1, <1>2, <2>3
    <3>2. Max(T) \in T /\ \A x \in T : x <= Max(T)
      <4> HIDE DEF T
      <4> QED BY <1>1, <3>1, LargestThere
    <3>3. Max(T) = n
      <4> HIDE DEF T
      <4>1. Max(T) \in 0 .. n /\ n <= Max(T)
        BY <3>1, <3>2
      <4> QED BY <1>1, <4>1
    <3> HIDE DEF T
    <3> QED BY <2>1, <2>3, <3>3
  <2> QED BY <2>2, <2>3
<1>4. \A k \in 0 .. n : CellOf(k)' = CellOf(k)
  BY WithinStays
<1>5. \A w : Within(n, w) \in 0 .. n /\ (Within(n, w) # 0 => Within(n, w) \in 1 .. n - 1)
  BY <1>1, <1>2, WithinFacts
<1>6. CellOf(n + 1)' = IF st.word = "cell" THEN st.arg ELSE CellOf(n)
  BY <1>1, <1>3, <1>5 DEF CellOf
<1>7. BodyOf(n + 1)' = IF st.word = "geometry" THEN CellOf(n) ELSE BodyOf(n)
  <2>1. n \in 0 .. n
    BY <1>1
  <2> QED BY <1>3, <1>4, <1>5, <2>1 DEF BodyOf
<1> QED BY <1>3, <1>6, <1>7

-------------------------------------------------------------------------------
(* The contexts on the stack are those of the blocks around.                      *)

Number(k) == IF k = 0 THEN NoName ELSE k

\* Statement j may add a layer to geometry g.
Adds(j, g) ==
  \/ file[j].word = "layer" /\ BodyOf(j) = g
  \/ file[j].word = "load_gds" /\ file[j].arg[1] = g

\* The pointer l is that of the layer block k: to the layer it names, or stale.
PointsTo(l, k) ==
  /\ l.geo = BodyOf(k) /\ l.geo \in Cell
  /\ l.pos \in DOMAIN geo[l.geo] /\ tech[geo[l.geo][l.pos]].name = file[k].arg
  /\ l.block # block[l.geo] => \E j \in k + 1 .. Len(file) : Adds(j, l.geo)

\* Context c is right for statement k.
Right(c, k) ==
  /\ c.cell = CellOf(k) /\ c.geometry = BodyOf(k)
  /\ c.inst = Number(Within(k, "inst")) /\ c.gds = Number(Within(k, "gds"))
  /\ IF Within(k, "layer") = 0 THEN c.layer = NoName ELSE PointsTo(c.layer, Within(k, "layer"))

\* Statement st is read: layers stay where they are, and those of a cell are moved
\* by a statement that adds one.
Reading(st) ==
  /\ file' = Append(file, st)
  /\ LayersStay
  /\ \A g \in Cell : block'[g] # block[g] =>
       (st.word = "layer" /\ BodyOf(this) = g) \/ (st.word = "load_gds" /\ st.arg[1] = g)

LEMMA PointerStays ==
  ASSUME FileOK, GeoOK, NEW st, Reading(st), NEW k \in 1 .. Len(file), NEW l, PointsTo(l, k)
  PROVE  PointsTo(l, k)'
<1> DEFINE n == Len(file) + 1
<1>1. /\ Len(file) \in Nat /\ n \in Nat /\ n = this /\ Len(file') = n /\ file'[n] = st
      /\ \A j \in 1 .. Len(file) : file'[j] = file[j]
  BY FileGrows DEF Reading, this
<1>2. \A j \in 1 .. n : BodyOf(j)' = BodyOf(j)
  <2>1. \A j \in 1 .. n : j \in 0 .. this
    BY <1>1
  <2> QED BY <2>1, WithinStays DEF Reading
<1>3. l.geo = BodyOf(k)' /\ l.geo \in Cell
  BY <1>1, <1>2 DEF PointsTo
<1>4. l.pos \in DOMAIN geo'[l.geo] /\ tech'[geo'[l.geo][l.pos]].name = file'[k].arg
  <2>1. geo[l.geo][l.pos] \in DOMAIN tech
    BY CellAssumption DEF PointsTo, GeoOK
  <2> QED BY <1>1, <2>1, CellAssumption DEF PointsTo, Reading, LayersStay
<1>5. ASSUME l.block # block'[l.geo] PROVE \E j \in k + 1 .. n : Adds(j, l.geo)'
  <2>1. CASE l.block # block[l.geo]
    <3>1. PICK j \in k + 1 .. Len(file) : Adds(j, l.geo)
      BY <2>1 DEF PointsTo
    <3>2. j \in 1 .. Len(file) /\ j \in 1 .. n /\ j \in k + 1 .. n
      BY <1>1
    <3> QED BY <1>1, <1>2, <3>1, <3>2 DEF Adds
  <2>2. CASE l.block = block[l.geo]
    <3>1. (st.word = "layer" /\ BodyOf(n) = l.geo) \/ (st.word = "load_gds" /\ st.arg[1] = l.geo)
      BY <1>1, <1>3, <1>5, <2>2 DEF Reading
    <3>2. n \in k + 1 .. n /\ n \in 1 .. n
      BY <1>1
    <3> QED BY <1>1, <1>2, <3>1, <3>2 DEF Adds
  <2> QED BY <2>1, <2>2
<1> QED BY <1>1, <1>3, <1>4, <1>5 DEF PointsTo

\* A context stays right for a statement with the same blocks around.
LEMMA RightCarries ==
  ASSUME FileOK, GeoOK, NEW st, Reading(st), NEW k \in 0 .. this, NEW j \in Nat, Around(j)' = Around(k),
         NEW c, Right(c, k)
  PROVE  Right(c, j)'
<1>1. /\ \A w : Within(j, w)' = Within(k, w)
      /\ CellOf(j)' = CellOf(k) /\ BodyOf(j)' = BodyOf(k)
  BY WithinSame, BodySame DEF Reading
<1>2. Within(k, "layer") # 0 => Within(k, "layer") \in 1 .. Len(file)
  <2>1. Len(file) \in Nat /\ k \in Nat
    BY FileGrows DEF Reading, this
  <2>2. Within(k, "layer") \in 0 .. k /\ (k > 0 => Within(k, "layer") < k)
    BY <2>1, WithinFacts
  <2> QED BY <2>1, <2>2 DEF this
<1>3. PICK p : p = Within(k, "layer")
  OBVIOUS
<1>4. p # 0 => PointsTo(c.layer, p)'
  BY <1>2, <1>3, PointerStays DEF Right
<1>5. Within(j, "layer")' = p
  BY <1>1, <1>3
<1>6. c.layer = NoName \/ p # 0
  BY <1>3 DEF Right
<1>7. IF Within(j, "layer")' = 0 THEN c.layer = NoName ELSE PointsTo(c.layer, Within(j, "layer"))'
  <2>1. CASE p = 0
    BY <1>5, <1>6, <2>1
  <2>2. CASE p # 0
    BY <1>4, <1>5, <2>2
  <2> QED BY <2>1, <2>2
<1> QED BY <1>1, <1>7 DEF Right, Number

\* The context d that statement n, which is st, hands to its block, in context c.
Inherits(d, c, st, n) ==
  /\ d.cell = IF st.word = "cell" THEN st.arg ELSE c.cell
  /\ d.geometry = IF st.word = "geometry" THEN c.cell ELSE c.geometry
  /\ d.inst = IF st.word = "inst" THEN n ELSE c.inst
  /\ d.gds = IF st.word = "gds" THEN n ELSE c.gds
  /\ IF st.word = "layer" THEN PointsTo(d.layer, n)' ELSE d.layer = c.layer

\* The context of a block that has begun.
LEMMA RightBegun ==
  ASSUME FileOK, GeoOK, NEW st, Reading(st), BeginsBlock(st), NEW n, n = this,
         NEW c, Right(c, n), NEW d, Inherits(d, c, st, n)
  PROVE  Right(d, n + 1)'
<1>1. n \in Nat /\ n # 0 /\ n \in 0 .. this
  BY FileGrows DEF Reading, this
<1>2. /\ \A w : Within(n + 1, w)' = IF st.word = w THEN n ELSE Within(n, w)
      /\ CellOf(n + 1)' = IF st.word = "cell" THEN st.arg ELSE CellOf(n)
      /\ BodyOf(n + 1)' = IF st.word = "geometry" THEN CellOf(n) ELSE BodyOf(n)
  BY WithinBegun DEF Reading
<1>3. d.cell = CellOf(n + 1)' /\ d.geometry = BodyOf(n + 1)'
  BY <1>2 DEF Right, Inherits
<1>4. d.inst = Number(Within(n + 1, "inst")') /\ d.gds = Number(Within(n + 1, "gds")')
  BY <1>1, <1>2 DEF Right, Number, Inherits
<1>5. IF Within(n + 1, "layer")' = 0 THEN d.layer = NoName ELSE PointsTo(d.layer, Within(n + 1, "layer"))'
  <2>1. CASE st.word = "layer"
    BY <1>1, <1>2, <2>1 DEF Inherits
  <2>2. CASE st.word # "layer"
    <3>1. Within(n + 1, "layer")' = Within(n, "layer")
      BY <1>2, <2>2
    <3>2. Around(n)' = Around(n)
      BY <1>1, AroundStays DEF Reading
    <3>3. Right(c, n)'
      BY <1>1, <3>2, RightCarries
    <3>4. Within(n, "layer")' = Within(n, "layer")
      BY <1>1, WithinStays DEF Reading
    <3> QED BY <2>2, <3>1, <3>3, <3>4 DEF Right, Inherits
  <2> QED BY <2>1, <2>2
<1> QED BY <1>3, <1>4, <1>5 DEF Right

\* The heads of the blocks that are open, outermost first.
Nested(b) ==
  /\ b \in [1 .. Len(stack) - 1 -> 1 .. Len(file)]
  /\ \A j, m \in DOMAIN b : j < m => b[j] < b[m]
  /\ \A m \in DOMAIN b : /\ Opened(b[m], Len(file)) - Closed(b[m], Len(file)) = Len(stack) - m
                         /\ Around(b[m]) = {b[j] : j \in 1 .. m - 1}
                         /\ Right(stack[m], b[m])
  /\ Around(this) = {b[m] : m \in DOMAIN b}
  /\ Right(stack[Len(stack)], this)

LEMMA LevelStays ==
  ASSUME FileOK, GeoOK, StackOK, NEW st, Reading(st), NEW n, n = this, NEW b, Nested(b), NEW m \in DOMAIN b
  PROVE  /\ b[m] \in 1 .. n - 1 /\ b[m] \in 1 .. n
         /\ Around(b[m])' = {b[j] : j \in 1 .. m - 1}
         /\ Opened(b[m], n)' - Closed(b[m], n)' = Len(stack) - m + Up(st) - Down(st)
         /\ \A c : c = stack[m] => Right(c, b[m])'
<1>1. n \in Nat /\ n > 0 /\ Len(file) = n - 1 /\ file' = Append(file, st)
  BY FileGrows DEF Reading, this
<1>2. b[m] \in 1 .. n - 1 /\ b[m] \in 1 .. n /\ b[m] \in 0 .. this /\ b[m] \in Nat /\ b[m] \in Int /\ n - 1 \in Int
  <2>1. b[m] \in 1 .. n - 1
    BY <1>1 DEF Nested
  <2> QED BY <1>1, <2>1
<1>3. Around(b[m])' = Around(b[m])
  BY <1>1, <1>2, AroundStays
<1>4. Opened(b[m], n)' - Closed(b[m], n)' = Len(stack) - m + Up(st) - Down(st)
  <2>1. /\ Opened(b[m], n)' = Opened(b[m], n - 1) + Up(st)
        /\ Closed(b[m], n)' = Closed(b[m], n - 1) + Down(st)
    BY <1>1, <1>2, CountsGrow
  <2>2. Opened(b[m], n - 1) - Closed(b[m], n - 1) = Len(stack) - m
    BY <1>1 DEF Nested
  <2>3. Opened(b[m], n - 1) \in Nat /\ Closed(b[m], n - 1) \in Nat
    BY <1>2, CountsAreNumbers
  <2>4. Up(st) \in Nat /\ Down(st) \in Nat
    BY DEF Up, Down
  <2>5. Len(stack) \in Nat /\ m \in Int
    <3>1. Len(stack) \in Nat
      BY DEF StackOK
    <3> QED BY <3>1 DEF Nested
  <2> QED BY <2>1, <2>2, <2>3, <2>4, <2>5
<1>5. ASSUME NEW c, c = stack[m] PROVE Right(c, b[m])'
  <2>1. Right(c, b[m])
    BY <1>5 DEF Nested
  <2> QED BY <1>2, <1>3, <2>1, RightCarries
<1> QED BY <1>2, <1>3, <1>4, <1>5 DEF Nested

\* A statement that begins no block and ends none.
LEMMA NestedInside ==
  ASSUME FileOK, GeoOK, StackOK, NEW st, Reading(st), ~BeginsBlock(st), ~EndsBlock(st), UNCHANGED stack,
         NEW b, Nested(b)
  PROVE  Nested(b)'
<1>0. PICK n : n = this
  OBVIOUS
<1>1. n \in Nat /\ n > 0 /\ Len(file) = n - 1 /\ Len(file') = n /\ this' = n + 1 /\ file' = Append(file, st)
  BY <1>0, FileGrows DEF Reading, this
<1>2. b \in [1 .. Len(stack') - 1 -> 1 .. Len(file')]
  <2>1. \A k \in 1 .. n - 1 : k \in 1 .. n
    BY <1>1
  <2> QED BY <1>1, <2>1 DEF Nested
<1>3. ASSUME NEW m \in DOMAIN b
      PROVE  /\ Opened(b[m], n)' - Closed(b[m], n)' = Len(stack') - m
             /\ Around(b[m])' = {b[j] : j \in 1 .. m - 1}
             /\ Right(stack[m], b[m])'
  <2>1. Up(st) = 0 /\ Down(st) = 0
    BY DEF Up, Down
  <2>2. Len(stack) \in Nat /\ m \in Int
    <3>1. Len(stack) \in Nat
      BY DEF StackOK
    <3> QED BY <3>1 DEF Nested
  <2>3. Opened(b[m], n)' - Closed(b[m], n)' = Len(stack') - m
    BY <1>0, <2>1, <2>2, LevelStays
  <2> QED BY <1>0, <2>3, LevelStays
<1>4. Around(n + 1)' = {b[m] : m \in DOMAIN b}
  BY <1>0, <1>1, AroundGrows DEF Nested
<1>5. Right(stack[Len(stack)], n + 1)'
  <2>1. PICK c : c = stack[Len(stack)]
    OBVIOUS
  <2>2. Right(c, n) /\ Around(n + 1)' = Around(n) /\ n \in 0 .. this
    BY <1>0, <1>1, <2>1, AroundGrows DEF Nested
  <2>3. Right(c, n + 1)'
    BY <1>1, <2>2, RightCarries
  <2> QED BY <2>1, <2>3
<1> QED BY <1>1, <1>2, <1>3, <1>4, <1>5 DEF Nested

LEMMA Top == StackOK => Len(stack) \in Nat /\ Len(stack) > 0
BY DEF StackOK

\* A block that begins is the innermost.
LEMMA NestedBegun ==
  ASSUME FileOK, GeoOK, StackOK, NEW st, Reading(st), BeginsBlock(st), NEW n, n = this,
         NEW b, Nested(b), NEW d, stack' = Append(stack, d), Right(d, n + 1)'
  PROVE  \E e : Nested(e)'
<1>1. n \in Nat /\ n > 0 /\ Len(file) = n - 1 /\ Len(file') = n /\ this' = n + 1 /\ file' = Append(file, st)
  BY FileGrows DEF Reading, this
<1>2. PICK L \in Nat : L = Len(stack) /\ L > 0
  BY Top
<1>3. /\ Len(stack') = L + 1 /\ stack'[L + 1] = d
      /\ \A m \in 1 .. L : stack'[m] = stack[m]
  BY <1>2 DEF StackOK
<1> DEFINE e == [m \in 1 .. L |-> IF m < L THEN b[m] ELSE n]
<1>4. /\ DOMAIN b = 1 .. L - 1 /\ \A m \in 1 .. L - 1 : b[m] \in 1 .. n - 1 /\ b[m] \in 1 .. n
      /\ \A j, m \in 1 .. L - 1 : j < m => b[j] < b[m]
      /\ Around(n) = {b[m] : m \in 1 .. L - 1} /\ Right(stack[L], n)
  <2>1. DOMAIN b = 1 .. L - 1 /\ \A m \in 1 .. L - 1 : b[m] \in 1 .. n - 1
    BY <1>1, <1>2 DEF Nested
  <2>2. \A x \in 1 .. n - 1 : x \in 1 .. n
    BY <1>1
  <2> QED BY <1>2, <2>1, <2>2 DEF Nested
<1>5. /\ DOMAIN e = 1 .. L /\ e[L] = n /\ \A m \in 1 .. L - 1 : m \in 1 .. L /\ e[m] = b[m]
      /\ \A m \in 1 .. L : m = L \/ m \in 1 .. L - 1
  BY <1>2
<1> HIDE DEF e
<1>6. e \in [1 .. Len(stack') - 1 -> 1 .. Len(file')]
  <2>1. ASSUME NEW m \in 1 .. L PROVE e[m] \in 1 .. n
    <3>1. n \in 1 .. n
      BY <1>1
    <3>2. m = L \/ m \in 1 .. L - 1
      BY <1>5
    <3>3. \A k \in 1 .. L - 1 : b[k] \in 1 .. n
      BY <1>4
    <3> QED BY <1>5, <3>1, <3>2, <3>3
  <2>2. Len(stack') - 1 = L
    BY <1>2, <1>3
  <2>3. e = [m \in 1 .. L |-> e[m]]
    BY DEF e
  <2> QED BY <1>1, <2>1, <2>2, <2>3
<1>7. ASSUME NEW j \in DOMAIN e, NEW m \in DOMAIN e, j < m PROVE e[j] < e[m]
  <2>1. j \in 1 .. L - 1
    BY <1>2, <1>5, <1>7
  <2>2. CASE m = L
    BY <1>1, <1>4, <1>5, <2>1, <2>2
  <2>3. CASE m \in 1 .. L - 1
    BY <1>4, <1>5, <1>7, <2>1, <2>3
  <2> QED BY <1>5, <2>2, <2>3
<1>8. ASSUME NEW m \in DOMAIN e
      PROVE  /\ Opened(e[m], n)' - Closed(e[m], n)' = L + 1 - m
             /\ Around(e[m])' = {e[j] : j \in 1 .. m - 1}
             /\ \A c : c = stack[m] => Right(c, e[m])'
  <2>1. CASE m \in 1 .. L - 1
    <3>1. Up(st) = 1 /\ Down(st) = 0
      BY DEF Up, Down, BeginsBlock, EndsBlock, Blocks
    <3>2. /\ Around(b[m])' = {b[j] : j \in 1 .. m - 1}
          /\ Opened(b[m], n)' - Closed(b[m], n)' = L - m + 1 - 0
          /\ \A c : c = stack[m] => Right(c, b[m])'
      <4>1. m \in DOMAIN b
        BY <1>4, <2>1
      <4>2. /\ Around(b[m])' = {b[j] : j \in 1 .. m - 1}
            /\ Opened(b[m], n)' - Closed(b[m], n)' = Len(stack) - m + Up(st) - Down(st)
            /\ \A c : c = stack[m] => Right(c, b[m])'
        BY <4>1, LevelStays
      <4> QED BY <1>2, <3>1, <4>2
    <3>3. {e[j] : j \in 1 .. m - 1} = {b[j] : j \in 1 .. m - 1}
      <4>1. \A j \in 1 .. m - 1 : j \in 1 .. L - 1
        BY <1>2, <2>1
      <4> QED BY <1>5, <4>1
    <3>4. L - m + 1 - 0 = L + 1 - m
      BY <1>2, <2>1
    <3> QED BY <1>5, <2>1, <3>2, <3>3, <3>4
  <2>2. CASE m = L
    <3>1. n \in 0 .. this /\ n .. n - 1 = {} /\ n \in 1 .. n
      BY <1>1
    <3>2. Opened(n, n - 1) = 0 /\ Closed(n, n - 1) = 0
      BY <3>1, FS_EmptySet DEF Opened, Closed
    <3>3. Opened(n, n)' = 0 + 1 /\ Closed(n, n)' = 0 + 0
      <4>1. Up(st) = 1 /\ Down(st) = 0
        BY DEF Up, Down, BeginsBlock, EndsBlock, Blocks
      <4> QED BY <1>1, <3>1, <3>2, <4>1, CountsGrow
    <3>4. Around(n)' = Around(n)
      BY <1>1, <3>1, AroundStays
    <3>5. {e[j] : j \in 1 .. L - 1} = {b[j] : j \in 1 .. L - 1}
      BY <1>5
    <3>6. \A c : c = stack[L] => Right(c, n)'
      BY <1>1, <1>4, <3>1, <3>4, RightCarries
    <3>7. Opened(n, n)' - Closed(n, n)' = L + 1 - L
      BY <1>2, <3>3
    <3> QED BY <1>4, <1>5, <2>2, <3>4, <3>5, <3>6, <3>7
  <2> QED BY <1>5, <2>1, <2>2
<1>9. ASSUME NEW m \in DOMAIN e PROVE Right(stack[m], e[m])'
  <2>1. PICK c : c = stack[m]
    OBVIOUS
  <2>2. stack'[m] = c
    BY <1>3, <1>5, <2>1
  <2>3. Right(c, e[m])'
    BY <1>8, <2>1
  <2> QED BY <2>2, <2>3
<1>10. Around(n + 1)' = {e[m] : m \in DOMAIN e}
  <2>1. Around(n + 1)' = Around(n) \cup {n}
    BY <1>1, AroundGrows
  <2>2. {e[m] : m \in DOMAIN e} = {b[m] : m \in 1 .. L - 1} \cup {n}
    <3>1. ASSUME NEW x \in {e[m] : m \in DOMAIN e} PROVE x \in {b[m] : m \in 1 .. L - 1} \cup {n}
      BY <1>5
    <3>2. ASSUME NEW x \in {b[m] : m \in 1 .. L - 1} \cup {n} PROVE x \in {e[m] : m \in DOMAIN e}
      <4>1. L \in DOMAIN e
        BY <1>2, <1>5
      <4> QED BY <1>5, <4>1
    <3> QED BY <3>1, <3>2
  <2> QED BY <1>4, <2>1, <2>2
<1>11. Right(stack[Len(stack)], n + 1)'
  BY <1>3
<1>12. Nested(e)'
  <2>1. Len(stack') = L + 1 /\ Len(file') = n /\ this' = n + 1
    BY <1>1, <1>3
  <2>2. /\ \A j, m \in DOMAIN e : j < m => e[j] < e[m]
        /\ Right(stack[Len(stack)], this)'
    BY <1>7, <1>11, <2>1
  <2>3. ASSUME NEW m \in DOMAIN e
        PROVE  /\ Opened(e[m], n)' - Closed(e[m], n)' = Len(stack') - m
               /\ Around(e[m])' = {e[j] : j \in 1 .. m - 1}
    <3>1. Opened(e[m], n)' - Closed(e[m], n)' = L + 1 - m
      BY <1>8
    <3>2. m \in 1 .. L
      BY <1>5
    <3>3. \A i \in 1 .. L : L + 1 - i = (L + 1) - i
      OBVIOUS
    <3>4. Opened(e[m], n)' - Closed(e[m], n)' = (L + 1) - m
      BY ONLY <3>1, <3>2, <3>3, Zenon
    <3>5. Opened(e[m], n)' - Closed(e[m], n)' = Len(stack') - m
      BY ONLY <2>1, <3>4, Zenon
    <3>6. Around(e[m])' = {e[j] : j \in 1 .. m - 1}
      BY <1>8
    <3> QED BY ONLY <3>5, <3>6, Zenon
  <2>4. Around(this)' = {e[m] : m \in DOMAIN e}
    BY <1>10, <2>1
  <2> QED BY <1>6, <1>9, <2>1, <2>2, <2>3, <2>4 DEF Nested
<1> QED BY <1>12

\* A block that ends leaves the one around it.
LEMMA NestedEnded ==
  ASSUME FileOK, GeoOK, StackOK, NEW st, Reading(st), EndsBlock(st), NEW n, n = this,
         NEW b, Nested(b), Len(stack) > 1, stack' = Front(stack)
  PROVE  \E e : Nested(e)'
<1>1. n \in Nat /\ n > 0 /\ Len(file) = n - 1 /\ Len(file') = n /\ this' = n + 1 /\ file' = Append(file, st)
  BY FileGrows DEF Reading, this
<1>2. PICK L \in Nat : L = Len(stack) /\ L > 1
  BY Top
<1>3. Len(stack') = L - 1 /\ \A m \in 1 .. L - 1 : stack'[m] = stack[m]
  BY <1>2 DEF StackOK, Front
<1> DEFINE e == [m \in 1 .. L - 2 |-> b[m]]
<1>4. /\ DOMAIN b = 1 .. L - 1 /\ \A m \in 1 .. L - 1 : b[m] \in 1 .. n - 1 /\ b[m] \in 1 .. n
      /\ \A j, m \in 1 .. L - 1 : j < m => b[j] < b[m]
      /\ Around(n) = {b[m] : m \in 1 .. L - 1}
      /\ \A m \in 1 .. L - 1 : Opened(b[m], n - 1) - Closed(b[m], n - 1) = L - m
      /\ Around(b[L - 1]) = {b[j] : j \in 1 .. L - 2}
      /\ Right(stack[L - 1], b[L - 1])
  <2>1. DOMAIN b = 1 .. L - 1 /\ \A m \in 1 .. L - 1 : b[m] \in 1 .. n - 1
    BY <1>1, <1>2 DEF Nested
  <2>2. \A x \in 1 .. n - 1 : x \in 1 .. n
    BY <1>1
  <2>3. L - 1 \in DOMAIN b /\ L - 1 - 1 = L - 2
    BY <1>2, <2>1
  <2>4. Around(b[L - 1]) = {b[j] : j \in 1 .. L - 2} /\ Right(stack[L - 1], b[L - 1])
    BY <2>3 DEF Nested
  <2>5. \A m \in 1 .. L - 1 : Opened(b[m], n - 1) - Closed(b[m], n - 1) = L - m
    BY <1>1, <1>2, <2>1 DEF Nested
  <2>6. Around(n) = {b[m] : m \in 1 .. L - 1} /\ \A j, m \in 1 .. L - 1 : j < m => b[j] < b[m]
    BY <2>1 DEF Nested
  <2> QED BY <2>1, <2>2, <2>4, <2>5, <2>6
<1>5. DOMAIN e = 1 .. L - 2 /\ \A m \in 1 .. L - 2 : m \in 1 .. L - 1 /\ e[m] = b[m]
  BY <1>2
<1>6. e \in [1 .. Len(stack') - 1 -> 1 .. Len(file')]
  <2>1. \A m \in 1 .. L - 2 : b[m] \in 1 .. n
    BY <1>4, <1>5
  <2>2. Len(stack') - 1 = L - 2
    BY <1>2, <1>3
  <2> QED BY <1>1, <2>1, <2>2
<1> HIDE DEF e
<1>7. \A j, m \in DOMAIN e : j < m => e[j] < e[m]
  BY <1>4, <1>5
<1>8. ASSUME NEW m \in DOMAIN e
      PROVE  /\ Opened(e[m], n)' - Closed(e[m], n)' = L - 1 - m
             /\ Around(e[m])' = {e[j] : j \in 1 .. m - 1}
             /\ \A c : c = stack[m] => Right(c, e[m])'
  <2>1. Up(st) = 0 /\ Down(st) = 1
    BY DEF Up, Down, BeginsBlock, EndsBlock, Blocks
  <2>2. m \in DOMAIN b /\ e[m] = b[m] /\ m \in Int
    BY <1>4, <1>5
  <2>3. /\ Around(b[m])' = {b[j] : j \in 1 .. m - 1}
        /\ Opened(b[m], n)' - Closed(b[m], n)' = Len(stack) - m + Up(st) - Down(st)
        /\ \A c : c = stack[m] => Right(c, b[m])'
    BY <2>2, LevelStays
  <2>4. {e[j] : j \in 1 .. m - 1} = {b[j] : j \in 1 .. m - 1}
    <3>1. \A j \in 1 .. m - 1 : j \in 1 .. L - 2
      BY <1>2, <1>5
    <3> QED BY <1>5, <3>1
  <2>5. Opened(b[m], n)' - Closed(b[m], n)' = L - m + 0 - 1
    BY <1>2, <2>1, <2>3
  <2>6. L - m + 0 - 1 = L - 1 - m
    BY <1>2, <2>2
  <2> QED BY <2>2, <2>3, <2>4, <2>5, <2>6
<1>9. ASSUME NEW m \in DOMAIN e PROVE Right(stack[m], e[m])'
  <2>1. PICK c : c = stack[m]
    OBVIOUS
  <2>2. stack'[m] = c
    BY <1>3, <1>5, <2>1
  <2>3. Right(c, e[m])'
    BY <1>8, <2>1
  <2> QED BY <2>2, <2>3
<1>10. Around(n + 1)' = {b[m] : m \in 1 .. L - 2}
  <2>1. Around(n + 1)' = {x \in Around(n) : Opened(x, n - 1) - Closed(x, n - 1) > 1}
    BY <1>1, AroundGrows
  <2>2. ASSUME NEW m \in 1 .. L - 1 PROVE Opened(b[m], n - 1) - Closed(b[m], n - 1) > 1 <=> m \in 1 .. L - 2
    <3>1. Opened(b[m], n - 1) - Closed(b[m], n - 1) = L - m
      BY <1>4
    <3>2. L - m > 1 <=> m \in 1 .. L - 2
      BY <1>2
    <3> QED BY <3>1, <3>2
  <2>3. \A m \in 1 .. L - 2 : m \in 1 .. L - 1
    BY <1>2
  <2>4. Around(n) = {b[m] : m \in 1 .. L - 1}
    BY <1>4
  <2> QED BY <2>1, <2>2, <2>3, <2>4
<1>11. Right(stack[Len(stack)], n + 1)'
  <2>1. PICK c : c = stack[L - 1]
    OBVIOUS
  <2>2. L - 1 \in 1 .. L - 1 /\ b[L - 1] \in 1 .. n - 1
    BY <1>2, <1>4
  <2>3. b[L - 1] \in 0 .. this /\ n + 1 \in Nat
    BY <1>1, <2>2
  <2>4. Around(n + 1)' = Around(b[L - 1]) /\ Right(c, b[L - 1])
    BY <1>4, <1>10, <2>1
  <2>5. Right(c, n + 1)'
    BY <2>3, <2>4, RightCarries
  <2>6. stack'[Len(stack')] = c
    BY <1>3, <2>1, <2>2
  <2> QED BY <2>5, <2>6
<1>12. Nested(e)'
  <2>1. Len(stack') = L - 1 /\ Len(file') = n /\ this' = n + 1
    BY <1>1, <1>3
  <2>2. Right(stack[Len(stack)], this)'
    BY <1>11, <2>1
  <2>3. \A m \in DOMAIN e : /\ Opened(e[m], n)' - Closed(e[m], n)' = Len(stack') - m
                            /\ Around(e[m])' = {e[j] : j \in 1 .. m - 1}
    BY <1>8, <2>1
  <2>4. Around(this)' = {e[m] : m \in DOMAIN e}
    BY <1>5, <1>10, <2>1
  <2> QED BY <1>6, <1>7, <1>9, <2>1, <2>2, <2>3, <2>4 DEF Nested
<1> QED BY <1>12

-------------------------------------------------------------------------------
(* The other parts of the invariant.                                              *)

\* As many blocks are open as there are contexts beside the first.
Balanced == Opened(1, Len(file)) = Closed(1, Len(file)) + Len(stack) - 1

\* The libraries in memory are those of the blocks around.
LiveOK == live = {k \in Around(this) : file[k].word = "gds"}

\* All statements so far were ended as they must be, and commands executed.
ReadOK ==
  \A k \in DOMAIN file :
    /\ file[k].word \in Orders => k \in DOMAIN acted /\ file[k].end = ";"
    /\ file[k].word \in Blocks => file[k].end \in {"{", ";"}

Going == result = "running" /\ ~crashed

GoingOK == Going => (\E b : Nested(b)) /\ Balanced /\ LiveOK /\ ReadOK

\* The histories tell of statements read, and of layers that are there.
DrawnOK(k) ==
  file[k].word = "rect" =>
    /\ Within(k, "layer") # 0
    /\ acted[k].geo \in Cell /\ acted[k].pos \in DOMAIN geo[acted[k].geo]

ActedOK ==
  /\ DOMAIN insts \subseteq 1 .. Len(file)
  /\ DOMAIN acted \subseteq 1 .. Len(file)
  /\ \A b \in DOMAIN insts : MadeInside(b)
  /\ \A k \in DOMAIN acted : ActsInside(k) /\ DrawnOK(k)

LEMMA BalancedKept ==
  ASSUME FileOK, StackOK, Balanced, NEW st, file' = Append(file, st), Len(stack') = Len(stack) + Up(st) - Down(st)
  PROVE  Balanced'
<1>1. PICK n : n = this
  OBVIOUS
<1>2. n \in Nat /\ n > 0 /\ Len(file) = n - 1 /\ Len(file') = n
  BY <1>1, FileGrows DEF this
<1>3. 1 \in 1 .. n /\ n - 1 \in Int /\ 1 \in Int
  BY <1>2
<1>4. /\ Opened(1, n)' = Opened(1, n - 1) + Up(st)
      /\ Closed(1, n)' = Closed(1, n - 1) + Down(st)
  BY <1>1, <1>3, CountsGrow
<1>5. Opened(1, n - 1) \in Nat /\ Closed(1, n - 1) \in Nat
  BY <1>3, CountsAreNumbers
<1>6. Up(st) \in Nat /\ Down(st) \in Nat /\ Len(stack) \in Nat
  BY Top DEF Up, Down
<1>7. Opened(1, n - 1) = Closed(1, n - 1) + Len(stack) - 1
  BY <1>2 DEF Balanced
<1>8. Opened(1, n)' = Closed(1, n)' + Len(stack') - 1
  <2>1. PICK o, c, u, d, l : /\ o = Opened(1, n - 1) /\ c = Closed(1, n - 1)
                             /\ u = Up(st) /\ d = Down(st) /\ l = Len(stack)
    OBVIOUS
  <2>2. o \in Nat /\ c \in Nat /\ u \in Nat /\ d \in Nat /\ l \in Nat /\ o = c + l - 1
    BY <1>5, <1>6, <1>7, <2>1
  <2>3. o + u = (c + d) + (l + u - d) - 1
    BY <2>2
  <2> QED BY <1>4, <2>1, <2>3
<1> QED BY <1>2, <1>8 DEF Balanced

LEMMA LiveInside ==
  ASSUME FileOK, LiveOK, NEW st, file' = Append(file, st), ~EndsBlock(st), NEW n, n = this,
         live' = IF BeginsBlock(st) /\ st.word = "gds" THEN live \cup {n} ELSE live
  PROVE  LiveOK'
<1>1. n \in Nat /\ Len(file) = n - 1 /\ this' = n + 1 /\ file'[n] = st /\ \A k \in 1 .. n - 1 : file'[k] = file[k]
  BY FileGrows DEF this
<1>2. Around(n) \subseteq 1 .. n - 1
  BY <1>1, AroundFacts
<1>3. live = {k \in Around(n) : file'[k].word = "gds"}
  BY <1>1, <1>2 DEF LiveOK
<1>4. live' = {k \in Around(n + 1)' : file'[k].word = "gds"}
  <2>1. CASE BeginsBlock(st)
    <3>1. Around(n + 1)' = Around(n) \cup {n}
      BY <2>1, AroundGrows
    <3> QED BY <1>1, <1>3, <2>1, <3>1
  <2>2. CASE ~BeginsBlock(st)
    <3>1. Around(n + 1)' = Around(n)
      BY <2>2, AroundGrows
    <3> QED BY <1>3, <2>2, <3>1
  <2> QED BY <2>1, <2>2
<1> QED BY <1>1, <1>4 DEF LiveOK

\* Statement st is ended as it must be, and executed.
Executed(st) ==
  /\ DOMAIN acted \subseteq DOMAIN acted'
  /\ st.word \in Orders => this \in DOMAIN acted' /\ st.end = ";"
  /\ st.word \in Blocks => st.end \in {"{", ";"}

LEMMA ReadKept ==
  ASSUME FileOK, ReadOK, NEW st, file' = Append(file, st), NEW n, n = this, Executed(st)
  PROVE  ReadOK'
<1>0. n \in Nat /\ n > 0 /\ Len(file) = n - 1
  BY FileGrows DEF this
<1>1. /\ DOMAIN file' = 1 .. n /\ file'[n] = st
      /\ DOMAIN file = 1 .. n - 1 /\ \A k \in 1 .. n - 1 : file'[k] = file[k]
  BY <1>0, FileGrows
<1>2. DOMAIN file' = DOMAIN file \cup {n}
  <2>1. 1 .. n = (1 .. n - 1) \cup {n}
    BY <1>0
  <2> QED BY <1>1, <2>1
<1> QED BY <1>1, <1>2 DEF ReadOK, Executed

LEMMA LiveEnded ==
  ASSUME FileOK, StackOK, LiveOK, NEW st, file' = Append(file, st), EndsBlock(st), NEW n, n = this,
         NEW b, Nested(b), Len(stack) > 1,
         live' = live \ (IF ctx.gds # Last(Front(stack)).gds THEN {ctx.gds} ELSE {})
  PROVE  LiveOK'
<1>1. n \in Nat /\ Len(file) = n - 1 /\ this' = n + 1 /\ \A k \in 1 .. n - 1 : file'[k] = file[k]
  BY FileGrows DEF this
<1>2. PICK L \in Nat : L = Len(stack) /\ L > 1
  BY Top
<1>3. PICK h : h = b[L - 1]
  OBVIOUS
<1>4. /\ DOMAIN b = 1 .. L - 1 /\ \A m \in 1 .. L - 1 : b[m] \in 1 .. n - 1
      /\ \A j, m \in 1 .. L - 1 : j < m => b[j] < b[m]
      /\ \A m \in 1 .. L - 1 : Opened(b[m], n - 1) - Closed(b[m], n - 1) = L - m
      /\ Around(n) = {b[m] : m \in 1 .. L - 1}
  <2>1. DOMAIN b = 1 .. L - 1 /\ \A m \in 1 .. L - 1 : b[m] \in 1 .. n - 1
    BY <1>1, <1>2 DEF Nested
  <2>2. \A m \in 1 .. L - 1 : Opened(b[m], n - 1) - Closed(b[m], n - 1) = L - m
    BY <1>1, <1>2, <2>1 DEF Nested
  <2> QED BY <2>1, <2>2 DEF Nested
<1>5. L - 1 \in 1 .. L - 1 /\ L - 1 - 1 = L - 2 /\ h \in 1 .. n - 1 /\ h \in Around(n)
  BY <1>2, <1>3, <1>4
<1>6. Around(h) = {b[j] : j \in 1 .. L - 2} /\ Right(stack[L - 1], h)
  <2>1. L - 1 \in DOMAIN b
    BY <1>4, <1>5
  <2> QED BY <1>3, <1>5, <2>1 DEF Nested
<1>7. \A x \in Around(n) : x = h \/ (x \in Around(h) /\ x < h)
  <2>1. \A m \in 1 .. L - 1 : m = L - 1 \/ (m \in 1 .. L - 2 /\ m < L - 1)
    BY <1>2
  <2> QED BY <1>3, <1>4, <1>5, <1>6, <2>1
<1>8. h \notin Around(h) /\ \A x \in Around(h) : x \in Around(n)
  <2>1. h \in Nat /\ h \notin 1 .. h - 1
    BY <1>5
  <2>2. \A m \in 1 .. L - 2 : m \in 1 .. L - 1
    BY <1>2
  <2> QED BY <1>4, <1>6, <2>1, <2>2, AroundFacts
<1>9. Around(n + 1)' = Around(h)
  <2>1. Around(n + 1)' = {x \in Around(n) : Opened(x, n - 1) - Closed(x, n - 1) > 1}
    BY AroundGrows
  <2>2. ~(Opened(h, n - 1) - Closed(h, n - 1) > 1)
    <3>1. Opened(h, n - 1) - Closed(h, n - 1) = L - (L - 1)
      BY <1>3, <1>4, <1>5
    <3> QED BY <1>2, <3>1
  <2>3. ASSUME NEW x \in Around(h) PROVE Opened(x, n - 1) - Closed(x, n - 1) > 1
    <3>1. PICK m \in 1 .. L - 2 : x = b[m]
      BY <1>6
    <3>2. Opened(x, n - 1) - Closed(x, n - 1) = L - m
      <4>1. m \in 1 .. L - 1
        BY <1>2
      <4> QED BY <1>4, <3>1, <4>1
    <3>3. L - m > 1
      BY <1>2
    <3> QED BY <3>2, <3>3
  <2> QED BY <1>7, <1>8, <2>1, <2>2, <2>3
<1>10. ctx = stack[L] /\ Last(Front(stack)) = stack[L - 1]
  <2>1. Front(stack) = SubSeq(stack, 1, L - 1)
    BY <1>2 DEF Front
  <2>2. Len(Front(stack)) = L - 1 /\ Front(stack)[L - 1] = stack[L - 1]
    BY <1>2, <2>1 DEF StackOK
  <2> QED BY <1>2, <2>2 DEF ctx, Last
<1>11. ctx.gds = Number(Within(n, "gds")) /\ stack[L - 1].gds = Number(Within(h, "gds"))
  BY <1>1, <1>2, <1>6, <1>10 DEF Nested, Right
<1>12. n \in Nat /\ h \in Nat /\ h > 0
  BY <1>1, <1>5
<1>13. PICK g : g = Within(n, "gds")
  OBVIOUS
<1>14. PICK f : f = Within(h, "gds")
  OBVIOUS
<1>15. /\ g \in Nat /\ (g # 0 => g \in Around(n) /\ file[g].word = "gds")
       /\ \A x \in Around(n) : file[x].word = "gds" => x <= g
  BY <1>12, <1>13, WithinFacts
<1>16. /\ f \in Nat /\ f < h /\ (f # 0 => f \in Around(h) /\ file[f].word = "gds")
       /\ \A x \in Around(h) : file[x].word = "gds" => x <= f
  BY <1>12, <1>14, WithinFacts
<1>17. live' = live \ {h}
  <2>1. CASE file[h].word = "gds"
    <3>1. g = h
      <4>1. h <= g
        BY <1>5, <1>15, <2>1
      <4> QED BY <1>7, <1>12, <1>15, <4>1
    <3>2. ctx.gds = h /\ stack[L - 1].gds # h
      BY <1>11, <1>12, <1>13, <1>14, <1>16, <3>1, NoNameNoNumber DEF Number
    <3> QED BY <1>10, <3>2
  <2>2. CASE file[h].word # "gds"
    <3>1. g = f
      <4>1. g # 0 => g \in Around(h) /\ g <= f
        BY <1>7, <1>15, <1>16, <2>2
      <4>2. f # 0 => f <= g
        BY <1>8, <1>15, <1>16
      <4> QED BY <1>15, <1>16, <4>1, <4>2
    <3>2. live' = live
      BY <1>10, <1>11, <1>13, <1>14, <3>1
    <3>3. h \notin live
      BY <2>2 DEF LiveOK
    <3> QED BY <3>2, <3>3
  <2> QED BY <2>1, <2>2
<1>18. live = {k \in Around(n) : file[k].word = "gds"}
  BY DEF LiveOK
<1>19. \A x \in Around(n) : file'[x] = file[x]
  BY <1>1, <1>4
<1>20. live' = {k \in Around(n + 1)' : file'[k].word = "gds"}
  <2>1. {k \in Around(n) : file[k].word = "gds"} \ {h} = {k \in Around(h) : file[k].word = "gds"}
    BY <1>7, <1>8
  <2>2. {k \in Around(h) : file[k].word = "gds"} = {k \in Around(h) : file'[k].word = "gds"}
    BY <1>8, <1>19
  <2>3. live' = {k \in Around(h) : file'[k].word = "gds"}
    BY <1>17, <1>18, <2>1, <2>2
  <2> QED BY <1>9, <2>3
<1> QED BY <1>1, <1>20 DEF LiveOK

-------------------------------------------------------------------------------
(* What is kept by all steps, and by those that read nothing.                     *)

Sound == IInv /\ GeoOK /\ LinesOK /\ StackOK /\ FileOK

LEMMA SoundInit == Start => Sound
<1>1. Start => FileOK
  <2> SUFFICES ASSUME Start PROVE FileOK
    OBVIOUS
  <2>1. file = <<>> /\ <<>> \in Seq({})
    BY DEF Start
  <2> QED BY <2>1 DEF FileOK
<1>2. Start => Init
  BY DEF Start
<1> QED BY <1>1, <1>2, InitInv, GeoInit, LinesInit, StackInit DEF Sound

LEMMA SoundStep == Sound /\ [Step]_scriptVars => Sound' /\ LayersStay
<1> SUFFICES ASSUME Sound, [Step]_scriptVars PROVE Sound' /\ LayersStay
  OBVIOUS
<1> USE DEF Sound
<1>1. IInv' /\ GeoOK' /\ LayersStay
  BY StepOfLayers, StepInv, GeoKept
<1>2. LinesOK' /\ StackOK'
  BY LinesKept, StackKept
<1>3. FileOK'
  <2>1. CASE UNCHANGED file
    BY <2>1 DEF FileOK
  <2>2. ASSUME NEW st, Reads(st) PROVE FileOK'
    BY <2>2, FileGrows DEF Reads
  <2> QED
    BY <2>1, <2>2 DEF Step, LoadMap, Refuse, CellBlock, InstBlock, PinBlock, GeometryBlock, LayerBlock, GdsBlock,
       SetSize, SetPosition, Rect, WriteGds, LoadGds, LoadLef, Acts, Close, EndOfFile, EndInWord, scriptVars
<1> QED BY <1>1, <1>2, <1>3

LEMMA QuietAround ==
  ASSUME UNCHANGED file, NEW k
  PROVE  /\ Around(k)' = Around(k) /\ CellOf(k)' = CellOf(k) /\ BodyOf(k)' = BodyOf(k)
         /\ \A w : Within(k, w)' = Within(k, w)
         /\ \A j : Opened(k, j)' = Opened(k, j) /\ Closed(k, j)' = Closed(k, j)
<1>1. ASSUME NEW i, NEW j PROVE Opened(i, j)' = Opened(i, j) /\ Closed(i, j)' = Closed(i, j)
  BY DEF Opened, Closed, Opens, Closes
<1>2. ASSUME NEW j PROVE Around(j)' = Around(j)
  BY <1>1 DEF Around, Opens
<1>3. ASSUME NEW j, NEW w PROVE Within(j, w)' = Within(j, w)
  BY <1>2 DEF Within
<1>4. ASSUME NEW j PROVE CellOf(j)' = CellOf(j)
  BY <1>3 DEF CellOf
<1>5. BodyOf(k)' = BodyOf(k)
  BY <1>3, <1>4 DEF BodyOf
<1> QED BY <1>1, <1>2, <1>3, <1>4, <1>5

LEMMA QuietNested ==
  ASSUME GeoOK, UNCHANGED <<file, stack, block>>, LayersStay, NEW b, Nested(b)
  PROVE  Nested(b)'
<1>1. ASSUME NEW l, NEW k, PointsTo(l, k) PROVE PointsTo(l, k)'
  <2>1. l.geo \in Geometry /\ geo[l.geo][l.pos] \in DOMAIN tech
    BY <1>1, CellAssumption DEF PointsTo, GeoOK
  <2>2. l.pos \in DOMAIN geo'[l.geo] /\ tech'[geo'[l.geo][l.pos]].name = tech[geo[l.geo][l.pos]].name
    BY <1>1, <2>1 DEF PointsTo, LayersStay
  <2>3. \A j : Adds(j, l.geo)' <=> Adds(j, l.geo)
    BY QuietAround DEF Adds
  <2> QED BY <1>1, <2>2, <2>3, QuietAround DEF PointsTo
<1>2. ASSUME NEW c, NEW k, Right(c, k) PROVE Right(c, k)'
  <2>1. \A w : Within(k, w)' = Within(k, w)
    BY QuietAround
  <2>2. PICK p : p = Within(k, "layer")
    OBVIOUS
  <2>3. p # 0 => PointsTo(c.layer, p)'
    BY <1>1, <1>2, <2>2 DEF Right
  <2> QED BY <1>2, <2>1, <2>2, <2>3, QuietAround DEF Right, Number
<1>3. ASSUME NEW m \in DOMAIN b
      PROVE  /\ Opened(b[m], Len(file))' - Closed(b[m], Len(file))' = Len(stack') - m
             /\ Around(b[m])' = {b[j] : j \in 1 .. m - 1}
             /\ Right(stack[m], b[m])'
  <2>1. PICK c, k, n : c = stack[m] /\ k = b[m] /\ n = Len(file)
    OBVIOUS
  <2>2. Right(c, k)'
    BY <1>2, <2>1 DEF Nested
  <2>3. Opened(k, n)' - Closed(k, n)' = Len(stack') - m
    <3>1. Opened(k, n)' = Opened(k, n) /\ Closed(k, n)' = Closed(k, n)
      BY QuietAround
    <3>2. Opened(k, n) - Closed(k, n) = Len(stack) - m
      BY <2>1 DEF Nested
    <3> QED BY <3>1, <3>2
  <2>4. Around(k)' = {b[j] : j \in 1 .. m - 1}
    BY <2>1, QuietAround DEF Nested
  <2> QED BY <2>1, <2>2, <2>3, <2>4
<1>4. Around(this)' = {b[m] : m \in DOMAIN b} /\ Right(stack[Len(stack)], this)'
  <2>1. PICK c, n : c = stack[Len(stack)] /\ n = this
    OBVIOUS
  <2>2. this' = n /\ stack'[Len(stack')] = c
    BY <2>1 DEF this
  <2>3. Right(c, n)'
    BY <1>2, <2>1 DEF Nested
  <2>4. Around(n)' = {b[m] : m \in DOMAIN b}
    BY <2>1, QuietAround DEF Nested
  <2> QED BY <2>2, <2>3, <2>4
<1> QED BY <1>3, <1>4 DEF Nested

\* What is told of the statements before does not change.
HistoryKept ==
  \A j \in 1 .. Len(file) :
    /\ file'[j] = file[j] /\ j \in 1 .. Len(file')
    /\ CellOf(j)' = CellOf(j) /\ BodyOf(j)' = BodyOf(j)
    /\ \A w : Within(j, w)' = Within(j, w)

LEMMA HistoryGrows ==
  ASSUME FileOK, NEW st, file' = Append(file, st)
  PROVE  HistoryKept
<1>1. Len(file) \in Nat /\ Len(file') = Len(file) + 1 /\ \A k \in 1 .. Len(file) : file'[k] = file[k]
  BY FileGrows DEF this
<1>2. \A j \in 1 .. Len(file) : j \in 1 .. Len(file') /\ j \in 0 .. this
  BY <1>1 DEF this
<1> QED BY <1>1, <1>2, WithinStays DEF HistoryKept

LEMMA ActStays ==
  ASSUME FileOK, GeoOK, ActedOK, LayersStay, HistoryKept, NEW k \in DOMAIN acted, acted'[k] = acted[k]
  PROVE  ActsInside(k)' /\ DrawnOK(k)'
<1>1. /\ k \in 1 .. Len(file) /\ file'[k] = file[k] /\ CellOf(k)' = CellOf(k)
      /\ \A w : Within(k, w)' = Within(k, w)
      /\ ActsInside(k) /\ DrawnOK(k)
  BY DEF ActedOK, HistoryKept
<1>2. CASE file[k].word = "rect"
  <2>1. PICK l : l = Within(k, "layer")
    OBVIOUS
  <2>2. l \in 1 .. Len(file)
    <3>1. k \in Nat /\ Len(file) \in Nat
      BY <1>1, FileOK DEF FileOK
    <3>2. l \in 0 .. k /\ l # 0
      BY <1>1, <1>2, <2>1, <3>1, WithinFacts DEF DrawnOK
    <3> QED BY <1>1, <3>1, <3>2
  <2>3. file'[l] = file[l] /\ BodyOf(l)' = BodyOf(l) /\ Within(k, "layer")' = l
    BY <1>1, <2>1, <2>2 DEF HistoryKept
  <2>4. PICK x : x = acted[k]
    OBVIOUS
  <2>5. x.geo = BodyOf(l) /\ tech[geo[x.geo][x.pos]].name = file[l].arg
    BY <1>1, <1>2, <2>1, <2>4 DEF ActsInside
  <2>6. x.geo \in Cell /\ x.geo \in Geometry /\ x.pos \in DOMAIN geo[x.geo] /\ l # 0
    BY <1>1, <1>2, <2>1, <2>4, CellAssumption DEF DrawnOK
  <2>7. x.pos \in DOMAIN geo'[x.geo] /\ tech'[geo'[x.geo][x.pos]].name = tech[geo[x.geo][x.pos]].name
    BY <2>6 DEF LayersStay, GeoOK
  <2>8. DrawnOK(k)'
    BY <2>3, <2>4, <2>6, <2>7 DEF DrawnOK
  <2>9. ActsInside(k)'
    BY <1>1, <1>2, <2>3, <2>4, <2>5, <2>7 DEF ActsInside
  <2> QED BY <2>8, <2>9
<1>3. CASE file[k].word # "rect"
  BY <1>1, <1>3 DEF ActsInside, DrawnOK
<1> QED BY <1>2, <1>3

LEMMA MadeStays ==
  ASSUME ActedOK, HistoryKept, NEW k \in DOMAIN insts, insts'[k] = insts[k]
  PROVE  MadeInside(k)'
BY DEF ActedOK, HistoryKept, MadeInside

LEMMA ActedSame ==
  ASSUME FileOK, GeoOK, ActedOK, LayersStay, HistoryKept, UNCHANGED <<insts, acted>>
  PROVE  ActedOK'
<1>1. /\ \A k \in DOMAIN insts : MadeInside(k)'
      /\ \A k \in DOMAIN acted : ActsInside(k)' /\ DrawnOK(k)'
  BY ActStays, MadeStays
<1> QED BY <1>1 DEF ActedOK, HistoryKept

LEMMA ActedMore ==
  ASSUME FileOK, GeoOK, ActedOK, LayersStay, NEW st, file' = Append(file, st), NEW n, n = this,
         UNCHANGED insts, NEW x, acted' = With(acted, n, x), ActsInside(n)', DrawnOK(n)'
  PROVE  ActedOK' /\ DOMAIN acted' = DOMAIN acted \cup {n}
<1>1. HistoryKept
  BY HistoryGrows
<1>2. n \in Nat /\ n > 0 /\ Len(file) = n - 1 /\ Len(file') = n
  BY FileGrows DEF this
<1>3. n \notin 1 .. Len(file) /\ n \in 1 .. Len(file')
  BY <1>2
<1>4. n \notin DOMAIN acted
  BY <1>3 DEF ActedOK
<1>5. DOMAIN acted' = DOMAIN acted \cup {n} /\ \A k \in DOMAIN acted : acted'[k] = acted[k]
  BY <1>4 DEF With
<1>6. /\ \A k \in DOMAIN insts : MadeInside(k)'
      /\ \A k \in DOMAIN acted : ActsInside(k)' /\ DrawnOK(k)'
  BY <1>1, <1>5, ActStays, MadeStays
<1> QED BY <1>1, <1>3, <1>5, <1>6 DEF ActedOK, HistoryKept

LEMMA MadeMore ==
  ASSUME FileOK, GeoOK, ActedOK, LayersStay, NEW st, file' = Append(file, st), NEW n, n = this,
         UNCHANGED acted, NEW x, insts' = With(insts, n, x), MadeInside(n)'
  PROVE  ActedOK'
<1>1. HistoryKept
  BY HistoryGrows
<1>2. n \in Nat /\ n > 0 /\ Len(file) = n - 1 /\ Len(file') = n
  BY FileGrows DEF this
<1>3. n \notin 1 .. Len(file) /\ n \in 1 .. Len(file')
  BY <1>2
<1>4. n \notin DOMAIN insts
  BY <1>3 DEF ActedOK
<1>5. DOMAIN insts' = DOMAIN insts \cup {n} /\ \A k \in DOMAIN insts : insts'[k] = insts[k]
  BY <1>4 DEF With
<1>6. /\ \A k \in DOMAIN insts : MadeInside(k)'
      /\ \A k \in DOMAIN acted : ActsInside(k)' /\ DrawnOK(k)'
  BY <1>1, <1>5, ActStays, MadeStays
<1> QED BY <1>1, <1>3, <1>5, <1>6 DEF ActedOK, HistoryKept

-------------------------------------------------------------------------------
(* Statements that are read.                                                      *)

\* The context is that of the blocks around the statement.
LEMMA ContextRight ==
  ASSUME StackOK, GoingOK, Going
  PROVE  \A c, n : c = ctx /\ n = this => Right(c, n)
<1>1. ctx = stack[Len(stack)]
  BY DEF ctx, Last
<1> QED BY <1>1 DEF GoingOK, Nested

LEMMA Deeper ==
  ASSUME StackOK, NEW st, BeginsBlock(st), NEW d, stack' = Append(stack, d)
  PROVE  Len(stack') = Len(stack) + Up(st) - Down(st)
<1>1. Up(st) = 1 /\ Down(st) = 0
  BY DEF Up, Down, BeginsBlock, EndsBlock, Blocks
<1>2. Len(stack') = Len(stack) + 1 /\ Len(stack) \in Nat
  BY DEF StackOK
<1> QED BY <1>1, <1>2

LEMMA AsDeep ==
  ASSUME StackOK, NEW st, ~BeginsBlock(st), ~EndsBlock(st), stack' = stack
  PROVE  Len(stack') = Len(stack) + Up(st) - Down(st)
<1>1. Up(st) = 0 /\ Down(st) = 0
  BY DEF Up, Down
<1>2. Len(stack) \in Nat
  BY Top
<1> QED BY <1>1, <1>2

\* The head of a block.
LEMMA HeadKeeps ==
  ASSUME Sound, Going, GoingOK, NEW st, Reading(st), st.word \in Blocks, NEW n, n = this,
         NEW d, Sub(st, d), NEW c, c = ctx, st.end = "{" => Inherits(d, c, st, n),
         UNCHANGED acted, live' = IF BeginsBlock(st) /\ st.word = "gds" THEN live \cup {n} ELSE live
  PROVE  GoingOK'
<1> SUFFICES ASSUME Going' PROVE (\E b : Nested(b)') /\ Balanced' /\ LiveOK' /\ ReadOK'
  BY DEF GoingOK
<1> USE DEF Sound
<1>1. /\ st.end \in {"{", ";"}
      /\ ~EndsBlock(st) /\ (BeginsBlock(st) <=> st.end = "{") /\ st.word \notin Orders
      /\ file' = Append(file, st)
      /\ stack' = IF st.end = "{" THEN Append(stack, d) ELSE stack
  BY DEF Going, Sub, EndsWith, EndsBlock, BeginsBlock, Blocks, Orders, Loads, Reading
<1>2. Balanced /\ LiveOK /\ ReadOK
  BY DEF GoingOK
<1>3. PICK b : Nested(b)
  BY DEF GoingOK
<1>4. \E e : Nested(e)'
  <2>1. CASE st.end = "{"
    <3>1. Right(c, n)
      BY ContextRight
    <3>2. Right(d, n + 1)'
      BY <1>1, <2>1, <3>1, RightBegun
    <3> QED BY <1>1, <1>3, <2>1, <3>2, NestedBegun
  <2>2. CASE st.end # "{"
    BY <1>1, <1>3, <2>2, NestedInside
  <2> QED BY <2>1, <2>2
<1>5. Balanced'
  <2>1. Len(stack') = Len(stack) + Up(st) - Down(st)
    <3>1. CASE st.end = "{"
      BY <1>1, <3>1, Deeper
    <3>2. CASE st.end # "{"
      BY <1>1, <3>2, AsDeep
    <3> QED BY <3>1, <3>2
  <2> QED BY <1>1, <1>2, <2>1, BalancedKept
<1>6. LiveOK'
  BY <1>1, <1>2, LiveInside
<1>7. ReadOK'
  <2>1. Executed(st)
    BY <1>1 DEF Executed
  <2> QED BY <1>1, <1>2, <2>1, ReadKept
<1> QED BY <1>4, <1>5, <1>6, <1>7

\* A command that is no head of a block.
LEMMA OrderKeeps ==
  ASSUME Sound, Going, GoingOK, NEW st, Reading(st), st.word \in Orders, NEW n, n = this,
         UNCHANGED <<stack, live>>, EndsWith(st, {";"}), DOMAIN acted' = DOMAIN acted \cup {n}
  PROVE  GoingOK'
<1> SUFFICES ASSUME Going' PROVE (\E b : Nested(b)') /\ Balanced' /\ LiveOK' /\ ReadOK'
  BY DEF GoingOK
<1> USE DEF Sound
<1>1. st.end = ";" /\ ~EndsBlock(st) /\ ~BeginsBlock(st) /\ st.word \notin Blocks /\ file' = Append(file, st)
  BY DEF Going, EndsWith, EndsBlock, BeginsBlock, Blocks, Orders, Loads, Reading
<1>2. Balanced /\ LiveOK /\ ReadOK
  BY DEF GoingOK
<1>3. PICK b : Nested(b)
  BY DEF GoingOK
<1>4. Nested(b)'
  BY <1>1, <1>3, NestedInside
<1>5. Balanced'
  <2>1. Len(stack') = Len(stack) + Up(st) - Down(st)
    <3>1. stack' = stack
      OBVIOUS
    <3> QED BY <1>1, <3>1, AsDeep
  <2> QED BY <1>1, <1>2, <2>1, BalancedKept
<1>6. LiveOK'
  BY <1>1, <1>2, LiveInside
<1>7. ReadOK'
  <2>1. Executed(st)
    BY <1>1 DEF Executed
  <2> QED BY <1>1, <1>2, <2>1, ReadKept
<1> QED BY <1>4, <1>5, <1>6, <1>7

LEMMA Shallower ==
  ASSUME StackOK, NEW st, EndsBlock(st), Len(stack) # 1, stack' = Front(stack)
  PROVE  Len(stack) > 1 /\ Len(stack') = Len(stack) + Up(st) - Down(st)
<1>1. Up(st) = 0 /\ Down(st) = 1
  BY DEF Up, Down, BeginsBlock, EndsBlock, Blocks
<1>2. Len(stack) \in Nat /\ Len(stack) > 1
  <2>1. \A n \in Nat : n > 0 /\ n # 1 => n > 1
    OBVIOUS
  <2> QED BY <2>1, Top, Zenon
<1>3. Len(stack') = Len(stack) - 1
  BY <1>2 DEF StackOK, Front
<1> QED BY <1>1, <1>2, <1>3

LEMMA CloseKeepsGoing ==
  ASSUME Sound, Going, GoingOK, NEW st, Reading(st), EndsBlock(st), st.end = "", Len(stack) # 1,
         stack' = Front(stack), UNCHANGED acted,
         live' = live \ (IF ctx.gds # Last(Front(stack)).gds THEN {ctx.gds} ELSE {})
  PROVE  GoingOK'
<1> USE DEF Sound
<1>1. file' = Append(file, st) /\ Balanced /\ LiveOK /\ ReadOK
  BY DEF GoingOK, Reading
<1>2. PICK b : Nested(b)
  BY DEF GoingOK
<1>3. Len(stack) > 1 /\ Len(stack') = Len(stack) + Up(st) - Down(st)
  BY Shallower
<1>4. PICK n : n = this
  OBVIOUS
<1>5. \E e : Nested(e)'
  BY <1>2, <1>3, <1>4, NestedEnded
<1>6. Balanced'
  BY <1>1, <1>3, BalancedKept
<1>7. LiveOK'
  BY <1>1, <1>2, <1>3, <1>4, LiveEnded
<1>8. ReadOK'
  <2>1. Executed(st)
    BY DEF Executed, EndsBlock, Orders, Loads, Blocks
  <2> QED BY <1>1, <1>4, <2>1, ReadKept
<1> QED BY <1>5, <1>6, <1>7, <1>8 DEF GoingOK

-------------------------------------------------------------------------------
(* The steps, one by one.                                                         *)

\* Freed memory is written to by a rectangle only, behind a layer that was added.
WildOK == result = "wild" => file[Len(file)].word = "rect" /\ Disturbed(Len(file))

Kept == GoingOK' /\ ActedOK' /\ WildOK'

LEMMA ReadsQuietly ==
  ASSUME Sound, LayersStay, ActedOK, NEW st, Reads(st), UNCHANGED block
  PROVE  /\ Reading(st) /\ Going /\ file' = Append(file, st)
         /\ UNCHANGED <<insts, acted>> => ActedOK'
<1>1. Reading(st) /\ Going /\ file' = Append(file, st)
  BY DEF Reading, Going, Reads
<1>2. HistoryKept
  BY <1>1, HistoryGrows DEF Sound
<1> QED BY <1>1, <1>2, ActedSame DEF Sound

LEMMA CellStep ==
  ASSUME Sound, LayersStay, GoingOK, ActedOK, CellBlock
  PROVE  Kept
<1>1. PICK x \in Cell, e \in Ends : LET st == St("cell", x, e) IN Reads(st) /\ Sub(st, [ctx EXCEPT !.cell = x])
  BY DEF CellBlock
<1>2. PICK c, d, n, st : c = ctx /\ d = [ctx EXCEPT !.cell = x] /\ n = this /\ st = St("cell", x, e)
  OBVIOUS
<1>3. UNCHANGED <<live, block, acted, insts>>
  BY DEF CellBlock
<1>4. st.word = "cell" /\ st.arg = x /\ st.end = e
  BY <1>2 DEF St
<1>5. Context(c)
  BY <1>2, ContextOnTop DEF Sound
<1>6. Inherits(d, c, st, n)
  BY <1>2, <1>4, <1>5 DEF Inherits, Context
<1>7. Reads(st) /\ Sub(st, d)
  BY <1>1, <1>2
<1>8. Reading(st) /\ Going /\ ActedOK'
  BY <1>3, <1>7, ReadsQuietly
<1>9. GoingOK'
  BY <1>2, <1>3, <1>4, <1>6, <1>7, <1>8, HeadKeeps DEF Blocks
<1>10. WildOK'
  BY <1>7 DEF Sub, EndsWith, WildOK
<1> QED BY <1>8, <1>9, <1>10 DEF Kept

LEMMA InstStep ==
  ASSUME Sound, LayersStay, GoingOK, ActedOK, InstBlock
  PROVE  Kept
<1>1. PICK x \in Cell, e \in Ends :
        LET st == St("inst", x, e) IN
        /\ Reads(st) /\ insts' = With(insts, this, [into |-> ctx.cell, of |-> x])
        /\ Sub(st, [ctx EXCEPT !.inst = this])
  BY DEF InstBlock
<1>2. PICK c, d, n, st : c = ctx /\ d = [ctx EXCEPT !.inst = this] /\ n = this /\ st = St("inst", x, e)
  OBVIOUS
<1>3. UNCHANGED <<live, block, acted>>
  BY DEF InstBlock
<1>4. st.word = "inst" /\ st.arg = x /\ st.end = e
  BY <1>2 DEF St
<1>5. Context(c)
  BY <1>2, ContextOnTop DEF Sound
<1>6. Inherits(d, c, st, n)
  BY <1>2, <1>4, <1>5 DEF Inherits, Context
<1>7. Reads(st) /\ Sub(st, d) /\ insts' = With(insts, n, [into |-> c.cell, of |-> x])
  BY <1>1, <1>2
<1>8. Reading(st) /\ Going /\ file' = Append(file, st)
  BY <1>3, <1>7, ReadsQuietly
<1>9. GoingOK'
  BY <1>2, <1>3, <1>4, <1>6, <1>7, <1>8, HeadKeeps DEF Blocks
<1>10. ActedOK'
  <2>1. c.cell = CellOf(n)
    BY <1>2, <1>8, ContextRight DEF Sound, Right
  <2>2. file'[n] = st /\ n \in 0 .. this
    BY <1>2, <1>8, FileGrows DEF Sound, this
  <2>3. CellOf(n)' = CellOf(n)
    BY <1>8, <2>2, WithinStays DEF Sound
  <2>4. insts'[n] = [into |-> c.cell, of |-> x]
    BY <1>7 DEF With
  <2>5. MadeInside(n)'
    BY <1>4, <2>1, <2>2, <2>3, <2>4 DEF MadeInside
  <2> QED BY <1>2, <1>3, <1>7, <1>8, <2>5, MadeMore DEF Sound
<1>11. WildOK'
  BY <1>7 DEF Sub, EndsWith, WildOK
<1> QED BY <1>9, <1>10, <1>11 DEF Kept

LEMMA PinStep ==
  ASSUME Sound, LayersStay, GoingOK, ActedOK, PinBlock
  PROVE  Kept
<1>1. PICK e \in Ends : LET st == St("pin", NoName, e) IN Reads(st) /\ Sub(st, ctx)
  BY DEF PinBlock
<1>2. PICK c, n, st : c = ctx /\ n = this /\ st = St("pin", NoName, e)
  OBVIOUS
<1>3. UNCHANGED <<live, block, acted, insts>>
  BY DEF PinBlock
<1>4. st.word = "pin" /\ st.end = e
  BY <1>2 DEF St
<1>5. Inherits(c, c, st, n)
  BY <1>4 DEF Inherits
<1>6. Reads(st) /\ Sub(st, c)
  BY <1>1, <1>2
<1>7. Reading(st) /\ Going /\ ActedOK'
  BY <1>3, <1>6, ReadsQuietly
<1>8. GoingOK'
  BY <1>2, <1>3, <1>4, <1>5, <1>6, <1>7, HeadKeeps DEF Blocks
<1>9. WildOK'
  BY <1>6 DEF Sub, EndsWith, WildOK
<1> QED BY <1>7, <1>8, <1>9 DEF Kept

LEMMA GeometryStep ==
  ASSUME Sound, LayersStay, GoingOK, ActedOK, GeometryBlock
  PROVE  Kept
<1>1. PICK e \in Ends :
        LET st == St("geometry", NoName, e) IN Reads(st) /\ Sub(st, [ctx EXCEPT !.geometry = ctx.cell])
  BY DEF GeometryBlock
<1>2. PICK c, d, n, st : /\ c = ctx /\ d = [ctx EXCEPT !.geometry = ctx.cell]
                         /\ n = this /\ st = St("geometry", NoName, e)
  OBVIOUS
<1>3. UNCHANGED <<live, block, acted, insts>>
  BY DEF GeometryBlock
<1>4. st.word = "geometry" /\ st.end = e
  BY <1>2 DEF St
<1>5. Context(c)
  BY <1>2, ContextOnTop DEF Sound
<1>6. Inherits(d, c, st, n)
  BY <1>2, <1>4, <1>5 DEF Inherits, Context
<1>7. Reads(st) /\ Sub(st, d)
  BY <1>1, <1>2
<1>8. Reading(st) /\ Going /\ ActedOK'
  BY <1>3, <1>7, ReadsQuietly
<1>9. GoingOK'
  BY <1>2, <1>3, <1>4, <1>6, <1>7, <1>8, HeadKeeps DEF Blocks
<1>10. WildOK'
  BY <1>7 DEF Sub, EndsWith, WildOK
<1> QED BY <1>8, <1>9, <1>10 DEF Kept

LEMMA GdsStep ==
  ASSUME Sound, LayersStay, GoingOK, ActedOK, GdsBlock
  PROVE  Kept
<1>1. PICK e \in Ends :
        LET st == St("gds", NoName, e) IN
        /\ Reads(st) /\ Sub(st, [ctx EXCEPT !.gds = this])
        /\ live' = IF e = ";" THEN live ELSE live \cup {this}
  BY DEF GdsBlock
<1>2. PICK c, d, n, st : c = ctx /\ d = [ctx EXCEPT !.gds = this] /\ n = this /\ st = St("gds", NoName, e)
  OBVIOUS
<1>3. UNCHANGED <<block, acted, insts>>
  BY DEF GdsBlock
<1>4. st.word = "gds" /\ st.end = e
  BY <1>2 DEF St
<1>5. Context(c)
  BY <1>2, ContextOnTop DEF Sound
<1>6. Inherits(d, c, st, n)
  BY <1>2, <1>4, <1>5 DEF Inherits, Context
<1>7. Reads(st) /\ Sub(st, d) /\ live' = IF e = ";" THEN live ELSE live \cup {n}
  BY <1>1, <1>2
<1>8. Reading(st) /\ Going /\ ActedOK'
  BY <1>3, <1>7, ReadsQuietly
<1>9. GoingOK'
  <2>1. CASE e \in {"{", ";"}
    <3>1. live' = IF BeginsBlock(st) /\ st.word = "gds" THEN live \cup {n} ELSE live
      BY <1>4, <1>7, <2>1 DEF BeginsBlock, Blocks
    <3> QED BY <1>2, <1>3, <1>4, <1>6, <1>7, <1>8, <3>1, HeadKeeps DEF Blocks
  <2>2. CASE e \notin {"{", ";"}
    BY <1>4, <1>7, <2>2 DEF Sub, EndsWith, Going, GoingOK
  <2> QED BY <2>1, <2>2
<1>10. WildOK'
  BY <1>7 DEF Sub, EndsWith, WildOK
<1> QED BY <1>8, <1>9, <1>10 DEF Kept

LEMMA CloseStep ==
  ASSUME Sound, LayersStay, GoingOK, ActedOK, WildOK, Close
  PROVE  Kept
<1>1. PICK st : st = St("}", NoName, "")
  OBVIOUS
<1>2. /\ Reads(st) /\ ~Refused(st) /\ UNCHANGED <<block, acted, insts, result>> /\ stack' = Front(stack)
      /\ live' = live \ (IF ctx.gds # Last(Front(stack)).gds THEN {ctx.gds} ELSE {})
  BY <1>1 DEF Close
<1>3. st.word = "}" /\ st.end = ""
  BY <1>1 DEF St
<1>4. Reading(st) /\ Going /\ ActedOK'
  BY <1>2, ReadsQuietly
<1>5. Len(stack) # 1
  BY <1>2, <1>3 DEF Refused
<1>6. GoingOK'
  BY <1>2, <1>3, <1>4, <1>5, CloseKeepsGoing DEF EndsBlock
<1>7. WildOK'
  BY <1>2, <1>4 DEF WildOK, Going
<1> QED BY <1>4, <1>6, <1>7 DEF Kept

\* The steps that read no statement, or one that ends the script.
LEMMA OtherSteps ==
  ASSUME Sound, LayersStay, GoingOK, ActedOK, WildOK,
         LoadMap \/ Refuse \/ EndOfFile \/ EndInWord \/ UNCHANGED scriptVars
  PROVE  Kept
<1>1. CASE Refuse
  <2>1. PICK st : Reads(st)
    BY <1>1 DEF Refuse
  <2>2. UNCHANGED <<insts, acted, block>> /\ result' = "failed"
    BY <1>1 DEF Refuse
  <2>3. ActedOK'
    BY <2>1, <2>2, ReadsQuietly
  <2> QED BY <2>2, <2>3 DEF Kept, GoingOK, Going, WildOK
<1>2. CASE LoadMap \/ EndOfFile \/ EndInWord \/ UNCHANGED scriptVars
  <2>1. UNCHANGED <<file, stack, insts, live, block, acted>>
    BY <1>2 DEF LoadMap, EndOfFile, EndInWord, scriptVars
  <2>2. HistoryKept
    BY <2>1, QuietAround DEF HistoryKept
  <2>3. ActedOK'
    BY <2>1, <2>2, ActedSame DEF Sound
  <2>4. CASE EndOfFile \/ EndInWord
    BY <2>3, <2>4 DEF EndOfFile, EndInWord, Kept, GoingOK, Going, WildOK
  <2>5. CASE UNCHANGED result
    <3>1. WildOK'
      <4>1. PICK n : n = Len(file)
        OBVIOUS
      <4>2. Within(n, "layer")' = Within(n, "layer") /\ \A k : BodyOf(k)' = BodyOf(k)
        BY <2>1, QuietAround
      <4>3. Disturbed(n)' <=> Disturbed(n)
        BY <2>1, <4>2 DEF Disturbed
      <4> QED BY <2>1, <2>5, <4>1, <4>3 DEF WildOK
    <3>2. GoingOK'
      <4> SUFFICES ASSUME Going' PROVE (\E b : Nested(b)') /\ Balanced' /\ LiveOK' /\ ReadOK'
        BY DEF GoingOK
      <4>1. Going
        <5>1. ASSUME NEW x, NEW y, MapLine(x, y) PROVE UNCHANGED crashed
          BY <5>1 DEF MapLine
        <5>2. UNCHANGED crashed
          BY <1>2, <5>1 DEF LoadMap, EndOfFile, EndInWord, MapLoaded, scriptVars, vars
        <5> QED BY <2>5, <5>2 DEF Going
      <4>2. \E b : Nested(b)'
        BY <2>1, <4>1, QuietNested DEF GoingOK, Sound
      <4>3. Balanced'
        <5>1. PICK n : n = Len(file)
          OBVIOUS
        <5>2. Opened(1, n)' = Opened(1, n) /\ Closed(1, n)' = Closed(1, n)
          BY <2>1, QuietAround
        <5> QED BY <2>1, <4>1, <5>1, <5>2 DEF GoingOK, Balanced
      <4>4. LiveOK'
        <5>1. PICK n : n = this
          OBVIOUS
        <5>2. Around(n)' = Around(n) /\ this' = n
          BY <2>1, <5>1, QuietAround DEF this
        <5> QED BY <2>1, <4>1, <5>1, <5>2 DEF GoingOK, LiveOK
      <4>5. ReadOK'
        BY <2>1, <4>1 DEF GoingOK, ReadOK
      <4> QED BY <4>2, <4>3, <4>4, <4>5
    <3> QED BY <2>3, <3>1, <3>2 DEF Kept
  <2> QED BY <1>2, <2>4, <2>5 DEF LoadMap, scriptVars
<1> QED BY <1>1, <1>2

\* What a statement that is read is told of.
LEMMA Here ==
  ASSUME Sound, NEW st, file' = Append(file, st), NEW n, n = this
  PROVE  /\ n \in Nat /\ n > 0 /\ Len(file) = n - 1 /\ Len(file') = n /\ file'[n] = st
         /\ CellOf(n)' = CellOf(n) /\ BodyOf(n)' = BodyOf(n)
         /\ \A w : Within(n, w)' = Within(n, w)
<1>1. n \in Nat /\ n > 0 /\ Len(file) = n - 1 /\ Len(file') = n /\ file'[n] = st
  BY FileGrows DEF Sound, this
<1>2. n \in 0 .. this
  BY <1>1
<1> QED BY <1>1, <1>2, WithinStays DEF Sound

\* A command that is not refused has what it needs.
LEMMA Needed ==
  ASSUME NEW st, ~Refused(st)
  PROVE  /\ st.word = "set_position" => ctx.inst # NoName
         /\ st.word = "write_gds" => ctx.gds # NoName
         /\ st.word = "rect" => ctx.layer # NoName
         /\ st.word = "layer" => ctx.geometry # NoName
<1>1. Needs["set_position"] = "inst" /\ Needs["write_gds"] = "gds" /\ Needs["rect"] = "layer" /\ Needs["layer"] = "geometry"
  BY DEF Needs
<1>2. {"set_position", "write_gds", "rect", "layer"} \subseteq DOMAIN Needs
  BY DEF Needs
<1> QED BY <1>1, <1>2 DEF Refused

LEMMA ActStep ==
  ASSUME Sound, LayersStay, GoingOK, ActedOK, NEW st, Reading(st), Going, st.word \in Orders, EndsWith(st, {";"}),
         NEW n, n = this, NEW x, acted' = With(acted, n, x), UNCHANGED <<insts, stack, live>>,
         ActsInside(n)', DrawnOK(n)'
  PROVE  Kept
<1>1. ActedOK' /\ DOMAIN acted' = DOMAIN acted \cup {n}
  BY ActedMore DEF Sound, Reading
<1>2. GoingOK'
  BY <1>1, OrderKeeps
<1>3. WildOK'
  BY DEF EndsWith, WildOK
<1> QED BY <1>1, <1>2, <1>3 DEF Kept

LEMMA SetSizeStep ==
  ASSUME Sound, LayersStay, GoingOK, ActedOK, SetSize
  PROVE  Kept
<1>1. PICK e \in Ends : Acts(St("set_size", NoName, e), ctx.cell)
  BY DEF SetSize
<1>2. PICK c, n, st : c = ctx /\ n = this /\ st = St("set_size", NoName, e)
  OBVIOUS
<1>3. UNCHANGED <<vars, stack, insts, live, block>>
  BY DEF SetSize
<1>4. st.word = "set_size"
  BY <1>2 DEF St
<1>5. Reads(st) /\ acted' = With(acted, n, c.cell) /\ EndsWith(st, {";"})
  BY <1>1, <1>2 DEF Acts
<1>6. Reading(st) /\ Going /\ file' = Append(file, st)
  BY <1>3, <1>5, ReadsQuietly
<1>7. file'[n] = st /\ CellOf(n)' = CellOf(n)
  BY <1>2, <1>6, Here
<1>8. c.cell = CellOf(n)
  BY <1>2, <1>6, ContextRight DEF Sound, Right
<1>9. acted'[n] = c.cell
  BY <1>5 DEF With
<1>10. ActsInside(n)' /\ DrawnOK(n)'
  BY <1>4, <1>7, <1>8, <1>9 DEF ActsInside, DrawnOK
<1> QED BY <1>2, <1>3, <1>4, <1>5, <1>6, <1>10, ActStep DEF Orders

LEMMA SetPositionStep ==
  ASSUME Sound, LayersStay, GoingOK, ActedOK, SetPosition
  PROVE  Kept
<1>1. PICK c, n, st : c = ctx /\ n = this /\ st = St("set_position", NoName, ";")
  OBVIOUS
<1>2. UNCHANGED <<vars, stack, insts, live, block>>
  BY DEF SetPosition
<1>3. st.word = "set_position"
  BY <1>1 DEF St
<1>4. Reads(st) /\ ~Refused(st) /\ acted' = With(acted, n, c.inst) /\ EndsWith(st, {";"})
  BY <1>1 DEF SetPosition, Acts
<1>5. Reading(st) /\ Going /\ file' = Append(file, st)
  BY <1>2, <1>4, ReadsQuietly
<1>6. file'[n] = st /\ Within(n, "inst")' = Within(n, "inst")
  BY <1>1, <1>5, Here
<1>7. c.inst # NoName
  BY <1>1, <1>3, <1>4, Needed
<1>8. c.inst = Number(Within(n, "inst"))
  BY <1>1, <1>5, ContextRight DEF Sound, Right
<1>9. acted'[n] = Within(n, "inst")
  BY <1>4, <1>7, <1>8 DEF With, Number
<1>10. ActsInside(n)' /\ DrawnOK(n)'
  BY <1>3, <1>6, <1>9 DEF ActsInside, DrawnOK
<1> QED BY <1>1, <1>2, <1>3, <1>4, <1>5, <1>10, ActStep DEF Orders

LEMMA WriteGdsStep ==
  ASSUME Sound, LayersStay, GoingOK, ActedOK, WriteGds
  PROVE  Kept
<1>1. PICK c, n, st : c = ctx /\ n = this /\ st = St("write_gds", NoName, ";")
  OBVIOUS
<1>2. UNCHANGED <<vars, stack, insts, live, block>>
  BY DEF WriteGds
<1>3. st.word = "write_gds"
  BY <1>1 DEF St
<1>4. /\ Reads(st) /\ ~Refused(st)
      /\ c.gds \in live => acted' = With(acted, n, c.gds) /\ EndsWith(st, {";"})
  BY <1>1 DEF WriteGds, Acts
<1>5. Reading(st) /\ Going /\ file' = Append(file, st)
  BY <1>2, <1>4, ReadsQuietly
<1>6. file'[n] = st /\ Within(n, "gds")' = Within(n, "gds") /\ n \in Nat
  BY <1>1, <1>5, Here
<1>7. c.gds # NoName
  BY <1>1, <1>3, <1>4, Needed
<1>8. c.gds = Number(Within(n, "gds"))
  BY <1>1, <1>5, ContextRight DEF Sound, Right
<1>9. c.gds = Within(n, "gds") /\ Within(n, "gds") # 0
  BY <1>7, <1>8 DEF Number
<1>10. c.gds \in live
  <2>1. Within(n, "gds") \in Around(n) /\ file[Within(n, "gds")].word = "gds"
    BY <1>6, <1>9, WithinFacts
  <2>2. live = {k \in Around(n) : file[k].word = "gds"}
    BY <1>1, <1>5 DEF GoingOK, LiveOK
  <2> QED BY <1>9, <2>1, <2>2
<1>11. acted'[n] = Within(n, "gds")
  BY <1>4, <1>9, <1>10 DEF With
<1>12. ActsInside(n)' /\ DrawnOK(n)'
  BY <1>3, <1>6, <1>11 DEF ActsInside, DrawnOK
<1> QED BY <1>1, <1>2, <1>3, <1>4, <1>5, <1>10, <1>12, ActStep DEF Orders

LEMMA RectStep ==
  ASSUME Sound, LayersStay, GoingOK, ActedOK, Rect
  PROVE  Kept
<1>1. PICK c, n, st : c = ctx /\ n = this /\ st = St("rect", NoName, ";")
  OBVIOUS
<1>2. UNCHANGED <<vars, stack, insts, live, block>> /\ UNCHANGED <<tech, geo>>
  BY DEF Rect, vars
<1>3. st.word = "rect"
  BY <1>1 DEF St
<1>4. PICK x : x = [geo |-> c.layer.geo, pos |-> c.layer.pos]
  OBVIOUS
<1>5. /\ Reads(st) /\ ~Refused(st)
      /\ IF block[c.layer.geo] = c.layer.block THEN acted' = With(acted, n, x) /\ EndsWith(st, {";"})
         ELSE result' = "wild" /\ UNCHANGED acted
  BY <1>1, <1>4 DEF Rect, Acts
<1>6. Reading(st) /\ Going /\ file' = Append(file, st)
  BY <1>2, <1>5, ReadsQuietly
<1>7. PICK l : l = Within(n, "layer")
  OBVIOUS
<1>8. /\ file'[n] = st /\ Within(n, "layer")' = l /\ n \in Nat /\ n > 0
      /\ Len(file) = n - 1 /\ Len(file') = n
  BY <1>1, <1>6, <1>7, Here
<1>9. c.layer # NoName
  BY <1>1, <1>3, <1>5, Needed
<1>10. l # 0 /\ PointsTo(c.layer, l)
  BY <1>1, <1>6, <1>7, <1>9, ContextRight DEF Sound, Right
<1>11. l \in 1 .. Len(file)
  <2>1. l \in 0 .. n /\ l < n
    BY <1>7, <1>8, WithinFacts
  <2> QED BY <1>8, <1>10, <2>1
<1>12. \A j \in 1 .. Len(file) : file'[j] = file[j] /\ BodyOf(j)' = BodyOf(j)
  BY <1>6, HistoryGrows DEF Sound, HistoryKept
<1>13. CASE block[c.layer.geo] = c.layer.block
  <2>1. acted'[n] = x
    BY <1>5, <1>13 DEF With
  <2>2. x.geo = BodyOf(l) /\ x.geo \in Cell /\ x.pos \in DOMAIN geo[x.geo] /\ tech[geo[x.geo][x.pos]].name = file[l].arg
    BY <1>4, <1>10 DEF PointsTo
  <2>3. ActsInside(n)'
    BY <1>2, <1>3, <1>8, <1>11, <1>12, <2>1, <2>2 DEF ActsInside
  <2>4. DrawnOK(n)'
    BY <1>2, <1>8, <1>10, <2>1, <2>2 DEF DrawnOK
  <2> QED BY <1>1, <1>2, <1>3, <1>5, <1>6, <1>13, <2>3, <2>4, ActStep DEF Orders
<1>14. CASE block[c.layer.geo] # c.layer.block
  <2>1. result' = "wild" /\ UNCHANGED acted
    BY <1>5, <1>14
  <2>2. ActedOK'
    BY <1>2, <1>5, <2>1, ReadsQuietly
  <2>3. PICK j \in l + 1 .. Len(file) : Adds(j, c.layer.geo)
    BY <1>10, <1>14 DEF PointsTo
  <2>4. j \in 1 .. Len(file) /\ j \in l + 1 .. n - 1
    BY <1>8, <1>11
  <2>5. c.layer.geo = BodyOf(l)
    BY <1>10 DEF PointsTo
  <2>6. Disturbed(n)'
    BY <1>8, <1>11, <1>12, <2>3, <2>4, <2>5 DEF Adds, Disturbed
  <2> QED BY <1>3, <1>8, <2>1, <2>2, <2>6 DEF Kept, GoingOK, Going, WildOK
<1> QED BY <1>13, <1>14

LEMMA OthersSame ==
  ASSUME GeoOK, NEW g \in Geometry, NEW x, OnLayer(g, x), NEW h \in Geometry, h # g
  PROVE  geo'[h] = geo[h]
BY DEF OnLayer, GeoOK

\* A statement that may add a layer to geometry g.
LEMMA ReadsAndMoves ==
  ASSUME Sound, LayersStay, ActedOK, NEW st, Reads(st), Realloc, NEW g,
         (st.word = "layer" /\ BodyOf(this) = g) \/ (st.word = "load_gds" /\ st.arg[1] = g),
         \A h \in Geometry : h # g => geo'[h] = geo[h]
  PROVE  Reading(st) /\ Going /\ file' = Append(file, st)
<1>1. file' = Append(file, st) /\ Going
  BY DEF Reads, Going
<1>2. ASSUME NEW h \in Cell, block'[h] # block[h] PROVE h = g
  <2>1. PICK S \in SUBSET {c \in Cell : Grows(c)} : block' = [c \in Cell |-> IF c \in S THEN block[c] + 1 ELSE block[c]]
    BY DEF Realloc
  <2>2. Grows(h)
    BY <1>2, <2>1
  <2> QED BY <2>2, CellAssumption DEF Grows
<1> QED BY <1>1, <1>2 DEF Reading

LEMMA LoadGdsStep ==
  ASSUME Sound, LayersStay, GoingOK, ActedOK, LoadGds
  PROVE  Kept
<1>1. PICK g \in Cell, i \in Id : Acts(St("load_gds", <<g, i>>, ";"), g) /\ GdsElem(g, i) /\ Realloc
  BY DEF LoadGds
<1>2. PICK n, st : n = this /\ st = St("load_gds", <<g, i>>, ";")
  OBVIOUS
<1>3. UNCHANGED <<stack, insts, live>>
  BY DEF LoadGds
<1>4. st.word = "load_gds" /\ st.arg[1] = g
  BY <1>2 DEF St
<1>5. Reads(st) /\ acted' = With(acted, n, g) /\ EndsWith(st, {";"})
  BY <1>1, <1>2 DEF Acts
<1>6. \A h \in Geometry : h # g => geo'[h] = geo[h]
  <2>1. \E x : OnLayer(g, x)
    BY <1>1 DEF GdsElem
  <2> QED BY <2>1, OthersSame, CellAssumption DEF Sound
<1>7. Reading(st) /\ Going /\ file' = Append(file, st)
  BY <1>1, <1>4, <1>5, <1>6, ReadsAndMoves
<1>8. file'[n] = st
  BY <1>2, <1>7, Here
<1>9. acted'[n] = g
  BY <1>5 DEF With
<1>10. ActsInside(n)' /\ DrawnOK(n)'
  BY <1>4, <1>8, <1>9 DEF ActsInside, DrawnOK
<1> QED BY <1>2, <1>3, <1>4, <1>5, <1>7, <1>10, ActStep DEF Orders, Loads

LEMMA LoadLefStep ==
  ASSUME Sound, LayersStay, GoingOK, ActedOK, LoadLef
  PROVE  Kept
<1>1. PICK g \in Geometry \ Cell, m \in Name : Acts(St("load_lef", <<g, m>>, ";"), g)
  BY DEF LoadLef
<1>2. PICK n, st : n = this /\ st = St("load_lef", <<g, m>>, ";")
  OBVIOUS
<1>3. UNCHANGED <<stack, insts, live, block>>
  BY DEF LoadLef
<1>4. st.word = "load_lef" /\ st.arg[1] = g
  BY <1>2 DEF St
<1>5. Reads(st) /\ acted' = With(acted, n, g) /\ EndsWith(st, {";"})
  BY <1>1, <1>2 DEF Acts
<1>6. Reading(st) /\ Going /\ file' = Append(file, st)
  BY <1>3, <1>5, ReadsQuietly
<1>7. file'[n] = st
  BY <1>2, <1>6, Here
<1>8. acted'[n] = g
  BY <1>5 DEF With
<1>9. ActsInside(n)' /\ DrawnOK(n)'
  BY <1>4, <1>7, <1>8 DEF ActsInside, DrawnOK
<1> QED BY <1>2, <1>3, <1>4, <1>5, <1>6, <1>9, ActStep DEF Orders, Loads

LEMMA LayerStep ==
  ASSUME Sound, LayersStay, GoingOK, ActedOK, WildOK, LayerBlock
  PROVE  Kept
<1>1. PICK m \in Name, e \in Ends :
        LET st == St("layer", m, e)
            g  == ctx.geometry
            k  == Search(geo'[g], ByName(m))
        IN  /\ Reads(st) /\ ~Refused(st)
            /\ LayerCommand(g, m) /\ Realloc
            /\ IF crashed' THEN UNCHANGED <<stack, result>>
               ELSE Sub(st, [ctx EXCEPT !.layer =
                              [geo |-> g, pos |-> IF geo'[g] = geo[g] THEN k ELSE Len(geo'[g]), block |-> block'[g]]])
  BY DEF LayerBlock
<1>2. PICK c, g, n, st : c = ctx /\ g = ctx.geometry /\ n = this /\ st = St("layer", m, e)
  OBVIOUS
<1>3. PICK x : x = ByName(m)
  OBVIOUS
<1>4. PICK p : p = IF geo'[g] = geo[g] THEN Search(geo'[g], x) ELSE Len(geo'[g])
  OBVIOUS
<1>5. PICK l : l = [geo |-> g, pos |-> p, block |-> block'[g]]
  OBVIOUS
<1>6. PICK d : d = [c EXCEPT !.layer = l]
  OBVIOUS
<1>7. /\ Reads(st) /\ ~Refused(st) /\ LayerCommand(g, m) /\ Realloc
      /\ IF crashed' THEN UNCHANGED <<stack, result>> ELSE Sub(st, d)
  BY <1>1, <1>2, <1>3, <1>4, <1>5, <1>6
<1>8. UNCHANGED <<insts, live, acted>>
  BY DEF LayerBlock
<1>9. st.word = "layer" /\ st.arg = m /\ st.end = e
  BY <1>2 DEF St
<1>10. Context(c) /\ g = c.geometry /\ g \in Cell /\ g \in Geometry
  BY <1>2, <1>7, <1>9, ContextOnTop, Needed, CellAssumption DEF Sound, Context
<1>11. Going
  BY <1>7 DEF Reads, Going
<1>12. g = BodyOf(n)
  BY <1>2, <1>11, ContextRight DEF Sound, Right
<1>13. \A h \in Geometry : h # g => geo'[h] = geo[h]
  BY <1>7, <1>10, OthersSame DEF LayerCommand, Sound
<1>14. Reading(st) /\ file' = Append(file, st)
  BY <1>2, <1>7, <1>9, <1>12, <1>13, ReadsAndMoves
<1>15. ActedOK'
  BY <1>8, <1>14, HistoryGrows, ActedSame DEF Sound
<1>16. CASE crashed'
  BY <1>7, <1>11, <1>15, <1>16 DEF Kept, GoingOK, Going, WildOK
<1>17. CASE ~crashed'
  <2>1. OnLayer(g, x) /\ x # 0 /\ UNCHANGED tech
    BY <1>3, <1>7, <1>17 DEF LayerCommand
  <2>2. x \in DOMAIN tech /\ tech[x].name = m /\ x \in Nat
    BY <1>3, <2>1, FoundByName, AddrAssumption DEF Sound, IInv, TypeOK
  <2>3. p \in DOMAIN geo'[g] /\ geo'[g][p] = x
    BY <1>4, <1>10, <2>1, <2>2, OnLayerFacts DEF Sound, GeoOK
  <2>4. BodyOf(n)' = g /\ file'[n] = st
    BY <1>2, <1>12, <1>14, Here
  <2>5. PointsTo(l, n)'
    BY <1>5, <1>9, <1>10, <2>1, <2>2, <2>3, <2>4 DEF PointsTo
  <2>6. Inherits(d, c, st, n)
    BY <1>6, <1>9, <1>10, <2>5 DEF Inherits, Context
  <2>7. GoingOK'
    <3>1. live' = IF BeginsBlock(st) /\ st.word = "gds" THEN live \cup {n} ELSE live
      BY <1>8, <1>9
    <3>2. Sub(st, d)
      BY <1>7, <1>17
    <3> QED BY <1>2, <1>8, <1>9, <1>11, <1>14, <2>6, <3>1, <3>2, HeadKeeps DEF Blocks
  <2>8. WildOK'
    BY <1>7, <1>17 DEF Sub, EndsWith, WildOK
  <2> QED BY <1>15, <2>7, <2>8 DEF Kept
<1> QED BY <1>16, <1>17

-------------------------------------------------------------------------------
(* What scripts do.                                                               *)

LEMMA ScriptInit == Start => GoingOK /\ ActedOK /\ WildOK
<1> SUFFICES ASSUME Start PROVE GoingOK /\ ActedOK /\ WildOK
  OBVIOUS
<1>1. file = <<>> /\ stack = <<NoContext>> /\ insts = <<>> /\ acted = <<>> /\ live = {} /\ result = "running"
  BY DEF Start
<1>2. /\ Len(file) = 0 /\ this = 1 /\ DOMAIN file = {} /\ Len(stack) = 1 /\ stack[1] = NoContext
      /\ DOMAIN insts = {} /\ DOMAIN acted = {}
  BY <1>1 DEF this
<1>3. Around(1) = {}
  <2>1. 1 .. 1 - 1 = {}
    OBVIOUS
  <2> QED BY <2>1 DEF Around
<1>4. ASSUME NEW w PROVE Within(1, w) = 0
  <2>1. Within(1, w) # 0 => Within(1, w) \in Around(1)
    BY WithinFacts
  <2> QED BY <1>3, <2>1
<1>5. ActedOK /\ WildOK
  BY <1>1, <1>2 DEF ActedOK, WildOK
<1>6. \E b : Nested(b)
  <2> DEFINE b == [m \in 1 .. 0 |-> 0]
  <2>1. 1 .. 0 = {}
    OBVIOUS
  <2>2. DOMAIN b = {} /\ b \in [1 .. 0 -> 1 .. 0]
    BY <2>1
  <2>3. Right(NoContext, 1)
    <3>1. CellOf(1) = NoName /\ BodyOf(1) = CellOf(0)
      BY <1>4 DEF CellOf, BodyOf
    <3>2. CellOf(0) = NoName
      <4>1. 1 .. 0 - 1 = {}
        OBVIOUS
      <4>2. Around(0) = {}
        BY <4>1 DEF Around
      <4>3. Within(0, "cell") # 0 => Within(0, "cell") \in Around(0)
        BY WithinFacts
      <4> QED BY <4>2, <4>3 DEF CellOf
    <3> QED BY <1>4, <3>1, <3>2 DEF Right, NoContext, Number
  <2> HIDE DEF b
  <2>4. Nested(b)
    <3>1. Len(stack) - 1 = 0
      BY <1>2
    <3>2. Around(this) = {b[m] : m \in DOMAIN b}
      BY <1>2, <1>3, <2>2
    <3>3. Right(stack[Len(stack)], this)
      BY <1>2, <2>3
    <3> QED BY <1>2, <2>2, <3>1, <3>2, <3>3 DEF Nested
  <2> QED BY <2>4
<1>7. Balanced
  <2>1. 1 .. 0 = {}
    OBVIOUS
  <2>2. Opened(1, 0) = 0 /\ Closed(1, 0) = 0
    BY <2>1, FS_EmptySet DEF Opened, Closed
  <2> QED BY <1>2, <2>2 DEF Balanced
<1>8. LiveOK /\ ReadOK
  BY <1>1, <1>2, <1>3 DEF LiveOK, ReadOK
<1> QED BY <1>5, <1>6, <1>7, <1>8 DEF GoingOK

LEMMA ScriptStep == Sound /\ GoingOK /\ ActedOK /\ WildOK /\ [Step]_scriptVars => Kept
<1> SUFFICES ASSUME Sound, GoingOK, ActedOK, WildOK, [Step]_scriptVars PROVE Kept
  OBVIOUS
<1>1. LayersStay
  BY SoundStep
<1>2. CASE CellBlock
  BY <1>1, <1>2, CellStep
<1>3. CASE InstBlock
  BY <1>1, <1>3, InstStep
<1>4. CASE PinBlock
  BY <1>1, <1>4, PinStep
<1>5. CASE GeometryBlock
  BY <1>1, <1>5, GeometryStep
<1>6. CASE LayerBlock
  BY <1>1, <1>6, LayerStep
<1>7. CASE GdsBlock
  BY <1>1, <1>7, GdsStep
<1>8. CASE SetSize
  BY <1>1, <1>8, SetSizeStep
<1>9. CASE SetPosition
  BY <1>1, <1>9, SetPositionStep
<1>10. CASE Rect
  BY <1>1, <1>10, RectStep
<1>11. CASE WriteGds
  BY <1>1, <1>11, WriteGdsStep
<1>12. CASE LoadGds
  BY <1>1, <1>12, LoadGdsStep
<1>13. CASE LoadLef
  BY <1>1, <1>13, LoadLefStep
<1>14. CASE Close
  BY <1>1, <1>14, CloseStep
<1>15. CASE LoadMap \/ Refuse \/ EndOfFile \/ EndInWord \/ UNCHANGED scriptVars
  BY <1>1, <1>15, OtherSteps
<1> QED
  BY <1>2, <1>3, <1>4, <1>5, <1>6, <1>7, <1>8, <1>9, <1>10, <1>11, <1>12, <1>13, <1>14, <1>15 DEF Step

LEMMA WholeInit == Start => WholeOrFailed
BY DEF Start, WholeOrFailed

LEMMA WholeKept == Sound /\ GoingOK /\ WholeOrFailed /\ [Step]_scriptVars => WholeOrFailed'
<1> SUFFICES ASSUME Sound, GoingOK, WholeOrFailed, [Step]_scriptVars, result' = "done" PROVE WholeOrFailed'
  BY DEF WholeOrFailed
<1>1. UNCHANGED <<file, live, acted>> /\ (EndOfFile \/ UNCHANGED result)
  <2>1. ASSUME NEW st, Reads(st) PROVE result = "running"
    BY <2>1 DEF Reads
  <2>2. CASE LoadMap \/ EndOfFile \/ EndInWord \/ UNCHANGED scriptVars
    BY <2>2 DEF LoadMap, EndOfFile, EndInWord, scriptVars
  <2>3. CASE Refuse
    BY <2>3 DEF Refuse
  <2>4. CASE CellBlock \/ InstBlock \/ PinBlock \/ GeometryBlock \/ GdsBlock
    BY <2>4 DEF CellBlock, InstBlock, PinBlock, GeometryBlock, GdsBlock, Sub, EndsWith
  <2>5. CASE LayerBlock
    BY <2>1, <2>5 DEF LayerBlock, Sub, EndsWith
  <2>6. CASE SetSize \/ SetPosition \/ Rect \/ WriteGds \/ LoadGds \/ LoadLef
    BY <2>6 DEF SetSize, SetPosition, Rect, WriteGds, LoadGds, LoadLef, Acts, EndsWith
  <2>7. CASE Close
    BY <2>1, <2>7 DEF Close
  <2> QED BY <2>2, <2>3, <2>4, <2>5, <2>6, <2>7 DEF Step
<1>2. PICK n : n = Len(file)
  OBVIOUS
<1>3. Opened(1, n)' = Opened(1, n) /\ Closed(1, n)' = Closed(1, n) /\ Len(file') = n
  BY <1>1, <1>2, QuietAround
<1>4. CASE UNCHANGED result
  BY <1>1, <1>2, <1>3, <1>4 DEF WholeOrFailed
<1>5. CASE EndOfFile
  <2>1. Going /\ Len(stack) = 1
    BY <1>5 DEF EndOfFile, Going
  <2>2. PICK b : Nested(b)
    BY <2>1 DEF GoingOK
  <2>3. Around(this) = {}
    <3>1. 1 .. 1 - 1 = {}
      OBVIOUS
    <3>2. DOMAIN b = {}
      BY <2>1, <2>2, <3>1 DEF Nested
    <3> QED BY <2>2, <3>2 DEF Nested
  <2>4. live = {}
    BY <2>1, <2>3 DEF GoingOK, LiveOK
  <2>5. Opened(1, n) = Closed(1, n)
    <3>1. Closed(1, n) \in Nat
      <4>1. n \in Int /\ 1 \in Int
        BY <1>2 DEF Sound, FileOK
      <4> QED BY <4>1, CountsAreNumbers
    <3>2. Opened(1, n) = Closed(1, n) + 1 - 1
      BY <1>2, <2>1 DEF GoingOK, Balanced
    <3> QED BY <3>1, <3>2
  <2>6. ReadOK
    BY <2>1 DEF GoingOK
  <2> QED BY <1>1, <1>2, <1>3, <2>4, <2>5, <2>6 DEF WholeOrFailed, ReadOK
<1> QED BY <1>1, <1>4, <1>5

(* Every command of a script of any length works on the object of the innermost   *)
(* block around it that has one of its kind, and on nothing that is gone but, a   *)
(* rectangle, on the layer of an array that another statement made move.          *)
THEOREM CommandsHitInnermost == ScriptSpec => []InnermostBlock
<1>1. GoingOK /\ ActedOK /\ WildOK => InnermostBlock
  BY DEF ActedOK, WildOK, InnermostBlock
<1> QED BY <1>1, SoundInit, SoundStep, ScriptInit, ScriptStep, PTL DEF ScriptSpec, Kept

(* A script comes to its end only whole: its blocks closed, its statements        *)
(* executed, its libraries destroyed.                                             *)
THEOREM OnlyWholeScriptsEnd == ScriptSpec => []WholeOrFailed
BY SoundInit, SoundStep, ScriptInit, ScriptStep, WholeInit, WholeKept, PTL DEF ScriptSpec, Kept

===============================================================================
