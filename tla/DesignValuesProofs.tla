------------------------- MODULE DesignValuesProofs -------------------------
(* Proofs about DesignValues: as long as cells are edited before they are updated, *)
(* a value whose bit is clear is what the hierarchy below it adds up to, for any   *)
(* number of cells, instances and connections.                                     *)
EXTENDS DesignValues, Foundations, FiniteSetTheorems

-------------------------------------------------------------------------------
(* Sums.                                                                           *)

Pick(s) == CHOOSE x \in s : TRUE

(* The sum of finitely many naturals is one. *)
LEMMA SumIsNat ==
  ASSUME NEW S, IsFiniteSet(S), NEW f \in [S -> Nat]
  PROVE  SumFunctionOnSet(f, S) \in Nat
<1> DEFINE N == SUBSET S
           Part(g, s) == IF s = {} THEN 0 ELSE f[Pick(s)] + g[s \ {Pick(s)}]
           R == {e \in N \X N : e[2] # {} /\ e[1] = e[2] \ {Pick(e[2])}}
           F == [g \in [N -> Nat] |-> [s \in N |-> Part(g, s)]]
           iter == CHOOSE g : g = [s \in N |-> Part(g, s)]
<1>1. SumFunctionOnSet(f, S) = iter[S]
  BY DEF SumFunctionOnSet, FoldFunctionOnSet, MapThenFoldSet, Pick
<1>2. \A s \in N : s # {} => Pick(s) \in s
  BY DEF Pick
<1>3. IsWellFoundedOn(R, N)
  <2>1. IsWellFoundedOn(StrictSubsetOrdering(S), FiniteSubsetsOf(S))
    BY FS_StrictSubsetOrderingWellFounded
  <2>2. N = FiniteSubsetsOf(S)
    BY FS_Subset DEF FiniteSubsetsOf
  <2>3. R \cap (N \X N) \subseteq StrictSubsetOrdering(S)
    BY <1>2 DEF StrictSubsetOrdering
  <2> HIDE DEF R, N
  <2> QED BY <2>1, <2>2, <2>3, IsWellFoundedOnSubrelation
<1>4. F \in [[N -> Nat] -> [N -> Nat]]
  <2>1. ASSUME NEW g \in [N -> Nat], NEW s \in N PROVE Part(g, s) \in Nat
    BY <1>2
  <2> HIDE DEF Part, N
  <2> QED BY <2>1
<1>5. ASSUME NEW g \in [N -> Nat], NEW h \in [N -> Nat], NEW n \in N,
             \A m \in N : <<m, n>> \in R => g[m] = h[m]
      PROVE  F[g][n] = F[h][n]
  <2>1. n # {} => <<n \ {Pick(n)}, n>> \in R /\ n \ {Pick(n)} \in N
    OBVIOUS
  <2>2. Part(g, n) = Part(h, n)
    BY <2>1, <1>5
  <2> HIDE DEF Part, N
  <2> QED BY <2>2
<1>6. \E g \in [N -> Nat] : g = F[g]
  <2>1. Nat # {}
    BY SMT
  <2> HIDE DEF F, N, R
  <2>2. Local(F, R, N, Nat)
    BY <1>4, <1>5 DEF Local
  <2> QED BY <1>3, <2>1, <2>2, Recursion
<1>7. iter = [s \in N |-> Part(iter, s)]
  <2>1. \E g : g = [s \in N |-> Part(g, s)]
    <3> HIDE DEF Part, N
    <3> QED BY <1>6
  <2> HIDE DEF Part, N
  <2> QED BY <2>1
<1>8. \A s \in N : iter[s] \in Nat
  <2> DEFINE B == {s \in N : iter[s] \notin Nat}
  <2> SUFFICES ASSUME B # {} PROVE FALSE
    OBVIOUS
  <2>1. PICK s \in B : \A t \in B : <<t, s>> \notin R
    <3>1. B \subseteq N OBVIOUS
    <3> HIDE DEF B, R, N
    <3> QED BY <1>3, <3>1, WFMin
  <2>2. iter[s] = Part(iter, s)
    <3> HIDE DEF Part, iter
    <3> QED BY <1>7
  <2>3. s # {} => s \ {Pick(s)} \in N /\ <<s \ {Pick(s)}, s>> \in R
    OBVIOUS
  <2>4. s # {} => iter[s \ {Pick(s)}] \in Nat
    <3> HIDE DEF iter, R
    <3> QED BY <2>1, <2>3
  <2>5. Part(iter, s) \in Nat
    <3> HIDE DEF iter
    <3> QED BY <1>2, <2>4
  <2> QED
    <3> HIDE DEF iter, Part
    <3> QED BY <2>2, <2>5
<1> QED
  <2> HIDE DEF iter
  <2> QED BY <1>1, <1>8

-------------------------------------------------------------------------------
(* The inductive invariant.                                                        *)

Net == [conns : Seq(Terminal), exposed : BOOLEAN]
NetsOK      == nets \in [Cell -> Seq(Net)]
FiniteInsts == IsFiniteSet(insts)
Acyclic     == \A i \in insts : parent[i] \notin Below(of[i])

\* What holds whatever is edited when.
DesignOK == TypeOK /\ NetsOK /\ FiniteInsts /\ Acyclic

Edges == {<<parent[i], of[i]>> : i \in insts}

LEMMA EdgesOK == TypeOK => Edges \in SUBSET (Cell \X Cell)
BY DEF TypeOK, Edges

LEMMA BelowFacts ==
  ASSUME TypeOK, NEW c \in Cell
  PROVE  /\ Below(c) \in SUBSET Cell /\ c \in Below(c)
         /\ \A i \in insts : parent[i] \in Below(c) => of[i] \in Below(c)
         /\ \A S \in SUBSET Cell :
              c \in S /\ (\A i \in insts : parent[i] \in S => of[i] \in S) => Below(c) \subseteq S
<1>1. Below(c) = Reach(Cell, {c}, Edges)
  BY DEF Below, Edges
<1>2. Below(c) \in SUBSET Cell
  BY <1>1 DEF Reach
<1>3. c \in Below(c)
  BY <1>1, ReachContains
<1>4. ASSUME NEW i \in insts, parent[i] \in Below(c) PROVE of[i] \in Below(c)
  <2>1. ClosedUnder(Below(c), Edges)
    BY <1>1, EdgesOK, ReachClosed
  <2>2. <<parent[i], of[i]>> \in Edges
    BY DEF Edges
  <2> QED BY <2>1, <2>2, <1>4 DEF ClosedUnder
<1>5. ASSUME NEW S \in SUBSET Cell, c \in S, \A i \in insts : parent[i] \in S => of[i] \in S
      PROVE  Below(c) \subseteq S
  <2>1. ClosedUnder(S, Edges)
    BY <1>5 DEF ClosedUnder, Edges
  <2> QED BY <1>1, <1>5, <2>1, ReachLeast
<1> QED BY <1>2, <1>3, <1>4, <1>5

\* The cells that an update visits.
LEMMA VisitedFacts ==
  ASSUME TypeOK, NEW c \in Cell, NEW inv \in SUBSET Cell
  PROVE  /\ Visited(c, inv) \in SUBSET inv
         /\ c \in inv => c \in Visited(c, inv)
         /\ \A i \in insts : parent[i] \in Visited(c, inv) /\ of[i] \in inv => of[i] \in Visited(c, inv)
<1> DEFINE step == {<<parent[i], of[i]>> : i \in {j \in insts : of[j] \in inv}}
           V == Visited(c, inv)
<1>1. V = Reach(Cell, {c} \cap inv, step)
  BY DEF Visited
<1>2. step \in SUBSET (Cell \X Cell)
  BY DEF TypeOK
<1>3. V \subseteq inv
  <2>1. ClosedUnder(inv, step)
    BY DEF ClosedUnder
  <2>2. {c} \cap inv \subseteq inv
    OBVIOUS
  <2> HIDE DEF step, V
  <2> QED BY <1>1, <2>1, <2>2, ReachLeast
<1>4. c \in inv => c \in V
  <2>1. {c} \cap inv \in SUBSET Cell
    OBVIOUS
  <2> HIDE DEF step, V
  <2> QED BY <1>1, <2>1, ReachContains
<1>5. ASSUME NEW i \in insts, parent[i] \in V, of[i] \in inv PROVE of[i] \in V
  <2>1. ClosedUnder(V, step)
    <3> HIDE DEF step, V
    <3> QED BY <1>1, <1>2, ReachClosed
  <2>2. <<parent[i], of[i]>> \in step
    BY <1>5
  <2> HIDE DEF step, V
  <2> QED BY <1>5, <2>1, <2>2 DEF ClosedUnder
<1> QED BY <1>3, <1>4, <1>5

\* In a finite hierarchy without cycles every set of cells has a lowest one.
Children == {e \in Cell \X Cell : \E i \in insts : e = <<of[i], parent[i]>>}

LEMMA HierarchyIsWellFounded ==
  ASSUME DesignOK
  PROVE  IsWellFoundedOn(Children, Cell)
<1> DEFINE Under(c) == {i \in insts : parent[i] \in Below(c)}
           rank(c) == Cardinality(Under(c))
<1>1. \A c \in Cell : IsFiniteSet(Under(c)) /\ rank(c) \in Nat
  BY FS_Subset, FS_CardinalityType DEF DesignOK, FiniteInsts
<1>2. ASSUME NEW i \in insts PROVE rank(of[i]) < rank(parent[i])
  <2>1. of[i] \in Cell /\ parent[i] \in Cell
    BY DEF DesignOK, TypeOK
  <2>2. parent[i] \in Below(parent[i]) /\ of[i] \in Below(parent[i])
    BY <2>1, BelowFacts DEF DesignOK
  <2>3. Below(of[i]) \subseteq Below(parent[i])
    BY <2>1, <2>2, BelowFacts DEF DesignOK
  <2>4. Under(of[i]) \in SUBSET Under(parent[i])
    BY <2>3
  <2>5. i \in Under(parent[i]) /\ i \notin Under(of[i])
    BY <2>2 DEF DesignOK, Acyclic
  <2>6. IsFiniteSet(Under(parent[i])) /\ rank(parent[i]) \in Nat /\ rank(of[i]) \in Nat
    BY <1>1, <2>1
  <2>7. rank(of[i]) <= rank(parent[i]) /\ rank(of[i]) # rank(parent[i])
    <3> HIDE DEF Under
    <3> QED BY <2>4, <2>5, <2>6, FS_Subset
  <2> HIDE DEF rank
  <2> QED BY <2>6, <2>7
<1>3. ASSUME NEW T \in SUBSET Cell, T # {}
      PROVE  \E x \in T : \A y \in T : <<y, x>> \notin Children
  <2> DEFINE ranks == {rank(c) : c \in T}
  <2>1. ranks \subseteq Nat /\ ranks # {}
    <3> HIDE DEF rank
    <3> QED BY <1>1, <1>3
  <2>2. PICK n \in ranks : \A m \in ranks : <<m, n>> \notin OpToRel(<, Nat)
    <3> HIDE DEF ranks
    <3> QED BY <2>1, WFMin, NatLessThanWellFounded
  <2>3. PICK x \in T : n = rank(x)
    OBVIOUS
  <2>4. ASSUME NEW y \in T, <<y, x>> \in Children PROVE FALSE
    <3>1. PICK i \in insts : y = of[i] /\ x = parent[i]
      BY <2>4 DEF Children
    <3>2. rank(y) < rank(x)
      BY <1>2, <3>1
    <3>3. rank(y) \in ranks /\ rank(y) \in Nat /\ rank(x) \in Nat
      BY <1>1
    <3> HIDE DEF rank, ranks
    <3> QED BY <2>2, <2>3, <3>2, <3>3 DEF OpToRel
  <2> QED BY <2>4
<1> QED BY <1>3, MinWF

-------------------------------------------------------------------------------
(* What an update computes is defined, and follows from what is below.             *)

PinCaps == [Pin -> Nat]

\* What a net adds up to depends on the cells of the instances only.
LEMMA LoadIsLocal ==
  ASSUME DesignOK, NEW c \in Cell, NEW k \in DOMAIN nets[c], NEW g, NEW h,
         \A i \in InstsIn(c) : g[of[i]] = h[of[i]]
  PROVE  Load(c, k, g) = Load(c, k, h)
<1> DEFINE conns == nets[c][k].conns
           Inner == {j \in DOMAIN conns : ~Outer(conns[j])}
<1>1. ASSUME NEW j \in Inner PROVE g[of[conns[j].inst]] = h[of[conns[j].inst]]
  <2>1. conns[j] \in TerminalsOf(c)
    BY DEF DesignOK, TypeOK
  <2>2. conns[j].inst \in InstsIn(c)
    BY <2>1 DEF TerminalsOf, Terminals, Outer
  <2> QED BY <2>2
<1>2. [j \in Inner |-> g[of[conns[j].inst]][conns[j].pin]] = [j \in Inner |-> h[of[conns[j].inst]][conns[j].pin]]
  <2> HIDE DEF Inner, conns
  <2> QED BY <1>1
<1> QED BY <1>2 DEF Load

LEMMA LoadIsNat ==
  ASSUME DesignOK, NEW c \in Cell, NEW k \in DOMAIN nets[c], NEW pinCap \in [Cell -> PinCaps]
  PROVE  Load(c, k, pinCap) \in Nat
<1> DEFINE conns == nets[c][k].conns
           Inner == {j \in DOMAIN conns : ~Outer(conns[j])}
           f     == [j \in Inner |-> pinCap[of[conns[j].inst]][conns[j].pin]]
<1>1. conns \in Seq(Terminal)
  <2>1. nets[c] \in Seq(Net)
    BY DEF DesignOK, NetsOK
  <2>2. nets[c][k] \in Net
    BY <2>1
  <2> QED BY <2>2 DEF Net
<1>2. IsFiniteSet(Inner)
  <2>1. DOMAIN conns = 1 .. Len(conns) /\ Len(conns) \in Nat
    BY <1>1
  <2>2. IsFiniteSet(DOMAIN conns)
    BY <2>1, FS_Interval
  <2>3. Inner \in SUBSET DOMAIN conns
    OBVIOUS
  <2> HIDE DEF Inner, conns
  <2> QED BY <2>2, <2>3, FS_Subset
<1>3. ASSUME NEW j \in Inner PROVE pinCap[of[conns[j].inst]][conns[j].pin] \in Nat
  <2>1. conns[j] \in TerminalsOf(c)
    BY DEF DesignOK, TypeOK
  <2>2. conns[j].inst \in insts /\ conns[j].pin \in Pin
    BY <2>1 DEF TerminalsOf, Terminals, Outer, InstsIn
  <2>3. of[conns[j].inst] \in Cell
    BY <2>2 DEF DesignOK, TypeOK
  <2> QED BY <2>2, <2>3 DEF PinCaps
<1>4. f \in [Inner -> Nat]
  <2> HIDE DEF Inner, conns
  <2> QED BY <1>3
<1>5. Load(c, k, pinCap) = SumFunctionOnSet(f, Inner)
  BY DEF Load, Sum
<1> QED
  <2> HIDE DEF Inner, f
  <2> QED BY <1>2, <1>4, <1>5, SumIsNat

LEMMA PinCapInIsNat ==
  ASSUME DesignOK, NEW V, NEW c \in Cell, NEW pinCap \in [Cell -> PinCaps]
  PROVE  PinCapIn(V, c, pinCap) \in PinCaps
<1>1. ASSUME NEW p \in Pin, On(nets[c], [inst |-> NoInst, pin |-> p]) # {}
      PROVE  Load(c, CHOOSE k \in On(nets[c], [inst |-> NoInst, pin |-> p]) : TRUE, pinCap) \in Nat
  <2>1. (CHOOSE k \in On(nets[c], [inst |-> NoInst, pin |-> p]) : TRUE) \in DOMAIN nets[c]
    BY <1>1 DEF On
  <2> QED BY <2>1, LoadIsNat
<1>2. \A p \in Pin : cap[c][p] \in Nat
  BY DEF DesignOK, TypeOK
<1> QED BY <1>1, <1>2 DEF PinCapIn, PinCaps

LEMMA PinCapInIsLocal ==
  ASSUME DesignOK, NEW V, NEW c \in Cell, NEW g, NEW h,
         \A i \in InstsIn(c) : g[of[i]] = h[of[i]]
  PROVE  PinCapIn(V, c, g) = PinCapIn(V, c, h)
<1>1. ASSUME NEW p \in Pin, On(nets[c], [inst |-> NoInst, pin |-> p]) # {}
      PROVE  Load(c, CHOOSE k \in On(nets[c], [inst |-> NoInst, pin |-> p]) : TRUE, g)
               = Load(c, CHOOSE k \in On(nets[c], [inst |-> NoInst, pin |-> p]) : TRUE, h)
  <2>1. (CHOOSE k \in On(nets[c], [inst |-> NoInst, pin |-> p]) : TRUE) \in DOMAIN nets[c]
    BY <1>1 DEF On
  <2> QED BY <2>1, LoadIsLocal
<1> QED BY <1>1 DEF PinCapIn

\* The instances of a cell are of cells below it.
LEMMA ChildrenOfCell ==
  ASSUME DesignOK, NEW c \in Cell, NEW i \in InstsIn(c)
  PROVE  of[i] \in Cell /\ <<of[i], c>> \in Children
BY DEF DesignOK, TypeOK, InstsIn, Children

LEMMA CapAfterDefined ==
  ASSUME DesignOK, NEW V
  PROVE  /\ CapAfter(V) \in [Cell -> PinCaps]
         /\ \A c \in Cell : CapAfter(V)[c] = PinCapIn(V, c, CapAfter(V))
<1> DEFINE F == [g \in [Cell -> PinCaps] |-> [c \in Cell |-> PinCapIn(V, c, g)]]
           C == CapAfter(V)
<1>1. C = CHOOSE g : g = [c \in Cell |-> PinCapIn(V, c, g)]
  BY DEF CapAfter
<1>2. PinCaps # {}
  <2>1. [p \in Pin |-> 0] \in PinCaps
    BY DEF PinCaps
  <2> QED BY <2>1
<1>3. Local(F, Children, Cell, PinCaps)
  <2>1. F \in [[Cell -> PinCaps] -> [Cell -> PinCaps]]
    BY PinCapInIsNat
  <2>2. ASSUME NEW g \in [Cell -> PinCaps], NEW h \in [Cell -> PinCaps], NEW c \in Cell,
               \A m \in Cell : <<m, c>> \in Children => g[m] = h[m]
        PROVE  F[g][c] = F[h][c]
    <3>1. \A i \in InstsIn(c) : g[of[i]] = h[of[i]]
      BY <2>2, ChildrenOfCell
    <3>2. PinCapIn(V, c, g) = PinCapIn(V, c, h)
      BY <3>1, PinCapInIsLocal
    <3> QED BY <3>2
  <2> HIDE DEF F
  <2> QED BY <2>1, <2>2 DEF Local
<1>4. \E g \in [Cell -> PinCaps] : g = F[g]
  <2> HIDE DEF F
  <2> QED BY <1>2, <1>3, HierarchyIsWellFounded, Recursion
<1>5. C = [c \in Cell |-> PinCapIn(V, c, C)]
  <2>1. \E g : g = [c \in Cell |-> PinCapIn(V, c, g)]
    BY <1>4
  <2> HIDE DEF C
  <2> QED BY <1>1, <2>1
<1>6. \A c \in Cell : C[c] \in PinCaps
  <2> DEFINE B == {c \in Cell : C[c] \notin PinCaps}
  <2> SUFFICES ASSUME B # {} PROVE FALSE
    OBVIOUS
  <2>1. PICK c \in B : \A d \in B : <<d, c>> \notin Children
    <3>1. B \subseteq Cell OBVIOUS
    <3> HIDE DEF B
    <3> QED BY <3>1, HierarchyIsWellFounded, WFMin
  <2> DEFINE h == [d \in Cell |-> IF C[d] \in PinCaps THEN C[d] ELSE CHOOSE x \in PinCaps : TRUE]
  <2>2. h \in [Cell -> PinCaps]
    BY <1>2
  <2>3. ASSUME NEW i \in InstsIn(c) PROVE C[of[i]] = h[of[i]]
    <3>1. of[i] \in Cell /\ <<of[i], c>> \in Children
      BY ChildrenOfCell
    <3>2. C[of[i]] \in PinCaps
      BY <2>1, <3>1
    <3> HIDE DEF C
    <3> QED BY <3>1, <3>2
  <2>4. PinCapIn(V, c, C) = PinCapIn(V, c, h)
    <3> HIDE DEF h, C
    <3> QED BY <2>3, PinCapInIsLocal
  <2>5. C[c] = PinCapIn(V, c, C)
    <3> HIDE DEF C
    <3> QED BY <1>5
  <2>6. PinCapIn(V, c, h) \in PinCaps
    <3> HIDE DEF h
    <3> QED BY <2>2, PinCapInIsNat
  <2> HIDE DEF C, h
  <2> QED BY <2>4, <2>5, <2>6
<1> QED
  <2>1. C \in [Cell -> PinCaps] /\ \A c \in Cell : C[c] = PinCapIn(V, c, C)
    <3> HIDE DEF C
    <3> QED BY <1>5, <1>6
  <2> QED BY <2>1

LEMMA LeakIsLocal ==
  ASSUME NEW c \in Cell, NEW g, NEW h, \A i \in InstsIn(c) : g[of[i]] = h[of[i]]
  PROVE  Leak(c, g) = Leak(c, h)
<1>1. [i \in InstsIn(c) |-> g[of[i]]] = [i \in InstsIn(c) |-> h[of[i]]]
  OBVIOUS
<1> QED BY <1>1 DEF Leak

LEMMA LeakageInIsNat ==
  ASSUME DesignOK, NEW V, NEW c \in Cell, NEW power \in [Cell -> Nat]
  PROVE  LeakageIn(V, c, power) \in Nat
<1> DEFINE f == [i \in InstsIn(c) |-> power[of[i]]]
<1>1. IsFiniteSet(InstsIn(c))
  BY FS_Subset DEF DesignOK, FiniteInsts, InstsIn
<1>2. f \in [InstsIn(c) -> Nat]
  BY ChildrenOfCell
<1>3. Leak(c, power) \in Nat
  BY <1>1, <1>2, SumIsNat DEF Leak, Sum
<1> QED BY <1>3 DEF LeakageIn, DesignOK, TypeOK

LEMMA LkgAfterDefined ==
  ASSUME DesignOK, NEW V
  PROVE  /\ LkgAfter(V) \in [Cell -> Nat]
         /\ \A c \in Cell : LkgAfter(V)[c] = LeakageIn(V, c, LkgAfter(V))
<1> DEFINE F == [g \in [Cell -> Nat] |-> [c \in Cell |-> LeakageIn(V, c, g)]]
           P == LkgAfter(V)
<1>1. P = CHOOSE g : g = [c \in Cell |-> LeakageIn(V, c, g)]
  BY DEF LkgAfter
<1>2. ASSUME NEW c \in Cell, NEW g, NEW h, \A i \in InstsIn(c) : g[of[i]] = h[of[i]]
      PROVE  LeakageIn(V, c, g) = LeakageIn(V, c, h)
  BY <1>2, LeakIsLocal DEF LeakageIn
<1>3. Local(F, Children, Cell, Nat)
  <2>1. F \in [[Cell -> Nat] -> [Cell -> Nat]]
    BY LeakageInIsNat
  <2>2. ASSUME NEW g \in [Cell -> Nat], NEW h \in [Cell -> Nat], NEW c \in Cell,
               \A m \in Cell : <<m, c>> \in Children => g[m] = h[m]
        PROVE  F[g][c] = F[h][c]
    <3>1. \A i \in InstsIn(c) : g[of[i]] = h[of[i]]
      BY <2>2, ChildrenOfCell
    <3>2. LeakageIn(V, c, g) = LeakageIn(V, c, h)
      BY <3>1, <1>2
    <3> QED BY <3>2
  <2> HIDE DEF F
  <2> QED BY <2>1, <2>2 DEF Local
<1>4. \E g \in [Cell -> Nat] : g = F[g]
  <2>1. Nat # {}
    BY SMT
  <2> HIDE DEF F
  <2> QED BY <1>3, <2>1, HierarchyIsWellFounded, Recursion
<1>5. P = [c \in Cell |-> LeakageIn(V, c, P)]
  <2>1. \E g : g = [c \in Cell |-> LeakageIn(V, c, g)]
    BY <1>4
  <2> HIDE DEF P
  <2> QED BY <1>1, <2>1
<1>6. \A c \in Cell : P[c] \in Nat
  <2> DEFINE B == {c \in Cell : P[c] \notin Nat}
  <2> SUFFICES ASSUME B # {} PROVE FALSE
    OBVIOUS
  <2>1. PICK c \in B : \A d \in B : <<d, c>> \notin Children
    <3>1. B \subseteq Cell OBVIOUS
    <3> HIDE DEF B
    <3> QED BY <3>1, HierarchyIsWellFounded, WFMin
  <2> DEFINE h == [d \in Cell |-> IF P[d] \in Nat THEN P[d] ELSE 0]
  <2>2. h \in [Cell -> Nat]
    OBVIOUS
  <2>3. ASSUME NEW i \in InstsIn(c) PROVE P[of[i]] = h[of[i]]
    <3>1. of[i] \in Cell /\ <<of[i], c>> \in Children
      BY ChildrenOfCell
    <3>2. P[of[i]] \in Nat
      BY <2>1, <3>1
    <3> HIDE DEF P
    <3> QED BY <3>1, <3>2
  <2>4. LeakageIn(V, c, P) = LeakageIn(V, c, h)
    <3> HIDE DEF h, P
    <3> QED BY <2>3, <1>2
  <2>5. P[c] = LeakageIn(V, c, P)
    <3> HIDE DEF P
    <3> QED BY <1>5
  <2>6. LeakageIn(V, c, h) \in Nat
    <3> HIDE DEF h
    <3> QED BY <2>2, LeakageInIsNat
  <2> HIDE DEF P, h
  <2> QED BY <2>4, <2>5, <2>6
<1> QED
  <2>1. P \in [Cell -> Nat] /\ \A c \in Cell : P[c] = LeakageIn(V, c, P)
    <3> HIDE DEF P
    <3> QED BY <1>5, <1>6
  <2> QED BY <2>1

-------------------------------------------------------------------------------
(* Types and the hierarchy, whatever is edited when.                               *)

LEMMA InitDesign == Init => DesignOK
<1> SUFFICES ASSUME Init PROVE DesignOK
  OBVIOUS
<1>1. TypeOK
  BY DEF Init, TypeOK
<1>2. NetsOK /\ Acyclic
  BY DEF Init, NetsOK, Acyclic
<1>3. FiniteInsts
  BY FS_EmptySet DEF Init, FiniteInsts
<1> QED BY <1>1, <1>2, <1>3 DEF DesignOK

LEMMA NewInstKeepsDesign ==
  ASSUME DesignOK, NEW i \in Inst, NEW into \in Cell, NEW cell \in Cell, NewInst(i, into, cell)
  PROVE  DesignOK'
<1>1. /\ i \notin insts /\ insts' = insts \cup {i} /\ into \notin Below(cell)
      /\ of' = [of EXCEPT ![i] = cell] /\ parent' = [parent EXCEPT ![i] = into]
      /\ UNCHANGED <<nets, bits, values>>
  BY DEF NewInst
<1>2. /\ of'[i] = cell /\ parent'[i] = into
      /\ \A j \in insts : of'[j] = of[j] /\ parent'[j] = parent[j]
  BY <1>1 DEF DesignOK, TypeOK
<1>3. TypeOK'
  <2>1. \A c \in Cell : InstsIn(c) \subseteq InstsIn(c)'
    BY <1>1, <1>2 DEF InstsIn
  <2>2. \A c \in Cell : TerminalsOf(c) \subseteq TerminalsOf(c)'
    BY <2>1 DEF TerminalsOf, Terminals
  <2>3. \A c \in Cell : \A k \in DOMAIN nets'[c] :
          \A j \in DOMAIN nets'[c][k].conns : nets'[c][k].conns[j] \in TerminalsOf(c)'
    BY <1>1, <2>2 DEF DesignOK, TypeOK
  <2>4. insts' \in SUBSET Inst /\ \A j \in insts' : of'[j] \in Cell /\ parent'[j] \in Cell
    BY <1>1, <1>2 DEF DesignOK, TypeOK
  <2>5. of' \in [Inst -> Cell \cup {Nil}] /\ parent' \in [Inst -> Cell \cup {Nil}]
    BY <1>1 DEF DesignOK, TypeOK
  <2> QED BY <1>1, <2>3, <2>4, <2>5 DEF DesignOK, TypeOK, bits, values
<1>4. NetsOK' /\ FiniteInsts'
  BY <1>1, FS_AddElement DEF DesignOK, NetsOK, FiniteInsts
<1>5. Acyclic'
  <2>1. ASSUME NEW c \in Cell, into \notin Below(c) PROVE Below(c)' \subseteq Below(c)
    <3>1. \A j \in insts' : parent'[j] \in Below(c) => of'[j] \in Below(c)
      BY <1>1, <1>2, <2>1, BelowFacts DEF DesignOK
    <3>2. Below(c) \in SUBSET Cell /\ c \in Below(c)
      BY BelowFacts DEF DesignOK
    <3>3. \A S \in SUBSET Cell :
             c \in S /\ (\A j \in insts' : parent'[j] \in S => of'[j] \in S) => Below(c)' \subseteq S
      <4>1. Below(c)' = Reach(Cell, {c}, Edges')
        BY DEF Below, Edges
      <4> SUFFICES ASSUME NEW S \in SUBSET Cell, c \in S, \A j \in insts' : parent'[j] \in S => of'[j] \in S
                   PROVE  Below(c)' \subseteq S
        OBVIOUS
      <4>2. ClosedUnder(S, Edges')
        BY DEF ClosedUnder, Edges
      <4> QED BY <4>1, <4>2, ReachLeast
    <3> QED BY <3>1, <3>2, <3>3
  <2>2. ASSUME NEW j \in insts' PROVE (parent[j] \notin Below(of[j]))'
    <3>0. \A c \in Cell : of'[j] = c => Below(of[j])' = Below(c)'
      BY DEF Below
    <3>1. CASE j = i
      <4>1. Below(of[j])' = Below(cell)'
        BY <1>2, <3>0, <3>1
      <4> QED BY <1>1, <1>2, <2>1, <3>1, <4>1
    <3>2. CASE j \in insts
      <4>1. of[j] \in Cell /\ parent[j] \in Cell /\ parent[j] \notin Below(of[j])
        BY <3>2 DEF DesignOK, TypeOK, Acyclic
      <4> DEFINE d == of[j]
      <4>0. d \in Cell /\ Below(of[j])' = Reach(Cell, {d}, Edges')
        BY <1>2, <3>2, <4>1 DEF Below, Edges
      <4>2. CASE into \notin Below(of[j])
        <5>1. ASSUME NEW c \in Cell, c = d PROVE Below(of[j])' = Below(c)'
          BY <1>2, <3>0, <3>2, <5>1
        <5>2. ASSUME NEW c \in Cell, c = d PROVE Below(of[j])' \subseteq Below(c)
          BY <2>1, <4>2, <5>1, <5>2
        <5>3. Below(of[j])' \subseteq Below(d)
          BY <4>0, <5>2
        <5> QED BY <1>2, <3>2, <4>1, <5>3
      <4>3. CASE into \in Below(of[j])
        <5> DEFINE S == Below(of[j]) \cup Below(cell)
        <5>1. S \in SUBSET Cell /\ of[j] \in S /\ cell \in S
          BY <4>1, BelowFacts DEF DesignOK
        <5>2. \A n \in insts' : parent'[n] \in S => of'[n] \in S
          BY <1>1, <1>2, <4>1, <5>1, BelowFacts DEF DesignOK
        <5>3. Below(of[j])' \subseteq S
          <6>2. ClosedUnder(S, Edges')
            <7> HIDE DEF S
            <7> QED BY <5>2 DEF ClosedUnder, Edges
          <6> HIDE DEF S
          <6> QED BY <4>0, <5>1, <6>2, ReachLeast
        <5>4. parent[j] \notin Below(cell)
          <6> SUFFICES ASSUME parent[j] \in Below(cell) PROVE FALSE
            OBVIOUS
          <6>1. of[j] \in Below(cell)
            BY <3>2, BelowFacts DEF DesignOK
          <6>2. Below(of[j]) \subseteq Below(cell)
            BY <4>1, <6>1, BelowFacts DEF DesignOK
          <6> QED BY <1>1, <4>3, <6>2
        <5> QED BY <1>2, <3>2, <4>1, <5>3, <5>4
      <4> QED BY <4>2, <4>3
    <3> QED BY <1>1, <3>1, <3>2
  <2> QED BY <2>2 DEF Acyclic
<1> QED BY <1>3, <1>4, <1>5 DEF DesignOK

\* Where the hierarchy stays as it is, only the nets and values count.
LEMMA SameHierarchy ==
  ASSUME DesignOK, UNCHANGED <<insts, of, parent>>
  PROVE  /\ FiniteInsts' /\ Acyclic'
         /\ \A c : InstsIn(c)' = InstsIn(c) /\ TerminalsOf(c)' = TerminalsOf(c)
<1>1. \A c : Below(c)' = Below(c)
  BY DEF Below
<1>2. \A c : InstsIn(c)' = InstsIn(c)
  BY DEF InstsIn
<1>3. \A c : TerminalsOf(c)' = TerminalsOf(c)
  BY <1>2 DEF TerminalsOf
<1> QED BY <1>1, <1>2, <1>3 DEF DesignOK, FiniteInsts, Acyclic

\* What connect makes of the nets of one cell.
LEMMA ConnectedNets ==
  ASSUME DesignOK, NEW c \in Cell, NEW a \in Terminal, NEW b \in Terminal, Connect(c, a, b)
  PROVE  \/ /\ On(nets[c], a) = {} /\ On(nets[c], b) = {}
            /\ nets' = [nets EXCEPT ![c] = WithNewNet(nets[c], a, b)]
            /\ netCap' = [netCap EXCEPT ![c] = Append(netCap[c], 0)]
         \/ \E k \in On(nets[c], a) :
              /\ On(nets[c], b) = {}
              /\ nets' = [nets EXCEPT ![c] = Extended(nets[c], k, b)]
              /\ UNCHANGED netCap
BY DEF Connect

LEMMA NewNetFacts ==
  ASSUME NEW ns \in Seq(Net), NEW a \in Terminal, NEW b \in Terminal
  PROVE  LET new == WithNewNet(ns, a, b) IN
         /\ new \in Seq(Net) /\ Len(new) = Len(ns) + 1
         /\ \A k \in DOMAIN ns : new[k] = ns[k]
         /\ new[Len(new)].conns = <<a, b>>
<1> DEFINE n == [conns |-> <<a, b>>, exposed |-> Outer(a) \/ Outer(b)]
<1>1. n \in Net
  <2>1. (Outer(a) \/ Outer(b)) \in BOOLEAN
    BY Zenon DEF Outer
  <2>2. <<a, b>> \in Seq(Terminal)
    OBVIOUS
  <2> QED BY <2>1, <2>2, Zenon DEF Net
<1>2. n.conns = <<a, b>>
  OBVIOUS
<1>3. WithNewNet(ns, a, b) = Append(ns, n)
  BY DEF WithNewNet
<1> HIDE DEF n
<1> QED BY <1>1, <1>2, <1>3

LEMMA ExtendedFacts ==
  ASSUME NEW ns \in Seq(Net), NEW k \in DOMAIN ns, NEW t \in Terminal
  PROVE  LET new == Extended(ns, k, t) IN
         /\ new \in Seq(Net) /\ Len(new) = Len(ns)
         /\ \A j \in DOMAIN ns \ {k} : new[j] = ns[j]
         /\ new[k].conns = Append(ns[k].conns, t)
<1> DEFINE n == [conns |-> Append(ns[k].conns, t), exposed |-> ns[k].exposed \/ Outer(t)]
<1>1. ns[k] \in Net
  OBVIOUS
<1>2. ns[k].conns \in Seq(Terminal) /\ ns[k].exposed \in BOOLEAN
  BY <1>1 DEF Net
<1>3. n \in Net
  <2>1. (ns[k].exposed \/ Outer(t)) \in BOOLEAN
    BY Zenon DEF Outer
  <2>2. Append(ns[k].conns, t) \in Seq(Terminal)
    BY <1>2
  <2> QED BY <2>1, <2>2, Zenon DEF Net
<1>4. n.conns = Append(ns[k].conns, t)
  OBVIOUS
<1>5. Extended(ns, k, t) = [ns EXCEPT ![k] = n]
  BY DEF Extended
<1> HIDE DEF n
<1> QED BY <1>3, <1>4, <1>5

LEMMA ConnectKeepsDesign ==
  ASSUME DesignOK, NEW c \in Cell, NEW a \in Terminal, NEW b \in Terminal, Connect(c, a, b)
  PROVE  DesignOK'
<1>1. /\ a \in TerminalsOf(c) /\ b \in TerminalsOf(c)
      /\ UNCHANGED <<insts, of, parent, bits, cap, lkg>>
  BY DEF Connect
<1>2. /\ FiniteInsts' /\ Acyclic'
      /\ \A d : InstsIn(d)' = InstsIn(d) /\ TerminalsOf(d)' = TerminalsOf(d)
  BY <1>1, SameHierarchy
<1>3. nets[c] \in Seq(Net) /\ netCap[c] \in Seq(Nat) /\ DOMAIN netCap[c] = DOMAIN nets[c]
  BY DEF DesignOK, NetsOK, TypeOK
<1>4. \A k \in DOMAIN nets[c] : \A j \in DOMAIN nets[c][k].conns : nets[c][k].conns[j] \in TerminalsOf(c)
  BY DEF DesignOK, TypeOK
<1> DEFINE Good(ns, nc) ==
      /\ ns \in Seq(Net) /\ nc \in Seq(Nat) /\ DOMAIN nc = DOMAIN ns
      /\ \A k \in DOMAIN ns : \A j \in DOMAIN ns[k].conns : ns[k].conns[j] \in TerminalsOf(c)
<1>5. \E ns, nc : /\ nets' = [nets EXCEPT ![c] = ns] /\ netCap' = [netCap EXCEPT ![c] = nc]
                  /\ Good(ns, nc)
  <2>1. CASE /\ nets' = [nets EXCEPT ![c] = WithNewNet(nets[c], a, b)]
             /\ netCap' = [netCap EXCEPT ![c] = Append(netCap[c], 0)]
    <3> DEFINE ns == WithNewNet(nets[c], a, b)
               nc == Append(netCap[c], 0)
    <3>1. /\ ns \in Seq(Net) /\ Len(ns) = Len(nets[c]) + 1
          /\ \A k \in DOMAIN nets[c] : ns[k] = nets[c][k]
          /\ ns[Len(ns)].conns = <<a, b>>
      BY <1>3, NewNetFacts
    <3> HIDE DEF ns
    <3>2. nc \in Seq(Nat) /\ Len(nc) = Len(netCap[c]) + 1
      BY <1>3
    <3> HIDE DEF nc
    <3>3. DOMAIN nc = DOMAIN ns
      BY <1>3, <3>1, <3>2
    <3>4. DOMAIN ns = DOMAIN nets[c] \cup {Len(ns)}
      <4>1. DOMAIN ns = 1 .. Len(ns) /\ DOMAIN nets[c] = 1 .. Len(nets[c]) /\ Len(nets[c]) \in Nat
        BY <1>3, <3>1
      <4> QED BY <3>1, <4>1
    <3>5. \A j \in DOMAIN <<a, b>> : <<a, b>>[j] \in TerminalsOf(c)
      BY <1>1
    <3>6. \A k \in DOMAIN ns : \A j \in DOMAIN ns[k].conns : ns[k].conns[j] \in TerminalsOf(c)
      BY <1>4, <3>1, <3>4, <3>5
    <3>7. nets' = [nets EXCEPT ![c] = ns] /\ netCap' = [netCap EXCEPT ![c] = nc]
      BY <2>1 DEF ns, nc
    <3> QED BY <3>1, <3>2, <3>3, <3>6, <3>7
  <2>2. ASSUME NEW k \in On(nets[c], a), nets' = [nets EXCEPT ![c] = Extended(nets[c], k, b)], UNCHANGED netCap
        PROVE  \E ns, nc : /\ nets' = [nets EXCEPT ![c] = ns] /\ netCap' = [netCap EXCEPT ![c] = nc]
                           /\ Good(ns, nc)
    <3> DEFINE ns == Extended(nets[c], k, b)
    <3>0. k \in DOMAIN nets[c]
      BY DEF On
    <3>1. /\ ns \in Seq(Net) /\ Len(ns) = Len(nets[c])
          /\ \A j \in DOMAIN nets[c] \ {k} : ns[j] = nets[c][j]
          /\ ns[k].conns = Append(nets[c][k].conns, b)
      BY <1>3, <3>0, ExtendedFacts
    <3> HIDE DEF ns
    <3>2. DOMAIN ns = DOMAIN nets[c]
      BY <1>3, <3>1
    <3>3. nets[c][k].conns \in Seq(Terminal)
      <4>1. nets[c][k] \in Net
        BY <1>3, <3>0
      <4> QED BY <4>1 DEF Net
    <3>4. \A j \in DOMAIN ns[k].conns : ns[k].conns[j] \in TerminalsOf(c)
      BY <1>1, <1>4, <3>0, <3>1, <3>3
    <3>5. \A n \in DOMAIN ns : \A j \in DOMAIN ns[n].conns : ns[n].conns[j] \in TerminalsOf(c)
      BY <1>4, <3>1, <3>2, <3>4
    <3>6. netCap' = [netCap EXCEPT ![c] = netCap[c]]
      BY <2>2 DEF DesignOK, TypeOK
    <3>7. nets' = [nets EXCEPT ![c] = ns]
      BY <2>2 DEF ns
    <3> QED BY <1>3, <3>1, <3>2, <3>5, <3>6, <3>7
  <2> QED BY <2>1, <2>2, ConnectedNets
<1>6. PICK ns, nc : /\ nets' = [nets EXCEPT ![c] = ns] /\ netCap' = [netCap EXCEPT ![c] = nc]
                    /\ Good(ns, nc)
  BY <1>5
<1>7. NetsOK' /\ netCap' \in [Cell -> Seq(Nat)]
  BY <1>6 DEF DesignOK, NetsOK, TypeOK
<1>8. \A d \in Cell : IF d = c THEN nets'[d] = ns /\ netCap'[d] = nc ELSE nets'[d] = nets[d] /\ netCap'[d] = netCap[d]
  BY <1>6 DEF DesignOK, NetsOK, TypeOK
<1>9. \A d \in Cell : \A k \in DOMAIN nets'[d] :
        \A j \in DOMAIN nets'[d][k].conns : nets'[d][k].conns[j] \in TerminalsOf(d)'
  BY <1>2, <1>6, <1>8 DEF DesignOK, TypeOK
<1>10. \A d \in Cell : DOMAIN netCap'[d] = DOMAIN nets'[d]
  BY <1>6, <1>8 DEF DesignOK, TypeOK
<1>11. TypeOK'
  BY <1>1, <1>7, <1>9, <1>10 DEF DesignOK, TypeOK, bits
<1> QED BY <1>2, <1>7, <1>11 DEF DesignOK

LEMMA UpdateKeepsDesign ==
  ASSUME DesignOK, NEW c \in Cell, Update(c)
  PROVE  DesignOK'
<1> DEFINE V == Visited(c, capInv)
           W == Visited(c, lkgInv)
<1>1. /\ cap' = CapAfter(V) /\ lkg' = LkgAfter(W)
      /\ netCap' = [d \in Cell |-> IF d \in V THEN [k \in DOMAIN nets[d] |-> Load(d, k, CapAfter(V))]
                                              ELSE netCap[d]]
      /\ capInv' = capInv \ V /\ lkgInv' = lkgInv \ W
      /\ UNCHANGED <<insts, of, parent, nets>>
  BY DEF Update, design
<1> HIDE DEF V, W
<1>2. /\ FiniteInsts' /\ Acyclic'
      /\ \A d : InstsIn(d)' = InstsIn(d) /\ TerminalsOf(d)' = TerminalsOf(d)
  BY <1>1, SameHierarchy
<1>3. CapAfter(V) \in [Cell -> PinCaps] /\ LkgAfter(W) \in [Cell -> Nat]
  BY CapAfterDefined, LkgAfterDefined
<1>4. ASSUME NEW d \in Cell PROVE netCap'[d] \in Seq(Nat) /\ DOMAIN netCap'[d] = DOMAIN nets[d]
  <2>1. CASE d \in V
    <3>1. netCap'[d] = [k \in DOMAIN nets[d] |-> Load(d, k, CapAfter(V))]
      BY <1>1, <2>1
    <3>2. \A k \in DOMAIN nets[d] : Load(d, k, CapAfter(V)) \in Nat
      BY <1>3, LoadIsNat
    <3>3. nets[d] \in Seq(Net)
      BY DEF DesignOK, NetsOK
    <3>4. DOMAIN nets[d] = 1 .. Len(nets[d]) /\ Len(nets[d]) \in Nat
      BY <3>3
    <3>5. [k \in DOMAIN nets[d] |-> Load(d, k, CapAfter(V))] \in [1 .. Len(nets[d]) -> Nat]
      BY <3>2, <3>4
    <3> QED BY <3>1, <3>4, <3>5
  <2>2. CASE d \notin V
    BY <1>1, <2>2 DEF DesignOK, TypeOK
  <2> QED BY <2>1, <2>2
<1>5. netCap' \in [Cell -> Seq(Nat)]
  BY <1>1, <1>4
<1>6. TypeOK'
  BY <1>1, <1>2, <1>3, <1>4, <1>5 DEF DesignOK, TypeOK, PinCaps
<1> QED BY <1>1, <1>2, <1>6 DEF DesignOK, NetsOK

LEMMA DesignKept == DesignOK /\ [Next]_vars => DesignOK'
<1> SUFFICES ASSUME DesignOK, [Next]_vars PROVE DesignOK'
  OBVIOUS
<1>1. CASE \E i \in Inst, into \in Cell, cell \in Cell : NewInst(i, into, cell)
  BY <1>1, NewInstKeepsDesign
<1>2. CASE \E c \in Cell, a \in Terminal, b \in Terminal : Connect(c, a, b)
  BY <1>2, ConnectKeepsDesign
<1>3. CASE \E c \in Cell, p \in Pin, v \in Value : SetCapacitance(c, p, v)
  <2>1. PICK c \in Cell, p \in Pin, v \in Value : SetCapacitance(c, p, v)
    BY <1>3
  <2>2. cap' = [cap EXCEPT ![c][p] = v] /\ v \in Nat /\ UNCHANGED <<insts, of, parent, nets, bits, netCap, lkg>>
    BY <2>1, ValueAssumption DEF SetCapacitance, design
  <2>3. cap' \in [Cell -> [Pin -> Nat]]
    BY <2>2 DEF DesignOK, TypeOK
  <2>4. /\ FiniteInsts' /\ Acyclic' /\ \A d : TerminalsOf(d)' = TerminalsOf(d)
    BY <2>2, SameHierarchy
  <2> QED BY <2>2, <2>3, <2>4 DEF DesignOK, TypeOK, NetsOK, bits
<1>4. CASE \E c \in Cell, v \in Value : SetLeakage(c, v)
  <2>1. PICK c \in Cell, v \in Value : SetLeakage(c, v)
    BY <1>4
  <2>2. lkg' = [lkg EXCEPT ![c] = v] /\ v \in Nat /\ UNCHANGED <<insts, of, parent, nets, bits, netCap, cap>>
    BY <2>1, ValueAssumption DEF SetLeakage, design
  <2>3. /\ FiniteInsts' /\ Acyclic' /\ \A d : TerminalsOf(d)' = TerminalsOf(d)
    BY <2>2, SameHierarchy
  <2> QED BY <2>2, <2>3 DEF DesignOK, TypeOK, NetsOK, bits
<1>5. CASE \E c \in Cell : Update(c)
  BY <1>5, UpdateKeepsDesign
<1>6. CASE UNCHANGED vars
  <2>1. /\ FiniteInsts' /\ Acyclic' /\ \A d : TerminalsOf(d)' = TerminalsOf(d)
    BY <1>6, SameHierarchy DEF vars, design
  <2> QED BY <1>6, <2>1 DEF DesignOK, TypeOK, NetsOK, vars, design, bits, values
<1> QED BY <1>1, <1>2, <1>3, <1>4, <1>5, <1>6 DEF Next

(* Whatever a script does, every variable of the derived values has its type: the  *)
(* sums of an update are numbers, and every instance has a cell.                   *)
THEOREM ValuesTypeCorrect == Spec => []TypeOK
<1>1. DesignOK => TypeOK
  BY DEF DesignOK
<1> QED BY <1>1, InitDesign, DesignKept, PTL DEF Spec

-------------------------------------------------------------------------------
(* What a clear bit means, when cells are edited before their first update only.   *)

\* Both bits are set and cleared together, and no cell whose bits are set is
\* placed in one whose bits are clear.
SameBits      == capInv = lkgInv
ChildrenClear == \A i \in insts : of[i] \in capInv => parent[i] \in capInv

\* A terminal is on one net.
OneNetEach ==
  \A c \in Cell : \A j, k \in DOMAIN nets[c] : \A t \in Terminal :
    Lists(nets[c][j], t) /\ Lists(nets[c][k], t) => j = k

IInv == DesignOK /\ SameBits /\ ChildrenClear /\ OneNetEach /\ ValuesAgree

LEMMA InitInv == Init => IInv
<1> SUFFICES ASSUME Init PROVE IInv
  OBVIOUS
<1>1. DesignOK
  BY InitDesign
<1>2. SameBits /\ ChildrenClear /\ OneNetEach /\ ValuesAgree
  BY DEF Init, SameBits, ChildrenClear, OneNetEach, ValuesAgree
<1> QED BY <1>1, <1>2 DEF IInv

\* The children of a cell that is clear are clear.
LEMMA ClearBelow ==
  ASSUME IInv, NEW c \in Cell \ capInv, NEW i \in InstsIn(c)
  PROVE  of[i] \in Cell \ capInv
BY DEF IInv, DesignOK, TypeOK, ChildrenClear, InstsIn

\* Values that stay where cells are clear stay right there.
LEMMA AgreementKept ==
  ASSUME IInv,
         UNCHANGED <<capInv, lkgInv>>,
         \A c \in Cell \ capInv : /\ InstsIn(c)' = InstsIn(c)
                                  /\ nets'[c] = nets[c] /\ netCap'[c] = netCap[c]
                                  /\ cap'[c] = cap[c] /\ lkg'[c] = lkg[c],
         \A i \in insts : of'[i] = of[i]
  PROVE  ValuesAgree'
<1>1. ASSUME NEW c \in Cell \ capInv, NEW k \in DOMAIN nets[c] PROVE Load(c, k, cap)' = Load(c, k, cap)
  <2> DEFINE conns == nets[c][k].conns
             Inner == {j \in DOMAIN conns : ~Outer(conns[j])}
  <2>1. ASSUME NEW j \in Inner
        PROVE  cap'[of'[conns[j].inst]][conns[j].pin] = cap[of[conns[j].inst]][conns[j].pin]
    <3>1. conns[j] \in TerminalsOf(c)
      BY DEF IInv, DesignOK, TypeOK
    <3>2. conns[j].inst \in InstsIn(c)
      BY <3>1 DEF TerminalsOf, Terminals, Outer
    <3>3. of[conns[j].inst] \in Cell \ capInv
      BY <3>2, ClearBelow
    <3>4. conns[j].inst \in insts
      BY <3>2 DEF InstsIn
    <3> HIDE DEF conns
    <3> QED BY <3>3, <3>4
  <2>2. [j \in Inner |-> cap'[of'[conns[j].inst]][conns[j].pin]] = [j \in Inner |-> cap[of[conns[j].inst]][conns[j].pin]]
    <3> HIDE DEF Inner, conns
    <3> QED BY <2>1
  <2>3. nets'[c][k].conns = conns
    OBVIOUS
  <2>4. Load(c, k, cap) = Sum([j \in Inner |-> cap[of[conns[j].inst]][conns[j].pin]], Inner)
    BY DEF Load
  <2>5. Load(c, k, cap)' = Sum([j \in Inner |-> cap'[of'[conns[j].inst]][conns[j].pin]], Inner)
    BY <2>3 DEF Load
  <2> HIDE DEF Inner, conns
  <2> QED BY <2>2, <2>4, <2>5
<1>2. ASSUME NEW c \in Cell \ capInv PROVE Leak(c, lkg)' = Leak(c, lkg)
  <2>1. ASSUME NEW i \in InstsIn(c) PROVE lkg'[of'[i]] = lkg[of[i]]
    BY ClearBelow DEF InstsIn
  <2>2. [i \in InstsIn(c) |-> lkg'[of'[i]]] = [i \in InstsIn(c) |-> lkg[of[i]]]
    BY <2>1
  <2> QED BY <2>2 DEF Leak
<1>3. ASSUME NEW c \in Cell \ capInv, NEW k \in DOMAIN nets[c]
      PROVE  /\ netCap'[c][k] = Load(c, k, cap)'
             /\ \A p \in Pin :
                  Lists(nets'[c][k], [inst |-> NoInst, pin |-> p]) => cap'[c][p] = netCap'[c][k]
  BY <1>1 DEF IInv, ValuesAgree
<1>4. ASSUME NEW c \in Cell \ capInv, InstsIn(c)' # {} PROVE lkg'[c] = Leak(c, lkg)'
  BY <1>2, <1>4 DEF IInv, ValuesAgree, SameBits
<1>5. \A c \in Cell \ capInv : DOMAIN nets'[c] = DOMAIN nets[c]
  OBVIOUS
<1>6. Cell \ capInv' = Cell \ capInv /\ Cell \ lkgInv' = Cell \ capInv
  BY DEF IInv, SameBits
<1> QED BY <1>3, <1>4, <1>5, <1>6 DEF ValuesAgree

LEMMA ConnectKeepsInv ==
  ASSUME IInv, ~LateEdit, NEW c \in Cell, NEW a \in Terminal, NEW b \in Terminal, Connect(c, a, b)
  PROVE  IInv'
<1>1. /\ c \in capInv /\ a # b
      /\ UNCHANGED <<insts, of, parent, capInv, lkgInv, cap, lkg>>
  BY DEF Connect, Editable, bits
<1>2. DesignOK'
  BY ConnectKeepsDesign DEF IInv
<1>3. SameBits' /\ ChildrenClear'
  BY <1>1 DEF IInv, SameBits, ChildrenClear
<1>4. \A d \in Cell \ {c} : nets'[d] = nets[d] /\ netCap'[d] = netCap[d]
  <2>1. /\ \/ UNCHANGED netCap
           \/ netCap' = [netCap EXCEPT ![c] = Append(netCap[c], 0)]
        /\ \E ns : nets' = [nets EXCEPT ![c] = ns]
    BY ConnectedNets DEF IInv
  <2>2. DOMAIN nets = Cell /\ DOMAIN netCap = Cell
    BY DEF IInv, DesignOK, NetsOK, TypeOK
  <2> QED BY <2>1, <2>2
<1>5. nets[c] \in Seq(Net)
  BY DEF IInv, DesignOK, NetsOK
<1>6. \A j, k \in DOMAIN nets[c] : \A t \in Terminal : Lists(nets[c][j], t) /\ Lists(nets[c][k], t) => j = k
  BY DEF IInv, OneNetEach
<1>7. \A j, k \in DOMAIN nets'[c] : \A t \in Terminal : Lists(nets'[c][j], t) /\ Lists(nets'[c][k], t) => j = k
  <2>1. CASE /\ On(nets[c], a) = {} /\ On(nets[c], b) = {}
             /\ nets' = [nets EXCEPT ![c] = WithNewNet(nets[c], a, b)]
    <3> DEFINE ns == WithNewNet(nets[c], a, b)
    <3>1. /\ ns \in Seq(Net) /\ Len(ns) = Len(nets[c]) + 1
          /\ \A k \in DOMAIN nets[c] : ns[k] = nets[c][k]
          /\ ns[Len(ns)].conns = <<a, b>>
      BY <1>5, NewNetFacts
    <3>2. nets'[c] = ns
      BY <2>1 DEF IInv, DesignOK, NetsOK
    <3> HIDE DEF ns
    <3>3. DOMAIN ns = DOMAIN nets[c] \cup {Len(ns)} /\ Len(ns) \notin DOMAIN nets[c]
      <4>1. DOMAIN ns = 1 .. Len(ns) /\ DOMAIN nets[c] = 1 .. Len(nets[c]) /\ Len(nets[c]) \in Nat
        BY <1>5, <3>1
      <4> QED BY <3>1, <4>1
    <3>4. \A t : Lists(ns[Len(ns)], t) => t \in {a, b}
      BY <3>1 DEF Lists
    <3>5. \A k \in DOMAIN nets[c] : ~Lists(ns[k], a) /\ ~Lists(ns[k], b)
      BY <2>1, <3>1 DEF On
    <3>6. \A k \in DOMAIN nets[c] : \A t : Lists(ns[k], t) <=> Lists(nets[c][k], t)
      BY <3>1
    <3>7. \A k \in DOMAIN nets[c] : \A t : Lists(ns[Len(ns)], t) => ~Lists(ns[k], t)
      BY <3>4, <3>5
    <3> SUFFICES ASSUME NEW j \in DOMAIN ns, NEW k \in DOMAIN ns, NEW t \in Terminal,
                        Lists(ns[j], t), Lists(ns[k], t)
                 PROVE  j = k
      BY <3>2
    <3>8. CASE j \in DOMAIN nets[c] /\ k \in DOMAIN nets[c]
      BY <1>6, <3>6, <3>8
    <3>9. CASE j = Len(ns) \/ k = Len(ns)
      BY <3>3, <3>7, <3>9
    <3> QED BY <3>3, <3>8, <3>9
  <2>2. ASSUME NEW k \in On(nets[c], a), On(nets[c], b) = {}, nets' = [nets EXCEPT ![c] = Extended(nets[c], k, b)]
        PROVE  \A i, j \in DOMAIN nets'[c] : \A t \in Terminal : Lists(nets'[c][i], t) /\ Lists(nets'[c][j], t) => i = j
    <3> DEFINE ns == Extended(nets[c], k, b)
    <3>0. k \in DOMAIN nets[c]
      BY DEF On
    <3>1. /\ ns \in Seq(Net) /\ Len(ns) = Len(nets[c])
          /\ \A j \in DOMAIN nets[c] \ {k} : ns[j] = nets[c][j]
          /\ ns[k].conns = Append(nets[c][k].conns, b)
      BY <1>5, <3>0, ExtendedFacts
    <3>2. nets'[c] = ns
      BY <2>2 DEF IInv, DesignOK, NetsOK
    <3> HIDE DEF ns
    <3>3. DOMAIN ns = DOMAIN nets[c]
      BY <1>5, <3>1
    <3>4. nets[c][k].conns \in Seq(Terminal)
      <4>1. nets[c][k] \in Net
        BY <1>5, <3>0
      <4> QED BY <4>1 DEF Net
    <3>5. \A t : Lists(ns[k], t) => Lists(nets[c][k], t) \/ t = b
      BY <3>1, <3>4 DEF Lists
    <3>6. \A j \in DOMAIN nets[c] \ {k} : ~Lists(ns[j], b)
      BY <2>2, <3>1 DEF On
    <3>7. \A j \in DOMAIN nets[c] \ {k} : \A t : Lists(ns[j], t) <=> Lists(nets[c][j], t)
      BY <3>1
    <3> QED BY <1>6, <3>2, <3>3, <3>5, <3>6, <3>7
  <2> QED BY <2>1, <2>2, ConnectedNets DEF IInv
<1>8. OneNetEach'
  BY <1>4, <1>7 DEF IInv, OneNetEach
<1>9. ValuesAgree'
  <2>1. \A d \in Cell \ capInv : InstsIn(d)' = InstsIn(d)
    BY <1>1 DEF InstsIn
  <2> QED BY <1>1, <1>4, <2>1, AgreementKept
<1> QED BY <1>2, <1>3, <1>8, <1>9 DEF IInv

LEMMA UpdateKeepsInv ==
  ASSUME IInv, NEW c \in Cell, Update(c)
  PROVE  IInv'
<1> DEFINE V == Visited(c, capInv)
<1>1. /\ cap' = CapAfter(V) /\ lkg' = LkgAfter(V)
      /\ netCap' = [d \in Cell |-> IF d \in V THEN [k \in DOMAIN nets[d] |-> Load(d, k, CapAfter(V))]
                                              ELSE netCap[d]]
      /\ capInv' = capInv \ V /\ lkgInv' = lkgInv \ V
      /\ UNCHANGED <<insts, of, parent, nets>>
  BY DEF Update, design, IInv, SameBits
<1>2. V \subseteq capInv /\ \A i \in insts : parent[i] \in V /\ of[i] \in capInv => of[i] \in V
  BY VisitedFacts DEF IInv, DesignOK, TypeOK
<1> HIDE DEF V
<1>3. DesignOK'
  BY UpdateKeepsDesign DEF IInv
<1>4. SameBits' /\ OneNetEach'
  BY <1>1 DEF IInv, SameBits, OneNetEach
<1>5. ChildrenClear'
  BY <1>1, <1>2 DEF IInv, ChildrenClear
<1>6. /\ CapAfter(V) \in [Cell -> PinCaps] /\ LkgAfter(V) \in [Cell -> Nat]
      /\ \A d \in Cell : CapAfter(V)[d] = PinCapIn(V, d, CapAfter(V))
      /\ \A d \in Cell : LkgAfter(V)[d] = LeakageIn(V, d, LkgAfter(V))
  BY CapAfterDefined, LkgAfterDefined DEF IInv
<1>7. \A d \in Cell \ V : cap'[d] = cap[d] /\ lkg'[d] = lkg[d]
  <2> SUFFICES ASSUME NEW d \in Cell \ V PROVE cap'[d] = cap[d] /\ lkg'[d] = lkg[d]
    OBVIOUS
  <2>1. PinCapIn(V, d, CapAfter(V)) = [p \in Pin |-> cap[d][p]]
    BY DEF PinCapIn
  <2>2. cap[d] \in [Pin -> Nat]
    BY DEF IInv, DesignOK, TypeOK
  <2>3. LeakageIn(V, d, LkgAfter(V)) = lkg[d]
    BY DEF LeakageIn
  <2> QED BY <1>1, <1>6, <2>1, <2>2, <2>3
<1>9. ASSUME NEW d \in Cell, NEW k \in DOMAIN nets[d] PROVE Load(d, k, cap)' = Load(d, k, CapAfter(V))
  BY <1>1 DEF Load
<1>10. ASSUME NEW d \in Cell PROVE Leak(d, lkg)' = Leak(d, LkgAfter(V))
  BY <1>1 DEF Leak, InstsIn
<1>11. ASSUME NEW d \in Cell \ capInv', NEW k \in DOMAIN nets[d]
       PROVE  /\ netCap'[d][k] = Load(d, k, CapAfter(V))
              /\ \A p \in Pin :
                   Lists(nets[d][k], [inst |-> NoInst, pin |-> p]) => cap'[d][p] = netCap'[d][k]
  <2>1. CASE d \in V
    <3>1. netCap'[d][k] = Load(d, k, CapAfter(V))
      BY <1>1, <2>1
    <3>2. ASSUME NEW p \in Pin, Lists(nets[d][k], [inst |-> NoInst, pin |-> p])
          PROVE  cap'[d][p] = Load(d, k, CapAfter(V))
      <4> DEFINE t == [inst |-> NoInst, pin |-> p]
      <4>1. t \in Terminal
        BY DEF Terminal, Terminals
      <4>2. On(nets[d], t) = {k}
        BY <3>2, <4>1 DEF On, IInv, OneNetEach
      <4>3. (CHOOSE j \in On(nets[d], t) : TRUE) = k
        BY <4>2
      <4>4. PinCapIn(V, d, CapAfter(V))[p] = Load(d, CHOOSE j \in On(nets[d], t) : TRUE, CapAfter(V))
        BY <2>1, <4>2 DEF PinCapIn
      <4> QED BY <1>1, <1>6, <4>3, <4>4
    <3> QED BY <3>1, <3>2
  <2>2. CASE d \notin V
    <3>1. d \in Cell \ capInv
      BY <1>1, <2>2
    <3>2. ASSUME NEW i \in InstsIn(d) PROVE CapAfter(V)[of[i]] = cap[of[i]]
      <4>1. of[i] \in Cell \ capInv
        BY <3>1, ClearBelow
      <4> QED BY <1>1, <1>2, <1>7, <4>1
    <3>3. Load(d, k, CapAfter(V)) = Load(d, k, cap)
      BY <3>2, LoadIsLocal DEF IInv
    <3>4. netCap'[d] = netCap[d] /\ cap'[d] = cap[d]
      BY <1>1, <1>7, <2>2
    <3> QED BY <3>1, <3>3, <3>4 DEF IInv, ValuesAgree
  <2> QED BY <2>1, <2>2
<1>12. ASSUME NEW d \in Cell \ capInv', InstsIn(d) # {}
       PROVE  lkg'[d] = Leak(d, LkgAfter(V))
  <2>1. CASE d \in V
    BY <1>1, <1>6, <1>12, <2>1 DEF LeakageIn
  <2>2. CASE d \notin V
    <3>1. d \in Cell \ capInv
      BY <1>1, <2>2
    <3>2. ASSUME NEW i \in InstsIn(d) PROVE LkgAfter(V)[of[i]] = lkg[of[i]]
      <4>1. of[i] \in Cell \ capInv
        BY <3>1, ClearBelow
      <4> QED BY <1>1, <1>2, <1>7, <4>1
    <3>3. Leak(d, LkgAfter(V)) = Leak(d, lkg)
      BY <3>2, LeakIsLocal
    <3>4. lkg[d] = Leak(d, lkg)
      BY <1>12, <3>1 DEF IInv, ValuesAgree, SameBits
    <3> QED BY <1>7, <2>2, <3>3, <3>4
  <2> QED BY <2>1, <2>2
<1>13. ValuesAgree'
  <2>1. \A d \in Cell : InstsIn(d)' = InstsIn(d)
    BY <1>1 DEF InstsIn
  <2>2. capInv' = lkgInv'
    BY <1>4 DEF SameBits
  <2>3. ASSUME NEW d \in Cell \ capInv', NEW k \in DOMAIN nets'[d]
        PROVE  /\ netCap'[d][k] = Load(d, k, cap)'
               /\ \A p \in Pin :
                    Lists(nets'[d][k], [inst |-> NoInst, pin |-> p]) => cap'[d][p] = netCap'[d][k]
    <3>1. k \in DOMAIN nets[d] /\ nets'[d][k] = nets[d][k]
      BY <1>1
    <3>2. Load(d, k, cap)' = Load(d, k, CapAfter(V))
      BY <1>9, <3>1
    <3> QED BY <1>11, <3>1, <3>2
  <2>4. ASSUME NEW d \in Cell \ lkgInv', InstsIn(d)' # {}
        PROVE  lkg'[d] = Leak(d, lkg)'
    <3>1. Leak(d, lkg)' = Leak(d, LkgAfter(V))
      BY <1>10
    <3>2. d \in Cell \ capInv' /\ InstsIn(d) # {}
      BY <2>1, <2>2, <2>4
    <3> QED BY <1>12, <3>1, <3>2
  <2> QED BY <2>3, <2>4 DEF ValuesAgree
<1> QED BY <1>3, <1>4, <1>5, <1>13 DEF IInv

LEMMA InvKept == ~LateEdit /\ IInv /\ [Next]_vars => IInv'
<1> SUFFICES ASSUME ~LateEdit, IInv, [Next]_vars PROVE IInv'
  OBVIOUS
<1>0. DesignOK'
  BY DesignKept DEF IInv
<1>1. ASSUME NEW i \in Inst, NEW into \in Cell, NEW cell \in Cell, NewInst(i, into, cell) PROVE IInv'
  <2>1. /\ i \notin insts /\ insts' = insts \cup {i} /\ into \in capInv
        /\ of' = [of EXCEPT ![i] = cell] /\ parent' = [parent EXCEPT ![i] = into]
        /\ UNCHANGED <<nets, capInv, lkgInv, cap, netCap, lkg>>
    BY <1>1 DEF NewInst, Editable, bits, values
  <2>2. /\ of'[i] = cell /\ parent'[i] = into
        /\ \A j \in insts : of'[j] = of[j] /\ parent'[j] = parent[j]
    BY <2>1 DEF IInv, DesignOK, TypeOK
  <2>3. SameBits' /\ OneNetEach' /\ ChildrenClear'
    BY <2>1, <2>2 DEF IInv, SameBits, OneNetEach, ChildrenClear
  <2>4. \A c \in Cell \ capInv : InstsIn(c)' = InstsIn(c)
    BY <2>1, <2>2 DEF InstsIn
  <2>5. ValuesAgree'
    BY <2>1, <2>2, <2>4, AgreementKept
  <2> QED BY <1>0, <2>3, <2>5 DEF IInv
<1>2. CASE \E c \in Cell, a \in Terminal, b \in Terminal : Connect(c, a, b)
  BY <1>2, ConnectKeepsInv
<1>3. ASSUME NEW c \in Cell, NEW p \in Pin, NEW v \in Value, SetCapacitance(c, p, v) PROVE IInv'
  <2>1. /\ c \in capInv /\ cap' = [cap EXCEPT ![c][p] = v]
        /\ UNCHANGED <<insts, of, parent, nets, capInv, lkgInv, netCap, lkg>>
    BY <1>3 DEF SetCapacitance, Editable, design, bits
  <2>2. \A d \in Cell \ capInv : InstsIn(d)' = InstsIn(d) /\ cap'[d] = cap[d]
    BY <2>1 DEF InstsIn, IInv, DesignOK, TypeOK
  <2>3. ValuesAgree'
    BY <2>1, <2>2, AgreementKept
  <2> QED BY <1>0, <2>1, <2>3 DEF IInv, SameBits, ChildrenClear, OneNetEach
<1>4. ASSUME NEW c \in Cell, NEW v \in Value, SetLeakage(c, v) PROVE IInv'
  <2>1. /\ c \in capInv /\ lkg' = [lkg EXCEPT ![c] = v]
        /\ UNCHANGED <<insts, of, parent, nets, capInv, lkgInv, netCap, cap>>
    BY <1>4 DEF SetLeakage, Editable, design, bits
  <2>2. \A d \in Cell \ capInv : InstsIn(d)' = InstsIn(d) /\ lkg'[d] = lkg[d]
    BY <2>1 DEF InstsIn, IInv, DesignOK, TypeOK
  <2>3. ValuesAgree'
    BY <2>1, <2>2, AgreementKept
  <2> QED BY <1>0, <2>1, <2>3 DEF IInv, SameBits, ChildrenClear, OneNetEach
<1>5. CASE \E c \in Cell : Update(c)
  BY <1>5, UpdateKeepsInv
<1>6. CASE UNCHANGED vars
  <2>1. UNCHANGED <<insts, of, parent, nets, capInv, lkgInv, netCap, cap, lkg>>
    BY <1>6 DEF vars, design, bits, values
  <2>2. \A d : InstsIn(d)' = InstsIn(d)
    BY <2>1 DEF InstsIn
  <2>3. ValuesAgree'
    BY <2>1, <2>2, AgreementKept
  <2> QED BY <1>0, <2>1, <2>3 DEF IInv, SameBits, ChildrenClear, OneNetEach
<1> QED BY <1>1, <1>2, <1>3, <1>4, <1>5, <1>6 DEF Next

-------------------------------------------------------------------------------

(* While cells are edited before their first update only, a value whose bit is     *)
(* clear is that of what is connected and placed (phx_cell_update).                *)
THEOREM ValuesAreRight == ~LateEdit /\ Spec => []ValuesAgree
<1> SUFFICES ASSUME ~LateEdit PROVE Spec => []ValuesAgree
  OBVIOUS
<1>1. IInv => ValuesAgree
  BY DEF IInv
<1>2. IInv /\ [Next]_vars => IInv'
  BY InvKept
<1> QED BY <1>1, <1>2, InitInv, PTL DEF Spec

(* And nothing in the hierarchy below it waits for an update.                      *)
THEOREM NothingBelowWaits == ~LateEdit /\ Spec => []NothingWaitsBelow
<1> SUFFICES ASSUME ~LateEdit PROVE Spec => []NothingWaitsBelow
  OBVIOUS
<1>1. IInv => NothingWaitsBelow
  <2> SUFFICES ASSUME IInv, NEW c \in Cell \ capInv PROVE Below(c) \cap capInv = {}
    BY DEF NothingWaitsBelow, IInv, SameBits
  <2>1. \A i \in insts : parent[i] \in Cell \ capInv => of[i] \in Cell \ capInv
    BY DEF IInv, DesignOK, TypeOK, ChildrenClear
  <2>2. Below(c) \subseteq Cell \ capInv
    BY <2>1, BelowFacts DEF IInv, DesignOK
  <2> QED BY <2>2
<1>2. IInv /\ [Next]_vars => IInv'
  BY InvKept
<1> QED BY <1>1, <1>2, InitInv, PTL DEF Spec

===============================================================================
