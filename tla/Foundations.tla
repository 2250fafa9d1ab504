----------------------------- MODULE Foundations ------------------------------
(* What the other proofs rest on: what is reached along a relation, functions     *)
(* defined by recursion, and the largest of a set of numbers.                     *)
EXTENDS Reachability, FiniteSetsExt, WellFoundedInduction, TLAPS

-------------------------------------------------------------------------------
(* Reachability, for any set of nodes.                                            *)

(* A walk visits where it starts.                                              *)
LEMMA ReachContains ==
  ASSUME NEW node, NEW start \in SUBSET node, NEW step
  PROVE  start \subseteq Reach(node, start, step)
BY DEF Reach

(* A walk visits what it can step to.                                          *)
LEMMA ReachClosed ==
  ASSUME NEW node, NEW start, NEW step \in SUBSET (node \X node)
  PROVE  ClosedUnder(Reach(node, start, step), step)
<1> SUFFICES ASSUME NEW e \in step, e[1] \in Reach(node, start, step)
             PROVE  e[2] \in Reach(node, start, step)
  BY DEF ClosedUnder
<1>1. e[2] \in node
  OBVIOUS
<1>2. ASSUME NEW S \in SUBSET node, start \subseteq S, ClosedUnder(S, step)
      PROVE  e[2] \in S
  BY <1>2 DEF Reach, ClosedUnder
<1> QED BY <1>1, <1>2 DEF Reach

(* A walk visits nothing else: it stays in every closed set it starts in.      *)
LEMMA ReachLeast ==
  ASSUME NEW node, NEW start, NEW step, NEW S \in SUBSET node,
         start \subseteq S, ClosedUnder(S, step)
  PROVE  Reach(node, start, step) \subseteq S
BY DEF Reach

(* More pairs reach more.                                                      *)
LEMMA ReachMonotone ==
  ASSUME NEW node, NEW start \in SUBSET node,
         NEW more \in SUBSET (node \X node), NEW step \in SUBSET more
  PROVE  Reach(node, start, step) \subseteq Reach(node, start, more)
<1>1. start \subseteq Reach(node, start, more)
  BY ReachContains
<1>2. ClosedUnder(Reach(node, start, more), more)
  BY ReachClosed
<1>3. ClosedUnder(Reach(node, start, more), step)
  BY <1>2 DEF ClosedUnder
<1>4. Reach(node, start, more) \in SUBSET node
  BY DEF Reach
<1> QED BY <1>1, <1>3, <1>4, ReachLeast

(* What is reached from something reached is reached.                          *)
LEMMA ReachTransitive ==
  ASSUME NEW node, NEW step \in SUBSET (node \X node),
         NEW x \in node, NEW y \in Reach(node, {x}, step)
  PROVE  Reach(node, {y}, step) \subseteq Reach(node, {x}, step)
<1>1. ClosedUnder(Reach(node, {x}, step), step)
  BY ReachClosed
<1>2. Reach(node, {x}, step) \in SUBSET node
  BY DEF Reach
<1> QED BY <1>1, <1>2, ReachLeast

-------------------------------------------------------------------------------
(* Recursion along a well-founded relation.                                       *)

\* F gives the next value at n from those at the elements below n.
Local(F, R, N, X) ==
  /\ F \in [[N -> X] -> [N -> X]]
  /\ \A g, h \in [N -> X] : \A n \in N :
       (\A m \in N : <<m, n>> \in R => g[m] = h[m]) => F[g][n] = F[h][n]

(* A function that is defined by recursion along a well-founded relation exists. *)
LEMMA Recursion ==
  ASSUME NEW N, NEW R, IsWellFoundedOn(R, N), NEW X, X # {},
         NEW F, Local(F, R, N, X)
  PROVE  \E f \in [N -> X] : f = F[f]
<1> DEFINE Down(S) == \A n \in S : \A m \in N : <<m, n>> \in R => m \in S
           Solves(f, S) == \A n \in S : f[n] = F[f][n]
           U == {n \in N : \E S \in SUBSET N : n \in S /\ Down(S) /\ \E f \in [N -> X] : Solves(f, S)}
<1>type. F \in [[N -> X] -> [N -> X]]
  BY DEF Local
<1>local. ASSUME NEW g \in [N -> X], NEW h \in [N -> X], NEW n \in N,
                 \A m \in N : <<m, n>> \in R => g[m] = h[m]
          PROVE  F[g][n] = F[h][n]
  BY <1>local DEF Local
\* Two solutions agree where both are.
<1>1. ASSUME NEW S \in SUBSET N, Down(S), NEW f \in [N -> X], Solves(f, S),
             NEW T \in SUBSET N, Down(T), NEW g \in [N -> X], Solves(g, T)
      PROVE  \A n \in S \cap T : f[n] = g[n]
  <2> DEFINE D == {n \in S \cap T : f[n] # g[n]}
  <2> SUFFICES ASSUME D # {} PROVE FALSE
    OBVIOUS
  <2>1. D \subseteq N
    OBVIOUS
  <2> HIDE DEF D
  <2>2. PICK n \in D : \A m \in D : <<m, n>> \notin R
    BY <2>1, WFMin
  <2> USE DEF D
  <2>3. \A m \in N : <<m, n>> \in R => f[m] = g[m]
    BY <1>1, <2>2
  <2>4. F[f][n] = F[g][n]
    BY <2>3, <1>local
  <2> QED BY <1>1, <2>4
\* The solution where there is one.
<1> DEFINE Val(n) == CHOOSE v \in X : \E S \in SUBSET N : n \in S /\ Down(S) /\
                       \E f \in [N -> X] : Solves(f, S) /\ v = f[n]
           any == CHOOSE v \in X : TRUE
           u == [n \in N |-> IF n \in U THEN Val(n) ELSE any]
<1>2. ASSUME NEW S \in SUBSET N, Down(S), NEW f \in [N -> X], Solves(f, S), NEW n \in S
      PROVE  n \in U /\ Val(n) = f[n]
  <2>1. n \in U
    BY <1>2
  <2>2. \E v \in X : \E T \in SUBSET N : n \in T /\ Down(T) /\ \E g \in [N -> X] : Solves(g, T) /\ v = g[n]
    BY <1>2
  <2>3. PICK T \in SUBSET N, g \in [N -> X] : n \in T /\ Down(T) /\ Solves(g, T) /\ Val(n) = g[n]
    BY <2>2
  <2>4. f[n] = g[n]
    BY <1>1, <1>2, <2>3
  <2> QED BY <2>1, <2>3, <2>4
<1>3. u \in [N -> X]
  <2>1. ASSUME NEW n \in U PROVE Val(n) \in X
    <3>1. PICK S \in SUBSET N, f \in [N -> X] : n \in S /\ Down(S) /\ Solves(f, S)
      OBVIOUS
    <3>2. Val(n) = f[n]
      BY <1>2, <3>1
    <3> QED BY <3>1, <3>2
  <2>2. any \in X
    OBVIOUS
  <2> HIDE DEF U, any, Val
  <2> QED BY <2>1, <2>2
<1>4. Down(U)
  OBVIOUS
<1>5. Solves(u, U)
  <2> SUFFICES ASSUME NEW n \in U PROVE u[n] = F[u][n]
    OBVIOUS
  <2>1. PICK S \in SUBSET N, f \in [N -> X] : n \in S /\ Down(S) /\ Solves(f, S)
    OBVIOUS
  <2>2. ASSUME NEW m \in S PROVE u[m] = f[m]
    <3>1. m \in N /\ m \in U /\ Val(m) = f[m]
      <4> HIDE DEF U, Val, Down, Solves
      <4> QED BY <1>2, <2>1
    <3> HIDE DEF U, Val
    <3> QED BY <3>1
  <2>3. \A m \in N : <<m, n>> \in R => u[m] = f[m]
    BY <2>1, <2>2
  <2>4. F[u][n] = F[f][n]
    <3> HIDE DEF u, U
    <3> QED BY <1>3, <2>1, <2>3, <1>local
  <2>5. u[n] = f[n] /\ f[n] = F[f][n]
    BY <2>1, <2>2
  <2> QED BY <2>4, <2>5, Zenon
<1>6. U = N
  <2> SUFFICES ASSUME N \ U # {} PROVE FALSE
    OBVIOUS
  <2>1. PICK n \in N \ U : \A m \in N \ U : <<m, n>> \notin R
    <3>1. N \ U \subseteq N
      OBVIOUS
    <3> HIDE DEF U
    <3> QED BY <3>1, WFMin
  <2> DEFINE f == [u EXCEPT ![n] = F[u][n]]
             S == U \cup {n}
  <2>2. f \in [N -> X]
    <3>1. F[u] \in [N -> X]
      BY <1>3, <1>type
    <3> HIDE DEF u
    <3> QED BY <1>3, <3>1
  <2>3. Down(S)
    BY <1>4, <2>1
  <2>4. \A m \in U : f[m] = u[m]
    <3> HIDE DEF u, U
    <3> QED BY <1>3, <2>1, <1>type
  <2>5. \A k \in S : \A m \in N : <<m, k>> \in R => f[m] = u[m]
    <3> HIDE DEF U, u, f
    <3> QED BY <1>4, <2>1, <2>4
  <2>6. \A k \in S : F[f][k] = F[u][k]
    <3>1. \A k \in S : k \in N
      OBVIOUS
    <3> HIDE DEF u, f, S, U
    <3> QED BY <1>3, <2>2, <2>5, <3>1, <1>local
  <2>7. Solves(f, S)
    <3>1. f[n] = F[u][n]
      <4> HIDE DEF u
      <4> QED BY <1>3, <1>type
    <3>2. \A k \in U : u[k] = F[u][k]
      BY <1>5
    <3>3. \A k \in S : f[k] = F[u][k]
      <4> HIDE DEF u, f, U
      <4> QED BY <2>4, <3>1, <3>2
    <3> HIDE DEF u, f, U
    <3> QED BY <2>6, <3>3
  <2>8. n \in U
    <3>1. S \in SUBSET N /\ n \in S
      OBVIOUS
    <3> HIDE DEF f, u, S, Down, Solves
    <3>2. \E g \in [N -> X] : Solves(g, S)
      BY <2>2, <2>7
    <3> QED BY <2>1, <2>3, <3>1, <3>2
  <2> QED BY <2>1, <2>8
<1>7. u = F[u]
  <2> HIDE DEF u, U
  <2>1. F[u] \in [N -> X]
    BY <1>3, <1>type
  <2>2. \A n \in N : u[n] = F[u][n]
    BY <1>5, <1>6
  <2> QED BY <1>3, <2>1, <2>2
<1> QED
  <2> HIDE DEF u
  <2> QED BY <1>3, <1>7

(* Numbers order what they are given to. *)
LEMMA RankIsWellFounded ==
  ASSUME NEW N, NEW rank \in [N -> Nat]
  PROVE  IsWellFoundedOn({e \in N \X N : rank[e[1]] < rank[e[2]]}, N)
<1> DEFINE R == {e \in N \X N : rank[e[1]] < rank[e[2]]}
<1>1. ASSUME NEW T \in SUBSET N, T # {}
      PROVE  \E x \in T : \A y \in T : <<y, x>> \notin R
  <2> DEFINE ranks == {rank[x] : x \in T}
  <2>1. ranks \subseteq Nat /\ ranks # {}
    BY <1>1
  <2>2. PICK k \in ranks : \A j \in ranks : <<j, k>> \notin OpToRel(<, Nat)
    <3> HIDE DEF ranks
    <3> QED BY <2>1, WFMin, NatLessThanWellFounded
  <2>3. PICK x \in T : k = rank[x]
    OBVIOUS
  <2>4. ASSUME NEW y \in T, <<y, x>> \in R PROVE FALSE
    <3>1. rank[y] < rank[x] /\ rank[y] \in Nat /\ rank[x] \in Nat /\ rank[y] \in ranks
      BY <2>4
    <3> QED BY <2>2, <2>3, <3>1 DEF OpToRel
  <2> QED BY <2>4
<1> HIDE DEF R
<1>2. IsWellFoundedOn(R, N)
  BY <1>1, MinWF
<1> QED BY <1>2 DEF R

-------------------------------------------------------------------------------
(* The largest of a set of numbers.                                               *)

(* A set of numbers that has a bound has a largest number. *)
LEMMA LargestThere ==
  ASSUME NEW n \in Nat, NEW S \in SUBSET (0 .. n), S # {}
  PROVE  Max(S) \in S /\ \A x \in S : x <= Max(S)
<1> DEFINE T == {n - x : x \in S}
<1>1. T \subseteq Nat /\ T # {}
  <2>1. \A x \in S : n - x \in Nat
    OBVIOUS
  <2> QED BY <2>1
<1>2. PICK t \in T : \A u \in T : <<u, t>> \notin OpToRel(<, Nat)
  <2> HIDE DEF T
  <2> QED BY <1>1, WFMin, NatLessThanWellFounded
<1>3. PICK m \in S : t = n - m
  OBVIOUS
<1>4. ASSUME NEW x \in S PROVE m >= x
  <2>1. n - x \in T /\ n - x \in Nat /\ n - m \in Nat
    OBVIOUS
  <2>2. <<n - x, n - m>> \notin OpToRel(<, Nat)
    BY <1>2, <1>3, <2>1
  <2>3. ~(n - x < n - m)
    BY <2>1, <2>2 DEF OpToRel
  <2> QED BY <2>3
<1>5. Max(S) \in S /\ \A y \in S : Max(S) >= y
  BY <1>4 DEF Max
<1> QED BY <1>5

===============================================================================
