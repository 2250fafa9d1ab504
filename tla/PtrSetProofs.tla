---------------------------- MODULE PtrSetProofs -----------------------------
(* The pointer set implements its specification, for every set of pointers.    *)
EXTENDS PtrSet, TLAPS

\* Pointers are numbers, and the block holds only pointers up to its size.
LEMMA PtrNat == Ptr \subseteq Nat /\ Junk \notin Ptr
BY PtrAssumption, JunkAssumption

(* The empty block satisfies the invariant.                                    *)
LEMMA InitIInv == Init => IInv
<1> SUFFICES ASSUME Init PROVE IInv
  OBVIOUS
<1>1. 0 .. size - 1 = {} /\ 0 .. capacity - 1 = {}
  BY DEF Init
<1>2. TypeOK
  <2>1. items \in [{} -> Ptr \cup {Junk}]
    BY DEF Init
  <2>2. items \in [0 .. capacity - 1 -> Ptr \cup {Junk}]
    BY <1>1, <2>1
  <2>3. /\ size \in Nat /\ capacity \in Nat /\ size <= capacity
        /\ start \in Nat /\ end \in Nat /\ pos \in Nat
    BY DEF Init
  <2>4. pc = "idle" /\ op \in Operation /\ key \in Ptr
    BY DEF Init, Operation
  <2>5. result \in BOOLEAN
    BY DEF Init
  <2> QED BY <1>1, <2>2, <2>3, <2>4, <2>5 DEF TypeOK
<1> QED BY <1>1, <1>2 DEF Init, IInv, Sorted, SearchIsRight

(* A round of the search keeps it.                                             *)
LEMMA HalveStep == ASSUME IInv, Halve PROVE IInv'
<1> DEFINE mid == start + (end - start) \div 2
<1>1. /\ pc = "search" /\ start < end /\ start \in Nat /\ end \in Nat /\ end <= size /\ size \in Nat
      /\ key \in Ptr /\ key \in Nat
  BY PtrNat DEF IInv, TypeOK, Halve
<1>2. mid \in Nat /\ start <= mid /\ mid < end
  BY <1>1
<1>3. \/ key < items[mid] /\ end' = mid /\ UNCHANGED <<pc, start, pos>>
      \/ key > items[mid] /\ start' = mid + 1 /\ UNCHANGED <<pc, end, pos>>
      \/ key = items[mid] /\ pc' = "found" /\ pos' = mid /\ UNCHANGED <<start, end>>
  BY DEF Halve
<1>4. UNCHANGED <<items, size, capacity, op, key, result>>
  BY DEF Halve, block
<1> HIDE DEF mid
<1>5. \A k \in 0 .. size - 1 : items[k] \in Nat
  BY PtrNat DEF IInv, TypeOK
<1>6. \A j, k \in 0 .. size - 1 : j < k => items[j] < items[k]
  BY DEF IInv, Sorted
<1>7. /\ \A k \in 0 .. start - 1 : items[k] < key
      /\ \A k \in end .. size - 1 : items[k] > key
  BY <1>1 DEF IInv, SearchIsRight
<1>8. mid \in 0 .. size - 1
  BY <1>1, <1>2
<1>9. TypeOK'
  BY <1>1, <1>2, <1>3, <1>4 DEF IInv, TypeOK
<1>10. Sorted'
  BY <1>4 DEF IInv, Sorted
<1>11. SearchIsRight'
  <2>1. CASE key < items[mid] /\ end' = mid /\ UNCHANGED <<pc, start, pos>>
    <3>1. \A k \in mid .. size - 1 : items[k] > key
      <4> TAKE k \in mid .. size - 1
      <4>1. k \in 0 .. size - 1 /\ (k = mid \/ mid < k)
        BY <1>1, <1>2
      <4>2. items[k] \in Nat /\ items[mid] \in Nat /\ (mid < k => items[mid] < items[k])
        BY <4>1, <1>5, <1>6, <1>8
      <4> QED BY <4>1, <4>2, <2>1, <1>1
    <3> QED BY <2>1, <3>1, <1>1, <1>4, <1>7 DEF SearchIsRight
  <2>2. CASE key > items[mid] /\ start' = mid + 1 /\ UNCHANGED <<pc, end, pos>>
    <3>1. \A k \in 0 .. mid : items[k] < key
      <4> TAKE k \in 0 .. mid
      <4>1. k \in 0 .. size - 1 /\ (k = mid \/ k < mid)
        BY <1>1, <1>2
      <4>2. items[k] \in Nat /\ items[mid] \in Nat /\ (k < mid => items[k] < items[mid])
        BY <4>1, <1>5, <1>6, <1>8
      <4> QED BY <4>1, <4>2, <2>2, <1>1
    <3>2. 0 .. (mid + 1) - 1 = 0 .. mid
      BY <1>2
    <3> QED BY <2>2, <3>1, <3>2, <1>1, <1>4, <1>7 DEF SearchIsRight
  <2>3. CASE key = items[mid] /\ pc' = "found" /\ pos' = mid /\ UNCHANGED <<start, end>>
    BY <2>3, <1>1, <1>2, <1>4 DEF SearchIsRight
  <2> QED BY <1>3, <2>1, <2>2, <2>3
<1> QED BY <1>9, <1>10, <1>11 DEF IInv

\* A call that leaves the block alone and returns.
ReturnsOnly == UNCHANGED block /\ pc' = "idle" /\ result' \in BOOLEAN /\ UNCHANGED <<op, key, search>>

(* Beginning a call, missing, and returning without a change keep it.          *)
LEMMA QuietStep ==
  ASSUME IInv,
         \/ \E o \in Operation, ptr \in Ptr : Call(o, ptr)
         \/ Miss
         \/ ReturnsOnly
         \/ UNCHANGED vars
  PROVE  IInv'
<1>1. Sorted'
  BY DEF IInv, Sorted, Call, Miss, ReturnsOnly, vars, block
<1>2. CASE \E o \in Operation, ptr \in Ptr : Call(o, ptr)
  <2>1. TypeOK'
    BY <1>2 DEF IInv, TypeOK, Call, block
  <2>2. SearchIsRight'
    BY <1>2 DEF IInv, TypeOK, SearchIsRight, Call, block
  <2> QED BY <1>1, <2>1, <2>2 DEF IInv
<1>3. CASE Miss
  <2>1. TypeOK'
    BY <1>3 DEF IInv, TypeOK, Miss, block
  <2>2. SearchIsRight'
    <3>1. start = end /\ start <= size
      BY <1>3 DEF IInv, TypeOK, Miss
    <3> QED BY <1>3, <3>1 DEF IInv, TypeOK, SearchIsRight, Miss, block
  <2> QED BY <1>1, <2>1, <2>2 DEF IInv
<1>4. CASE ReturnsOnly
  BY <1>1, <1>4 DEF IInv, TypeOK, SearchIsRight, ReturnsOnly, block, search
<1>5. CASE UNCHANGED vars
  BY <1>1, <1>5 DEF IInv, TypeOK, SearchIsRight, vars, block, search
<1> QED BY <1>2, <1>3, <1>4, <1>5

-----------------------------------------------------------------------------
\* Inserting and removing.

(* What an insertion makes of the block.                                       *)
LEMMA AddBlock ==
  ASSUME IInv, Add
  PROVE  /\ pc = "absent" /\ key \in Ptr /\ key \in Nat
         /\ size \in Nat /\ pos \in Nat /\ pos <= size /\ size' = size + 1
         /\ capacity' \in Nat /\ size' <= capacity'
         /\ items' \in [0 .. capacity' - 1 -> Ptr \cup {Junk}]
         /\ \A k \in 0 .. pos - 1 : items'[k] = items[k]
         /\ items'[pos] = key
         /\ \A k \in pos + 1 .. size : items'[k] = items[k - 1]
<1>1. /\ size \in Nat /\ capacity \in Nat /\ size <= capacity /\ pos \in Nat /\ pos <= size
      /\ key \in Ptr /\ key \in Nat /\ pc = "absent" /\ size' = size + 1
      /\ capacity' = GrownCapacity /\ items' = Inserted
      /\ items \in [0 .. capacity - 1 -> Ptr \cup {Junk}]
  BY PtrNat DEF IInv, TypeOK, SearchIsRight, Add
<1>2. GrownCapacity \in Nat /\ size + 1 <= GrownCapacity /\ capacity <= GrownCapacity
  BY <1>1 DEF GrownCapacity
<1>3. \A k \in 0 .. capacity - 1 : items[k] \in Ptr \cup {Junk}
  BY <1>1
<1> DEFINE at(k) == IF k < pos THEN items[k]
                    ELSE IF k = pos THEN key
                    ELSE IF k <= size THEN items[k - 1]
                    ELSE IF k < capacity THEN items[k] ELSE Junk
<1>4. \A k \in 0 .. GrownCapacity - 1 : at(k) \in Ptr \cup {Junk}
  <2> TAKE k \in 0 .. GrownCapacity - 1
  <2>1. /\ k < pos => k \in 0 .. capacity - 1
        /\ (k <= size /\ k > pos) => k - 1 \in 0 .. capacity - 1
        /\ k < capacity => k \in 0 .. capacity - 1
        /\ k \in Int
    BY <1>1, <1>2
  <2>2. k < pos \/ k = pos \/ (k > pos /\ k <= size) \/ (k > pos /\ k > size)
    BY <1>1, <2>1
  <2> QED BY <1>1, <1>3, <2>1, <2>2
<1>5. items' = [k \in 0 .. GrownCapacity - 1 |-> at(k)]
  BY <1>1 DEF Inserted
<1>6. items' \in [0 .. GrownCapacity - 1 -> Ptr \cup {Junk}]
  <2> HIDE DEF at
  <2> QED BY <1>4, <1>5
<1>7. \A k \in 0 .. size : items'[k] = at(k)
  <2>1. \A k \in 0 .. size : k \in 0 .. GrownCapacity - 1
    BY <1>1, <1>2
  <2> HIDE DEF at
  <2> QED BY <1>5, <2>1
<1>8. \A k \in 0 .. pos - 1 : items'[k] = items[k]
  <2>1. \A k \in 0 .. pos - 1 : k \in 0 .. size /\ k < pos
    BY <1>1
  <2> QED BY <1>7, <2>1
<1>9. items'[pos] = key
  <2>1. pos \in 0 .. size /\ ~(pos < pos)
    BY <1>1
  <2> QED BY <1>7, <2>1
<1>10. \A k \in pos + 1 .. size : items'[k] = items[k - 1]
  <2>1. \A k \in pos + 1 .. size : k \in 0 .. size /\ ~(k < pos) /\ k # pos /\ k <= size
    BY <1>1
  <2> QED BY <1>7, <2>1
<1> QED BY <1>1, <1>2, <1>6, <1>8, <1>9, <1>10

(* What a removal makes of the block.                                          *)
LEMMA RemoveBlock ==
  ASSUME IInv, Remove
  PROVE  /\ pc = "found" /\ key \in Ptr /\ key \in Nat /\ items[pos] = key
         /\ size \in Nat /\ pos \in Nat /\ pos < size /\ size' = size - 1
         /\ capacity' = capacity /\ capacity \in Nat /\ size <= capacity
         /\ items' \in [0 .. capacity - 1 -> Ptr \cup {Junk}]
         /\ \A k \in 0 .. pos - 1 : items'[k] = items[k]
         /\ \A k \in pos .. size - 2 : items'[k] = items[k + 1]
<1>1. /\ size \in Nat /\ capacity \in Nat /\ size <= capacity /\ pos \in Nat /\ pos < size
      /\ key \in Ptr /\ key \in Nat /\ pc = "found" /\ size' = size - 1 /\ items[pos] = key
      /\ capacity' = capacity /\ items' = Removed
      /\ items \in [0 .. capacity - 1 -> Ptr \cup {Junk}]
  BY PtrNat DEF IInv, TypeOK, SearchIsRight, Remove
<1>2. \A k \in 0 .. capacity - 1 : items[k] \in Ptr \cup {Junk}
  BY <1>1
<1> DEFINE at(k) == IF pos <= k /\ k < size - 1 THEN items[k + 1] ELSE items[k]
<1>3. \A k \in 0 .. capacity - 1 : at(k) \in Ptr \cup {Junk}
  <2> TAKE k \in 0 .. capacity - 1
  <2>1. k < size - 1 => k + 1 \in 0 .. capacity - 1
    BY <1>1
  <2> QED BY <1>2, <2>1
<1>4. items' = [k \in 0 .. capacity - 1 |-> at(k)]
  BY <1>1 DEF Removed
<1>5. items' \in [0 .. capacity - 1 -> Ptr \cup {Junk}]
  <2> HIDE DEF at
  <2> QED BY <1>3, <1>4
<1>6. \A k \in 0 .. size - 1 : items'[k] = at(k)
  <2>1. \A k \in 0 .. size - 1 : k \in 0 .. capacity - 1
    BY <1>1
  <2> HIDE DEF at
  <2> QED BY <1>4, <2>1
<1>7. \A k \in 0 .. pos - 1 : items'[k] = items[k]
  <2>1. \A k \in 0 .. pos - 1 : k \in 0 .. size - 1 /\ ~(pos <= k)
    BY <1>1
  <2> QED BY <1>6, <2>1
<1>8. \A k \in pos .. size - 2 : items'[k] = items[k + 1]
  <2>1. \A k \in pos .. size - 2 : k \in 0 .. size - 1 /\ pos <= k /\ k < size - 1
    BY <1>1
  <2> QED BY <1>6, <2>1
<1> QED BY <1>1, <1>5, <1>7, <1>8

(* Inserting keeps the invariant.                                              *)
LEMMA AddStep == ASSUME IInv, Add PROVE IInv'
<1>1. /\ pc = "absent" /\ key \in Ptr /\ key \in Nat
      /\ size \in Nat /\ pos \in Nat /\ pos <= size /\ size' = size + 1
      /\ capacity' \in Nat /\ size' <= capacity'
      /\ items' \in [0 .. capacity' - 1 -> Ptr \cup {Junk}]
      /\ \A k \in 0 .. pos - 1 : items'[k] = items[k]
      /\ items'[pos] = key
      /\ \A k \in pos + 1 .. size : items'[k] = items[k - 1]
  BY AddBlock
<1>2. pc' = "idle" /\ result' \in BOOLEAN /\ UNCHANGED <<op, key, start, end, pos>>
  BY DEF Add, Return, search
<1>3. \A k \in 0 .. size - 1 : items[k] \in Ptr /\ items[k] \in Nat
  BY PtrNat DEF IInv, TypeOK
<1>4. \A j, k \in 0 .. size - 1 : j < k => items[j] < items[k]
  BY DEF IInv, Sorted
<1>5. /\ \A k \in 0 .. pos - 1 : items[k] < key
      /\ \A k \in pos .. size - 1 : items[k] > key
  BY <1>1 DEF IInv, SearchIsRight
<1>6. \A k \in 0 .. size' - 1 :
        \/ k \in 0 .. pos - 1 /\ k \in 0 .. size - 1 /\ items'[k] = items[k]
        \/ k = pos /\ items'[k] = key
        \/ k \in pos + 1 .. size /\ k - 1 \in pos .. size - 1 /\ k - 1 \in 0 .. size - 1
           /\ items'[k] = items[k - 1]
  <2> TAKE k \in 0 .. size' - 1
  <2>1. k \in Int /\ 0 <= k /\ k <= size
    BY <1>1
  <2>2. CASE k < pos
    <3>1. k \in 0 .. pos - 1 /\ k \in 0 .. size - 1
      BY <1>1, <2>1, <2>2
    <3> QED BY <1>1, <3>1
  <2>3. CASE k = pos
    BY <1>1, <2>3
  <2>4. CASE k > pos
    <3>1. k \in pos + 1 .. size /\ k - 1 \in pos .. size - 1 /\ k - 1 \in 0 .. size - 1
      BY <1>1, <2>1, <2>4
    <3> QED BY <1>1, <3>1
  <2>5. k < pos \/ k = pos \/ k > pos
    BY <1>1, <2>1
  <2> QED BY <2>2, <2>3, <2>4, <2>5
<1>7. \A k \in 0 .. size' - 1 : items'[k] \in Ptr
  BY <1>1, <1>3, <1>6
<1>8. Sorted'
  <2> SUFFICES ASSUME NEW j \in 0 .. size' - 1, NEW k \in 0 .. size' - 1, j < k
               PROVE  items'[j] < items'[k]
    BY DEF Sorted
  <2>1. j \in Int /\ k \in Int
    OBVIOUS
  <2>2. CASE j \in 0 .. pos - 1 /\ j \in 0 .. size - 1 /\ items'[j] = items[j]
    <3>1. CASE k \in 0 .. pos - 1 /\ k \in 0 .. size - 1 /\ items'[k] = items[k]
      BY <2>2, <3>1, <1>4
    <3>2. CASE k = pos /\ items'[k] = key
      BY <2>2, <3>2, <1>5
    <3>3. CASE k \in pos + 1 .. size /\ k - 1 \in pos .. size - 1 /\ k - 1 \in 0 .. size - 1
               /\ items'[k] = items[k - 1]
      <4>1. j < k - 1
        BY <2>2, <3>3, <1>1
      <4> QED BY <2>2, <3>3, <4>1, <1>4
    <3> QED BY <1>6, <3>1, <3>2, <3>3
  <2>3. CASE j = pos /\ items'[j] = key
    <3>1. k \in pos + 1 .. size /\ k - 1 \in pos .. size - 1 /\ k - 1 \in 0 .. size - 1
          /\ items'[k] = items[k - 1]
      <4>1. k > pos
        BY <2>1, <2>3
      <4>2. k \notin 0 .. pos - 1 /\ k # pos
        BY <2>1, <4>1, <1>1
      <4> QED BY <4>2, <1>6
    <3>2. items[k - 1] \in Nat /\ items[k - 1] > key
      BY <3>1, <1>3, <1>5
    <3> QED BY <2>3, <3>1, <3>2, <1>1
  <2>4. CASE j \in pos + 1 .. size /\ j - 1 \in pos .. size - 1 /\ j - 1 \in 0 .. size - 1
             /\ items'[j] = items[j - 1]
    <3>1. k \in pos + 1 .. size /\ k - 1 \in pos .. size - 1 /\ k - 1 \in 0 .. size - 1
          /\ items'[k] = items[k - 1]
      <4>1. k > pos
        BY <2>1, <2>4, <1>1
      <4>2. k \notin 0 .. pos - 1 /\ k # pos
        BY <2>1, <4>1, <1>1
      <4> QED BY <4>2, <1>6
    <3>2. j - 1 < k - 1
      BY <2>1
    <3> QED BY <2>4, <3>1, <3>2, <1>4
  <2> QED BY <1>6, <2>2, <2>3, <2>4
<1>9. TypeOK'
  <2>1. size' \in Nat /\ start' \in Nat /\ end' \in Nat /\ pos' \in Nat /\ op' \in Operation
        /\ key' \in Ptr
    BY <1>1, <1>2 DEF IInv, TypeOK
  <2> QED BY <1>1, <1>2, <1>7, <2>1 DEF TypeOK
<1>10. SearchIsRight'
  BY <1>2 DEF SearchIsRight
<1> QED BY <1>8, <1>9, <1>10 DEF IInv

(* Removing keeps the invariant.                                               *)
LEMMA RemoveStep == ASSUME IInv, Remove PROVE IInv'
<1>1. /\ pc = "found" /\ key \in Ptr /\ key \in Nat /\ items[pos] = key
      /\ size \in Nat /\ pos \in Nat /\ pos < size /\ size' = size - 1
      /\ capacity' = capacity /\ capacity \in Nat /\ size <= capacity
      /\ items' \in [0 .. capacity - 1 -> Ptr \cup {Junk}]
      /\ \A k \in 0 .. pos - 1 : items'[k] = items[k]
      /\ \A k \in pos .. size - 2 : items'[k] = items[k + 1]
  BY RemoveBlock
<1>2. pc' = "idle" /\ result' \in BOOLEAN /\ UNCHANGED <<op, key, start, end, pos>>
  BY DEF Remove, Return, search
<1>3. \A k \in 0 .. size - 1 : items[k] \in Ptr
  BY DEF IInv, TypeOK
<1>4. \A j, k \in 0 .. size - 1 : j < k => items[j] < items[k]
  BY DEF IInv, Sorted
<1>5. \A k \in 0 .. size' - 1 :
        \/ k \in 0 .. pos - 1 /\ k \in 0 .. size - 1 /\ items'[k] = items[k]
        \/ k \in pos .. size - 2 /\ k + 1 \in 0 .. size - 1 /\ items'[k] = items[k + 1]
  BY <1>1
<1>6. \A k \in 0 .. size' - 1 : items'[k] \in Ptr
  BY <1>3, <1>5
<1>7. Sorted'
  <2> SUFFICES ASSUME NEW j \in 0 .. size' - 1, NEW k \in 0 .. size' - 1, j < k
               PROVE  items'[j] < items'[k]
    BY DEF Sorted
  <2>1. PICK m \in 0 .. size - 1 : items'[j] = items[m] /\ (m = j \/ m = j + 1) /\ (m = j <=> j < pos)
    BY <1>1, <1>5
  <2>2. PICK n \in 0 .. size - 1 : items'[k] = items[n] /\ (n = k \/ n = k + 1) /\ (n = k <=> k < pos)
    BY <1>1, <1>5
  <2>3. m < n
    BY <2>1, <2>2, <1>1
  <2> QED BY <1>4, <2>1, <2>2, <2>3
<1>8. TypeOK'
  <2>1. size' \in Nat /\ start' \in Nat /\ end' \in Nat /\ pos' \in Nat /\ op' \in Operation
        /\ key' \in Ptr /\ size' <= capacity'
    BY <1>1, <1>2 DEF IInv, TypeOK
  <2> QED BY <1>1, <1>2, <1>6, <2>1 DEF TypeOK
<1>9. SearchIsRight'
  BY <1>2 DEF SearchIsRight
<1> QED BY <1>7, <1>8, <1>9 DEF IInv

(* Every step keeps the invariant.                                             *)
LEMMA NextIInv == IInv /\ [Next]_vars => IInv'
<1> SUFFICES ASSUME IInv, [Next]_vars PROVE IInv'
  OBVIOUS
<1>1. CASE Halve
  BY <1>1, HalveStep
<1>2. CASE Add
  BY <1>2, AddStep
<1>3. CASE Remove
  BY <1>3, RemoveStep
<1>4. CASE AddAgain \/ RemoveNothing \/ Contains
  <2>1. ReturnsOnly
    BY <1>4 DEF AddAgain, RemoveNothing, Contains, Return, ReturnsOnly
  <2> QED BY <2>1, QuietStep
<1>5. CASE Miss \/ (\E o \in Operation, ptr \in Ptr : Call(o, ptr)) \/ UNCHANGED vars
  BY <1>5, QuietStep
<1> QED BY <1>1, <1>2, <1>3, <1>4, <1>5 DEF Next, Step

(* The invariant holds in every state.                                         *)
LEMMA PtrSetInvariance == Spec => []IInv
BY InitIInv, NextIInv, PTL DEF Spec

(* The block holds pointers up to its size, which its capacity bounds.         *)
THEOREM PtrSetTypeCorrect == Spec => []TypeOK
<1>1. IInv => TypeOK
  BY DEF IInv
<1> QED BY <1>1, PtrSetInvariance, PTL

(* The pointers ascend after any sequence of calls.                            *)
THEOREM AlwaysSorted == Spec => []Sorted
<1>1. IInv => Sorted
  BY DEF IInv
<1> QED BY <1>1, PtrSetInvariance, PTL

(* The search never cuts off what it looks for.                                *)
THEOREM BinarySearch == Spec => []SearchIsRight
<1>1. IInv => SearchIsRight
  BY DEF IInv
<1> QED BY <1>1, PtrSetInvariance, PTL

-----------------------------------------------------------------------------
\* The refinement.

(* What was found is a member, what was missed is not.                         *)
LEMMA Found ==
  ASSUME IInv
  PROVE  (pc = "found" => key \in Members) /\ (pc = "absent" => key \notin Members)
<1>1. ASSUME pc = "found" PROVE key \in Members
  <2>1. pos \in 0 .. size - 1 /\ items[pos] = key
    BY <1>1 DEF IInv, TypeOK, SearchIsRight
  <2> QED BY <2>1 DEF Members
<1>2. ASSUME pc = "absent", NEW k \in 0 .. size - 1, items[k] = key PROVE FALSE
  <2>1. /\ \A j \in 0 .. pos - 1 : items[j] < key
        /\ \A j \in pos .. size - 1 : items[j] > key
        /\ pos \in Nat /\ size \in Nat /\ key \in Nat
    BY <1>2, PtrNat DEF IInv, TypeOK, SearchIsRight
  <2>2. k \in 0 .. pos - 1 \/ k \in pos .. size - 1
    BY <2>1
  <2> QED BY <1>2, <2>1, <2>2
<1> QED BY <1>1, <1>2 DEF Members

(* Inserting adds the key to the members and nothing else.                     *)
LEMMA AddMembers == ASSUME IInv, Add PROVE Members' = Members \cup {key}
<1>1. /\ size \in Nat /\ pos \in Nat /\ pos <= size /\ size' = size + 1
      /\ \A k \in 0 .. pos - 1 : items'[k] = items[k]
      /\ items'[pos] = key
      /\ \A k \in pos + 1 .. size : items'[k] = items[k - 1]
  BY AddBlock
<1>2. Members' = {items'[k] : k \in 0 .. size}
  BY <1>1 DEF Members
<1>3. ASSUME NEW k \in 0 .. size PROVE items'[k] \in Members \cup {key}
  <2>1. CASE k < pos
    <3>1. k \in 0 .. pos - 1 /\ k \in 0 .. size - 1
      BY <1>1, <2>1
    <3> QED BY <1>1, <3>1 DEF Members
  <2>2. CASE k = pos
    BY <1>1, <2>2
  <2>3. CASE k > pos
    <3>1. k \in pos + 1 .. size /\ k - 1 \in 0 .. size - 1
      BY <1>1, <2>3
    <3> QED BY <1>1, <3>1 DEF Members
  <2>4. k < pos \/ k = pos \/ k > pos
    BY <1>1
  <2> QED BY <2>1, <2>2, <2>3, <2>4
<1>4. ASSUME NEW k \in 0 .. size - 1 PROVE \E j \in 0 .. size : items'[j] = items[k]
  <2>1. CASE k < pos
    <3>1. k \in 0 .. pos - 1 /\ k \in 0 .. size
      BY <1>1, <2>1
    <3> QED BY <1>1, <3>1
  <2>2. CASE k >= pos
    <3>1. k + 1 \in pos + 1 .. size /\ k + 1 \in 0 .. size /\ (k + 1) - 1 = k
      BY <1>1, <2>2
    <3>2. items'[k + 1] = items[k]
      BY <1>1, <3>1
    <3> QED BY <3>1, <3>2
  <2>3. k < pos \/ k >= pos
    BY <1>1
  <2> QED BY <2>1, <2>2, <2>3
<1>5. pos \in 0 .. size
  BY <1>1
<1>6. Members \cup {key} \subseteq Members'
  BY <1>1, <1>2, <1>4, <1>5 DEF Members
<1> QED BY <1>2, <1>3, <1>6

(* Removing takes the key from the members and nothing else.                   *)
LEMMA RemoveMembers == ASSUME IInv, Remove PROVE Members' = Members \ {key}
<1>1. /\ items[pos] = key
      /\ size \in Nat /\ pos \in Nat /\ pos < size /\ size' = size - 1
      /\ \A k \in 0 .. pos - 1 : items'[k] = items[k]
      /\ \A k \in pos .. size - 2 : items'[k] = items[k + 1]
  BY RemoveBlock
<1>2. \A j, k \in 0 .. size - 1 : j < k => items[j] < items[k]
  BY DEF IInv, Sorted
<1>3. \A k \in 0 .. size - 1 : items[k] \in Nat
  BY PtrNat DEF IInv, TypeOK
\* No other slot holds the key.
<1>4. \A k \in 0 .. size - 1 : k # pos => items[k] # key
  <2> TAKE k \in 0 .. size - 1
  <2>1. pos \in 0 .. size - 1 /\ (k < pos \/ k = pos \/ k > pos)
    BY <1>1
  <2>2. k < pos => items[k] < items[pos]
    BY <1>2, <2>1
  <2>3. k > pos => items[pos] < items[k]
    BY <1>2, <2>1
  <2> QED BY <1>1, <1>3, <2>1, <2>2, <2>3
<1>5. Members' = {items'[k] : k \in 0 .. (size - 1) - 1}
  BY <1>1 DEF Members
<1>6. ASSUME NEW k \in 0 .. (size - 1) - 1 PROVE items'[k] \in Members \ {key}
  <2>1. CASE k < pos
    <3>1. k \in 0 .. pos - 1 /\ k \in 0 .. size - 1 /\ k # pos
      BY <1>1, <2>1
    <3> QED BY <1>1, <1>4, <3>1 DEF Members
  <2>2. CASE k >= pos
    <3>1. k \in pos .. size - 2 /\ k + 1 \in 0 .. size - 1 /\ k + 1 # pos
      BY <1>1, <2>2
    <3> QED BY <1>1, <1>4, <3>1 DEF Members
  <2>3. k < pos \/ k >= pos
    BY <1>1
  <2> QED BY <2>1, <2>2, <2>3
<1>7. ASSUME NEW k \in 0 .. size - 1, items[k] # key
      PROVE  \E j \in 0 .. (size - 1) - 1 : items'[j] = items[k]
  <2>1. k < pos \/ k > pos
    BY <1>1, <1>7
  <2>2. CASE k < pos
    <3>1. k \in 0 .. pos - 1 /\ k \in 0 .. (size - 1) - 1
      BY <1>1, <2>2
    <3> QED BY <1>1, <3>1
  <2>3. CASE k > pos
    <3>1. k - 1 \in pos .. size - 2 /\ k - 1 \in 0 .. (size - 1) - 1 /\ (k - 1) + 1 = k
      BY <1>1, <2>3
    <3>2. items'[k - 1] = items[k]
      BY <1>1, <3>1
    <3> QED BY <3>1, <3>2
  <2> QED BY <2>1, <2>2, <2>3
<1>8. Members' \subseteq Members \ {key}
  BY <1>5, <1>6
<1>9. \A m \in Members \ {key} : m \in Members'
  BY <1>5, <1>7 DEF Members
<1> QED BY <1>8, <1>9

(* The beginning of the block is the empty set.                                *)
LEMMA InitRefines == Init => PS!Init
<1> SUFFICES ASSUME Init PROVE PS!Init
  OBVIOUS
<1>1. 0 .. size - 1 = {}
  BY DEF Init
<1> QED BY <1>1 DEF Init, PS!Init, Members

(* Every step of a call is a step of the set's, or none.                       *)
LEMMA StepRefines == IInv /\ [Next]_vars => [PS!Next]_PS!vars
<1> DEFINE running == IF pc = "idle" THEN <<>> ELSE <<op, key>>
<1> SUFFICES ASSUME IInv, [Next]_vars
             PROVE  PS!Next \/ (Members' = Members /\ running' = running /\ result' = result)
  BY DEF PS!vars
<1>0. op \in Operation /\ key \in Ptr /\ PS!Operation = Operation
  BY DEF IInv, TypeOK, Operation, PS!Operation
<1>1. ASSUME UNCHANGED block PROVE Members' = Members
  BY <1>1 DEF block, Members
<1>2. ASSUME NEW o \in Operation, NEW ptr \in Ptr, Call(o, ptr)
      PROVE  PS!Next
  <2>1. PS!Call(o, ptr)
    BY <1>1, <1>2 DEF Call, PS!Call, Operation
  <2> QED BY <1>0, <2>1 DEF PS!Next
<1>3. CASE Halve \/ Miss
  <2>1. pc # "idle" /\ pc' # "idle" /\ UNCHANGED <<block, op, key, result>>
    BY <1>3 DEF Halve, Miss
  <2> QED BY <1>1, <2>1
<1>4. ASSUME pc # "idle", pc' = "idle", PS!Return(op, key) PROVE PS!Next
  BY <1>0, <1>4 DEF PS!Next
<1>5. ASSUME pc # "idle", pc' = "idle",
             result' = IF op = "add" THEN key \notin Members ELSE key \in Members,
             Members' = CASE op = "add"      -> Members \cup {key}
                          [] op = "remove"   -> Members \ {key}
                          [] op = "contains" -> Members
      PROVE  PS!Return(op, key)
  BY <1>5 DEF PS!Return
<1>6. CASE Add
  <2>1. pc = "absent" /\ op = "add" /\ pc' = "idle" /\ result' = TRUE
    BY <1>6 DEF Add, Return
  <2>2. key \notin Members /\ Members' = Members \cup {key}
    BY <1>6, <2>1, Found, AddMembers
  <2> QED BY <1>4, <1>5, <2>1, <2>2
<1>7. CASE AddAgain
  <2>1. pc = "found" /\ op = "add" /\ pc' = "idle" /\ result' = FALSE /\ Members' = Members
    BY <1>1, <1>7 DEF AddAgain, Return
  <2>2. key \in Members
    BY <2>1, Found
  <2> QED BY <1>4, <1>5, <2>1, <2>2
<1>8. CASE Remove
  <2>1. pc = "found" /\ op = "remove" /\ pc' = "idle" /\ result' = TRUE
    BY <1>8 DEF Remove, Return
  <2>2. key \in Members /\ Members' = Members \ {key}
    BY <1>8, <2>1, Found, RemoveMembers
  <2> QED BY <1>4, <1>5, <2>1, <2>2
<1>9. CASE RemoveNothing
  <2>1. pc = "absent" /\ op = "remove" /\ pc' = "idle" /\ result' = FALSE /\ Members' = Members
    BY <1>1, <1>9 DEF RemoveNothing, Return
  <2>2. key \notin Members
    BY <2>1, Found
  <2>3. (key \in Members) = FALSE /\ Members \ {key} = Members
    BY <2>2
  <2> QED BY <1>4, <1>5, <2>1, <2>3
<1>10. CASE Contains
  <2>1. /\ pc \in {"found", "absent"} /\ op = "contains" /\ pc' = "idle"
        /\ result' = (pc = "found") /\ Members' = Members
    BY <1>1, <1>10 DEF Contains, Return
  <2>2. CASE pc = "found"
    <3>1. key \in Members /\ result' = TRUE
      BY <2>1, <2>2, Found
    <3> QED BY <1>4, <1>5, <2>1, <3>1
  <2>3. CASE pc = "absent"
    <3>1. key \notin Members /\ result' = FALSE
      BY <2>1, <2>3, Found
    <3>2. (key \in Members) = FALSE
      BY <3>1
    <3> QED BY <1>4, <1>5, <2>1, <3>1, <3>2
  <2> QED BY <2>1, <2>2, <2>3
<1>11. CASE UNCHANGED vars
  BY <1>1, <1>11 DEF vars
<1> QED BY <1>2, <1>3, <1>6, <1>7, <1>8, <1>9, <1>10, <1>11 DEF Next, Step

(* The sorted block with its binary search is a set: every call of             *)
(* util-ptrset.c returns what the set promises and changes it as promised.     *)
THEOREM Refinement == Spec => ImplementsPointerSet
<1>1. Init => PS!Init
  BY InitRefines
<1>2. IInv /\ [Next]_vars => [PS!Next]_PS!vars
  BY StepRefines
<1> QED BY <1>1, <1>2, PtrSetInvariance, PTL DEF Spec, ImplementsPointerSet, PS!Spec

=============================================================================
