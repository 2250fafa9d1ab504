------------------------------- MODULE PtrSet --------------------------------
(* The pointer set of util-ptrset.c: a sorted block of memory, searched by      *)
(* halving, one round of the search per step.                                   *)
EXTENDS Integers, FiniteSets

CONSTANTS
  Ptr,   \* the pointers that are put into it
  Junk   \* what memory holds that was allocated and not written

ASSUME PtrAssumption  == Ptr \subseteq Nat \ {0}
ASSUME JunkAssumption == Junk \notin Ptr

VARIABLES
  items,     \* the block: a function on 0 .. capacity - 1
  size,      \* how many of its slots hold pointers
  capacity,  \* how many slots it has
  pc,        \* "idle", or where the running call is: "search", "found", "absent"
  op, key,   \* the running call
  start, end, \* what is left to search
  pos,       \* where the pointer is, or belongs
  result     \* what the last call returned

block  == <<items, size, capacity>>
search == <<start, end, pos>>
vars   == <<block, pc, op, key, search, result>>

Operation == {"add", "remove", "contains"}

Init ==
  /\ items = [k \in {} |-> Junk] /\ size = 0 /\ capacity = 0
  /\ pc = "idle" /\ op = "contains" /\ key \in Ptr
  /\ start = 0 /\ end = 0 /\ pos = 0
  /\ result = FALSE

\* ptrset_add, ptrset_remove and ptrset_contains begin with locate.
Call(o, ptr) ==
  /\ pc = "idle"
  /\ pc' = "search" /\ op' = o /\ key' = ptr
  /\ start' = 0 /\ end' = size
  /\ UNCHANGED <<block, pos, result>>

\* Mutant of Halve: the middle is cut off together with the item before it.
HalveShort ==
  /\ pc = "search" /\ start < end
  /\ LET mid == start + (end - start) \div 2 IN
     \/ key < items[mid] /\ end' = (IF mid > start THEN mid - 1 ELSE mid) /\ UNCHANGED <<pc, start, pos>>
     \/ key > items[mid] /\ start' = mid + 1 /\ UNCHANGED <<pc, end, pos>>
     \/ key = items[mid] /\ pc' = "found" /\ pos' = mid /\ UNCHANGED <<start, end>>
  /\ UNCHANGED <<block, op, key, result>>

\* Mutant of Halve: a pointer behind the middle is searched from the middle on.
HalveInclusive ==
  /\ pc = "search" /\ start < end
  /\ LET mid == start + (end - start) \div 2 IN
     \/ key < items[mid] /\ end' = mid /\ UNCHANGED <<pc, start, pos>>
     \/ key > items[mid] /\ start' = mid /\ UNCHANGED <<pc, end, pos>>
     \/ key = items[mid] /\ pc' = "found" /\ pos' = mid /\ UNCHANGED <<start, end>>
  /\ UNCHANGED <<block, op, key, result>>

\* One round of the loop of locate.
Halve ==
  /\ pc = "search" /\ start < end
  /\ LET mid == start + (end - start) \div 2 IN
     \/ key < items[mid] /\ end' = mid /\ UNCHANGED <<pc, start, pos>>
     \/ key > items[mid] /\ start' = mid + 1 /\ UNCHANGED <<pc, end, pos>>
     \/ key = items[mid] /\ pc' = "found" /\ pos' = mid /\ UNCHANGED <<start, end>>
  /\ UNCHANGED <<block, op, key, result>>

\* The loop ends: the pointer is not there and belongs at start.
Miss ==
  /\ pc = "search" /\ start >= end
  /\ pc' = "absent" /\ pos' = start
  /\ UNCHANGED <<block, op, key, start, end, result>>

GrownCapacity ==
  IF size # capacity THEN capacity ELSE IF capacity = 0 THEN 4 ELSE 2 * capacity

\* Mutant of Inserted: the tail is copied front to back.
InsertedOver ==
  [k \in 0 .. GrownCapacity - 1 |->
     IF k < pos THEN items[k]
     ELSE IF k = pos THEN key
     ELSE IF k <= size THEN items[pos]
     ELSE IF k < capacity THEN items[k] ELSE Junk]

\* The block after the tail has moved back by one and key stands at pos.
Inserted ==
  [k \in 0 .. GrownCapacity - 1 |->
     IF k < pos THEN items[k]
     ELSE IF k = pos THEN key
     ELSE IF k <= size THEN items[k - 1]
     ELSE IF k < capacity THEN items[k] ELSE Junk]

\* The block after the tail has moved over pos.
Removed ==
  [k \in 0 .. capacity - 1 |->
     IF pos <= k /\ k < size - 1 THEN items[k + 1] ELSE items[k]]

Return(r) == pc' = "idle" /\ result' = r /\ UNCHANGED <<op, key, search>>

\* Mutant of Add: the size is not counted up.
AddUncounted ==
  /\ pc = "absent" /\ op = "add"
  /\ items' = Inserted /\ capacity' = GrownCapacity /\ UNCHANGED size
  /\ Return(TRUE)

Add ==
  /\ pc = "absent" /\ op = "add"
  /\ items' = Inserted /\ size' = size + 1 /\ capacity' = GrownCapacity
  /\ Return(TRUE)

AddAgain == pc = "found" /\ op = "add" /\ UNCHANGED block /\ Return(FALSE)

Remove ==
  /\ pc = "found" /\ op = "remove"
  /\ items' = Removed /\ size' = size - 1 /\ UNCHANGED capacity
  /\ Return(TRUE)

RemoveNothing == pc = "absent" /\ op = "remove" /\ UNCHANGED block /\ Return(FALSE)

Contains ==
  /\ pc \in {"found", "absent"} /\ op = "contains"
  /\ UNCHANGED block
  /\ Return(pc = "found")

Step == Halve \/ Miss \/ Add \/ AddAgain \/ Remove \/ RemoveNothing \/ Contains

Next == Step \/ \E o \in Operation, ptr \in Ptr : Call(o, ptr)

Spec == Init /\ [][Next]_vars

\* A call that is running goes on: nothing else runs until it returns.
FairSpec == Spec /\ WF_vars(Step)

-----------------------------------------------------------------------------
Members == {items[k] : k \in 0 .. size - 1}

(* The block holds pointers up to size, and the search stays inside it.        *)
TypeOK ==
  /\ size \in Nat /\ capacity \in Nat /\ size <= capacity
  /\ items \in [0 .. capacity - 1 -> Ptr \cup {Junk}]
  /\ \A k \in 0 .. size - 1 : items[k] \in Ptr
  /\ pc \in {"idle", "search", "found", "absent"}
  /\ op \in Operation /\ key \in Ptr /\ result \in BOOLEAN
  /\ start \in Nat /\ end \in Nat /\ pos \in Nat
  /\ pc = "search" => start <= end /\ end <= size

(* The pointers in the block ascend, so that each is there once.               *)
Sorted == \A j, k \in 0 .. size - 1 : j < k => items[j] < items[k]

(* The search ends where the pointer is, or belongs: nothing that was cut off   *)
(* could be it (util-ptrset.c:6-25).                                           *)
SearchIsRight ==
  /\ pc = "search" => /\ \A k \in 0 .. start - 1 : items[k] < key
                      /\ \A k \in end .. size - 1 : items[k] > key
  /\ pc = "found"  => pos < size /\ items[pos] = key
  /\ pc = "absent" => /\ pos <= size
                      /\ \A k \in 0 .. pos - 1 : items[k] < key
                      /\ \A k \in pos .. size - 1 : items[k] > key

IInv == TypeOK /\ Sorted /\ SearchIsRight

(* The block, its search and its moves are a pointer set: every call returns   *)
(* what the set promises and changes it as it promises.                        *)
PS == INSTANCE PointerSet WITH
        members <- Members,
        call    <- IF pc = "idle" THEN <<>> ELSE <<op, key>>,
        result  <- result

ImplementsPointerSet == PS!Spec

(* Every call returns: the search gets shorter with every round.               *)
CallsReturn == (pc # "idle") ~> (pc = "idle")

=============================================================================
