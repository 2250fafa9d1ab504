----------------------------- MODULE PointerSet ------------------------------
(* What a pointer set promises its users: a call takes effect once, at one     *)
(* point between its beginning and its return, and returns what it says.       *)

CONSTANTS Ptr   \* the pointers it may hold

VARIABLES
  members,  \* the pointers in the set
  call,     \* the call that is running, or <<>>
  result    \* what the last call returned

vars == <<members, call, result>>

Operation == {"add", "remove", "contains"}

Init == members = {} /\ call = <<>> /\ result = FALSE

Call(op, ptr) ==
  /\ call = <<>>
  /\ call' = <<op, ptr>>
  /\ UNCHANGED <<members, result>>

\* add returns whether the pointer was new, the others whether it was there.
Return(op, ptr) ==
  /\ call = <<op, ptr>>
  /\ result'  = IF op = "add" THEN ptr \notin members ELSE ptr \in members
  /\ members' = CASE op = "add"      -> members \cup {ptr}
                  [] op = "remove"   -> members \ {ptr}
                  [] op = "contains" -> members
  /\ call' = <<>>

Next == \E op \in Operation, ptr \in Ptr : Call(op, ptr) \/ Return(op, ptr)

Spec == Init /\ [][Next]_vars

=============================================================================
