----------------------------- MODULE GdsExport -------------------------------
(* The export of cells to a GDS library (main.c): cells with GDS data of their *)
(* own are copied together with what that data refers to, the others are       *)
(* composed, a structure with one reference per instance.  Both are walks of   *)
(* the design, depth first and parent before child, in one recursion; here     *)
(* each turn of one of its loops is a step.                                    *)
EXTENDS Naturals, Sequences, FiniteSets

CONSTANTS
  Name,       \* names of cells, which are those of their structures
  None,       \* the NULL pointer
  MaxRefs,    \* bound: references of a loaded structure
  MaxLinks,   \* bound: instances and loaded references in the whole design
  MaxStructs  \* bound: no command starts, exporting or not, with more structures

ASSUME NoneAssumption == None \notin Seq(Name)
ASSUME MaxRefsAssumption == MaxRefs \in Nat

VARIABLES
  cells,    \* the cells of the design
  insts,    \* insts[c]: the cells that c instantiates, in order
  gds,      \* gds[c]: what the GDS data of c refers to, in order, or None
  structs,  \* the structures of the GDS library, in order
  first,    \* how many of them the running, or last, command found there
  stack     \* the calls that have not returned, outermost first

design == <<cells, insts, gds>>
vars   == <<design, structs, first, stack>>

Struct == [name : Name, loaded : BOOLEAN, refs : Seq(Name), named : BOOLEAN]

\* A call walks the references of the structure it added.
Call == [of : Nat \ {0}, next : Nat \ {0}]

Refs == UNION {[1 .. n -> Name] : n \in 0 .. MaxRefs}

HasGds(c) == c \in cells /\ gds[c] # None

Exported == {structs[k].name : k \in DOMAIN structs}

Init ==
  /\ cells = {}
  /\ insts = [c \in Name |-> <<>>] /\ gds = [c \in Name |-> None]
  /\ structs = <<>> /\ first = 0 /\ stack = <<>>

-----------------------------------------------------------------------------
(* The design; its commands run between those that export.                     *)

Idle == stack = <<>> /\ Len(structs) <= MaxStructs

Refers(data, c, d) == data[c] # None /\ \E k \in DOMAIN data[c] : data[c][k] = d

\* GDS files hold no structure that contains itself: among any structures there
\* is one that refers to none of them.
Acyclic(data) ==
  \A S \in (SUBSET Name) \ {{}} : \E c \in S : \A d \in S : ~Refers(data, c, d)

\* The instances and references of a design.
Links(placed, data) ==
  {e \in Name \X (1 .. MaxLinks + 1) : e[2] \in DOMAIN placed[e[1]]} \cup
  {e \in (1 .. MaxLinks + 1) \X Name : data[e[2]] # None /\ e[1] \in DOMAIN data[e[2]]}

LoadGds(c) ==
  /\ Idle
  /\ \E refs \in {r \in Refs : Acyclic([gds EXCEPT ![c] = r])} :
     /\ Cardinality(Links(insts, [gds EXCEPT ![c] = refs])) <= MaxLinks
     /\ cells' = cells \cup {c}
     /\ gds' = [gds EXCEPT ![c] = refs]
     /\ UNCHANGED <<insts, structs, first, stack>>

\* `inst` creates the cell it instantiates if there is none.
NewInst(c, d) ==
  /\ Idle
  /\ Cardinality(Links(insts, gds)) < MaxLinks
  /\ cells' = cells \cup {c, d}
  /\ insts' = [insts EXCEPT ![c] = Append(@, d)]
  /\ UNCHANGED <<gds, structs, first, stack>>

-----------------------------------------------------------------------------
(* The export.                                                                 *)

\* The structure for c, and the call that walks what it refers to, on top of
\* the calls below.
Enter(c, copy, below) ==
  /\ structs' = Append(structs, [name |-> c, loaded |-> copy,
                                 refs |-> IF copy THEN gds[c] ELSE insts[c],
                                 named |-> below = <<>>])
  /\ stack' = Append(below, [of |-> Len(structs) + 1, next |-> 1])

Command(c, copy) ==
  /\ Idle
  /\ c \in cells
  /\ Enter(c, copy, <<>>)
  /\ first' = Len(structs)
  /\ UNCHANGED design

CopyCellGds(c)    == HasGds(c) /\ Command(c, TRUE)
MakeGdsForCell(c) == Command(c, FALSE)

Top     == stack[Len(stack)]
Current == structs[Top.of]
Ref     == Current.refs[Top.next]

\* The calls once the innermost has advanced its loop.
Advanced == [stack EXCEPT ![Len(stack)].next = @ + 1]

AtRef == stack # <<>> /\ Top.next <= Len(Current.refs)

Skip == stack' = Advanced /\ UNCHANGED structs

\* copy_gds: data that is not there is left to whoever reads the library.
CopyRef ==
  /\ AtRef /\ Current.loaded
  /\ IF HasGds(Ref) THEN Enter(Ref, TRUE, Advanced) ELSE Skip
  /\ UNCHANGED <<design, first>>

\* Mutant of MakeRef: the library is not searched for the structure.
MakeRefAgain ==
  /\ AtRef /\ ~Current.loaded
  /\ Enter(Ref, HasGds(Ref), Advanced)
  /\ UNCHANGED <<design, first>>

\* Mutant of MakeRef: what is there already is not left behind.
MakeRefStuck ==
  /\ AtRef /\ ~Current.loaded
  /\ IF Ref \in Exported THEN UNCHANGED <<structs, stack>> ELSE Enter(Ref, HasGds(Ref), Advanced)
  /\ UNCHANGED <<design, first>>

\* Mutant of MakeRef: a cell without GDS data is left out as copy_gds leaves it.
MakeRefLoaded ==
  /\ AtRef /\ ~Current.loaded
  /\ IF HasGds(Ref) /\ Ref \notin Exported THEN Enter(Ref, TRUE, Advanced) ELSE Skip
  /\ UNCHANGED <<design, first>>

\* make_gds_for_cell: what is not in the library yet is copied or composed.
MakeRef ==
  /\ AtRef /\ ~Current.loaded
  /\ IF Ref \in Exported THEN Skip ELSE Enter(Ref, HasGds(Ref), Advanced)
  /\ UNCHANGED <<design, first>>

\* Mutant of Return: the last reference is left out.
ReturnEarly ==
  /\ stack # <<>> /\ Top.next >= Len(Current.refs)
  /\ stack' = SubSeq(stack, 1, Len(stack) - 1)
  /\ UNCHANGED <<design, structs, first>>

Return ==
  /\ stack # <<>> /\ Top.next > Len(Current.refs)
  /\ stack' = SubSeq(stack, 1, Len(stack) - 1)
  /\ UNCHANGED <<design, structs, first>>

\* The end of a gds block and the beginning of the next.
NewLibrary == stack = <<>> /\ structs' = <<>> /\ first' = 0 /\ UNCHANGED <<design, stack>>

Step == CopyRef \/ MakeRef \/ Return

Next ==
  \/ \E c \in Name : LoadGds(c)
  \/ \E c, d \in Name : NewInst(c, d)
  \/ \E c \in Name : CopyCellGds(c) \/ MakeGdsForCell(c)
  \/ Step
  \/ NewLibrary

Spec == Init /\ [][Next]_vars

\* A command runs on until it returns.
FairSpec == Spec /\ WF_vars(Step)

-----------------------------------------------------------------------------
(* The library holds structures, and the calls walk structures of the command. *)
TypeOK ==
  /\ cells \subseteq Name
  /\ insts \in [Name -> Seq(Name)] /\ gds \in [Name -> Seq(Name) \cup {None}]
  /\ structs \in Seq(Struct) /\ first \in 0 .. Len(structs)
  /\ stack \in Seq(Call)
  /\ \A k \in DOMAIN stack :
       /\ stack[k].of \in first + 1 .. Len(structs)
       /\ stack[k].next <= Len(structs[stack[k].of].refs) + 1

\* What a structure refers to and the design can provide.
Wanted(k) ==
  {structs[k].refs[r] : r \in {s \in DOMAIN structs[k].refs :
                                 structs[k].loaded => HasGds(structs[k].refs[s])}}

\* The references that call f has not come to.
Pending(f) == {structs[f.of].refs[r] : r \in f.next .. Len(structs[f.of].refs)}

(* Of what the structures added by a command refer to, everything is in the    *)
(* library or waits in a call that has not returned: when the command returns  *)
(* the library lacks nothing that the design had, although the walk stops at   *)
(* whatever is there already (main.c:257-304).                                 *)
NothingLost ==
  stack # <<>> =>
    \A k \in first + 1 .. Len(structs) :
       \A c \in Wanted(k) \ Exported :
          \E f \in DOMAIN stack : stack[f].of = k /\ c \in Pending(stack[f])

(* A composed structure is in the library once, however often and along        *)
(* whatever cycle its cell is instantiated, unless the script names the cell   *)
(* again.  (A copied one may be there twice: copy_gds does not look.)          *)
ComposedOnce ==
  \A j, k \in DOMAIN structs :
     j < k /\ structs[j].name = structs[k].name => structs[k].loaded \/ structs[k].named

(* A command that returns leaves nothing out.                                  *)
ReturnsComplete ==
  [][stack # <<>> /\ stack' = <<>> =>
       \A k \in first + 1 .. Len(structs) : Wanted(k) \subseteq Exported]_vars

(* Every command returns, also when cells instantiate one another in a circle. *)
CommandsReturn == stack # <<>> ~> stack = <<>>

IInv == TypeOK /\ NothingLost /\ ComposedOnce

=============================================================================
