-------------------------------- MODULE Script --------------------------------
(* The interpreter (main.c): statements of a script, the blocks they open with   *)
(* the context each hands to the statements in it, and the memory of what the    *)
(* contexts point to. What commands do to layers is in Layers; here is which     *)
(* object each of them does it to.                                               *)
(*                                                                               *)
(* One command stands for all that take the same part of the context: set_size   *)
(* for what works on a cell, set_position for what works on an instance,         *)
(* write_gds for what works on a GDS library. Files hold one element each.       *)
EXTENDS Layers, SequencesExt, FiniteSetsExt

CONSTANTS
  Cell,  \* cells, whose bodies are geometries
  Plans  \* bound: the lines a layer map may have, and the statements a script may have next

ASSUME CellAssumption  == Cell \subseteq Geometry
ASSUME PlansAssumption == \A q \in Plans : q.lines \subseteq Name \X Id
ASSUME NoNameNoNumber  == NoName \notin Nat  \* NULL is no object that a statement made

VARIABLES
  plan,    \* what the map and the script may still hold
  file,    \* the statements read so far (history)
  stack,   \* the contexts of the calls of parse_sub, the outermost first
  insts,   \* the instances made, each known by the statement that made it
  live,    \* the GDS libraries in memory, likewise
  block,   \* how often the array of a cell's layers was moved by realloc
  acted,   \* what each command of the script has changed (history)
  result   \* "running", "done", "failed" (an error or assertion), "wild" (freed memory
           \* was written to), "endless" (the lexer waits for a character zero)

scriptVars == <<vars, plan, file, stack, insts, live, block, acted, result>>

\* A statement: its word, what it names, and the symbol it ends with.
St(w, a, e) == [word |-> w, arg |-> a, end |-> e]

\* The function f, and x for k.
With(f, k, x) == [i \in DOMAIN f \cup {k} |-> IF i = k THEN x ELSE f[i]]

\* The part of the context that a command asserts to be there.
Needs == [inst |-> "cell", pin |-> "cell", geometry |-> "cell", layer |-> "geometry",
          set_size |-> "cell", set_position |-> "inst", rect |-> "layer", write_gds |-> "gds"]
Ends   == {"{", ";", ""}
Blocks == {"cell", "inst", "pin", "geometry", "layer", "gds"}
Loads  == {"load_gds", "load_lef"}
Orders == {"set_size", "set_position", "rect", "write_gds"} \cup Loads

NoContext == [cell |-> NoName, inst |-> NoName, geometry |-> NoName, layer |-> NoName, gds |-> NoName]

Start ==
  /\ Init
  /\ plan \in Plans
  /\ file = <<>> /\ stack = <<NoContext>>
  /\ insts = <<>> /\ live = {} /\ acted = <<>>
  /\ block = [c \in Cell |-> 0]
  /\ result = "running"

ctx  == Last(stack)
this == Len(file) + 1   \* the statement that is read

-------------------------------------------------------------------------------
(* main loads the layer map first.                                               *)

LoadMap ==
  /\ \/ \E l \in plan.lines : MapLine(l[1], l[2])
     \/ MapLoaded
  /\ UNCHANGED <<plan, file, stack, insts, live, block, acted, result>>

\* Statement st is read; parse looks at its word, and asserts its context.
Reads(st) ==
  /\ ~mapping /\ ~crashed /\ result = "running"
  /\ plan.script # <<>> /\ st \in Head(plan.script)
  /\ file' = Append(file, st)
  /\ plan' = [plan EXCEPT !.script = Tail(@)]

Refused(st) ==
  \/ st.word \in DOMAIN Needs /\ ctx[Needs[st.word]] = NoName
  \/ st.word = "layer" /\ ~Crashes(st.arg) /\ ByName(st.arg) = 0
  \/ st.word = "}" /\ Len(stack) = 1
  \/ st.word \notin Blocks \cup Orders \cup {"}"}

\* exit(1) or an assertion; a file to load may be one that cannot be read.
Refuse ==
  /\ \E st \in UNION Range(plan.script) : Reads(st) /\ (Refused(st) \/ st.word \in Loads)
  /\ result' = "failed"
  /\ UNCHANGED <<vars, stack, insts, live, block, acted>>

\* parse_sub wants a block or a semicolon behind the head of a block, parse a
\* semicolon behind every other command; by then the command is executed.
EndsWith(st, ends) == result' = IF st.end \in ends THEN "running" ELSE "failed"

\* parse_sub, handed the context c.
Sub(st, c) ==
  /\ EndsWith(st, {"{", ";"})
  /\ stack' = IF st.end = "{" THEN Append(stack, c) ELSE stack

\* array_grow: the array of a geometry's layers is full at a power of two, and
\* realloc may move it, away from what points into it.
Grows(g) == geo'[g] # geo[g] /\ \E e \in 0 .. Len(geo[g]) : Len(geo[g]) = 2 ^ e
Realloc  == \E S \in SUBSET {c \in Cell : Grows(c)} :
              block' = [c \in Cell |-> IF c \in S THEN block[c] + 1 ELSE block[c]]

-------------------------------------------------------------------------------
(* Commands that open blocks. The block gets a copy of the context with the      *)
(* command's own object in it.                                                   *)

CellBlock ==
  /\ \E c \in Cell, e \in Ends :
       LET st == St("cell", c, e) IN
       Reads(st) /\ Sub(st, [ctx EXCEPT !.cell = c])
  /\ UNCHANGED <<vars, insts, live, block, acted>>

InstBlock ==
  /\ \E c \in Cell, e \in Ends :
       LET st == St("inst", c, e) IN
       /\ Reads(st) /\ ~Refused(st)
       /\ insts' = With(insts, this, [into |-> ctx.cell, of |-> c])   \* new_inst
       /\ Sub(st, [ctx EXCEPT !.inst = this])
  /\ UNCHANGED <<vars, live, block, acted>>

\* The pin is in the context of the block, but no command looks at it.
PinBlock ==
  /\ \E e \in Ends :
       LET st == St("pin", NoName, e) IN Reads(st) /\ ~Refused(st) /\ Sub(st, ctx)
  /\ UNCHANGED <<vars, insts, live, block, acted>>

GeometryBlock ==
  /\ \E e \in Ends :
       LET st == St("geometry", NoName, e) IN
       Reads(st) /\ ~Refused(st) /\ Sub(st, [ctx EXCEPT !.geometry = ctx.cell])
  /\ UNCHANGED <<vars, insts, live, block, acted>>

\* The context of a layer block points into the array of the geometry's layers.
LayerBlock ==
  /\ \E n \in Name, e \in Ends :
       LET st == St("layer", n, e)
           g  == ctx.geometry
           k  == Search(geo'[g], ByName(n))
       IN  /\ Reads(st) /\ ~Refused(st)
           /\ LayerCommand(g, n) /\ Realloc
           /\ IF crashed' THEN UNCHANGED <<stack, result>>
              ELSE Sub(st, [ctx EXCEPT !.layer =
                              [geo |-> g, pos |-> IF geo'[g] = geo[g] THEN k ELSE Len(geo'[g]), block |-> block'[g]]])
  /\ UNCHANGED <<insts, live, acted>>

GdsBlock ==
  /\ \E e \in Ends :
       LET st == St("gds", NoName, e) IN
       /\ Reads(st)
       /\ live' = IF e = ";" THEN live ELSE live \cup {this}   \* gds_lib_destroy behind parse_sub
       /\ Sub(st, [ctx EXCEPT !.gds = this])
  /\ UNCHANGED <<vars, insts, block, acted>>

-------------------------------------------------------------------------------
(* Commands that change something.                                               *)

Acts(st, x) == Reads(st) /\ ~Refused(st) /\ acted' = With(acted, this, x) /\ EndsWith(st, {";"})

SetSize ==
  /\ \E e \in Ends : Acts(St("set_size", NoName, e), ctx.cell)
  /\ UNCHANGED <<vars, stack, insts, live, block>>

SetPosition ==
  /\ Acts(St("set_position", NoName, ";"), ctx.inst)
  /\ UNCHANGED <<vars, stack, insts, live, block>>

\* The pointer of a layer block is good as long as the array was not moved.
Rect ==
  /\ LET st == St("rect", NoName, ";") IN
     /\ Reads(st) /\ ~Refused(st)
     /\ IF block[ctx.layer.geo] = ctx.layer.block
        THEN Acts(st, [geo |-> ctx.layer.geo, pos |-> ctx.layer.pos])
        ELSE result' = "wild" /\ UNCHANGED acted
  /\ UNCHANGED <<vars, stack, insts, live, block>>

WriteGds ==
  /\ LET st == St("write_gds", NoName, ";") IN
     /\ Reads(st) /\ ~Refused(st)
     /\ IF ctx.gds \in live THEN Acts(st, ctx.gds) ELSE result' = "wild" /\ UNCHANGED acted
  /\ UNCHANGED <<vars, stack, insts, live, block>>

LoadGds ==
  /\ \E c \in Cell, i \in Id : Acts(St("load_gds", <<c, i>>, ";"), c) /\ GdsElem(c, i) /\ Realloc
  /\ UNCHANGED <<stack, insts, live>>

\* Shapes of LEF files are those of pins.
LoadLef ==
  /\ \E g \in Geometry \ Cell, n \in Name : Acts(St("load_lef", <<g, n>>, ";"), g) /\ LefShape(g, n)
  /\ UNCHANGED <<stack, insts, live, block>>

-------------------------------------------------------------------------------
(* The end of a block and of the script.                                         *)

\* Mutant of Close: a block that ends leaves its context behind.
CloseKept ==
  /\ LET st == St("}", NoName, "") IN Reads(st) /\ ~Refused(st)
  /\ stack' = Append(Front(Front(stack)), ctx)
  /\ UNCHANGED <<vars, insts, live, block, acted, result>>

\* The command gds destroys the library behind its block.
Close ==
  /\ LET st == St("}", NoName, "") IN Reads(st) /\ ~Refused(st)
  /\ stack' = Front(stack)
  /\ live' = live \ (IF ctx.gds # Last(Front(stack)).gds THEN {ctx.gds} ELSE {})
  /\ UNCHANGED <<vars, insts, block, acted, result>>

\* Mutant of EndOfFile: the end of the file closes what is open.
EndOfFileCloses ==
  /\ ~mapping /\ ~crashed /\ result = "running"
  /\ result' = "done"
  /\ UNCHANGED <<vars, plan, file, stack, insts, live, block, acted>>

\* The end of the file in a block is an error.
EndOfFile ==
  /\ ~mapping /\ ~crashed /\ result = "running"
  /\ result' = IF Len(stack) = 1 THEN "done" ELSE "failed"
  /\ UNCHANGED <<vars, plan, file, stack, insts, live, block, acted>>

\* The file ends within a word, a string or a comment: phx_lexer_next looks for
\* the character zero there, and fgetc never returns it.
EndInWord ==
  /\ ~mapping /\ ~crashed /\ result = "running"
  /\ result' = "endless"
  /\ UNCHANGED <<vars, plan, file, stack, insts, live, block, acted>>

Step ==
  \/ LoadMap \/ Refuse
  \/ CellBlock \/ InstBlock \/ PinBlock \/ GeometryBlock \/ LayerBlock \/ GdsBlock
  \/ SetSize \/ SetPosition \/ Rect \/ WriteGds \/ LoadGds \/ LoadLef
  \/ Close \/ EndOfFile \/ EndInWord

ScriptSpec == Start /\ [][Step]_scriptVars

-------------------------------------------------------------------------------
(* Properties. What a script means is told from its braces.                      *)

Opens(k)  == file[k].word \in Blocks /\ file[k].end = "{"
Closes(k) == file[k].word = "}"
Opened(i, j) == Cardinality({k \in i .. j : Opens(k)})
Closed(i, j) == Cardinality({k \in i .. j : Closes(k)})

\* The blocks around statement k, and the innermost of a kind, 0 if there is none.
Around(k)   == {b \in 1 .. k - 1 : Opens(b) /\ \A j \in b .. k - 1 : Opened(b, j) > Closed(b, j)}
Within(k, w) == Max({0} \cup {b \in Around(k) : file[b].word = w})
CellOf(k)   == IF Within(k, "cell") = 0 THEN NoName ELSE file[Within(k, "cell")].arg
BodyOf(k)   == CellOf(Within(k, "geometry"))

\* Is a layer added, between the layer block that a rectangle is in and the
\* rectangle, to the same geometry?
Disturbed(k) ==
  \E j \in Within(k, "layer") + 1 .. k - 1 :
    \/ file[j].word = "layer" /\ BodyOf(j) = BodyOf(Within(k, "layer"))
    \/ file[j].word = "load_gds" /\ file[j].arg[1] = BodyOf(Within(k, "layer"))

\* Instance b is made of the cell named and in the cell of the block around.
MadeInside(b) == insts[b] = [into |-> CellOf(b), of |-> file[b].arg]

\* Command k has changed what the innermost block of its kind is about.
ActsInside(k) ==
  CASE file[k].word = "set_size"     -> acted[k] = CellOf(k)
    [] file[k].word = "set_position" -> acted[k] = Within(k, "inst")
    [] file[k].word = "write_gds"    -> acted[k] = Within(k, "gds")
    [] file[k].word = "rect"         ->
         LET l == Within(k, "layer") IN
         /\ acted[k].geo = BodyOf(l)
         /\ tech[geo[acted[k].geo][acted[k].pos]].name = file[l].arg
    [] OTHER -> acted[k] = file[k].arg[1]

\* Each command works on the object of the innermost block around it that has one
\* of its kind, however blocks of other kinds and other cells stand between them
\* and whatever blocks have ended before: a geometry block takes the innermost
\* cell, a layer block the innermost geometry, and a rectangle is on the layer of
\* the name given, in that geometry. No command works on what is no longer there,
\* but a rectangle behind a layer that was added meanwhile to the same geometry.
InnermostBlock ==
  /\ \A b \in DOMAIN insts : MadeInside(b)
  /\ \A k \in DOMAIN acted : ActsInside(k)
  /\ result = "wild" => file[Len(file)].word = "rect" /\ Disturbed(Len(file))

\* A script comes to its end only as a whole: every block in it was closed, every
\* statement was ended as it must be and every command has been executed. All
\* others end with an error, at the first statement that is wrong.
WholeOrFailed ==
  result = "done" =>
    /\ Opened(1, Len(file)) = Closed(1, Len(file))
    /\ \A k \in DOMAIN file : file[k].word \in Orders => k \in DOMAIN acted /\ file[k].end = ";"
    /\ \A k \in DOMAIN file : file[k].word \in Blocks => file[k].end \in {"{", ";"}
    /\ live = {}
===============================================================================
