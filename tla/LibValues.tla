------------------------------ MODULE LibValues ------------------------------
(* What the statements of a LIB file say: the handlers of lib-parser.c below     *)
(* parse_stmts with the tree they build (lib-ast.c), how its tables are loaded   *)
(* into the database (misc.c), made again from it (fmt-lib.c) and written        *)
(* (lib.c). One cell with one pin; LibReader has the structure around it.        *)
(*                                                                               *)
(* Numbers stand as in the file, in steps of its finest digit, units are factors *)
(* that print exactly. A table has at most three axes, each with a variable and  *)
(* breakpoints; its values count from 0.                                         *)
EXTENDS Tables

CONSTANTS
  Template,  \* names of table templates
  Pin,       \* names of pins
  Unit,      \* factors a unit statement may give
  Index,     \* breakpoints an index attribute may list
  Default,   \* the factor of a unit that no statement gives
  Grain,     \* the last digit that "%f" prints, in steps of numbers
  Prelude,   \* how a file may begin: sequences of statements
  None,      \* the NULL pointer
  MaxStmts   \* bound: statements after the prelude

ASSUME UnitAssumption == Default \in Nat \ {0} /\ Unit \subseteq Nat \ {0}
ASSUME GrainAssumption == Grain \in Nat \ {0}
ASSUME IndexAssumption == Index \subseteq Seq(Nat)
ASSUME MaxStmtsAssumption == MaxStmts \in Nat

VARIABLES
  ahead,  \* what is still to be read of how the file begins
  open,   \* the groups that are open, the library first
  lib,    \* the library built so far
  table,  \* the table whose group is open: struct table_template
  err,    \* a handler returned an error: lib_read gives up
  read,   \* statements read after that
  said,   \* what the file says so far, unscaled (history)
  late    \* a unit followed a value (history)

vars == <<ahead, open, lib, table, err, read, said, late>>

Variable  == {"NONE", "IN_TRAN", "OUT_CAP_TOTAL", "CON_TRAN"}
TableWord == {"cell_rise", "rise_transition"}
GroupWord == {"cell", "pin", "timing", "lu_table_template"} \cup TableWord
Slot      == {"intrinsic_rise", "rise_resistance"} \cup TableWord
Name      == Template \cup Pin \cup Variable \cup {"unnamed", "scalar", "combinational"}

ASSUME NoneAssumption == None \notin Slot \cup Name

NoFormat == [var |-> <<"NONE", "NONE", "NONE">>, idx |-> <<<<>>, <<>>, <<>>>>]
NoTiming == [rel |-> <<>>, type |-> "NONE", scalars |-> [s \in Slot |-> 0], tables |-> <<>>]
NoTable  == [kind |-> None, name |-> None, fmt |-> NoFormat, values |-> None]

\* lib_new.
NewLib == [time |-> Default, cap |-> Default, power |-> Default,
           tmpl |-> <<>>, leakage |-> 0, capacitance |-> 0, timings |-> <<>>]

-------------------------------------------------------------------------------
(* A statement is a word with its arguments. A handler makes of the reader r,    *)
(* which holds the groups open, the library and the table, that after it.        *)

Put(f, n, x)    == [m \in DOMAIN f \cup {n} |-> IF m = n THEN x ELSE f[m]]
Stmt(w)         == [word |-> w, k |-> 0, name |-> "unnamed", nums |-> <<>>]
Named(w, n)     == [Stmt(w) EXCEPT !.name = n]
Given(w, x)     == [Stmt(w) EXCEPT !.nums = <<x>>]
Values(x)       == [Stmt("values") EXCEPT !.nums = x]
IndexOf(k, x)   == [Stmt("index") EXCEPT !.k = k, !.nums = x]
VariableOf(k, v) == [Stmt("variable") EXCEPT !.k = k, !.name = v]
End             == Stmt("}")

\* What the parsers of parameters let through: numbers where a number is due, an
\* axis of a table, a variable that is known.
UnitWord  == {"time_unit", "capacitive_load_unit", "leakage_power_unit"}
ValueWord == {"cell_leakage_power", "capacitance", "intrinsic_rise", "rise_resistance"}
Word      == UnitWord \cup ValueWord \cup GroupWord
             \cup {"index", "variable", "values", "related_pin", "timing_type", "}"}
Statement ==
  {st \in [word : Word, k : 0 .. 3, name : Name, nums : Seq(Nat)] :
     /\ st.word \in {"index", "variable"} => st.k # 0
     /\ st.word = "lu_table_template" => st.name \in Template
     /\ st.word = "variable" => st.name \in Variable
     /\ st.word \in UnitWord \cup ValueWord => st.nums # <<>>}

ASSUME PreludeAssumption == Prelude \subseteq Seq(Statement)

Enter(r, g) == [r EXCEPT !.open = Append(@, g)]
Leave(r)    == [r EXCEPT !.open = Front(@), !.table = NoTable]
Bad(r)      == [r EXCEPT !.err = TRUE]

\* parse_stmts without a handler: a group nobody knows is passed over.
Ignore(r, st) == IF st.word \in GroupWord THEN Enter(r, "skip") ELSE r
InTiming(r)   == Len(r.lib.timings)

\* stmt_table_format, of a template or of a table.
FormatStmt(fmt, st) ==
  IF st.word = "index" THEN [fmt EXCEPT !.idx[st.k] = st.nums]
  ELSE IF st.word = "variable" THEN [fmt EXCEPT !.var[st.k] = st.name]
  ELSE fmt

\* stmt_library.
LibraryStmt(r, st) ==
  IF st.word = "lu_table_template"
  THEN IF st.name \in DOMAIN r.lib.tmpl THEN Bad(r)   \* LIB_ERR_TEMPLATE_EXISTS
       ELSE [Enter(r, "template") EXCEPT !.lib.tmpl = Put(@, st.name, NoFormat), !.table.name = st.name]
  ELSE IF st.word = "cell" THEN Enter(r, "cell")
  ELSE IF st.word = "time_unit" THEN [r EXCEPT !.lib.time = st.nums[1]]
  ELSE IF st.word = "capacitive_load_unit" THEN [r EXCEPT !.lib.cap = st.nums[1]]
  ELSE IF st.word = "leakage_power_unit" THEN [r EXCEPT !.lib.power = st.nums[1]]
  ELSE Ignore(r, st)
TemplateStmt(r, st) == [r EXCEPT !.lib.tmpl[r.table.name] = FormatStmt(@, st)]

\* stmt_cell and stmt_pin.
CellStmt(r, st) ==
  IF st.word = "pin" THEN Enter(r, "pin")
  ELSE IF st.word = "cell_leakage_power" THEN [r EXCEPT !.lib.leakage = st.nums[1] * r.lib.power]
  ELSE Ignore(r, st)
PinStmt(r, st) ==
  IF st.word = "timing" THEN [Enter(r, "timing") EXCEPT !.lib.timings = Append(@, NoTiming)]
  ELSE IF st.word = "capacitance" THEN [r EXCEPT !.lib.capacitance = st.nums[1] * r.lib.cap]
  ELSE Ignore(r, st)

\* stmt_timing: a table begins as a copy of its template.
TimingStmt(r, st) ==
  LET t == InTiming(r) IN
  IF st.word \in TableWord
  THEN IF st.name = "scalar" THEN [Enter(r, "scalar") EXCEPT !.table = [NoTable EXCEPT !.kind = st.word]]
       ELSE IF st.name \notin DOMAIN r.lib.tmpl THEN Bad(r)
       ELSE [Enter(r, "table") EXCEPT
               !.table = [kind |-> st.word, name |-> st.name, fmt |-> r.lib.tmpl[st.name], values |-> None]]
  ELSE IF st.word = "related_pin" THEN [r EXCEPT !.lib.timings[t].rel = Append(@, st.name)]
  ELSE IF st.word = "timing_type" THEN [r EXCEPT !.lib.timings[t].type = st.name]
  ELSE IF st.word = "intrinsic_rise" THEN [r EXCEPT !.lib.timings[t].scalars[st.word] = st.nums[1] * r.lib.time]
  ELSE IF st.word = "rise_resistance" THEN [r EXCEPT !.lib.timings[t].scalars[st.word] = st.nums[1]]
  ELSE Ignore(r, st)

\* stmt_table_scalar and stmt_table.
ScalarStmt(r, st) ==
  IF st.word = "values" /\ Len(st.nums) = 1
  THEN [r EXCEPT !.lib.timings[InTiming(r)].scalars[r.table.kind] = st.nums[1]]
  ELSE Bad(r)
TableStmt(r, st) ==
  IF st.word # "values" THEN [r EXCEPT !.table.fmt = FormatStmt(@, st)]
  ELSE IF r.table.values # None THEN Bad(r)
  ELSE [r EXCEPT !.table.values = st.nums]

UnitOf(l, v) == IF v = "OUT_CAP_TOTAL" THEN l.cap ELSE l.time
Times(s, u)  == [k \in DOMAIN s |-> s[k] * u]
Axes(fmt)    == {k \in 1 .. 3 : fmt.var[k] # "NONE"}
Count(fmt, A) == LET E(k) == IF k \in A THEN Len(fmt.idx[k]) ELSE 1 IN E(1) * E(2) * E(3)
Scaled(l, fmt) == [k \in 1 .. 3 |-> IF k \in Axes(fmt) THEN Times(fmt.idx[k], UnitOf(l, fmt.var[k])) ELSE fmt.idx[k]]

\* Mutant of FileStrides: the first axis is the fastest.
FirstStrides(fmt) == [k \in Axes(fmt) |-> Count(fmt, {j \in Axes(fmt) : j < k})]

\* The strides of a file: the last axis is the fastest.
FileStrides(fmt) == [k \in Axes(fmt) |-> Count(fmt, {j \in Axes(fmt) : j > k})]

\* Mutant of TableEnd: the breakpoints of the template are scaled with its copy.
TableEndShallow(r) ==
  LET fmt  == r.table.fmt
      text == IF r.table.values = None THEN <<>> ELSE r.table.values
      made == [var |-> fmt.var, idx |-> Scaled(r.lib, fmt), stride |-> FileStrides(fmt), values |-> Times(text, r.lib.time)]
      t    == InTiming(r)
  IN  IF r.table.kind \in DOMAIN r.lib.timings[t].tables \/ Count(fmt, Axes(fmt)) # Len(text) THEN Bad(r)
      ELSE [Leave(r) EXCEPT !.lib.timings[t].tables = Put(@, r.table.kind, made), !.lib.tmpl[r.table.name].idx = made.idx]

\* stmt_timing when the group of a table ends: breakpoints are scaled with the
\* unit of their variable, values with that of time, and the strides counted.
\* lib_table_format_copy leaves no list of breakpoints NULL: the checks for one
\* never fail.
TableEnd(r) ==
  LET fmt  == r.table.fmt
      text == IF r.table.values = None THEN <<>> ELSE r.table.values
      made == [var |-> fmt.var, idx |-> Scaled(r.lib, fmt), stride |-> FileStrides(fmt), values |-> Times(text, r.lib.time)]
      t    == InTiming(r)
  IN  IF r.table.kind \in DOMAIN r.lib.timings[t].tables \/ Count(fmt, Axes(fmt)) # Len(text) THEN Bad(r)
      ELSE [Leave(r) EXCEPT !.lib.timings[t].tables = Put(@, r.table.kind, made)]

\* One statement, or the brace that ends a group.
Handle(r, st) ==
  LET g == Last(r.open) IN
  IF r.err THEN r
  ELSE IF st = End THEN IF g = "table" THEN TableEnd(r) ELSE Leave(r)
  ELSE CASE g = "library"  -> LibraryStmt(r, st)
         [] g = "template" -> TemplateStmt(r, st)
         [] g = "cell"     -> CellStmt(r, st)
         [] g = "pin"      -> PinStmt(r, st)
         [] g = "timing"   -> TimingStmt(r, st)
         [] g = "scalar"   -> ScalarStmt(r, st)
         [] g = "table"    -> TableStmt(r, st)
         [] OTHER          -> Ignore(r, st)

-------------------------------------------------------------------------------
(* From the library into the database.                                           *)

Quantity(v) == IF v = "IN_TRAN" THEN InTrans ELSE OutCap
Supported   == {"IN_TRAN", "OUT_CAP_TOTAL"}

\* load_lib_table returns no table for a variable it has no use for, else copies
\* the values as they are into a table with these axes. phx_table_new asserts
\* that each has breakpoints and makes a malformed table of one variable twice:
\* what is loaded then is undefined, see Misloads.
Supports(t) == \A k \in Axes(t) : 1 .. k \subseteq Axes(t) /\ t.var[k] \in Supported
Sound(t) ==
  /\ \A k \in Axes(t) : t.idx[k] # <<>>
  /\ \A j, k \in Axes(t) : t.var[j] = t.var[k] => j = k
LoadTable(t) ==
  LET order == [k \in 1 .. Cardinality(Axes(t)) |-> Quantity(t.var[k])]
      At(a) == CHOOSE k \in DOMAIN order : order[k] = a
  IN  IF ~Supports(t) THEN None
      ELSE TableNew(order, [a \in ToSet(order) |-> t.idx[At(a)]], [k \in 0 .. Len(t.values) - 1 |-> t.values[k + 1]])

\* The tables that load_lib hands to phx_table_new; loading one that is not sound
\* ends the program or goes on with a malformed table.
HandedOver(tmgs) ==
  {T \in UNION {{g.tables[w] : w \in DOMAIN g.tables} : g \in {h \in ToSet(tmgs) : h.rel # <<>> /\ h.type = "combinational"}} :
     Supports(T)}
Misloads(l) == \E T \in HandedOver(l.timings) : ~Sound(T)

\* load_lib and load_lib_timing: one arc for each related pin, by the last timing
\* group that has a table for it; only combinational timing counts.
Loaded(tmgs, pin, word) ==
  LET has == {k \in DOMAIN tmgs : /\ pin \in ToSet(tmgs[k].rel) /\ tmgs[k].type = "combinational"
                                  /\ word \in DOMAIN tmgs[k].tables /\ Supports(tmgs[k].tables[word])}
  IN  IF has = {} THEN None ELSE LoadTable(tmgs[Max(has)].tables[word])
LoadArcs(tmgs) ==
  [pin \in UNION {ToSet(tmgs[k].rel) : k \in DOMAIN tmgs} |->
     [delay |-> Loaded(tmgs, pin, "cell_rise"), trans |-> Loaded(tmgs, pin, "rise_transition")]]

-------------------------------------------------------------------------------
(* From the database into a library, and that into a file.                       *)

\* phx_make_lib_table: the axes by their number, with the strides they have.
MakeTable(T) ==
  LET order == SetToSortSeq(DOMAIN T.fmt, <)
      Axis3(k) == k \in DOMAIN order
  IN  [var    |-> [k \in 1 .. 3 |-> IF ~Axis3(k) THEN "NONE" ELSE IF order[k] = InTrans THEN "IN_TRAN" ELSE "OUT_CAP_TOTAL"],
       idx    |-> [k \in 1 .. 3 |-> IF Axis3(k) THEN T.fmt[order[k]].indices ELSE <<>>],
       stride |-> [k \in DOMAIN order |-> T.fmt[order[k]].stride],
       values |-> [k \in 1 .. Cardinality(DOMAIN T.data) |-> T.data[k - 1]]]

\* phx_make_lib_cell: the timing group of an arc.
MakeTiming(pin, arc) ==
  LET given == {w \in TableWord : IF w = "cell_rise" THEN arc.delay # None ELSE arc.trans # None}
      Of(w) == IF w = "cell_rise" THEN arc.delay ELSE arc.trans
      flat  == {w \in given : DOMAIN Of(w).fmt = {}}
  IN  [rel |-> <<pin>>, type |-> "combinational",
       scalars |-> [s \in Slot |-> IF s \in flat THEN Of(s).data[0] ELSE 0],
       tables  |-> [w \in given \ flat |-> MakeTable(Of(w))]]
MakeCell(l) ==
  LET arcs == LoadArcs(l.timings)
      pins == SetToSeq({p \in DOMAIN arcs : arcs[p] # [delay |-> None, trans |-> None]})
  IN  [NewLib EXCEPT !.leakage = l.leakage, !.capacitance = l.capacitance, !.timings = [k \in DOMAIN pins |-> MakeTiming(pins[k], arcs[pins[k]])]]

\* "%f": a number over its unit, to the nearest that can be printed.
Printed(x, u) == Grain * ((2 * x + u * Grain) \div (2 * u * Grain))

\* write_table: the last axis varies fastest, whatever the strides are.
Over(s, u)   == [k \in DOMAIN s |-> Printed(s[k], u)]
Positions(t) ==
  {p \in [Axes(t) -> UNION {0 .. Len(t.idx[k]) - 1 : k \in Axes(t)}] : \A k \in Axes(t) : p[k] < Len(t.idx[k])}
Walked(p, s) == LET At(k) == IF k \in DOMAIN p THEN p[k] * s[k] ELSE 0 IN At(1) + At(2) + At(3)
Place(t, p)  == Walked(p, t.stride)
Rank(t, p)   == Walked(p, FileStrides(t))

\* Mutant of WriteValues: the values in the order they are held in.
WriteValuesAsHeld(t) == t.values
WriteValues(t) ==
  LET rows == SetToSortSeq(Positions(t), LAMBDA p, q : Rank(t, p) < Rank(t, q))
  IN  [k \in DOMAIN rows |-> t.values[Place(t, rows[k]) + 1]]
WriteFormat(l, t) ==
  LET A == SetToSortSeq(Axes(t), <) IN
  [k \in DOMAIN A |-> VariableOf(A[k], t.var[A[k]])]
  \o [k \in DOMAIN A |-> IndexOf(A[k], Over(t.idx[A[k]], UnitOf(l, t.var[A[k]])))]
WriteTable(l, w, t) ==
  <<Named(w, "some_table_format")>> \o WriteFormat(l, t) \o <<Values(Over(WriteValues(t), l.time)), End>>

\* write_timing: two of the words are not those the reader knows.
Written(s) == IF s = "rise_transition" THEN "transition_rise" ELSE IF s = "rise_resistance" THEN "resistance_rise" ELSE s
WriteSlot(l, tmg, s) ==
  IF s \in DOMAIN tmg.tables THEN WriteTable(l, Written(s), tmg.tables[s])
  ELSE IF tmg.scalars[s] = 0 THEN <<>>
  ELSE IF s \in TableWord THEN <<Named(Written(s), "scalar"), Values(<<Printed(tmg.scalars[s], l.time)>>), End>>
  ELSE <<Given(Written(s), Printed(tmg.scalars[s], l.time))>>
WriteTiming(l, tmg) ==
  <<Stmt("timing")>>
  \o (IF tmg.rel = <<>> THEN <<>> ELSE <<Named("related_pin", IF Len(tmg.rel) = 1 THEN tmg.rel[1] ELSE tmg.rel)>>)
  \o (IF tmg.type = "combinational" THEN <<Named("timing_type", tmg.type)>> ELSE <<>>)
  \o WriteSlot(l, tmg, "intrinsic_rise") \o WriteSlot(l, tmg, "rise_resistance")
  \o WriteSlot(l, tmg, "cell_rise") \o WriteSlot(l, tmg, "rise_transition") \o <<End>>

\* write_lib, write_cell and write_pin.
WriteLib(l) ==
  <<Given("time_unit", l.time), Given("leakage_power_unit", l.power), Given("capacitive_load_unit", l.cap), Stmt("cell")>>
  \o (IF l.leakage = 0 THEN <<>> ELSE <<Given("leakage_power", Printed(l.leakage, l.power))>>)
  \o <<Stmt("pin"), Given("capacitance", Printed(l.capacitance, l.cap))>>
  \o FlattenSeq([k \in DOMAIN l.timings |-> WriteTiming(l, l.timings[k])])
  \o <<End, End>>

-------------------------------------------------------------------------------
Reader   == [open |-> open, lib |-> lib, table |-> table, err |-> err]

\* What is read so far: the reader, the same read as if every unit were 1, and
\* whether a unit came after a value.
Valueless(l)  == l = [NewLib EXCEPT !.tmpl = l.tmpl, !.time = l.time, !.cap = l.cap, !.power = l.power]
Unscaled      == [NewLib EXCEPT !.time = 1, !.cap = 1, !.power = 1]
Step(f, st) ==
  [r    |-> Handle(f.r, st),
   said |-> IF st.word \in UnitWord THEN f.said ELSE Handle([f.r EXCEPT !.lib = f.said], st).lib,
   late |-> f.late \/ (st.word \in UnitWord /\ ~Valueless(f.said))]
Start(l) == [open |-> <<"library">>, lib |-> l, table |-> NoTable, err |-> FALSE]

Become(f) ==
  /\ open' = f.r.open /\ lib' = f.r.lib /\ table' = f.r.table /\ err' = f.r.err
  /\ said' = f.said /\ late' = f.late

Init ==
  /\ ahead \in Prelude
  /\ open = <<"library">> /\ lib = NewLib /\ table = NoTable /\ err = FALSE
  /\ said = Unscaled /\ late = FALSE /\ read = 0

\* Statements that may stand in a group; sample values, all different.
Sample(n) == [k \in 1 .. n |-> k]
Formats   == {IndexOf(k, x) : k \in 1 .. 2, x \in Index}
             \cup {VariableOf(k, v) : k \in 1 .. 2, v \in Variable \ {"NONE"}}
Body(g) ==
  CASE g = "library"  -> {Given(w, u) : w \in UnitWord, u \in Unit} \cup {Stmt("cell")}
                         \cup {Named("lu_table_template", n) : n \in Template}
    [] g = "template" -> Formats
    [] g = "cell"     -> {Given("cell_leakage_power", 1), Stmt("pin")}
    [] g = "pin"      -> {Given("capacitance", 1), Stmt("timing")}
    [] g = "timing"   -> {Named("related_pin", p) : p \in Pin}
                         \cup {Named("timing_type", "combinational"), Given("intrinsic_rise", 1), Given("rise_resistance", 1)}
                         \cup {Named(w, n) : w \in TableWord, n \in Template \cup {"scalar"}}
    [] g = "scalar"   -> {Values(Sample(1))}
    [] g = "table"    -> Formats \cup {Values(Sample(n)) : n \in {2, 4, 6}}
    [] OTHER          -> {}

\* parse_stmts: a statement, of the beginning of the file or behind it.
Read(st) ==
  /\ ~err /\ (st = End => Len(open) > 1)
  /\ Become(Step([r |-> Reader, said |-> said, late |-> late], st))

Next ==
  \/ /\ ahead # <<>> /\ Read(Head(ahead))
     /\ ahead' = Tail(ahead) /\ UNCHANGED read
  \/ /\ ahead = <<>> /\ read < MaxStmts
     /\ \E st \in Body(Last(open)) \cup {End} : Read(st)
     /\ read' = read + 1 /\ UNCHANGED ahead

Spec == Init /\ [][Next]_vars

-------------------------------------------------------------------------------
(* Properties.                                                                   *)

\* If no unit follows a value, the leakage, the capacitance, the intrinsic delay
\* and every breakpoint and value of a table are what the file says times their
\* own unit, once: a table that takes its breakpoints from a template does not
\* scale them for the next one, a breakpoint that overrides the template's is
\* scaled like it, and what is written twice counts once (lib-parser.c:531,
\* 598-657, 707, 760). Tables of one scalar are the subject of ScalarsScaled.
ScaledOnce ==
  ~late =>
    /\ lib.tmpl = said.tmpl
    /\ lib.leakage = said.leakage * lib.power
    /\ lib.capacitance = said.capacitance * lib.cap
    /\ Len(lib.timings) = Len(said.timings)
    /\ \A t \in DOMAIN lib.timings :
         LET now == lib.timings[t]  text == said.timings[t] IN
         /\ now.scalars["intrinsic_rise"] = text.scalars["intrinsic_rise"] * lib.time
         /\ DOMAIN now.tables = DOMAIN text.tables
         /\ \A w \in DOMAIN now.tables :
              /\ now.tables[w].values = Times(text.tables[w].values, lib.time)
              /\ \A k \in Axes(text.tables[w]) :
                   now.tables[w].idx[k] = Times(text.tables[w].idx[k], UnitOf(lib, text.tables[w].var[k]))

\* "Treat "scalar" tables just like regular scalars." (lib-parser.c:550): if no
\* unit follows a value, the value of a table of one scalar is what the file says
\* times the unit of time, as that of an attribute is.
ScalarsScaled ==
  ~late => \A t \in DOMAIN lib.timings, w \in TableWord :
    lib.timings[t].scalars[w] = said.timings[t].scalars[w] * lib.time

\* The values of a stored table are addressed as a file lists them: a later point
\* in the order of the axes is at a later place, and the places fill the table.
FileOrder ==
  \A t \in DOMAIN lib.timings : \A w \in DOMAIN lib.timings[t].tables :
    LET T == lib.timings[t].tables[w]
        Precedes(p, q) == \E k \in DOMAIN p : p[k] < q[k] /\ \A j \in DOMAIN p : j < k => p[j] = q[j]
    IN  /\ {Place(T, p) : p \in Positions(T)} = 0 .. Len(T.values) - 1
        /\ \A p, q \in Positions(T) : Precedes(p, q) => Place(T, p) < Place(T, q)

\* The assertion of phx_table_new, assert(num_indices[u] > 0) (table.c:53), about
\* the tables that load_lib hands to it.
AxesHaveBreakpoints == \A T \in HandedOver(lib.timings) : \A k \in Axes(T) : T.idx[k] # <<>>

\* A cell that was read, loaded, made again and written (lib.c:173-477): as it is
\* written it is refused if a delay table is in it, for want of the template the
\* table names; a reader that knows that template finds the same arcs and delay
\* tables, point by point to half of the last digit printed, though the database
\* holds the values in another order than the file lists them.
WrittenReadsBack ==
  ~late /\ ~err /\ ~Misloads(lib) =>
    LET made  == MakeCell(lib)
        known == [NewLib EXCEPT !.tmpl = "some_table_format" :> NoFormat]
        From(l) == FoldLeft(Handle, Start(l), WriteLib(made))
        back  == From(known)
        Near(b, m, u) == 2 * b <= 2 * m + u * Grain /\ 2 * m <= 2 * b + u * Grain
    IN  /\ From(NewLib).err <=> \E t \in DOMAIN made.timings : "cell_rise" \in DOMAIN made.timings[t].tables
        /\ ~back.err
        /\ Near(back.lib.capacitance, made.capacitance, made.cap)
        /\ Len(back.lib.timings) = Len(made.timings)
        /\ \A t \in DOMAIN made.timings :
             LET m == made.timings[t]  b == back.lib.timings[t] IN
             /\ b.rel = m.rel /\ b.type = m.type
             /\ DOMAIN b.tables = DOMAIN m.tables \ {"rise_transition"}
             /\ \A w \in DOMAIN b.tables :
                  LET B == b.tables[w]  M == m.tables[w] IN
                  /\ B.var = M.var /\ Positions(B) = Positions(M)
                  /\ \A k \in Axes(M) : \A i \in DOMAIN M.idx[k] : Near(B.idx[k][i], M.idx[k][i], UnitOf(made, M.var[k]))
                  /\ \A p \in Positions(M) : Near(B.values[Place(B, p) + 1], M.values[Place(M, p) + 1], made.time)

\* "Create a new table with the same information as the table in the LIB file."
\* (misc.c:374-375): the loaded table has the value of the file at each point.
LoadedAsInFile ==
  ~Misloads(lib) =>
    \A T \in HandedOver(lib.timings) :
      LET L == LoadTable(T) IN
      \A p \in Positions(T) :
        T.values[Place(T, p) + 1] = ValueAt(L, [a \in DOMAIN L.fmt |-> p[CHOOSE k \in DOMAIN p : Quantity(T.var[k]) = a]])
===============================================================================
