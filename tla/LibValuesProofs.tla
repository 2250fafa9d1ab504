--------------------------- MODULE LibValuesProofs ---------------------------
(* What the contents of a LIB file come to in the library, for files of any       *)
(* statements, units, templates and tables.                                       *)
EXTENDS LibValues, Foundations, SequenceTheorems

Group == {"library", "template", "cell", "pin", "timing", "scalar", "table", "skip"}

\* Functions from some of K.
Parts(K, S) == UNION {[D -> S] : D \in SUBSET K}

Format == [var : [1 .. 3 -> Variable], idx : [1 .. 3 -> Seq(Nat)]]
Stored ==
  {T \in [var : [1 .. 3 -> Variable], idx : [1 .. 3 -> Seq(Nat)], stride : Parts(1 .. 3, Nat), values : Seq(Nat)] :
     T.stride = FileStrides(T) /\ Len(T.values) = Count(T, Axes(T))}
Timing == [rel : Seq(Name), type : Name, scalars : [Slot -> Nat], tables : Parts(TableWord \cup {None}, Stored)]
Library ==
  [time : Nat, cap : Nat, power : Nat, tmpl : Parts(Template, Format),
   leakage : Nat, capacitance : Nat, timings : Seq(Timing)]
Open == [kind : TableWord \cup {None}, name : Name \cup {None}, fmt : Format, values : Seq(Nat) \cup {None}]

\* A stored table has as many values as it has points, and the strides of a file,
\* in the library and in what the file says (lib-parser.c:571-661).
TypeOK ==
  /\ ahead \in Seq(Statement) /\ open \in Seq(Group) /\ lib \in Library /\ table \in Open
  /\ err \in BOOLEAN /\ read \in 0 .. MaxStmts /\ said \in Library /\ late \in BOOLEAN

\* What a handler is given, and gives back.
Held == [open : Seq(Group), lib : Library, table : Open, err : BOOLEAN]

\* A timing group is what the file says times the units, once.
TimingAgrees(l, now, text) ==
  /\ now.scalars["intrinsic_rise"] = text.scalars["intrinsic_rise"] * l.time
  /\ DOMAIN now.tables = DOMAIN text.tables
  /\ \A w \in DOMAIN now.tables :
       /\ now.tables[w].values = Times(text.tables[w].values, l.time)
       /\ \A k \in Axes(text.tables[w]) :
            now.tables[w].idx[k] = Times(text.tables[w].idx[k], UnitOf(l, text.tables[w].var[k]))

Agrees(l, s) ==
  /\ l.tmpl = s.tmpl /\ l.leakage = s.leakage * l.power /\ l.capacitance = s.capacitance * l.cap
  /\ Len(l.timings) = Len(s.timings)
  /\ \A t \in DOMAIN l.timings : TimingAgrees(l, l.timings[t], s.timings[t])

Unit1(s) == s.time = 1 /\ s.cap = 1 /\ s.power = 1

\* The invariant: what the file says is kept without units.
IInv == TypeOK /\ Unit1(said) /\ ScaledOnce

LEMMA ScaledOnceIsAgreement == ScaledOnce <=> (~late => Agrees(lib, said))
BY DEF ScaledOnce, Agrees, TimingAgrees

-------------------------------------------------------------------------------
(* Types.                                                                         *)

LEMMA PutPart ==
  ASSUME NEW K, NEW S, NEW f \in Parts(K, S), NEW n \in K, NEW x \in S
  PROVE  Put(f, n, x) \in Parts(K, S)
<1>1. PICK D \in SUBSET K : f \in [D -> S]
  BY DEF Parts
<1>2. Put(f, n, x) \in [D \cup {n} -> S]
  BY <1>1 DEF Put
<1>3. D \cup {n} \in SUBSET K
  OBVIOUS
<1> QED BY <1>2, <1>3 DEF Parts

LEMMA ExceptPart ==
  ASSUME NEW K, NEW S, NEW f \in Parts(K, S), NEW n, NEW x, n \in DOMAIN f => x \in S
  PROVE  [f EXCEPT ![n] = x] \in Parts(K, S)
BY DEF Parts

LEMMA UpdatedSeq ==
  ASSUME NEW S, NEW s \in Seq(S), NEW n, NEW x, n \in DOMAIN s => x \in S
  PROVE  [s EXCEPT ![n] = x] \in Seq(S) /\ Len([s EXCEPT ![n] = x]) = Len(s)
<1>1. CASE n \in DOMAIN s
  BY <1>1, ExceptSeq
<1>2. CASE n \notin DOMAIN s
  <2>1. [s EXCEPT ![n] = x] = s
    BY <1>2
  <2> QED BY <1>2, <2>1
<1> QED BY <1>1, <1>2

LEMMA TimesType ==
  ASSUME NEW s \in Seq(Nat), NEW u \in Nat
  PROVE  Times(s, u) \in Seq(Nat) /\ Len(Times(s, u)) = Len(s) /\ Times(s, 1) = s
<1>1. ASSUME NEW v \in Nat PROVE Times(s, v) \in Seq(Nat) /\ Len(Times(s, v)) = Len(s)
  <2>1. \A k \in 1 .. Len(s) : s[k] * v \in Nat
    OBVIOUS
  <2>2. PICK n \in Nat : n = Len(s) /\ DOMAIN s = 1 .. n
    OBVIOUS
  <2>3. Times(s, v) \in [1 .. n -> Nat]
    BY <2>1, <2>2 DEF Times
  <2> QED BY <2>2, <2>3
<1>2. \A k \in DOMAIN s : s[k] * 1 = s[k]
  OBVIOUS
<1>3. Times(s, 1) = [k \in DOMAIN s |-> s[k]]
  BY <1>2 DEF Times
<1> QED BY <1>1, <1>3

LEMMA NoFormatType == NoFormat \in Format /\ \A k \in 1 .. 3 : NoFormat.var[k] = "NONE"
<1>1. <<"NONE", "NONE", "NONE">> \in [1 .. 3 -> Variable]
  BY DEF Variable
<1>2. \A e \in Seq(Nat) : <<e, e, e>> \in [1 .. 3 -> Seq(Nat)]
  OBVIOUS
<1>3. <<<<>>, <<>>, <<>>>> \in [1 .. 3 -> Seq(Nat)]
  BY <1>2, EmptySeq
<1> QED BY <1>1, <1>3 DEF NoFormat, Format

LEMMA FormatStmtType ==
  ASSUME NEW fmt \in Format, NEW st \in Statement
  PROVE  FormatStmt(fmt, st) \in Format
<1>1. CASE st.word = "index"
  <2>1. st.nums \in Seq(Nat)
    BY DEF Statement
  <2>2. [fmt.idx EXCEPT ![st.k] = st.nums] \in [1 .. 3 -> Seq(Nat)]
    BY <2>1 DEF Format
  <2> QED BY <1>1, <2>2 DEF FormatStmt, Format
<1>2. CASE st.word = "variable"
  <2>1. st.name \in Variable
    BY <1>2 DEF Statement
  <2>2. [fmt.var EXCEPT ![st.k] = st.name] \in [1 .. 3 -> Variable]
    BY <2>1 DEF Format
  <2> QED BY <1>2, <2>2 DEF FormatStmt, Format
<1> QED BY <1>1, <1>2 DEF FormatStmt

\* A library with another timing group at t.
With(l, t, x) == [l EXCEPT !.timings = [l.timings EXCEPT ![t] = x]]

LEMMA NewTimingType == NoTiming \in Timing /\ DOMAIN NoTiming.tables = {}
<1>1. <<>> \in Seq(Name) /\ DOMAIN <<>> = {}
  BY EmptySeq
<1>2. <<>> \in [{} -> Stored]
  OBVIOUS
<1>3. <<>> \in Parts(TableWord \cup {None}, Stored)
  BY <1>2 DEF Parts
<1>4. [s \in Slot |-> 0] \in [Slot -> Nat]
  OBVIOUS
<1>5. ASSUME NEW e \in Seq(Name), NEW f \in [Slot -> Nat], NEW g \in Parts(TableWord \cup {None}, Stored)
      PROVE  [rel |-> e, type |-> "NONE", scalars |-> f, tables |-> g] \in Timing
  <2>1. "NONE" \in Name
    BY DEF Name, Variable
  <2> QED BY <2>1 DEF Timing
<1>6. NoTiming = [rel |-> <<>>, type |-> "NONE", scalars |-> [s \in Slot |-> 0], tables |-> <<>>]
  BY DEF NoTiming
<1>7. NoTiming \in Timing
  BY <1>1, <1>3, <1>4, <1>5, <1>6
<1>8. NoTiming.tables = <<>>
  BY <1>6
<1> QED BY <1>1, <1>7, <1>8

LEMMA NewTableType == NoTable \in Open
BY NoFormatType DEF NoTable, Open

LEMMA EnterType ==
  ASSUME NEW r \in Held, NEW g \in Group
  PROVE  /\ Enter(r, g) \in Held /\ Enter(r, g).lib = r.lib /\ Enter(r, g).table = r.table
         /\ Enter(r, g).err = r.err
<1>1. Append(r.open, g) \in Seq(Group)
  BY AppendProperties DEF Held
<1> QED BY <1>1 DEF Enter, Held

LEMMA LeaveType ==
  ASSUME NEW r \in Held
  PROVE  Leave(r) \in Held /\ Leave(r).lib = r.lib
<1>1. r.open \in Seq(Group)
  BY DEF Held
<1>2. Front(r.open) \in Seq(Group)
  BY <1>1 DEF Front
<1> QED BY <1>2, NewTableType DEF Leave, Held

LEMMA BadType ==
  ASSUME NEW r \in Held
  PROVE  Bad(r) \in Held /\ Bad(r).lib = r.lib
BY DEF Bad, Held

LEMMA IgnoreType ==
  ASSUME NEW r \in Held, NEW st
  PROVE  Ignore(r, st) \in Held /\ Ignore(r, st).lib = r.lib
<1>1. Enter(r, "skip") \in Held /\ Enter(r, "skip").lib = r.lib
  <2>1. "skip" \in Group
    BY DEF Group
  <2> QED BY <2>1, EnterType
<1> QED BY <1>1 DEF Ignore

\* A handler that changes the library only.
LEMMA HeldWith ==
  ASSUME NEW r \in Held, NEW l \in Library
  PROVE  [r EXCEPT !.lib = l] \in Held /\ [r EXCEPT !.lib = l].lib = l
         /\ [r EXCEPT !.lib = l].table = r.table /\ [r EXCEPT !.lib = l].open = r.open
BY DEF Held

-------------------------------------------------------------------------------
(* Each handler keeps the types; only a unit statement changes a unit.            *)

SameUnits(l, m) == m.time = l.time /\ m.cap = l.cap /\ m.power = l.power

\* What a handler gives back is well formed, and so is its table, which it leaves
\* alone where it changes the library.
LEMMA LibraryParts ==
  ASSUME NEW l \in Library
  PROVE  /\ \A x \in Parts(Template, Format) : [l EXCEPT !.tmpl = x] \in Library /\ [l EXCEPT !.tmpl = x].tmpl = x
                                                /\ SameUnits(l, [l EXCEPT !.tmpl = x])
         /\ \A x \in Nat : [l EXCEPT !.leakage = x] \in Library /\ SameUnits(l, [l EXCEPT !.leakage = x])
         /\ \A x \in Nat : [l EXCEPT !.capacitance = x] \in Library /\ SameUnits(l, [l EXCEPT !.capacitance = x])
         /\ \A x \in Seq(Timing) : [l EXCEPT !.timings = x] \in Library /\ SameUnits(l, [l EXCEPT !.timings = x])
         /\ \A x \in Nat : /\ [l EXCEPT !.time = x] \in Library /\ [l EXCEPT !.cap = x] \in Library
                           /\ [l EXCEPT !.power = x] \in Library
BY DEF Library, SameUnits

LEMMA WithType ==
  ASSUME NEW l \in Library, NEW t, NEW x, t \in DOMAIN l.timings => x \in Timing
  PROVE  With(l, t, x) \in Library /\ SameUnits(l, With(l, t, x))
<1>1. l.timings \in Seq(Timing)
  BY DEF Library
<1>2. PICK y \in Seq(Timing) : y = [l.timings EXCEPT ![t] = x]
  BY <1>1, UpdatedSeq
<1>3. With(l, t, x) = [l EXCEPT !.timings = y]
  BY <1>2 DEF With
<1> QED BY <1>3, LibraryParts

LEMMA StatementParts ==
  ASSUME NEW st \in Statement
  PROVE  /\ st.name \in Name /\ st.nums \in Seq(Nat) /\ st.k \in 0 .. 3 /\ st.word \in Word
         /\ st.word = "lu_table_template" => st.name \in Template
         /\ st.word \in UnitWord \cup ValueWord => st.nums[1] \in Nat
<1>1. /\ st.name \in Name /\ st.nums \in Seq(Nat) /\ st.k \in 0 .. 3 /\ st.word \in Word
      /\ st.word = "lu_table_template" => st.name \in Template
      /\ st.word \in UnitWord \cup ValueWord => st.nums # <<>>
  BY DEF Statement
<1>2. st.nums # <<>> => st.nums[1] \in Nat
  BY <1>1
<1> QED BY <1>1, <1>2

LEMMA LibraryStmtTypes ==
  ASSUME NEW r \in Held, NEW st \in Statement
  PROVE  /\ LibraryStmt(r, st) \in Held
         /\ st.word \notin UnitWord => SameUnits(r.lib, LibraryStmt(r, st).lib)
<1> DEFINE q == LibraryStmt(r, st)
<1>0. r.lib \in Library /\ r.table \in Open
  BY DEF Held
<1>1. CASE st.word = "lu_table_template"
  <2>1. CASE st.name \in DOMAIN r.lib.tmpl
    BY <1>1, <2>1, BadType DEF LibraryStmt, SameUnits
  <2>2. CASE st.name \notin DOMAIN r.lib.tmpl
    <3>1. PICK e \in Held : e = Enter(r, "template") /\ e.lib = r.lib /\ e.table = r.table
      BY EnterType DEF Group
    <3>2. PICK p \in Parts(Template, Format) : p = Put(e.lib.tmpl, st.name, NoFormat)
      <4>1. e.lib.tmpl \in Parts(Template, Format)
        BY <1>0, <3>1 DEF Library
      <4> QED BY <1>1, <4>1, StatementParts, NoFormatType, PutPart
    <3>3. q = [e EXCEPT !.lib = [e.lib EXCEPT !.tmpl = p], !.table = [e.table EXCEPT !.name = st.name]]
      BY <1>1, <2>2, <3>1, <3>2 DEF LibraryStmt, Held
    <3>4. [e.lib EXCEPT !.tmpl = p] \in Library /\ SameUnits(r.lib, [e.lib EXCEPT !.tmpl = p])
      BY <1>0, <3>1, LibraryParts
    <3>5. [e.table EXCEPT !.name = st.name] \in Open
      BY <1>0, <3>1, StatementParts DEF Open
    <3> QED BY <3>3, <3>4, <3>5 DEF Held
  <2> QED BY <2>1, <2>2
<1>2. CASE st.word = "cell"
  <2>1. "cell" \in Group
    BY DEF Group
  <2> QED BY <1>2, <2>1, EnterType DEF LibraryStmt, SameUnits
<1>3. CASE st.word \in UnitWord
  <2>1. st.nums[1] \in Nat
    BY <1>3, StatementParts
  <2>2. \E l \in Library : q = [r EXCEPT !.lib = l]
    BY <1>0, <1>3, <2>1, LibraryParts DEF LibraryStmt, UnitWord, Held
  <2> QED BY <1>3, <2>2, HeldWith
<1>4. CASE st.word \notin UnitWord \cup {"lu_table_template", "cell"}
  <2>1. q = Ignore(r, st)
    BY <1>4 DEF LibraryStmt, UnitWord
  <2> QED BY <2>1, IgnoreType DEF SameUnits
<1> QED BY <1>1, <1>2, <1>3, <1>4

LEMMA TemplateStmtTypes ==
  ASSUME NEW r \in Held, NEW st \in Statement
  PROVE  TemplateStmt(r, st) \in Held /\ SameUnits(r.lib, TemplateStmt(r, st).lib)
<1>0. r.lib \in Library /\ r.lib.tmpl \in Parts(Template, Format)
  BY DEF Held, Library
<1> DEFINE n == r.table.name
           x == [r.lib.tmpl EXCEPT ![n] = FormatStmt(r.lib.tmpl[n], st)]
<1>1. n \in DOMAIN r.lib.tmpl => FormatStmt(r.lib.tmpl[n], st) \in Format
  <2>1. n \in DOMAIN r.lib.tmpl => r.lib.tmpl[n] \in Format
    BY <1>0 DEF Parts
  <2> QED BY <2>1, FormatStmtType
<1>2. x \in Parts(Template, Format)
  BY <1>0, <1>1, ExceptPart
<1>3. TemplateStmt(r, st) = [r EXCEPT !.lib = [r.lib EXCEPT !.tmpl = x]]
  BY <1>0 DEF TemplateStmt, Held, Library
<1> HIDE DEF x
<1>4. [r.lib EXCEPT !.tmpl = x] \in Library /\ SameUnits(r.lib, [r.lib EXCEPT !.tmpl = x])
  BY <1>0, <1>2, LibraryParts
<1> QED BY <1>3, <1>4, HeldWith

LEMMA CellStmtTypes ==
  ASSUME NEW r \in Held, NEW st \in Statement
  PROVE  CellStmt(r, st) \in Held /\ SameUnits(r.lib, CellStmt(r, st).lib)
<1>0. r.lib \in Library /\ r.lib.power \in Nat
  BY DEF Held, Library
<1>1. CASE st.word = "pin"
  <2>1. "pin" \in Group
    BY DEF Group
  <2> QED BY <1>1, <2>1, EnterType DEF CellStmt, SameUnits
<1>2. CASE st.word = "cell_leakage_power"
  <2>1. st.nums[1] \in Nat
    BY <1>2, StatementParts DEF ValueWord
  <2>2. PICK x \in Nat : x = st.nums[1] * r.lib.power
    BY <1>0, <2>1
  <2>3. CellStmt(r, st) = [r EXCEPT !.lib = [r.lib EXCEPT !.leakage = x]]
    BY <1>2, <2>2 DEF CellStmt, Held
  <2>4. [r.lib EXCEPT !.leakage = x] \in Library /\ SameUnits(r.lib, [r.lib EXCEPT !.leakage = x])
    BY <1>0, LibraryParts
  <2> QED BY <2>3, <2>4, HeldWith
<1>3. CASE st.word \notin {"pin", "cell_leakage_power"}
  BY <1>3, IgnoreType DEF CellStmt, SameUnits
<1> QED BY <1>1, <1>2, <1>3

LEMMA PinStmtTypes ==
  ASSUME NEW r \in Held, NEW st \in Statement
  PROVE  PinStmt(r, st) \in Held /\ SameUnits(r.lib, PinStmt(r, st).lib)
<1>0. r.lib \in Library /\ r.lib.cap \in Nat /\ r.lib.timings \in Seq(Timing)
  BY DEF Held, Library
<1>1. CASE st.word = "timing"
  <2>1. PICK e \in Held : e = Enter(r, "timing") /\ e.lib = r.lib
    BY EnterType DEF Group
  <2>2. PICK x \in Seq(Timing) : x = Append(r.lib.timings, NoTiming)
    BY <1>0, NewTimingType, AppendProperties
  <2>3. PinStmt(r, st) = [e EXCEPT !.lib = [r.lib EXCEPT !.timings = x]]
    BY <1>1, <2>1, <2>2 DEF PinStmt, Held
  <2>4. [r.lib EXCEPT !.timings = x] \in Library /\ SameUnits(r.lib, [r.lib EXCEPT !.timings = x])
    BY <1>0, LibraryParts
  <2> QED BY <2>3, <2>4, HeldWith
<1>2. CASE st.word = "capacitance"
  <2>1. st.nums[1] \in Nat
    BY <1>2, StatementParts DEF ValueWord
  <2>2. PICK x \in Nat : x = st.nums[1] * r.lib.cap
    BY <1>0, <2>1
  <2>3. PinStmt(r, st) = [r EXCEPT !.lib = [r.lib EXCEPT !.capacitance = x]]
    BY <1>2, <2>2 DEF PinStmt, Held
  <2>4. [r.lib EXCEPT !.capacitance = x] \in Library /\ SameUnits(r.lib, [r.lib EXCEPT !.capacitance = x])
    BY <1>0, LibraryParts
  <2> QED BY <2>3, <2>4, HeldWith
<1>3. CASE st.word \notin {"timing", "capacitance"}
  BY <1>3, IgnoreType DEF PinStmt, SameUnits
<1> QED BY <1>1, <1>2, <1>3

\* What a statement of a timing group makes of the last one, T.
Attribute(T, l, st) ==
  IF st.word = "related_pin" THEN [T EXCEPT !.rel = Append(T.rel, st.name)]
  ELSE IF st.word = "timing_type" THEN [T EXCEPT !.type = st.name]
  ELSE IF st.word = "intrinsic_rise" THEN [T EXCEPT !.scalars = [T.scalars EXCEPT !["intrinsic_rise"] = st.nums[1] * l.time]]
  ELSE [T EXCEPT !.scalars = [T.scalars EXCEPT !["rise_resistance"] = st.nums[1]]]
AttributeWord == {"related_pin", "timing_type", "intrinsic_rise", "rise_resistance"}

LEMMA AttributeType ==
  ASSUME NEW T \in Timing, NEW l \in Library, NEW st \in Statement, st.word \in AttributeWord
  PROVE  Attribute(T, l, st) \in Timing /\ Attribute(T, l, st).tables = T.tables
<1>1. /\ T.rel \in Seq(Name) /\ T.scalars \in [Slot -> Nat] /\ st.name \in Name /\ l.time \in Nat
      /\ st.word \in {"intrinsic_rise", "rise_resistance"} => st.nums[1] \in Nat
  BY StatementParts DEF Timing, Library, ValueWord
<1>2. CASE st.word = "related_pin"
  <2>1. Append(T.rel, st.name) \in Seq(Name)
    BY <1>1, AppendProperties
  <2> QED BY <1>2, <2>1 DEF Attribute, Timing
<1>3. CASE st.word = "timing_type"
  BY <1>1, <1>3 DEF Attribute, Timing
<1>4. CASE st.word = "intrinsic_rise"
  <2>1. PICK x \in Nat : x = st.nums[1] * l.time
    BY <1>1, <1>4
  <2>2. [T.scalars EXCEPT !["intrinsic_rise"] = x] \in [Slot -> Nat]
    BY <1>1
  <2> QED BY <1>4, <2>1, <2>2 DEF Attribute, Timing
<1>5. CASE st.word = "rise_resistance"
  <2>1. [T.scalars EXCEPT !["rise_resistance"] = st.nums[1]] \in [Slot -> Nat]
    BY <1>1, <1>5
  <2> QED BY <1>5, <2>1 DEF Attribute, Timing
<1> QED BY <1>2, <1>3, <1>4, <1>5 DEF AttributeWord

LEMMA TimingStmtLib ==
  ASSUME NEW r \in Held, NEW st \in Statement
  PROVE  LET l == r.lib IN
         /\ st.word \in AttributeWord =>
              /\ TimingStmt(r, st) = [r EXCEPT !.lib = With(l, InTiming(r), Attribute(l.timings[InTiming(r)], l, st))]
         /\ st.word \notin AttributeWord => TimingStmt(r, st).lib = l
<1> DEFINE t == InTiming(r)
           T == r.lib.timings[t]
<1>1. CASE st.word \in AttributeWord
  <2>1. st.word \notin TableWord
    BY <1>1 DEF AttributeWord, TableWord
  <2>2. CASE st.word = "related_pin"
    BY <2>1, <2>2, <1>1 DEF TimingStmt, With, Attribute, Held, Library
  <2>3. CASE st.word = "timing_type"
    BY <2>1, <2>3, <1>1 DEF TimingStmt, With, Attribute, Held, Library
  <2>4. CASE st.word = "intrinsic_rise"
    BY <2>1, <2>4, <1>1 DEF TimingStmt, With, Attribute, Held, Library
  <2>5. CASE st.word = "rise_resistance"
    BY <2>1, <2>5, <1>1 DEF TimingStmt, With, Attribute, Held, Library
  <2> QED BY <1>1, <2>2, <2>3, <2>4, <2>5 DEF AttributeWord
<1>2. CASE st.word \in TableWord
  <2>1. "scalar" \in Group /\ "table" \in Group
    BY DEF Group
  <2>2. /\ Enter(r, "scalar") \in Held /\ Enter(r, "scalar").lib = r.lib
        /\ Enter(r, "table") \in Held /\ Enter(r, "table").lib = r.lib
    BY <2>1, EnterType
  <2>3. st.word \notin AttributeWord
    BY <1>2 DEF AttributeWord, TableWord
  <2>4. \A e \in Held : \A x : [e EXCEPT !.table = x].lib = e.lib
    BY DEF Held
  <2>5. TimingStmt(r, st).lib = r.lib
    BY <1>2, <2>2, <2>4, BadType DEF TimingStmt
  <2> QED BY <2>3, <2>5
<1>3. CASE st.word \notin AttributeWord \cup TableWord
  <2>1. TimingStmt(r, st) = Ignore(r, st)
    BY <1>3 DEF TimingStmt, AttributeWord
  <2> QED BY <1>3, <2>1, IgnoreType
<1> QED BY <1>1, <1>2, <1>3

LEMMA TimingStmtTypes ==
  ASSUME NEW r \in Held, NEW st \in Statement
  PROVE  TimingStmt(r, st) \in Held /\ SameUnits(r.lib, TimingStmt(r, st).lib)
<1>0. r.lib \in Library /\ r.table \in Open /\ r.lib.tmpl \in Parts(Template, Format) /\ r.lib.timings \in Seq(Timing)
  BY DEF Held, Library
<1>1. CASE st.word \in AttributeWord
  <2>0. PICK t, x : t = InTiming(r) /\ x = Attribute(r.lib.timings[t], r.lib, st)
    OBVIOUS
  <2>1. t \in DOMAIN r.lib.timings => x \in Timing
    <3>1. t \in DOMAIN r.lib.timings => r.lib.timings[t] \in Timing
      BY <1>0
    <3> QED BY <1>0, <1>1, <2>0, <3>1, AttributeType
  <2>2. With(r.lib, t, x) \in Library /\ SameUnits(r.lib, With(r.lib, t, x))
    BY <1>0, <2>1, WithType
  <2>3. TimingStmt(r, st) = [r EXCEPT !.lib = With(r.lib, t, x)]
    BY <1>1, <2>0, TimingStmtLib
  <2> QED BY <2>2, <2>3, HeldWith
<1>2. CASE st.word \notin AttributeWord
  <2>1. TimingStmt(r, st).lib = r.lib
    BY <1>2, TimingStmtLib
  <2>2. CASE st.word \in TableWord /\ st.name = "scalar"
    <3>1. PICK e \in Held : e = Enter(r, "scalar")
      BY EnterType DEF Group
    <3>2. [NoTable EXCEPT !.kind = st.word] \in Open
      BY <2>2, NewTableType DEF Open
    <3>3. TimingStmt(r, st) = [e EXCEPT !.table = [NoTable EXCEPT !.kind = st.word]]
      BY <2>2, <3>1 DEF TimingStmt
    <3>4. TimingStmt(r, st) \in Held
      BY <3>2, <3>3 DEF Held
    <3> QED BY <2>1, <3>4 DEF SameUnits
  <2>3. CASE st.word \in TableWord /\ st.name # "scalar" /\ st.name \notin DOMAIN r.lib.tmpl
    BY <2>3, BadType DEF TimingStmt, SameUnits
  <2>4. CASE st.word \in TableWord /\ st.name # "scalar" /\ st.name \in DOMAIN r.lib.tmpl
    <3>1. PICK e \in Held : e = Enter(r, "table")
      BY EnterType DEF Group
    <3>2. r.lib.tmpl[st.name] \in Format
      BY <1>0, <2>4 DEF Parts
    <3>3. PICK x : x = [kind |-> st.word, name |-> st.name, fmt |-> r.lib.tmpl[st.name], values |-> None]
      OBVIOUS
    <3>4. x \in Open
      BY <2>4, <3>2, <3>3, StatementParts DEF Open
    <3>5. TimingStmt(r, st) = [e EXCEPT !.table = x]
      BY <2>4, <3>1, <3>3 DEF TimingStmt
    <3>6. TimingStmt(r, st) \in Held
      BY <3>4, <3>5 DEF Held
    <3> QED BY <2>1, <3>6 DEF SameUnits
  <2>5. CASE st.word \notin TableWord
    <3>1. TimingStmt(r, st) = Ignore(r, st)
      BY <1>2, <2>5 DEF TimingStmt, AttributeWord
    <3> QED BY <3>1, IgnoreType DEF SameUnits
  <2> QED BY <2>2, <2>3, <2>4, <2>5
<1> QED BY <1>1, <1>2

LEMMA ScalarStmtTypes ==
  ASSUME NEW r \in Held, NEW st \in Statement
  PROVE  /\ ScalarStmt(r, st) \in Held /\ SameUnits(r.lib, ScalarStmt(r, st).lib)
         /\ \/ st.word = "values" /\ Len(st.nums) = 1
            \/ ScalarStmt(r, st).lib = r.lib
<1>0. r.lib \in Library /\ r.lib.timings \in Seq(Timing)
  BY DEF Held, Library
<1>1. CASE st.word = "values" /\ Len(st.nums) = 1
  <2>0. PICK t, x : t = InTiming(r) /\ x = [r.lib.timings[t] EXCEPT !.scalars =
                      [r.lib.timings[t].scalars EXCEPT ![r.table.kind] = st.nums[1]]]
    OBVIOUS
  <2>1. t \in DOMAIN r.lib.timings => x \in Timing
    <3>1. SUFFICES ASSUME t \in DOMAIN r.lib.timings PROVE x \in Timing
      OBVIOUS
    <3>2. PICK T \in Timing : T = r.lib.timings[t]
      BY <1>0, <3>1
    <3>3. st.nums[1] \in Nat
      BY <1>1, StatementParts
    <3>4. [T.scalars EXCEPT ![r.table.kind] = st.nums[1]] \in [Slot -> Nat]
      BY <3>3 DEF Timing
    <3> QED BY <2>0, <3>2, <3>4 DEF Timing
  <2>2. With(r.lib, t, x) \in Library /\ SameUnits(r.lib, With(r.lib, t, x))
    BY <1>0, <2>1, WithType
  <2>3. ScalarStmt(r, st) = [r EXCEPT !.lib = With(r.lib, t, x)]
    BY <1>1, <2>0 DEF ScalarStmt, With, Held, Library
  <2> QED BY <1>1, <2>2, <2>3, HeldWith
<1>2. CASE ~(st.word = "values" /\ Len(st.nums) = 1)
  BY <1>2, BadType DEF ScalarStmt, SameUnits
<1> QED BY <1>1, <1>2

LEMMA TableStmtTypes ==
  ASSUME NEW r \in Held, NEW st \in Statement
  PROVE  TableStmt(r, st) \in Held /\ TableStmt(r, st).lib = r.lib
<1>1. CASE st.word # "values"
  <2>1. FormatStmt(r.table.fmt, st) \in Format
    BY FormatStmtType DEF Held, Open
  <2> QED BY <1>1, <2>1 DEF TableStmt, Held, Open
<1>2. CASE st.word = "values" /\ r.table.values # None
  BY <1>2, BadType DEF TableStmt
<1>3. CASE st.word = "values" /\ r.table.values = None
  <2>1. st.nums \in Seq(Nat)
    BY StatementParts
  <2> QED BY <1>3, <2>1 DEF TableStmt, Held, Open
<1> QED BY <1>1, <1>2, <1>3

-------------------------------------------------------------------------------
(* The end of a table.                                                            *)

\* Breakpoints count, whatever they are.
LEMMA SameExtents ==
  ASSUME NEW f, NEW g, f.var = g.var, \A k \in 1 .. 3 : Len(f.idx[k]) = Len(g.idx[k])
  PROVE  Axes(f) = Axes(g) /\ FileStrides(f) = FileStrides(g) /\ \A A \in SUBSET (1 .. 3) : Count(f, A) = Count(g, A)
<1>1. Axes(f) = Axes(g)
  BY DEF Axes
<1>2. \A A \in SUBSET (1 .. 3) : Count(f, A) = Count(g, A)
  BY DEF Count
<1>3. \A k : {j \in Axes(g) : j > k} \in SUBSET (1 .. 3)
  BY DEF Axes
<1>4. FileStrides(f) = FileStrides(g)
  BY <1>1, <1>2, <1>3 DEF FileStrides
<1> QED BY <1>1, <1>2, <1>4

LEMMA CountType ==
  ASSUME NEW fmt \in Format, NEW A
  PROVE  Count(fmt, A) \in Nat
<1> DEFINE E(k) == IF k \in A THEN Len(fmt.idx[k]) ELSE 1
<1>1. E(1) \in Nat /\ E(2) \in Nat /\ E(3) \in Nat
  BY DEF Format
<1>2. Count(fmt, A) = E(1) * E(2) * E(3)
  BY DEF Count
<1>3. \A a, b, c \in Nat : a * b * c \in Nat
  OBVIOUS
<1> HIDE DEF E
<1> QED BY <1>1, <1>2, <1>3

LEMMA FileStridesType ==
  ASSUME NEW fmt \in Format
  PROVE  FileStrides(fmt) \in Parts(1 .. 3, Nat)
<1>1. FileStrides(fmt) \in [Axes(fmt) -> Nat]
  BY CountType DEF FileStrides
<1>2. Axes(fmt) \in SUBSET (1 .. 3)
  BY DEF Axes
<1> QED BY <1>1, <1>2 DEF Parts

LEMMA ScaledType ==
  ASSUME NEW l \in Library, NEW fmt \in Format
  PROVE  /\ Scaled(l, fmt) \in [1 .. 3 -> Seq(Nat)]
         /\ \A k \in 1 .. 3 : Len(Scaled(l, fmt)[k]) = Len(fmt.idx[k])
<1>1. \A v : UnitOf(l, v) \in Nat
  BY DEF UnitOf, Library
<1>2. \A k \in 1 .. 3 : fmt.idx[k] \in Seq(Nat)
  BY DEF Format
<1>3. \A k \in 1 .. 3 : \A v : Times(fmt.idx[k], UnitOf(l, v)) \in Seq(Nat) /\ Len(Times(fmt.idx[k], UnitOf(l, v))) = Len(fmt.idx[k])
  BY <1>1, <1>2, TimesType
<1> QED BY <1>2, <1>3 DEF Scaled

\* The table that a group ends with.
Made(l, tb) ==
  [var |-> tb.fmt.var, idx |-> Scaled(l, tb.fmt), stride |-> FileStrides(tb.fmt),
   values |-> Times(IF tb.values = None THEN <<>> ELSE tb.values, l.time)]
Filled(tb) == Count(tb.fmt, Axes(tb.fmt)) = Len(IF tb.values = None THEN <<>> ELSE tb.values)

LEMMA MadeType ==
  ASSUME NEW l \in Library, NEW tb \in Open, Filled(tb)
  PROVE  Made(l, tb) \in Stored
<1>0. tb.fmt \in Format /\ l.time \in Nat
  BY DEF Open, Library
<1>1. PICK text \in Seq(Nat) : text = IF tb.values = None THEN <<>> ELSE tb.values
  BY EmptySeq DEF Open
<1>2. Times(text, l.time) \in Seq(Nat) /\ Len(Times(text, l.time)) = Len(text)
  BY <1>0, TimesType
<1>3. PICK m : m = Made(l, tb)
  OBVIOUS
<1>4. /\ m.var = tb.fmt.var /\ m.idx = Scaled(l, tb.fmt) /\ m.stride = FileStrides(tb.fmt) /\ m.values = Times(text, l.time)
      /\ m = [var |-> m.var, idx |-> m.idx, stride |-> m.stride, values |-> m.values]
  BY <1>1, <1>3 DEF Made
<1>5. \A k \in 1 .. 3 : Len(m.idx[k]) = Len(tb.fmt.idx[k])
  BY <1>0, <1>4, ScaledType
<1>6. Axes(m) = Axes(tb.fmt) /\ FileStrides(m) = FileStrides(tb.fmt) /\ Count(m, Axes(m)) = Count(tb.fmt, Axes(tb.fmt))
  <2>1. Axes(m) \in SUBSET (1 .. 3)
    BY DEF Axes
  <2>2. m.var = tb.fmt.var
    BY <1>4
  <2>3. /\ Axes(m) = Axes(tb.fmt) /\ FileStrides(m) = FileStrides(tb.fmt)
        /\ \A A \in SUBSET (1 .. 3) : Count(m, A) = Count(tb.fmt, A)
    BY ONLY <1>5, <2>2, SameExtents
  <2> QED BY <2>1, <2>3
<1>7. m.var \in [1 .. 3 -> Variable] /\ m.idx \in [1 .. 3 -> Seq(Nat)] /\ m.stride \in Parts(1 .. 3, Nat)
  BY <1>0, <1>4, ScaledType, FileStridesType DEF Format
<1>8. m.stride = FileStrides(m) /\ Len(m.values) = Count(m, Axes(m)) /\ m.values \in Seq(Nat)
  BY <1>1, <1>2, <1>4, <1>6 DEF Filled
<1> QED BY <1>3, <1>4, <1>7, <1>8 DEF Stored

\* The timing group T with the table tb, where it has none of the kind.
Tabled(T, l, tb) == [T EXCEPT !.tables = Put(T.tables, tb.kind, Made(l, tb))]
Refused(T, tb)   == tb.kind \in DOMAIN T.tables \/ ~Filled(tb)

LEMMA TabledType ==
  ASSUME NEW T \in Timing, NEW l \in Library, NEW tb \in Open, ~Refused(T, tb)
  PROVE  Tabled(T, l, tb) \in Timing
<1>1. Made(l, tb) \in Stored
  BY MadeType DEF Refused
<1>2. T.tables \in Parts(TableWord \cup {None}, Stored) /\ tb.kind \in TableWord \cup {None}
  BY DEF Timing, Open
<1>3. Put(T.tables, tb.kind, Made(l, tb)) \in Parts(TableWord \cup {None}, Stored)
  BY <1>1, <1>2, PutPart
<1> QED BY <1>3 DEF Tabled, Timing

LEMMA TableEndLib ==
  ASSUME NEW r \in Held
  PROVE  LET t == InTiming(r)  T == r.lib.timings[t] IN
         /\ Refused(T, r.table) => TableEnd(r) = Bad(r)
         /\ ~Refused(T, r.table) => TableEnd(r) = [Leave(r) EXCEPT !.lib = With(r.lib, t, Tabled(T, r.lib, r.table))]
<1> DEFINE t == InTiming(r)
           T == r.lib.timings[t]
           text == IF r.table.values = None THEN <<>> ELSE r.table.values
<1>1. Refused(T, r.table) <=> r.table.kind \in DOMAIN T.tables \/ Count(r.table.fmt, Axes(r.table.fmt)) # Len(text)
  BY DEF Refused, Filled
<1>2. CASE Refused(T, r.table)
  <2>1. r.table.kind \in DOMAIN T.tables \/ Count(r.table.fmt, Axes(r.table.fmt)) # Len(text)
    BY <1>1, <1>2
  <2> QED BY <1>2, <2>1 DEF TableEnd
<1>3. CASE ~Refused(T, r.table)
  <2>1. ~(r.table.kind \in DOMAIN T.tables \/ Count(r.table.fmt, Axes(r.table.fmt)) # Len(text))
    BY <1>1, <1>3
  <2>2. Leave(r).lib = r.lib
    BY LeaveType
  <2>3. TableEnd(r) = [Leave(r) EXCEPT !.lib.timings[t].tables = Put(@, r.table.kind, Made(r.lib, r.table))]
    BY <2>1 DEF TableEnd, Made
  <2>4. TableEnd(r) = [Leave(r) EXCEPT !.lib = With(r.lib, t, Tabled(T, r.lib, r.table))]
    BY <2>2, <2>3 DEF With, Tabled
  <2> QED BY <1>3, <2>4
<1> QED BY <1>2, <1>3

LEMMA TableEndTypes ==
  ASSUME NEW r \in Held
  PROVE  TableEnd(r) \in Held /\ SameUnits(r.lib, TableEnd(r).lib)
<1>0. r.lib \in Library /\ r.table \in Open /\ r.lib.timings \in Seq(Timing)
  BY DEF Held, Library
<1>1. PICK t, T : t = InTiming(r) /\ T = r.lib.timings[t]
  OBVIOUS
<1>2. CASE Refused(T, r.table)
  <2>1. TableEnd(r) = Bad(r)
    BY <1>1, <1>2, TableEndLib
  <2> QED BY <2>1, BadType DEF SameUnits
<1>3. CASE ~Refused(T, r.table)
  <2>1. PICK x : x = Tabled(T, r.lib, r.table)
    OBVIOUS
  <2>2. TableEnd(r) = [Leave(r) EXCEPT !.lib = With(r.lib, t, x)]
    BY <1>1, <1>3, <2>1, TableEndLib
  <2>3. t \in DOMAIN r.lib.timings => x \in Timing
    <3>1. t \in DOMAIN r.lib.timings => T \in Timing
      BY <1>0, <1>1
    <3> QED BY <1>0, <1>3, <2>1, <3>1, TabledType
  <2>4. With(r.lib, t, x) \in Library /\ SameUnits(r.lib, With(r.lib, t, x))
    BY <1>0, <2>3, WithType
  <2>5. PICK e \in Held : e = Leave(r) /\ e.lib = r.lib
    BY LeaveType
  <2> QED BY <2>2, <2>4, <2>5, HeldWith
<1> QED BY <1>2, <1>3

\* A statement keeps the types, and a unit unless it gives one.
LEMMA HandleTypes ==
  ASSUME NEW r \in Held, NEW st \in Statement
  PROVE  /\ Handle(r, st) \in Held
         /\ st.word \notin UnitWord => SameUnits(r.lib, Handle(r, st).lib)
<1> DEFINE g == Last(r.open)
           q == Handle(r, st)
<1>1. CASE r.err
  BY <1>1 DEF Handle, SameUnits
<1>2. CASE ~r.err /\ st = End /\ g = "table"
  <2>1. q = TableEnd(r)
    BY <1>2 DEF Handle
  <2> QED BY <2>1, TableEndTypes
<1>3. CASE ~r.err /\ st = End /\ g # "table"
  <2>1. q = Leave(r)
    BY <1>3 DEF Handle
  <2> QED BY <2>1, LeaveType DEF SameUnits
<1>4. CASE ~r.err /\ st # End /\ g = "library"
  <2>1. q = LibraryStmt(r, st)
    BY <1>4 DEF Handle
  <2> QED BY <2>1, LibraryStmtTypes
<1>5. CASE ~r.err /\ st # End /\ g = "template"
  <2>1. q = TemplateStmt(r, st)
    BY <1>5 DEF Handle
  <2> QED BY <2>1, TemplateStmtTypes
<1>6. CASE ~r.err /\ st # End /\ g = "cell"
  <2>1. q = CellStmt(r, st)
    BY <1>6 DEF Handle
  <2> QED BY <2>1, CellStmtTypes
<1>7. CASE ~r.err /\ st # End /\ g = "pin"
  <2>1. q = PinStmt(r, st)
    BY <1>7 DEF Handle
  <2> QED BY <2>1, PinStmtTypes
<1>8. CASE ~r.err /\ st # End /\ g = "timing"
  <2>1. q = TimingStmt(r, st)
    BY <1>8 DEF Handle
  <2> QED BY <2>1, TimingStmtTypes
<1>9. CASE ~r.err /\ st # End /\ g = "scalar"
  <2>1. q = ScalarStmt(r, st)
    BY <1>9 DEF Handle
  <2> QED BY <2>1, ScalarStmtTypes
<1>10. CASE ~r.err /\ st # End /\ g = "table"
  <2>1. q = TableStmt(r, st)
    BY <1>10 DEF Handle
  <2> QED BY <2>1, TableStmtTypes DEF SameUnits
<1>11. CASE ~r.err /\ st # End /\ g \notin Group \ {"skip"}
  <2>1. q = Ignore(r, st)
    BY <1>11 DEF Handle, Group
  <2> QED BY <2>1, IgnoreType DEF SameUnits
<1> QED BY <1>1, <1>2, <1>3, <1>4, <1>5, <1>6, <1>7, <1>8, <1>9, <1>10, <1>11 DEF Group

-------------------------------------------------------------------------------
(* A handler does the same to what the file says and to what it means.            *)

LEMMA AgreesByUnits ==
  ASSUME NEW l, NEW m, SameUnits(l, m), NEW now, NEW text, TimingAgrees(l, now, text)
  PROVE  TimingAgrees(m, now, text)
<1>1. \A v : UnitOf(m, v) = UnitOf(l, v)
  BY DEF UnitOf, SameUnits
<1> QED BY <1>1 DEF TimingAgrees, SameUnits

LEMMA AgreesTemplates ==
  ASSUME NEW l \in Library, NEW s \in Library, Agrees(l, s), NEW x \in Parts(Template, Format)
  PROVE  Agrees([l EXCEPT !.tmpl = x], [s EXCEPT !.tmpl = x])
<1>1. PICK m, q : m = [l EXCEPT !.tmpl = x] /\ q = [s EXCEPT !.tmpl = x]
  OBVIOUS
<1>2. /\ m.tmpl = x /\ q.tmpl = x /\ m.power = l.power /\ m.cap = l.cap /\ m.time = l.time
      /\ m.leakage = l.leakage /\ q.leakage = s.leakage /\ m.capacitance = l.capacitance
      /\ q.capacitance = s.capacitance /\ m.timings = l.timings /\ q.timings = s.timings
  BY <1>1 DEF Library
<1>3. \A t \in DOMAIN m.timings : TimingAgrees(m, m.timings[t], q.timings[t])
  BY <1>2, AgreesByUnits DEF Agrees, SameUnits
<1>4. Agrees(m, q)
  BY <1>2, <1>3 DEF Agrees
<1> QED BY <1>1, <1>4

LEMMA AgreesLeakage ==
  ASSUME NEW l \in Library, NEW s \in Library, Agrees(l, s), Unit1(s), NEW n \in Nat
  PROVE  Agrees([l EXCEPT !.leakage = n * l.power], [s EXCEPT !.leakage = n * s.power])
<1>1. PICK m, q : m = [l EXCEPT !.leakage = n * l.power] /\ q = [s EXCEPT !.leakage = n * s.power]
  OBVIOUS
<1>2. /\ m.tmpl = l.tmpl /\ q.tmpl = s.tmpl /\ m.power = l.power /\ m.cap = l.cap /\ m.time = l.time
      /\ m.leakage = n * l.power /\ q.leakage = n * s.power /\ m.capacitance = l.capacitance
      /\ q.capacitance = s.capacitance /\ m.timings = l.timings /\ q.timings = s.timings
  BY <1>1 DEF Library
<1>3. \A t \in DOMAIN m.timings : TimingAgrees(m, m.timings[t], q.timings[t])
  BY <1>2, AgreesByUnits DEF Agrees, SameUnits
<1>4. n * s.power = n
  BY DEF Unit1
<1>5. Agrees(m, q)
  BY <1>2, <1>3, <1>4 DEF Agrees
<1> QED BY <1>1, <1>5

LEMMA AgreesCapacitance ==
  ASSUME NEW l \in Library, NEW s \in Library, Agrees(l, s), Unit1(s), NEW n \in Nat
  PROVE  Agrees([l EXCEPT !.capacitance = n * l.cap], [s EXCEPT !.capacitance = n * s.cap])
<1>1. PICK m, q : m = [l EXCEPT !.capacitance = n * l.cap] /\ q = [s EXCEPT !.capacitance = n * s.cap]
  OBVIOUS
<1>2. /\ m.tmpl = l.tmpl /\ q.tmpl = s.tmpl /\ m.power = l.power /\ m.cap = l.cap /\ m.time = l.time
      /\ m.leakage = l.leakage /\ q.leakage = s.leakage /\ m.capacitance = n * l.cap
      /\ q.capacitance = n * s.cap /\ m.timings = l.timings /\ q.timings = s.timings
  BY <1>1 DEF Library
<1>3. \A t \in DOMAIN m.timings : TimingAgrees(m, m.timings[t], q.timings[t])
  BY <1>2, AgreesByUnits DEF Agrees, SameUnits
<1>4. n * s.cap = n
  BY DEF Unit1
<1>5. Agrees(m, q)
  BY <1>2, <1>3, <1>4 DEF Agrees
<1> QED BY <1>1, <1>5

\* Other timing groups, as many on both sides, that agree.
LEMMA AgreesTimings ==
  ASSUME NEW l \in Library, NEW s \in Library, Agrees(l, s), NEW x \in Seq(Timing), NEW y \in Seq(Timing),
         Len(x) = Len(y), \A t \in DOMAIN x : TimingAgrees(l, x[t], y[t])
  PROVE  Agrees([l EXCEPT !.timings = x], [s EXCEPT !.timings = y])
<1>1. PICK m, q : m = [l EXCEPT !.timings = x] /\ q = [s EXCEPT !.timings = y]
  OBVIOUS
<1>2. /\ m.tmpl = l.tmpl /\ q.tmpl = s.tmpl /\ m.power = l.power /\ m.cap = l.cap /\ m.time = l.time
      /\ m.leakage = l.leakage /\ q.leakage = s.leakage /\ m.capacitance = l.capacitance
      /\ q.capacitance = s.capacitance /\ m.timings = x /\ q.timings = y
  BY <1>1 DEF Library
<1>3. \A t \in DOMAIN m.timings : TimingAgrees(m, m.timings[t], q.timings[t])
  BY <1>2, AgreesByUnits DEF SameUnits
<1>4. Agrees(m, q)
  BY <1>2, <1>3 DEF Agrees
<1> QED BY <1>1, <1>4

LEMMA AgreesWith ==
  ASSUME NEW l \in Library, NEW s \in Library, Agrees(l, s), NEW t, NEW x, NEW y,
         t \in DOMAIN l.timings => x \in Timing /\ y \in Timing /\ TimingAgrees(l, x, y)
  PROVE  Agrees(With(l, t, x), With(s, t, y))
<1>0. l.timings \in Seq(Timing) /\ s.timings \in Seq(Timing) /\ Len(l.timings) = Len(s.timings)
  BY DEF Library, Agrees
<1>9. (t \in DOMAIN l.timings => x \in Timing) /\ (t \in DOMAIN l.timings => y \in Timing)
  OBVIOUS
<1>1. PICK X, Y : X = [l.timings EXCEPT ![t] = x] /\ Y = [s.timings EXCEPT ![t] = y]
  OBVIOUS
<1>2. /\ X \in Seq(Timing) /\ Len(X) = Len(l.timings) /\ DOMAIN X = DOMAIN l.timings
      /\ \A k \in DOMAIN l.timings : X[k] = IF k = t THEN x ELSE l.timings[k]
  <2>1. X \in Seq(Timing) /\ Len(X) = Len(l.timings)
    <3>1. l.timings \in Seq(Timing)
      BY <1>0
    <3>2. t \in DOMAIN l.timings => x \in Timing
      BY <1>9
    <3>3. [l.timings EXCEPT ![t] = x] \in Seq(Timing) /\ Len([l.timings EXCEPT ![t] = x]) = Len(l.timings)
      BY ONLY <3>1, <3>2, UpdatedSeq
    <3> QED BY <1>1, <3>3
  <2>2. DOMAIN X = DOMAIN l.timings /\ \A k \in DOMAIN l.timings : X[k] = IF k = t THEN x ELSE l.timings[k]
    BY ONLY <1>0, <1>1
  <2> QED BY <2>1, <2>2
<1>3. DOMAIN s.timings = DOMAIN l.timings
  BY <1>0
<1>4. /\ Y \in Seq(Timing) /\ Len(Y) = Len(s.timings)
      /\ \A k \in DOMAIN s.timings : Y[k] = IF k = t THEN y ELSE s.timings[k]
  <2>1. Y \in Seq(Timing) /\ Len(Y) = Len(s.timings)
    <3>1. t \in DOMAIN s.timings => y \in Timing
      BY <1>3, <1>9
    <3>2. [s.timings EXCEPT ![t] = y] \in Seq(Timing) /\ Len([s.timings EXCEPT ![t] = y]) = Len(s.timings)
      <4>1. s.timings \in Seq(Timing)
        BY <1>0
      <4> QED BY ONLY <3>1, <4>1, UpdatedSeq
    <3> QED BY <1>1, <3>2
  <2>2. \A k \in DOMAIN s.timings : Y[k] = IF k = t THEN y ELSE s.timings[k]
    BY ONLY <1>0, <1>1
  <2> QED BY <2>1, <2>2
<1>5. \A k \in DOMAIN X : TimingAgrees(l, X[k], Y[k])
  BY <1>2, <1>3, <1>4 DEF Agrees
<1>6. Agrees([l EXCEPT !.timings = X], [s EXCEPT !.timings = Y])
  BY <1>0, <1>2, <1>4, <1>5, AgreesTimings
<1> QED BY <1>1, <1>6 DEF With

LEMMA NewTimingAgrees ==
  ASSUME NEW l \in Library
  PROVE  TimingAgrees(l, NoTiming, NoTiming)
<1>1. NoTiming.scalars = [s \in Slot |-> 0]
  BY DEF NoTiming
<1>2. 0 * l.time = 0
  BY DEF Library
<1>3. NoTiming.scalars["intrinsic_rise"] = NoTiming.scalars["intrinsic_rise"] * l.time
  BY <1>1, <1>2 DEF Slot
<1> QED BY <1>3, NewTimingType DEF TimingAgrees

LEMMA AttributeAgrees ==
  ASSUME NEW l \in Library, NEW s \in Library, Unit1(s), NEW x \in Timing, NEW y \in Timing,
         TimingAgrees(l, x, y), NEW st \in Statement, st.word \in AttributeWord
  PROVE  TimingAgrees(l, Attribute(x, l, st), Attribute(y, s, st))
<1>1. PICK X, Y : X = Attribute(x, l, st) /\ Y = Attribute(y, s, st)
  OBVIOUS
<1>2. X.tables = x.tables /\ Y.tables = y.tables
  BY <1>1, AttributeType
<1>3. x.scalars \in [Slot -> Nat] /\ y.scalars \in [Slot -> Nat] /\ x.scalars["intrinsic_rise"] = y.scalars["intrinsic_rise"] * l.time
  BY DEF Timing, TimingAgrees
<1>4. X.scalars["intrinsic_rise"] = Y.scalars["intrinsic_rise"] * l.time
  <2>1. CASE st.word \in {"related_pin", "timing_type"}
    <3>1. X.scalars = x.scalars /\ Y.scalars = y.scalars
      BY <1>1, <2>1 DEF Attribute, Timing
    <3> QED BY <1>3, <3>1
  <2>2. CASE st.word = "intrinsic_rise"
    <3>1. st.nums[1] \in Nat
      BY <2>2, StatementParts DEF ValueWord
    <3>2. st.nums[1] * s.time = st.nums[1]
      BY <3>1 DEF Unit1
    <3>3. /\ X.scalars = [x.scalars EXCEPT !["intrinsic_rise"] = st.nums[1] * l.time]
          /\ Y.scalars = [y.scalars EXCEPT !["intrinsic_rise"] = st.nums[1]]
      BY <1>1, <2>2, <3>2 DEF Attribute, Timing
    <3> QED BY <1>3, <3>3 DEF Slot
  <2>3. CASE st.word = "rise_resistance"
    <3>1. /\ X.scalars = [x.scalars EXCEPT !["rise_resistance"] = st.nums[1]]
          /\ Y.scalars = [y.scalars EXCEPT !["rise_resistance"] = st.nums[1]]
      BY <1>1, <2>3 DEF Attribute, Timing
    <3> QED BY <1>3, <3>1 DEF Slot
  <2> QED BY <2>1, <2>2, <2>3 DEF AttributeWord
<1> QED BY <1>1, <1>2, <1>4 DEF TimingAgrees

\* The value of a scalar table leaves intrinsic_rise as it is.
LEMMA ScalarAgrees ==
  ASSUME NEW l, NEW x \in Timing, NEW y \in Timing, TimingAgrees(l, x, y),
         NEW n \in TableWord \cup {None}, NEW v
  PROVE  TimingAgrees(l, [x EXCEPT !.scalars = [x.scalars EXCEPT ![n] = v]],
                         [y EXCEPT !.scalars = [y.scalars EXCEPT ![n] = v]])
<1>1. PICK X, Y : /\ X = [x EXCEPT !.scalars = [x.scalars EXCEPT ![n] = v]]
                  /\ Y = [y EXCEPT !.scalars = [y.scalars EXCEPT ![n] = v]]
  OBVIOUS
<1>2. X.tables = x.tables /\ Y.tables = y.tables
  BY <1>1 DEF Timing
<1>3. x.scalars \in [Slot -> Nat] /\ y.scalars \in [Slot -> Nat] /\ x.scalars["intrinsic_rise"] = y.scalars["intrinsic_rise"] * l.time
  BY DEF Timing, TimingAgrees
<1>4. n # "intrinsic_rise"
  BY NoneAssumption DEF TableWord, Slot
<1>5. X.scalars = [x.scalars EXCEPT ![n] = v] /\ Y.scalars = [y.scalars EXCEPT ![n] = v]
  BY <1>1 DEF Timing
<1>6. X.scalars["intrinsic_rise"] = Y.scalars["intrinsic_rise"] * l.time
  BY <1>3, <1>4, <1>5
<1> QED BY <1>1, <1>2, <1>6 DEF TimingAgrees

\* A table is scaled once, with the units of the library, its breakpoints each
\* with that of its variable.
LEMMA MadeAgrees ==
  ASSUME NEW l \in Library, NEW s \in Library, Unit1(s), NEW tb \in Open
  PROVE  /\ Made(l, tb).values = Times(Made(s, tb).values, l.time)
         /\ \A k \in Axes(Made(s, tb)) :
              Made(l, tb).idx[k] = Times(Made(s, tb).idx[k], UnitOf(l, Made(s, tb).var[k]))
<1>0. tb.fmt \in Format
  BY DEF Open
<1>1. PICK text \in Seq(Nat) : text = IF tb.values = None THEN <<>> ELSE tb.values
  BY EmptySeq DEF Open
<1>2. Made(l, tb).values = Times(text, l.time) /\ Made(s, tb).values = Times(text, s.time)
  BY <1>1 DEF Made
<1>3. Times(text, s.time) = text
  <2>1. Times(text, 1) = text
    BY TimesType
  <2> QED BY <2>1 DEF Unit1
<1>4. /\ Made(l, tb).idx = Scaled(l, tb.fmt) /\ Made(s, tb).idx = Scaled(s, tb.fmt) /\ Made(s, tb).var = tb.fmt.var
  BY DEF Made
<1>5. \A k \in Axes(Made(s, tb)) : k \in Axes(tb.fmt) /\ k \in 1 .. 3
  BY <1>4 DEF Axes
<1>6. ASSUME NEW k \in Axes(tb.fmt), k \in 1 .. 3
      PROVE  Scaled(l, tb.fmt)[k] = Times(Scaled(s, tb.fmt)[k], UnitOf(l, tb.fmt.var[k]))
  <2>1. UnitOf(s, tb.fmt.var[k]) = 1
    BY DEF UnitOf, Unit1
  <2>2. Scaled(s, tb.fmt)[k] = Times(tb.fmt.idx[k], 1)
    BY <1>6, <2>1 DEF Scaled
  <2>3. tb.fmt.idx[k] \in Seq(Nat)
    BY <1>0, <1>6 DEF Format
  <2>4. Times(tb.fmt.idx[k], 1) = tb.fmt.idx[k]
    BY <2>3, TimesType
  <2>5. Scaled(l, tb.fmt)[k] = Times(tb.fmt.idx[k], UnitOf(l, tb.fmt.var[k]))
    BY <1>6 DEF Scaled
  <2> QED BY <2>2, <2>4, <2>5
<1>7. Made(l, tb).values = Times(Made(s, tb).values, l.time)
  BY <1>2, <1>3
<1>8. \A k \in Axes(Made(s, tb)) : Made(l, tb).idx[k] = Times(Made(s, tb).idx[k], UnitOf(l, Made(s, tb).var[k]))
  BY <1>4, <1>5, <1>6
<1> QED BY <1>7, <1>8

LEMMA TabledAgrees ==
  ASSUME NEW l \in Library, NEW s \in Library, Unit1(s), NEW x \in Timing, NEW y \in Timing,
         TimingAgrees(l, x, y), NEW tb \in Open
  PROVE  TimingAgrees(l, Tabled(x, l, tb), Tabled(y, s, tb))
<1>1. PICK X, Y : X = Tabled(x, l, tb) /\ Y = Tabled(y, s, tb)
  OBVIOUS
<1>2. PICK a, b : a = Made(l, tb) /\ b = Made(s, tb)
  OBVIOUS
<1>3. X.scalars = x.scalars /\ Y.scalars = y.scalars
  BY <1>1 DEF Tabled, Timing
<1>4. X.tables = Put(x.tables, tb.kind, a) /\ Y.tables = Put(y.tables, tb.kind, b)
  BY <1>1, <1>2 DEF Tabled, Timing
<1>5. DOMAIN x.tables = DOMAIN y.tables
  BY DEF TimingAgrees
<1>6. /\ DOMAIN X.tables = DOMAIN x.tables \cup {tb.kind} /\ DOMAIN Y.tables = DOMAIN y.tables \cup {tb.kind}
      /\ X.tables[tb.kind] = a /\ Y.tables[tb.kind] = b
      /\ \A w \in DOMAIN x.tables \ {tb.kind} : X.tables[w] = x.tables[w] /\ Y.tables[w] = y.tables[w]
  BY <1>4, <1>5 DEF Put
<1>7. a.values = Times(b.values, l.time) /\ \A k \in Axes(b) : a.idx[k] = Times(b.idx[k], UnitOf(l, b.var[k]))
  BY <1>2, MadeAgrees
<1>8. X.scalars["intrinsic_rise"] = Y.scalars["intrinsic_rise"] * l.time
  BY <1>3 DEF TimingAgrees
<1>9. ASSUME NEW w \in DOMAIN X.tables
      PROVE  /\ X.tables[w].values = Times(Y.tables[w].values, l.time)
             /\ \A k \in Axes(Y.tables[w]) : X.tables[w].idx[k] = Times(Y.tables[w].idx[k], UnitOf(l, Y.tables[w].var[k]))
  <2>1. CASE w = tb.kind
    BY <1>6, <1>7, <2>1
  <2>2. CASE w # tb.kind
    BY <1>6, <2>2 DEF TimingAgrees
  <2> QED BY <2>1, <2>2
<1>10. DOMAIN X.tables = DOMAIN Y.tables
  BY <1>5, <1>6
<1> QED BY <1>1, <1>8, <1>9, <1>10 DEF TimingAgrees

-------------------------------------------------------------------------------
(* What each handler makes of the library.                                        *)

LEMMA LibraryStmtLib ==
  ASSUME NEW r \in Held, NEW st \in Statement, st.word \notin UnitWord
  PROVE  LibraryStmt(r, st).lib =
           IF st.word = "lu_table_template" /\ st.name \notin DOMAIN r.lib.tmpl
           THEN [r.lib EXCEPT !.tmpl = Put(r.lib.tmpl, st.name, NoFormat)] ELSE r.lib
<1>1. CASE st.word = "lu_table_template" /\ st.name \notin DOMAIN r.lib.tmpl
  <2>1. PICK e \in Held : e = Enter(r, "template") /\ e.lib = r.lib
    BY EnterType DEF Group
  <2>2. LibraryStmt(r, st) = [e EXCEPT !.lib.tmpl = Put(@, st.name, NoFormat), !.table.name = st.name]
    BY <1>1, <2>1 DEF LibraryStmt
  <2>3. LibraryStmt(r, st).lib = [e.lib EXCEPT !.tmpl = Put(e.lib.tmpl, st.name, NoFormat)]
    BY <2>2 DEF Held
  <2> QED BY <1>1, <2>1, <2>3
<1>2. CASE st.word = "lu_table_template" /\ st.name \in DOMAIN r.lib.tmpl
  BY <1>2, BadType DEF LibraryStmt
<1>3. CASE st.word = "cell"
  <2>1. "cell" \in Group
    BY DEF Group
  <2> QED BY <1>3, <2>1, EnterType DEF LibraryStmt
<1>4. CASE st.word \notin {"lu_table_template", "cell"}
  <2>1. LibraryStmt(r, st) = Ignore(r, st)
    BY <1>4 DEF LibraryStmt, UnitWord
  <2> QED BY <1>4, <2>1, IgnoreType
<1> QED BY <1>1, <1>2, <1>3, <1>4

LEMMA TemplateStmtLib ==
  ASSUME NEW r \in Held, NEW st \in Statement
  PROVE  LET n == r.table.name  f == r.lib.tmpl IN
         /\ TemplateStmt(r, st).lib = [r.lib EXCEPT !.tmpl = [f EXCEPT ![n] = FormatStmt(f[n], st)]]
         /\ [f EXCEPT ![n] = FormatStmt(f[n], st)] \in Parts(Template, Format)
<1>0. r.lib \in Library /\ r.lib.tmpl \in Parts(Template, Format)
  BY DEF Held, Library
<1> DEFINE n == r.table.name
           x == [r.lib.tmpl EXCEPT ![n] = FormatStmt(r.lib.tmpl[n], st)]
<1>1. n \in DOMAIN r.lib.tmpl => FormatStmt(r.lib.tmpl[n], st) \in Format
  <2>1. n \in DOMAIN r.lib.tmpl => r.lib.tmpl[n] \in Format
    BY <1>0 DEF Parts
  <2> QED BY <2>1, FormatStmtType
<1>2. x \in Parts(Template, Format)
  BY <1>0, <1>1, ExceptPart
<1>3. TemplateStmt(r, st).lib = [r.lib EXCEPT !.tmpl = x]
  BY <1>0 DEF TemplateStmt, Held, Library
<1> QED BY <1>2, <1>3

LEMMA CellStmtLib ==
  ASSUME NEW r \in Held, NEW st \in Statement
  PROVE  /\ st.word = "cell_leakage_power" => CellStmt(r, st).lib = [r.lib EXCEPT !.leakage = st.nums[1] * r.lib.power]
         /\ st.word # "cell_leakage_power" => CellStmt(r, st).lib = r.lib
<1>1. CASE st.word = "pin"
  <2>1. "pin" \in Group
    BY DEF Group
  <2> QED BY <1>1, <2>1, EnterType DEF CellStmt
<1>2. CASE st.word = "cell_leakage_power"
  BY <1>2 DEF CellStmt, Held
<1>3. CASE st.word \notin {"pin", "cell_leakage_power"}
  BY <1>3, IgnoreType DEF CellStmt
<1> QED BY <1>1, <1>2, <1>3

LEMMA PinStmtLib ==
  ASSUME NEW r \in Held, NEW st \in Statement
  PROVE  /\ st.word = "timing" => PinStmt(r, st).lib = [r.lib EXCEPT !.timings = Append(r.lib.timings, NoTiming)]
         /\ st.word = "capacitance" => PinStmt(r, st).lib = [r.lib EXCEPT !.capacitance = st.nums[1] * r.lib.cap]
         /\ st.word \notin {"timing", "capacitance"} => PinStmt(r, st).lib = r.lib
<1>1. CASE st.word = "timing"
  <2>1. PICK e \in Held : e = Enter(r, "timing") /\ e.lib = r.lib
    BY EnterType DEF Group
  <2> QED BY <1>1, <2>1 DEF PinStmt, Held
<1>2. CASE st.word = "capacitance"
  BY <1>2 DEF PinStmt, Held
<1>3. CASE st.word \notin {"timing", "capacitance"}
  BY <1>3, IgnoreType DEF PinStmt
<1> QED BY <1>1, <1>2, <1>3

LEMMA ScalarStmtLib ==
  ASSUME NEW r \in Held, NEW st \in Statement
  PROVE  LET t == InTiming(r)  T == r.lib.timings[t] IN
         /\ st.word = "values" /\ Len(st.nums) = 1 =>
              ScalarStmt(r, st).lib = With(r.lib, t, [T EXCEPT !.scalars = [T.scalars EXCEPT ![r.table.kind] = st.nums[1]]])
         /\ ~(st.word = "values" /\ Len(st.nums) = 1) => ScalarStmt(r, st).lib = r.lib
BY BadType DEF ScalarStmt, With, Held, Library

-------------------------------------------------------------------------------
(* Each handler does the same to a reader r and to one that reads another library *)
(* with it.                                                                       *)

Twin(r, s) == [r EXCEPT !.lib = s]

LEMMA TwinType ==
  ASSUME NEW r \in Held, NEW s \in Library
  PROVE  /\ Twin(r, s) \in Held /\ Twin(r, s).lib = s /\ Twin(r, s).table = r.table
         /\ Twin(r, s).open = r.open /\ Twin(r, s).err = r.err
BY DEF Twin, Held

LEMMA LibraryStmtAgrees ==
  ASSUME NEW r \in Held, NEW s \in Library, Agrees(r.lib, s), NEW st \in Statement, st.word \notin UnitWord
  PROVE  Agrees(LibraryStmt(r, st).lib, LibraryStmt(Twin(r, s), st).lib)
<1>1. PICK p \in Held : p = Twin(r, s) /\ p.lib = s
  BY TwinType
<1>2. r.lib \in Library /\ r.lib.tmpl \in Parts(Template, Format) /\ r.lib.tmpl = s.tmpl
  BY DEF Held, Library, Agrees
<1>3. CASE st.word = "lu_table_template" /\ st.name \notin DOMAIN s.tmpl
  <2>1. PICK x \in Parts(Template, Format) : x = Put(s.tmpl, st.name, NoFormat)
    BY <1>2, <1>3, StatementParts, NoFormatType, PutPart
  <2>2. LibraryStmt(r, st).lib = [r.lib EXCEPT !.tmpl = x] /\ LibraryStmt(p, st).lib = [s EXCEPT !.tmpl = x]
    BY <1>1, <1>2, <1>3, <2>1, LibraryStmtLib
  <2>3. Agrees([r.lib EXCEPT !.tmpl = x], [s EXCEPT !.tmpl = x])
    BY <1>2, AgreesTemplates
  <2> QED BY <1>1, <2>2, <2>3
<1>4. CASE ~(st.word = "lu_table_template" /\ st.name \notin DOMAIN s.tmpl)
  <2>1. LibraryStmt(r, st).lib = r.lib /\ LibraryStmt(p, st).lib = s
    BY <1>1, <1>2, <1>4, LibraryStmtLib
  <2> QED BY <1>1, <2>1
<1> QED BY <1>3, <1>4

LEMMA TemplateStmtAgrees ==
  ASSUME NEW r \in Held, NEW s \in Library, Agrees(r.lib, s), NEW st \in Statement
  PROVE  Agrees(TemplateStmt(r, st).lib, TemplateStmt(Twin(r, s), st).lib)
<1>1. PICK p \in Held : p = Twin(r, s) /\ p.lib = s /\ p.table = r.table
  BY TwinType
<1>2. r.lib \in Library /\ r.lib.tmpl = s.tmpl
  BY DEF Held, Agrees
<1>3. PICK x \in Parts(Template, Format) : x = [s.tmpl EXCEPT ![r.table.name] = FormatStmt(s.tmpl[r.table.name], st)]
  BY <1>2, TemplateStmtLib
<1>4. TemplateStmt(r, st).lib = [r.lib EXCEPT !.tmpl = x] /\ TemplateStmt(p, st).lib = [s EXCEPT !.tmpl = x]
  BY <1>1, <1>2, <1>3, TemplateStmtLib
<1>5. Agrees([r.lib EXCEPT !.tmpl = x], [s EXCEPT !.tmpl = x])
  BY <1>2, AgreesTemplates
<1> QED BY <1>1, <1>4, <1>5

LEMMA CellStmtAgrees ==
  ASSUME NEW r \in Held, NEW s \in Library, Agrees(r.lib, s), Unit1(s), NEW st \in Statement
  PROVE  Agrees(CellStmt(r, st).lib, CellStmt(Twin(r, s), st).lib)
<1>1. PICK p \in Held : p = Twin(r, s) /\ p.lib = s
  BY TwinType
<1>2. r.lib \in Library
  BY DEF Held
<1>3. CASE st.word = "cell_leakage_power"
  <2>1. PICK n \in Nat : n = st.nums[1]
    BY <1>3, StatementParts DEF ValueWord
  <2>2. Agrees([r.lib EXCEPT !.leakage = n * r.lib.power], [s EXCEPT !.leakage = n * s.power])
    BY <1>2, AgreesLeakage
  <2>3. /\ CellStmt(r, st).lib = [r.lib EXCEPT !.leakage = n * r.lib.power]
        /\ CellStmt(p, st).lib = [s EXCEPT !.leakage = n * s.power]
    BY <1>1, <1>3, <2>1, CellStmtLib
  <2> QED BY <1>1, <2>2, <2>3
<1>4. CASE st.word # "cell_leakage_power"
  <2>1. CellStmt(r, st).lib = r.lib /\ CellStmt(p, st).lib = s
    BY <1>1, <1>4, CellStmtLib
  <2> QED BY <1>1, <2>1
<1> QED BY <1>3, <1>4

LEMMA AppendAgrees ==
  ASSUME NEW l \in Library, NEW s \in Library, Agrees(l, s)
  PROVE  Agrees([l EXCEPT !.timings = Append(l.timings, NoTiming)], [s EXCEPT !.timings = Append(s.timings, NoTiming)])
<1>1. l.timings \in Seq(Timing) /\ s.timings \in Seq(Timing) /\ Len(l.timings) = Len(s.timings) /\ NoTiming \in Timing
  BY NewTimingType DEF Library, Agrees
<1>2. PICK x \in Seq(Timing), y \in Seq(Timing) : x = Append(l.timings, NoTiming) /\ y = Append(s.timings, NoTiming)
  BY <1>1, AppendProperties
<1>3. Len(x) = Len(l.timings) + 1 /\ Len(y) = Len(s.timings) + 1
  BY <1>1, <1>2, AppendProperties
<1>4. ASSUME NEW t \in DOMAIN x
      PROVE  TimingAgrees(l, x[t], y[t])
  <2>1. CASE t = Len(l.timings) + 1
    <3>1. x[t] = NoTiming /\ y[t] = NoTiming
      BY <1>1, <1>2, <2>1, AppendProperties
    <3> QED BY <3>1, NewTimingAgrees
  <2>2. CASE t # Len(l.timings) + 1
    <3>1. t \in 1 .. Len(l.timings)
      BY <1>1, <1>3, <2>2
    <3>2. x[t] = l.timings[t] /\ y[t] = s.timings[t]
      BY <1>1, <1>2, <3>1, AppendProperties
    <3> QED BY <1>1, <3>1, <3>2 DEF Agrees
  <2> QED BY <2>1, <2>2
<1>5. Len(x) = Len(y)
  BY <1>1, <1>3
<1>6. Agrees([l EXCEPT !.timings = x], [s EXCEPT !.timings = y])
  BY <1>4, <1>5, AgreesTimings
<1> QED BY <1>2, <1>6

LEMMA PinStmtAgrees ==
  ASSUME NEW r \in Held, NEW s \in Library, Agrees(r.lib, s), Unit1(s), NEW st \in Statement
  PROVE  Agrees(PinStmt(r, st).lib, PinStmt(Twin(r, s), st).lib)
<1>1. PICK p \in Held : p = Twin(r, s) /\ p.lib = s
  BY TwinType
<1>2. r.lib \in Library
  BY DEF Held
<1>3. CASE st.word = "capacitance"
  <2>1. PICK n \in Nat : n = st.nums[1]
    BY <1>3, StatementParts DEF ValueWord
  <2>2. Agrees([r.lib EXCEPT !.capacitance = n * r.lib.cap], [s EXCEPT !.capacitance = n * s.cap])
    BY <1>2, AgreesCapacitance
  <2>3. /\ PinStmt(r, st).lib = [r.lib EXCEPT !.capacitance = n * r.lib.cap]
        /\ PinStmt(p, st).lib = [s EXCEPT !.capacitance = n * s.cap]
    <3>1. \A q \in Held : PinStmt(q, st).lib = [q.lib EXCEPT !.capacitance = st.nums[1] * q.lib.cap]
      BY <1>3, PinStmtLib
    <3> QED BY <1>1, <2>1, <3>1
  <2> QED BY <1>1, <2>2, <2>3
<1>4. CASE st.word = "timing"
  <2>1. /\ PinStmt(r, st).lib = [r.lib EXCEPT !.timings = Append(r.lib.timings, NoTiming)]
        /\ PinStmt(p, st).lib = [s EXCEPT !.timings = Append(s.timings, NoTiming)]
    BY <1>1, <1>4, PinStmtLib
  <2> QED BY <1>1, <1>2, <2>1, AppendAgrees
<1>5. CASE st.word \notin {"capacitance", "timing"}
  <2>1. PinStmt(r, st).lib = r.lib /\ PinStmt(p, st).lib = s
    BY <1>1, <1>5, PinStmtLib
  <2> QED BY <1>1, <2>1
<1> QED BY <1>3, <1>4, <1>5

\* The timing group that is read is the last one on both sides.
LEMMA GroupsAgree ==
  ASSUME NEW r \in Held, NEW s \in Library, Agrees(r.lib, s)
  PROVE  /\ InTiming(Twin(r, s)) = InTiming(r)
         /\ InTiming(r) \in DOMAIN r.lib.timings =>
              /\ r.lib.timings[InTiming(r)] \in Timing /\ s.timings[InTiming(r)] \in Timing
              /\ TimingAgrees(r.lib, r.lib.timings[InTiming(r)], s.timings[InTiming(r)])
<1>1. r.lib \in Library /\ Twin(r, s).lib = s
  BY TwinType DEF Held
<1>2. r.lib.timings \in Seq(Timing) /\ s.timings \in Seq(Timing) /\ Len(r.lib.timings) = Len(s.timings)
  BY <1>1 DEF Library, Agrees
<1>3. InTiming(Twin(r, s)) = InTiming(r)
  BY <1>1, <1>2 DEF InTiming
<1>4. ASSUME NEW t \in DOMAIN r.lib.timings
      PROVE  r.lib.timings[t] \in Timing /\ s.timings[t] \in Timing /\ TimingAgrees(r.lib, r.lib.timings[t], s.timings[t])
  BY <1>2 DEF Agrees
<1> QED BY <1>3, <1>4

LEMMA TimingStmtAgrees ==
  ASSUME NEW r \in Held, NEW s \in Library, Agrees(r.lib, s), Unit1(s), NEW st \in Statement
  PROVE  Agrees(TimingStmt(r, st).lib, TimingStmt(Twin(r, s), st).lib)
<1>1. PICK p \in Held : p = Twin(r, s) /\ p.lib = s
  BY TwinType
<1>2. r.lib \in Library
  BY DEF Held
<1>3. CASE st.word \in AttributeWord
  <2>1. PICK t : t = InTiming(r) /\ t = InTiming(p)
    BY <1>1, GroupsAgree
  <2>2. PICK x, y : x = Attribute(r.lib.timings[t], r.lib, st) /\ y = Attribute(s.timings[t], s, st)
    OBVIOUS
  <2>3. ASSUME t \in DOMAIN r.lib.timings
        PROVE  x \in Timing /\ y \in Timing /\ TimingAgrees(r.lib, x, y)
    <3>1. /\ r.lib.timings[t] \in Timing /\ s.timings[t] \in Timing
          /\ TimingAgrees(r.lib, r.lib.timings[t], s.timings[t])
      BY <2>1, <2>3, GroupsAgree
    <3> QED BY <1>2, <1>3, <2>2, <3>1, AttributeType, AttributeAgrees
  <2>4. Agrees(With(r.lib, t, x), With(s, t, y))
    BY <1>2, <2>3, AgreesWith
  <2>5. TimingStmt(r, st) = [r EXCEPT !.lib = With(r.lib, t, x)] /\ TimingStmt(p, st) = [p EXCEPT !.lib = With(s, t, y)]
    BY <1>1, <1>3, <2>1, <2>2, TimingStmtLib
  <2>6. TimingStmt(r, st).lib = With(r.lib, t, x) /\ TimingStmt(p, st).lib = With(s, t, y)
    BY <2>5 DEF Held
  <2> QED BY <1>1, <2>4, <2>6
<1>4. CASE st.word \notin AttributeWord
  <2>1. TimingStmt(r, st).lib = r.lib /\ TimingStmt(p, st).lib = s
    BY <1>1, <1>4, TimingStmtLib
  <2> QED BY <1>1, <2>1
<1> QED BY <1>3, <1>4

LEMMA ScalarStmtAgrees ==
  ASSUME NEW r \in Held, NEW s \in Library, Agrees(r.lib, s), NEW st \in Statement
  PROVE  Agrees(ScalarStmt(r, st).lib, ScalarStmt(Twin(r, s), st).lib)
<1>1. PICK p \in Held : p = Twin(r, s) /\ p.lib = s /\ p.table = r.table
  BY TwinType
<1>2. r.lib \in Library /\ r.table.kind \in TableWord \cup {None}
  BY DEF Held, Open
<1>3. CASE st.word = "values" /\ Len(st.nums) = 1
  <2>1. PICK t, n, v : t = InTiming(r) /\ t = InTiming(p) /\ n = r.table.kind /\ v = st.nums[1]
    BY <1>1, GroupsAgree
  <2>2. PICK x, y : /\ x = [r.lib.timings[t] EXCEPT !.scalars = [r.lib.timings[t].scalars EXCEPT ![n] = v]]
                    /\ y = [s.timings[t] EXCEPT !.scalars = [s.timings[t].scalars EXCEPT ![n] = v]]
    OBVIOUS
  <2>3. ASSUME t \in DOMAIN r.lib.timings
        PROVE  x \in Timing /\ y \in Timing /\ TimingAgrees(r.lib, x, y)
    <3>1. PICK X \in Timing, Y \in Timing : X = r.lib.timings[t] /\ Y = s.timings[t] /\ TimingAgrees(r.lib, X, Y)
      <4>1. /\ r.lib.timings[t] \in Timing /\ s.timings[t] \in Timing
            /\ TimingAgrees(r.lib, r.lib.timings[t], s.timings[t])
        BY <2>1, <2>3, GroupsAgree
      <4> QED BY <4>1
    <3>2. v \in Nat
      BY <1>3, <2>1, StatementParts
    <3>3. \A T \in Timing : [T EXCEPT !.scalars = [T.scalars EXCEPT ![n] = v]] \in Timing
      <4>1. \A T \in Timing : T.scalars \in [Slot -> Nat]
        BY DEF Timing
      <4>2. \A T \in Timing : [T.scalars EXCEPT ![n] = v] \in [Slot -> Nat]
        BY <3>2, <4>1
      <4> QED BY <4>2 DEF Timing
    <3>4. n \in TableWord \cup {None}
      BY <1>2, <2>1
    <3>5. TimingAgrees(r.lib, x, y)
      BY <2>2, <3>1, <3>4, ScalarAgrees
    <3> QED BY <2>2, <3>1, <3>3, <3>5
  <2>4. Agrees(With(r.lib, t, x), With(s, t, y))
    BY <1>2, <2>3, AgreesWith
  <2>5. ScalarStmt(r, st).lib = With(r.lib, t, x) /\ ScalarStmt(p, st).lib = With(s, t, y)
    <3>1. \A q \in Held : ScalarStmt(q, st).lib =
            With(q.lib, InTiming(q), [q.lib.timings[InTiming(q)] EXCEPT !.scalars =
                                        [q.lib.timings[InTiming(q)].scalars EXCEPT ![q.table.kind] = st.nums[1]]])
      BY <1>3, ScalarStmtLib
    <3> QED BY <1>1, <2>1, <2>2, <3>1
  <2> QED BY <1>1, <2>4, <2>5
<1>4. CASE ~(st.word = "values" /\ Len(st.nums) = 1)
  <2>1. ScalarStmt(r, st).lib = r.lib /\ ScalarStmt(p, st).lib = s
    BY <1>1, <1>4, ScalarStmtLib
  <2> QED BY <1>1, <2>1
<1> QED BY <1>3, <1>4

LEMMA WithoutGroup ==
  ASSUME NEW l \in Library, NEW t, NEW x, t \notin DOMAIN l.timings
  PROVE  With(l, t, x) = l
<1>1. l.timings \in Seq(Timing)
  BY DEF Library
<1>2. [l.timings EXCEPT ![t] = x] = l.timings
  BY <1>1
<1> QED BY <1>2 DEF With, Library

\* What the end of a table does to the library.
LEMMA TableEndsLib ==
  ASSUME NEW r \in Held
  PROVE  LET t == InTiming(r)  T == r.lib.timings[t] IN
         TableEnd(r).lib = IF t \notin DOMAIN r.lib.timings \/ Refused(T, r.table) THEN r.lib
                           ELSE With(r.lib, t, Tabled(T, r.lib, r.table))
<1>1. PICK t, T : t = InTiming(r) /\ T = r.lib.timings[t]
  OBVIOUS
<1>2. CASE Refused(T, r.table)
  <2>1. TableEnd(r) = Bad(r)
    BY <1>1, <1>2, TableEndLib
  <2> QED BY <1>1, <1>2, <2>1, BadType
<1>3. CASE ~Refused(T, r.table)
  <2>1. PICK x : x = Tabled(T, r.lib, r.table)
    OBVIOUS
  <2>2. TableEnd(r) = [Leave(r) EXCEPT !.lib = With(r.lib, t, x)]
    BY <1>1, <1>3, <2>1, TableEndLib
  <2>3. Leave(r) \in Held
    BY LeaveType
  <2>4. TableEnd(r).lib = With(r.lib, t, x)
    BY <2>2, <2>3 DEF Held
  <2>5. t \notin DOMAIN r.lib.timings => With(r.lib, t, x) = r.lib
    BY WithoutGroup DEF Held
  <2> QED BY <1>1, <1>3, <2>1, <2>4, <2>5
<1> QED BY <1>2, <1>3

LEMMA TableEndAgrees ==
  ASSUME NEW r \in Held, NEW s \in Library, Agrees(r.lib, s), Unit1(s)
  PROVE  Agrees(TableEnd(r).lib, TableEnd(Twin(r, s)).lib)
<1>1. PICK p \in Held : p = Twin(r, s) /\ p.lib = s /\ p.table = r.table
  BY TwinType
<1>2. r.lib \in Library /\ r.table \in Open
  BY DEF Held
<1>3. PICK t : t = InTiming(r) /\ t = InTiming(p)
  BY <1>1, GroupsAgree
<1>4. DOMAIN s.timings = DOMAIN r.lib.timings
  BY <1>2 DEF Library, Agrees
<1>5. CASE t \notin DOMAIN r.lib.timings
  <2>1. TableEnd(r).lib = r.lib
    BY <1>3, <1>5, TableEndsLib
  <2>2. TableEnd(p).lib = s
    BY <1>1, <1>3, <1>4, <1>5, TableEndsLib
  <2> QED BY <1>1, <2>1, <2>2
<1>6. CASE t \in DOMAIN r.lib.timings
  <2>1. PICK X \in Timing, Y \in Timing : X = r.lib.timings[t] /\ Y = s.timings[t] /\ TimingAgrees(r.lib, X, Y)
    <3>1. /\ r.lib.timings[t] \in Timing /\ s.timings[t] \in Timing
          /\ TimingAgrees(r.lib, r.lib.timings[t], s.timings[t])
      BY <1>3, <1>6, GroupsAgree
    <3> QED BY <3>1
  <2>2. Refused(X, r.table) <=> Refused(Y, r.table)
    BY <2>1 DEF Refused, TimingAgrees
  <2>3. CASE Refused(X, r.table)
    <3>1. TableEnd(r).lib = r.lib
      BY <1>3, <2>1, <2>3, TableEndsLib
    <3>2. TableEnd(p).lib = s
      BY <1>1, <1>3, <2>1, <2>2, <2>3, TableEndsLib
    <3> QED BY <1>1, <3>1, <3>2
  <2>4. CASE ~Refused(X, r.table)
    <3>1. PICK x, y : x = Tabled(X, r.lib, r.table) /\ y = Tabled(Y, s, r.table)
      OBVIOUS
    <3>2. TableEnd(r).lib = With(r.lib, t, x)
      BY <1>3, <1>6, <2>1, <2>4, <3>1, TableEndsLib
    <3>3. TableEnd(p).lib = With(s, t, y)
      BY <1>1, <1>3, <1>4, <1>6, <2>1, <2>2, <2>4, <3>1, TableEndsLib
    <3>4. x \in Timing
      BY <1>2, <2>4, <3>1, TabledType
    <3>5. y \in Timing
      BY <1>2, <2>2, <2>4, <3>1, TabledType
    <3>6. TimingAgrees(r.lib, x, y)
      BY <1>2, <2>1, <3>1, TabledAgrees
    <3>7. Agrees(With(r.lib, t, x), With(s, t, y))
      BY <1>2, <3>4, <3>5, <3>6, AgreesWith
    <3> QED BY <1>1, <3>2, <3>3, <3>7
  <2> QED BY <2>3, <2>4
<1> QED BY <1>5, <1>6

\* A statement that gives no unit does the same to both.
LEMMA HandleAgrees ==
  ASSUME NEW r \in Held, NEW s \in Library, Agrees(r.lib, s), Unit1(s), NEW st \in Statement, st.word \notin UnitWord
  PROVE  Agrees(Handle(r, st).lib, Handle(Twin(r, s), st).lib)
<1>1. PICK p \in Held : p = Twin(r, s) /\ p.lib = s /\ p.open = r.open /\ p.err = r.err
  BY TwinType
<1> DEFINE g == Last(r.open)
<1>0. Last(p.open) = g
  BY <1>1
<1>2. CASE r.err
  <2>1. Handle(r, st) = r /\ Handle(p, st) = p
    BY <1>1, <1>2 DEF Handle
  <2> QED BY <1>1, <2>1
<1>3. CASE ~r.err /\ st = End /\ g = "table"
  <2>1. Handle(r, st) = TableEnd(r) /\ Handle(p, st) = TableEnd(p)
    BY <1>0, <1>1, <1>3 DEF Handle
  <2> QED BY <1>1, <2>1, TableEndAgrees
<1>4. CASE ~r.err /\ st = End /\ g # "table"
  <2>1. Handle(r, st) = Leave(r) /\ Handle(p, st) = Leave(p)
    BY <1>0, <1>1, <1>4 DEF Handle
  <2> QED BY <1>1, <2>1, LeaveType
<1>5. CASE ~r.err /\ st # End /\ g = "library"
  <2>1. Handle(r, st) = LibraryStmt(r, st) /\ Handle(p, st) = LibraryStmt(p, st)
    BY <1>0, <1>1, <1>5 DEF Handle
  <2> QED BY <1>1, <2>1, LibraryStmtAgrees
<1>6. CASE ~r.err /\ st # End /\ g = "template"
  <2>1. Handle(r, st) = TemplateStmt(r, st) /\ Handle(p, st) = TemplateStmt(p, st)
    BY <1>0, <1>1, <1>6 DEF Handle
  <2> QED BY <1>1, <2>1, TemplateStmtAgrees
<1>7. CASE ~r.err /\ st # End /\ g = "cell"
  <2>1. Handle(r, st) = CellStmt(r, st) /\ Handle(p, st) = CellStmt(p, st)
    BY <1>0, <1>1, <1>7 DEF Handle
  <2> QED BY <1>1, <2>1, CellStmtAgrees
<1>8. CASE ~r.err /\ st # End /\ g = "pin"
  <2>1. Handle(r, st) = PinStmt(r, st) /\ Handle(p, st) = PinStmt(p, st)
    BY <1>0, <1>1, <1>8 DEF Handle
  <2> QED BY <1>1, <2>1, PinStmtAgrees
<1>9. CASE ~r.err /\ st # End /\ g = "timing"
  <2>1. Handle(r, st) = TimingStmt(r, st) /\ Handle(p, st) = TimingStmt(p, st)
    BY <1>0, <1>1, <1>9 DEF Handle
  <2> QED BY <1>1, <2>1, TimingStmtAgrees
<1>10. CASE ~r.err /\ st # End /\ g = "scalar"
  <2>1. Handle(r, st) = ScalarStmt(r, st) /\ Handle(p, st) = ScalarStmt(p, st)
    BY <1>0, <1>1, <1>10 DEF Handle
  <2> QED BY <1>1, <2>1, ScalarStmtAgrees
<1>11. CASE ~r.err /\ st # End /\ g = "table"
  <2>1. Handle(r, st) = TableStmt(r, st) /\ Handle(p, st) = TableStmt(p, st)
    BY <1>0, <1>1, <1>11 DEF Handle
  <2> QED BY <1>1, <2>1, TableStmtTypes
<1>12. CASE ~r.err /\ st # End /\ g \notin Group \ {"skip"}
  <2>1. Handle(r, st) = Ignore(r, st) /\ Handle(p, st) = Ignore(p, st)
    BY <1>0, <1>1, <1>12 DEF Handle, Group
  <2> QED BY <1>1, <2>1, IgnoreType
<1> QED BY <1>2, <1>3, <1>4, <1>5, <1>6, <1>7, <1>8, <1>9, <1>10, <1>11, <1>12 DEF Group

-------------------------------------------------------------------------------
(* A step of the reader.                                                          *)

\* A unit changes the unit and nothing else.
LEMMA UnitLib ==
  ASSUME NEW r \in Held, NEW st \in Statement, st.word \in UnitWord
  PROVE  LET l == r.lib  m == Handle(r, st).lib IN
         /\ m.tmpl = l.tmpl /\ m.leakage = l.leakage /\ m.capacitance = l.capacitance /\ m.timings = l.timings
<1> DEFINE g == Last(r.open)
<1>0. st # End /\ r.lib \in Library
  <2>1. End.word = "}"
    BY DEF End, Stmt
  <2>2. "}" \notin UnitWord
    BY DEF UnitWord
  <2>3. r.lib \in Library
    BY DEF Held
  <2> QED BY <2>1, <2>2, <2>3
<1>1. CASE r.err
  BY <1>1 DEF Handle
<1>2. CASE ~r.err /\ g = "library"
  <2>1. Handle(r, st) = LibraryStmt(r, st)
    BY <1>0, <1>2 DEF Handle
  <2>2. \E x \in Nat : \/ Handle(r, st).lib = [r.lib EXCEPT !.time = x]
                       \/ Handle(r, st).lib = [r.lib EXCEPT !.cap = x]
                       \/ Handle(r, st).lib = [r.lib EXCEPT !.power = x]
    <3>1. PICK x \in Nat : x = st.nums[1]
      BY StatementParts
    <3>2. CASE st.word = "time_unit"
      BY <2>1, <3>1, <3>2 DEF LibraryStmt, Held
    <3>3. CASE st.word = "capacitive_load_unit"
      BY <2>1, <3>1, <3>3 DEF LibraryStmt, Held
    <3>4. CASE st.word = "leakage_power_unit"
      BY <2>1, <3>1, <3>4 DEF LibraryStmt, Held
    <3> QED BY <3>2, <3>3, <3>4 DEF UnitWord
  <2> QED BY <1>0, <2>2 DEF Library
<1>3. CASE ~r.err /\ g = "template"
  <2>1. Handle(r, st) = TemplateStmt(r, st)
    BY <1>0, <1>3 DEF Handle
  <2>2. \A f : FormatStmt(f, st) = f
    BY DEF FormatStmt, UnitWord
  <2>3. r.lib.tmpl \in Parts(Template, Format)
    BY <1>0 DEF Library
  <2>4. [r.lib.tmpl EXCEPT ![r.table.name] = r.lib.tmpl[r.table.name]] = r.lib.tmpl
    BY <2>3 DEF Parts
  <2>5. Handle(r, st).lib = [r.lib EXCEPT !.tmpl = r.lib.tmpl]
    BY <2>1, <2>2, <2>4, TemplateStmtLib
  <2> QED BY <1>0, <2>5 DEF Library
<1>4. CASE ~r.err /\ g \notin {"library", "template"}
  <2>1. /\ st.word \notin AttributeWord
        /\ st.word \notin {"cell_leakage_power", "timing", "capacitance", "values"}
    BY DEF UnitWord, AttributeWord
  <2>2. Handle(r, st).lib = r.lib
    <3>1. CASE g = "cell"
      <4>1. Handle(r, st) = CellStmt(r, st)
        BY <1>0, <1>4, <3>1 DEF Handle
      <4> QED BY <2>1, <4>1, CellStmtLib
    <3>2. CASE g = "pin"
      <4>1. Handle(r, st) = PinStmt(r, st)
        BY <1>0, <1>4, <3>2 DEF Handle
      <4> QED BY <2>1, <4>1, PinStmtLib
    <3>3. CASE g = "timing"
      <4>1. Handle(r, st) = TimingStmt(r, st)
        BY <1>0, <1>4, <3>3 DEF Handle
      <4> QED BY <2>1, <4>1, TimingStmtLib
    <3>4. CASE g = "scalar"
      <4>1. Handle(r, st) = ScalarStmt(r, st)
        BY <1>0, <1>4, <3>4 DEF Handle
      <4> QED BY <2>1, <4>1, ScalarStmtLib
    <3>5. CASE g = "table"
      <4>1. Handle(r, st) = TableStmt(r, st)
        BY <1>0, <1>4, <3>5 DEF Handle
      <4> QED BY <4>1, TableStmtTypes
    <3>6. CASE g \notin {"cell", "pin", "timing", "scalar", "table"}
      <4>1. Handle(r, st) = Ignore(r, st)
        BY <1>0, <1>4, <3>6 DEF Handle
      <4> QED BY <4>1, IgnoreType
    <3> QED BY <3>1, <3>2, <3>3, <3>4, <3>5, <3>6
  <2> QED BY <2>2
<1> QED BY <1>1, <1>2, <1>3, <1>4

\* A unit before any value scales nothing yet.
LEMMA UnitAgrees ==
  ASSUME NEW l \in Library, NEW s \in Library, Agrees(l, s), Valueless(s),
         NEW m \in Library, m.tmpl = l.tmpl, m.leakage = l.leakage, m.capacitance = l.capacitance, m.timings = l.timings
  PROVE  Agrees(m, s)
<1>1. s.leakage = 0 /\ s.capacitance = 0 /\ s.timings = <<>>
  BY DEF Valueless, NewLib
<1>2. 0 * l.power = 0 /\ 0 * l.cap = 0 /\ 0 * m.power = 0 /\ 0 * m.cap = 0
  BY DEF Library
<1>3. l.leakage = 0 /\ l.capacitance = 0 /\ Len(l.timings) = 0
  BY <1>1, <1>2, EmptySeq DEF Agrees
<1>4. DOMAIN m.timings = {} /\ Len(m.timings) = Len(s.timings)
  BY <1>1, <1>3, EmptySeq DEF Library
<1> QED BY <1>1, <1>2, <1>3, <1>4 DEF Agrees

\* What one statement does to the invariant.
Kept(f) ==
  /\ f.r \in Held /\ f.said \in Library /\ Unit1(f.said) /\ f.late \in BOOLEAN
  /\ ~f.late => Agrees(f.r.lib, f.said)

LEMMA StepAgrees ==
  ASSUME NEW r \in Held, NEW s \in Library, Unit1(s), NEW b \in BOOLEAN, ~b => Agrees(r.lib, s), NEW st \in Statement
  PROVE  Kept(Step([r |-> r, said |-> s, late |-> b], st))
<1>0. PICK f : f = Step([r |-> r, said |-> s, late |-> b], st)
  OBVIOUS
<1>1. /\ f.r = Handle(r, st) /\ f.said = (IF st.word \in UnitWord THEN s ELSE Handle(Twin(r, s), st).lib)
      /\ f.late = (b \/ (st.word \in UnitWord /\ ~Valueless(s)))
  BY <1>0 DEF Step, Twin
<1>2. f.r \in Held /\ f.late \in BOOLEAN
  BY <1>1, HandleTypes
<1>3. r.lib \in Library
  BY DEF Held
<1>4. CASE st.word \in UnitWord
  <2>1. f.said = s
    BY <1>1, <1>4
  <2>2. ASSUME ~f.late PROVE Agrees(f.r.lib, s)
    <3>1. ~b /\ Valueless(s)
      BY <1>1, <1>4, <2>2
    <3>2. PICK m \in Library : m = Handle(r, st).lib
      BY <1>1, <1>2 DEF Held
    <3>3. m.tmpl = r.lib.tmpl /\ m.leakage = r.lib.leakage /\ m.capacitance = r.lib.capacitance /\ m.timings = r.lib.timings
      BY <1>4, <3>2, UnitLib
    <3>4. Agrees(r.lib, s)
      BY <3>1
    <3>5. Agrees(m, s)
      BY <1>3, <3>1, <3>3, <3>4, UnitAgrees
    <3> QED BY <1>1, <3>2, <3>5
  <2> QED BY <1>0, <1>2, <2>1, <2>2 DEF Kept
<1>5. CASE st.word \notin UnitWord
  <2>1. PICK p \in Held : p = Twin(r, s) /\ p.lib = s
    BY TwinType
  <2>2. f.said = Handle(p, st).lib
    BY <1>1, <1>5, <2>1
  <2>3. f.said \in Library /\ SameUnits(s, f.said)
    <3>1. Handle(p, st) \in Held /\ SameUnits(p.lib, Handle(p, st).lib)
      BY <1>5, HandleTypes
    <3> QED BY <2>1, <2>2, <3>1 DEF Held
  <2>4. Unit1(f.said)
    BY <2>3 DEF Unit1, SameUnits
  <2>5. ASSUME ~f.late PROVE Agrees(f.r.lib, f.said)
    <3>1. Agrees(r.lib, s)
      BY <1>1, <2>5
    <3>2. Agrees(Handle(r, st).lib, Handle(Twin(r, s), st).lib)
      BY <1>5, <3>1, HandleAgrees
    <3> QED BY <1>1, <2>1, <2>2, <3>2
  <2> QED BY <1>0, <1>2, <2>3, <2>4, <2>5 DEF Kept
<1> QED BY <1>4, <1>5

-------------------------------------------------------------------------------
(* The invariant.                                                                 *)

LEMMA StatementMade ==
  ASSUME NEW w \in Word, NEW k \in 0 .. 3, NEW n \in Name, NEW x \in Seq(Nat)
  PROVE  LET st == [word |-> w, k |-> k, name |-> n, nums |-> x] IN
         /\ w \notin UnitWord \cup ValueWord \cup {"index", "variable", "lu_table_template"} => st \in Statement
         /\ w \notin {"index", "variable", "lu_table_template"} /\ x # <<>> => st \in Statement
         /\ w \notin UnitWord \cup ValueWord \cup {"lu_table_template"} /\ k # 0 /\ n \in Variable => st \in Statement
         /\ w \notin UnitWord \cup ValueWord \cup {"variable", "lu_table_template"} /\ k # 0 => st \in Statement
         /\ w \notin UnitWord \cup ValueWord \cup {"index", "variable"} /\ n \in Template => st \in Statement
BY DEF Statement

LEMMA PlainStatement ==
  ASSUME NEW w \in Word \ (UnitWord \cup ValueWord \cup {"index", "variable", "lu_table_template"})
  PROVE  /\ Stmt(w) \in Statement
         /\ \A n \in Name : Named(w, n) \in Statement
<1>1. <<>> \in Seq(Nat) /\ "unnamed" \in Name
  BY EmptySeq DEF Name
<1>2. ASSUME NEW n \in Name PROVE [word |-> w, k |-> 0, name |-> n, nums |-> <<>>] \in Statement
  <2>1. 0 \in 0 .. 3
    OBVIOUS
  <2> QED BY <1>1, <2>1, StatementMade
<1>3. \A n : Named(w, n) = [word |-> w, k |-> 0, name |-> n, nums |-> <<>>]
  BY DEF Named, Stmt
<1>4. Stmt(w) = [word |-> w, k |-> 0, name |-> "unnamed", nums |-> <<>>]
  BY DEF Stmt
<1> QED BY <1>1, <1>2, <1>3, <1>4

LEMMA GivenStatement ==
  ASSUME NEW w \in UnitWord \cup ValueWord, NEW x \in Nat
  PROVE  Given(w, x) \in Statement
<1>1. w \in Word /\ w \notin {"index", "variable", "lu_table_template"}
  BY DEF Word, UnitWord, ValueWord
<1>2. <<x>> \in Seq(Nat) /\ <<x>> # <<>> /\ "unnamed" \in Name
  BY DEF Name
<1>3. Given(w, x) = [word |-> w, k |-> 0, name |-> "unnamed", nums |-> <<x>>]
  BY DEF Given, Stmt
<1>4. 0 \in 0 .. 3
  OBVIOUS
<1>5. [word |-> w, k |-> 0, name |-> "unnamed", nums |-> <<x>>] \in Statement
  BY <1>1, <1>2, <1>4, StatementMade
<1> QED BY <1>3, <1>5

LEMMA TemplateStatement ==
  ASSUME NEW n \in Template
  PROVE  Named("lu_table_template", n) \in Statement
<1>1. "lu_table_template" \in Word \ (UnitWord \cup ValueWord \cup {"index", "variable"})
  BY DEF Word, UnitWord, ValueWord, GroupWord
<1>2. <<>> \in Seq(Nat) /\ n \in Name
  BY EmptySeq DEF Name
<1>3. Named("lu_table_template", n) = [word |-> "lu_table_template", k |-> 0, name |-> n, nums |-> <<>>]
  BY DEF Named, Stmt
<1>4. 0 \in 0 .. 3
  OBVIOUS
<1>5. [word |-> "lu_table_template", k |-> 0, name |-> n, nums |-> <<>>] \in Statement
  BY <1>1, <1>2, <1>4, StatementMade
<1> QED BY <1>3, <1>5

LEMMA FormatStatements == Formats \subseteq Statement
<1>1. {"index", "variable"} \subseteq Word \ (UnitWord \cup ValueWord) /\ "unnamed" \in Name /\ <<>> \in Seq(Nat)
  BY EmptySeq DEF Word, UnitWord, ValueWord, Name
<1>2. ASSUME NEW k \in 1 .. 2, NEW x \in Index PROVE IndexOf(k, x) \in Statement
  <2>1. IndexOf(k, x) = [word |-> "index", k |-> k, name |-> "unnamed", nums |-> x]
    <3>1. Stmt("index") = [word |-> "index", k |-> 0, name |-> "unnamed", nums |-> <<>>]
      BY DEF Stmt
    <3>2. PICK e : e = [word |-> "index", k |-> k, name |-> "unnamed", nums |-> <<>>]
      OBVIOUS
    <3>3. [Stmt("index") EXCEPT !.k = k] = e
      BY <3>1, <3>2
    <3>4. IndexOf(k, x) = [e EXCEPT !.nums = x]
      BY <3>3 DEF IndexOf
    <3> QED BY <3>2, <3>4
  <2>2. x \in Seq(Nat) /\ k \in 0 .. 3 /\ k # 0
    BY IndexAssumption
  <2> QED BY <1>1, <2>1, <2>2, StatementMade
<1>3. ASSUME NEW k \in 1 .. 2, NEW v \in Variable PROVE VariableOf(k, v) \in Statement
  <2>1. VariableOf(k, v) = [word |-> "variable", k |-> k, name |-> v, nums |-> <<>>]
    <3>1. Stmt("variable") = [word |-> "variable", k |-> 0, name |-> "unnamed", nums |-> <<>>]
      BY DEF Stmt
    <3>2. PICK e : e = [word |-> "variable", k |-> k, name |-> "unnamed", nums |-> <<>>]
      OBVIOUS
    <3>3. [Stmt("variable") EXCEPT !.k = k] = e
      BY <3>1, <3>2
    <3>4. VariableOf(k, v) = [e EXCEPT !.name = v]
      BY <3>3 DEF VariableOf
    <3> QED BY <3>2, <3>4
  <2>2. v \in Name /\ k \in 0 .. 3 /\ k # 0
    BY DEF Name
  <2> QED BY <1>1, <2>1, <2>2, StatementMade
<1> QED BY <1>2, <1>3 DEF Formats

LEMMA ValuesStatement ==
  ASSUME NEW n \in Nat
  PROVE  Values(Sample(n)) \in Statement
<1>1. Sample(n) \in Seq(Nat)
  BY DEF Sample
<1>2. "values" \in Word \ (UnitWord \cup ValueWord) /\ "unnamed" \in Name
  BY DEF Word, UnitWord, ValueWord, Name
<1>3. Values(Sample(n)) = [word |-> "values", k |-> 0, name |-> "unnamed", nums |-> Sample(n)]
  BY DEF Values, Stmt
<1> QED BY <1>1, <1>2, <1>3, StatementMade

\* What the model lets follow the beginning of a file is well formed.
LEMMA BodyStatements == \A g : Body(g) \cup {End} \subseteq Statement
<1>1. {"}", "cell", "pin", "timing", "cell_rise", "rise_transition", "related_pin", "timing_type"}
        \subseteq Word \ (UnitWord \cup ValueWord \cup {"index", "variable", "lu_table_template"})
  BY DEF Word, UnitWord, ValueWord, GroupWord, TableWord
<1>2. End \in Statement
  BY <1>1, PlainStatement DEF End
<1>3. Body("library") \subseteq Statement
  <2>1. \A w \in UnitWord, u \in Unit : Given(w, u) \in Statement
    BY UnitAssumption, GivenStatement
  <2>2. Stmt("cell") \in Statement
    BY <1>1, PlainStatement
  <2>3. Body("library") = {Given(w, u) : w \in UnitWord, u \in Unit} \cup {Stmt("cell")}
                         \cup {Named("lu_table_template", n) : n \in Template}
    BY DEF Body
  <2> QED BY <2>1, <2>2, <2>3, TemplateStatement
<1>4. {Given(w, 1) : w \in ValueWord} \subseteq Statement
  BY GivenStatement
<1>5. Body("cell") \subseteq Statement /\ Body("pin") \subseteq Statement
  <2>1. Given("cell_leakage_power", 1) \in Statement /\ Given("capacitance", 1) \in Statement
    BY <1>4 DEF ValueWord
  <2>2. Stmt("pin") \in Statement /\ Stmt("timing") \in Statement
    BY <1>1, PlainStatement
  <2>3. /\ Body("cell") = {Given("cell_leakage_power", 1), Stmt("pin")}
        /\ Body("pin") = {Given("capacitance", 1), Stmt("timing")}
    BY DEF Body
  <2> QED BY <2>1, <2>2, <2>3
<1>7. Body("timing") \subseteq Statement
  <2>1. Pin \subseteq Name /\ Template \cup {"scalar"} \subseteq Name /\ "combinational" \in Name
    BY DEF Name
  <2>2. \A p \in Pin : Named("related_pin", p) \in Statement
    BY <1>1, <2>1, PlainStatement
  <2>3. \A w \in TableWord, n \in Template \cup {"scalar"} : Named(w, n) \in Statement
    BY <1>1, <2>1, PlainStatement DEF TableWord
  <2>4. Named("timing_type", "combinational") \in Statement
    BY <1>1, <2>1, PlainStatement
  <2>5. Given("intrinsic_rise", 1) \in Statement /\ Given("rise_resistance", 1) \in Statement
    BY <1>4 DEF ValueWord
  <2> QED BY <2>2, <2>3, <2>4, <2>5 DEF Body
<1>8. Body("template") \subseteq Statement
  BY FormatStatements DEF Body
<1>9. Body("scalar") \subseteq Statement
  BY ValuesStatement DEF Body
<1>10. Body("table") \subseteq Statement
  BY FormatStatements, ValuesStatement DEF Body
<1>11. ASSUME NEW g, g \notin {"library", "template", "cell", "pin", "timing", "scalar", "table"}
       PROVE  Body(g) = {}
  BY <1>11 DEF Body
<1> QED BY <1>2, <1>3, <1>5, <1>7, <1>8, <1>9, <1>10, <1>11

LEMMA NewLibType ==
  /\ NewLib \in Library /\ Unscaled \in Library /\ Unit1(Unscaled) /\ Agrees(NewLib, Unscaled)
<1>1. <<>> \in Parts(Template, Format) /\ <<>> \in Seq(Timing)
  <2>1. <<>> \in [{} -> Format]
    OBVIOUS
  <2> QED BY <2>1, EmptySeq DEF Parts
<1>2. NewLib \in Library
  BY <1>1, UnitAssumption DEF NewLib, Library
<1>3. PICK s : s = Unscaled
  OBVIOUS
<1>4. /\ s = [time |-> 1, cap |-> 1, power |-> 1, tmpl |-> <<>>, leakage |-> 0, capacitance |-> 0, timings |-> <<>>]
  BY <1>3 DEF Unscaled, NewLib
<1>5. s \in Library /\ Unit1(s)
  BY <1>1, <1>4 DEF Library, Unit1
<1>6. Agrees(NewLib, s)
  <2>1. PICK l \in Library : l = NewLib
    BY <1>2
  <2>2. /\ l.tmpl = <<>> /\ l.leakage = 0 /\ l.capacitance = 0 /\ l.timings = <<>>
        /\ s.tmpl = <<>> /\ s.leakage = 0 /\ s.capacitance = 0 /\ s.timings = <<>>
    BY <1>4, <2>1 DEF NewLib
  <2>3. 0 * l.power = 0 /\ 0 * l.cap = 0
    BY DEF Library
  <2>4. DOMAIN l.timings = {}
    BY <2>2, EmptySeq
  <2>5. Agrees(l, s)
    BY <2>2, <2>3, <2>4 DEF Agrees
  <2> QED BY <2>1, <2>5
<1> QED BY <1>2, <1>3, <1>5, <1>6

LEMMA InitIInv == Init => IInv
<1> SUFFICES ASSUME Init PROVE IInv
  OBVIOUS
<1>1. ahead \in Seq(Statement)
  BY PreludeAssumption DEF Init
<1>2. open \in Seq(Group) /\ table \in Open /\ err \in BOOLEAN /\ late \in BOOLEAN /\ read \in 0 .. MaxStmts
  <2>1. <<"library">> \in Seq(Group)
    BY DEF Group
  <2>2. table \in Open
    BY NewTableType DEF Init
  <2>3. read \in 0 .. MaxStmts
    BY MaxStmtsAssumption DEF Init
  <2> QED BY <2>1, <2>2, <2>3 DEF Init
<1>3. lib \in Library /\ said \in Library /\ Unit1(said) /\ Agrees(lib, said)
  BY NewLibType DEF Init
<1> QED BY <1>1, <1>2, <1>3, ScaledOnceIsAgreement DEF IInv, TypeOK

\* Every statement keeps the invariant.
LEMMA ReadIInv ==
  ASSUME IInv, NEW st \in Statement, Read(st)
  PROVE  /\ open' \in Seq(Group) /\ lib' \in Library /\ table' \in Open /\ err' \in BOOLEAN /\ late' \in BOOLEAN
         /\ said' \in Library /\ Unit1(said') /\ (~late' => Agrees(lib', said'))
<1>1. PICK r : r = Reader
  OBVIOUS
<1>2. r \in Held /\ r.lib = lib
  BY <1>1 DEF Reader, Held, IInv, TypeOK
<1>3. said \in Library /\ Unit1(said) /\ late \in BOOLEAN /\ (~late => Agrees(r.lib, said))
  BY <1>2, ScaledOnceIsAgreement DEF IInv, TypeOK
<1>4. PICK f : f = Step([r |-> r, said |-> said, late |-> late], st)
  OBVIOUS
<1>5. Kept(f)
  BY <1>2, <1>3, <1>4, StepAgrees
<1>6. Become(f)
  BY <1>1, <1>4 DEF Read
<1>7. f.r \in Held
  BY <1>5 DEF Kept
<1>8. open' = f.r.open /\ lib' = f.r.lib /\ table' = f.r.table /\ err' = f.r.err /\ said' = f.said /\ late' = f.late
  BY <1>6 DEF Become
<1>9. open' \in Seq(Group) /\ lib' \in Library /\ table' \in Open /\ err' \in BOOLEAN
  BY <1>7, <1>8 DEF Held
<1> QED BY <1>5, <1>8, <1>9 DEF Kept

LEMMA NextIInv == IInv /\ [Next]_vars => IInv'
<1> SUFFICES ASSUME IInv, [Next]_vars PROVE IInv'
  OBVIOUS
<1>1. ASSUME ahead # <<>>, Read(Head(ahead)), ahead' = Tail(ahead), UNCHANGED read
      PROVE  IInv'
  <2>1. ahead \in Seq(Statement) /\ read \in 0 .. MaxStmts
    BY DEF IInv, TypeOK
  <2>2. Head(ahead) \in Statement /\ Tail(ahead) \in Seq(Statement)
    BY <1>1, <2>1, HeadTailProperties
  <2>3. /\ open' \in Seq(Group) /\ lib' \in Library /\ table' \in Open /\ err' \in BOOLEAN /\ late' \in BOOLEAN
        /\ said' \in Library /\ Unit1(said') /\ (~late' => Agrees(lib', said'))
    BY <1>1, <2>2, ReadIInv
  <2>4. ScaledOnce' <=> (~late' => Agrees(lib', said'))
    BY DEF ScaledOnce, Agrees, TimingAgrees
  <2> QED BY <1>1, <2>1, <2>2, <2>3, <2>4 DEF IInv, TypeOK
<1>2. ASSUME read < MaxStmts, NEW st \in Body(Last(open)) \cup {End}, Read(st), read' = read + 1, UNCHANGED ahead
      PROVE  IInv'
  <2>1. ahead \in Seq(Statement) /\ read' \in 0 .. MaxStmts
    BY <1>2, MaxStmtsAssumption DEF IInv, TypeOK
  <2>2. st \in Statement
    BY BodyStatements
  <2>3. /\ open' \in Seq(Group) /\ lib' \in Library /\ table' \in Open /\ err' \in BOOLEAN /\ late' \in BOOLEAN
        /\ said' \in Library /\ Unit1(said') /\ (~late' => Agrees(lib', said'))
    BY <1>2, <2>2, ReadIInv
  <2>4. ScaledOnce' <=> (~late' => Agrees(lib', said'))
    BY DEF ScaledOnce, Agrees, TimingAgrees
  <2> QED BY <1>2, <2>1, <2>3, <2>4 DEF IInv, TypeOK
<1>3. CASE UNCHANGED vars
  BY <1>3 DEF vars, IInv, TypeOK, ScaledOnce
<1> QED BY <1>1, <1>2, <1>3 DEF Next

LEMMA Invariant == Spec => []IInv
BY InitIInv, NextIInv, PTL DEF Spec

\* The library and what the file says stay well formed: a stored table has as many
\* values as its breakpoints ask for and the strides of a file, and no handler is given anything else (lib-parser.c:494-882).
THEOREM LibValuesTypes == Spec => []TypeOK
BY Invariant, PTL DEF IInv

\* Each quantity of the library is what the file says times its unit, once, unless
\* a unit follows a value: for any statements, templates and units, and however
\* tables share a template (lib-parser.c:494-661).
THEOREM QuantitiesScaledOnce == Spec => []ScaledOnce
BY Invariant, PTL DEF IInv

-------------------------------------------------------------------------------
(* Places in a table: numbers in a mixed radix.                                   *)

LEMMA Divided ==
  ASSUME NEW n \in Nat, NEW e \in Nat, e # 0
  PROVE  \E q, r \in Nat : n = q * e + r /\ r < e
<1>1. n \div e \in Nat /\ n % e \in Nat /\ n = (n \div e) * e + (n % e) /\ n % e < e
  OBVIOUS
<1> QED BY <1>1

LEMMA MoreTimes ==
  ASSUME NEW a \in Nat, NEW b \in Nat, NEW e \in Nat, a < b
  PROVE  a * e + e <= b * e /\ a * e \in Nat
<1>1. PICK d \in Nat : b = a + 1 + d
  <2>1. b - a - 1 \in Nat /\ b = a + 1 + (b - a - 1)
    OBVIOUS
  <2> QED BY <2>1
<1>2. (a + 1 + d) * e = a * e + e + d * e
  OBVIOUS
<1>3. d * e \in Nat /\ a * e \in Nat
  OBVIOUS
<1> QED BY <1>1, <1>2, <1>3

\* A place below the last axis, and one of a table.
Low(b, c, e)           == b * e + c
High(a, b, c, d, e)    == a * (d * e) + Low(b, c, e)

LEMMA LowBound ==
  ASSUME NEW b \in Nat, NEW c \in Nat, NEW d \in Nat, NEW e \in Nat, b < d, c < e
  PROVE  Low(b, c, e) \in Nat /\ Low(b, c, e) < d * e
<1>1. b * e + e <= d * e /\ b * e \in Nat /\ d * e \in Nat
  BY MoreTimes
<1> QED BY <1>1 DEF Low

LEMMA PlaceBound ==
  ASSUME NEW a \in Nat, NEW b \in Nat, NEW c \in Nat, NEW f \in Nat, NEW d \in Nat, NEW e \in Nat,
         a < f, b < d, c < e
  PROVE  High(a, b, c, d, e) \in Nat /\ High(a, b, c, d, e) < f * d * e
<1>1. PICK m \in Nat : m = d * e
  OBVIOUS
<1>2. Low(b, c, e) \in Nat /\ Low(b, c, e) < m
  BY <1>1, LowBound
<1>3. a * m + m <= f * m /\ a * m \in Nat /\ f * m \in Nat
  BY MoreTimes
<1>4. f * m = f * d * e
  BY <1>1
<1> QED BY <1>1, <1>2, <1>3, <1>4 DEF High

Placed(n, f, d, e) == \E a, b, c \in Nat : a < f /\ b < d /\ c < e /\ n = High(a, b, c, d, e)

LEMMA PlaceExists ==
  ASSUME NEW n \in Nat, NEW f \in Nat, NEW d \in Nat, NEW e \in Nat, NEW all, all = f * d * e, n < all
  PROVE  Placed(n, f, d, e)
<1>1. d # 0 /\ e # 0
  <2>1. f * 0 * e = 0 /\ f * d * 0 = 0
    OBVIOUS
  <2> QED BY <2>1
<1>2. PICK m \in Nat, c \in Nat : n = m * e + c /\ c < e
  BY <1>1, Divided
<1>3. PICK a \in Nat, b \in Nat : m = a * d + b /\ b < d
  BY <1>1, Divided
<1>4. n = High(a, b, c, d, e)
  <2>1. (a * d + b) * e = a * (d * e) + b * e
    OBVIOUS
  <2>2. a * (d * e) \in Nat /\ b * e \in Nat
    OBVIOUS
  <2> QED BY <1>2, <1>3, <2>1, <2>2 DEF High, Low
<1>5. a < f
  <2>1. SUFFICES ASSUME f <= a PROVE FALSE
    OBVIOUS
  <2>2. PICK g \in Nat : a = f + g
    <3>1. a - f \in Nat /\ a = f + (a - f)
      BY <2>1
    <3> QED BY <3>1
  <2>3. PICK k \in Nat : k = d * e
    OBVIOUS
  <2>4. a * k = f * k + g * k /\ f * k \in Nat /\ g * k \in Nat
    BY <2>2
  <2>5. f * k = f * d * e
    BY <2>3
  <2>6. Low(b, c, e) \in Nat
    BY DEF Low
  <2>7. n = a * k + Low(b, c, e)
    BY <1>4, <2>3 DEF High
  <2> QED BY <2>4, <2>5, <2>6, <2>7
<1> QED BY <1>2, <1>3, <1>4, <1>5 DEF Placed

LEMMA PlaceOrder ==
  ASSUME NEW a \in Nat, NEW b \in Nat, NEW c \in Nat, NEW x \in Nat, NEW y \in Nat, NEW z \in Nat,
         NEW d \in Nat, NEW e \in Nat, b < d, c < e,
         a < x \/ (a = x /\ b < y) \/ (a = x /\ b = y /\ c < z)
  PROVE  High(a, b, c, d, e) < High(x, y, z, d, e)
<1>0. PICK m \in Nat : m = d * e
  OBVIOUS
<1>1. Low(b, c, e) \in Nat /\ Low(b, c, e) < m /\ a * m \in Nat /\ Low(y, z, e) \in Nat /\ x * m \in Nat
  BY <1>0, LowBound DEF Low
<1>2. High(a, b, c, d, e) = a * m + Low(b, c, e) /\ High(x, y, z, d, e) = x * m + Low(y, z, e)
  BY <1>0 DEF High
<1>3. CASE a < x
  <2>1. a * m + m <= x * m
    BY <1>3, MoreTimes
  <2> QED BY <1>1, <1>2, <2>1
<1>4. CASE a = x /\ b < y
  <2>1. b * e + e <= y * e /\ b * e \in Nat /\ y * e \in Nat
    BY <1>4, MoreTimes
  <2>2. Low(b, c, e) < Low(y, z, e)
    BY <2>1 DEF Low
  <2> QED BY <1>1, <1>2, <1>4, <2>2
<1>5. CASE a = x /\ b = y /\ c < z
  <2>1. b * e \in Nat
    OBVIOUS
  <2>2. Low(b, c, e) < Low(y, z, e)
    BY <1>5, <2>1 DEF Low
  <2> QED BY <1>1, <1>2, <1>5, <2>2
<1> QED BY <1>3, <1>4, <1>5

-------------------------------------------------------------------------------
(* The places of a stored table.                                                  *)

Width(T, k) == IF k \in Axes(T) THEN Len(T.idx[k]) ELSE 1
Digit(p, k)  == IF k \in DOMAIN p THEN p[k] ELSE 0

LEMMA Extents ==
  ASSUME NEW T \in Stored
  PROVE  /\ Width(T, 1) \in Nat /\ Width(T, 2) \in Nat /\ Width(T, 3) \in Nat
         /\ Len(T.values) = Width(T, 1) * Width(T, 2) * Width(T, 3)
         /\ 1 \in Axes(T) => T.stride[1] = Width(T, 2) * Width(T, 3)
         /\ 2 \in Axes(T) => T.stride[2] = Width(T, 3)
         /\ 3 \in Axes(T) => T.stride[3] = 1
<1>1. \A k \in 1 .. 3 : Len(T.idx[k]) \in Nat
  BY DEF Stored
<1>2. Width(T, 1) \in Nat /\ Width(T, 2) \in Nat /\ Width(T, 3) \in Nat
  BY <1>1 DEF Width
<1>3. Len(T.values) = Width(T, 1) * Width(T, 2) * Width(T, 3)
  BY DEF Stored, Count, Width
<1>4. \A k \in Axes(T) : T.stride[k] = Count(T, {j \in Axes(T) : j > k})
  BY DEF Stored, FileStrides
<1>5. PICK d \in Nat, e \in Nat : d = Width(T, 2) /\ e = Width(T, 3)
  BY <1>2
<1>6. Count(T, {j \in Axes(T) : j > 1}) = 1 * d * e
  BY <1>5 DEF Count, Width
<1>7. Count(T, {j \in Axes(T) : j > 2}) = 1 * 1 * e
  BY <1>5 DEF Count, Width
<1>8. Count(T, {j \in Axes(T) : j > 3}) = 1 * 1 * 1
  BY DEF Count
<1>9. 1 * d * e = d * e /\ 1 * 1 * e = e
  OBVIOUS
<1>10. 1 \in Axes(T) => T.stride[1] = Width(T, 2) * Width(T, 3)
  BY <1>4, <1>5, <1>6, <1>9
<1>11. 2 \in Axes(T) => T.stride[2] = Width(T, 3)
  BY <1>4, <1>5, <1>7, <1>9
<1>12. 3 \in Axes(T) => T.stride[3] = 1
  BY <1>4, <1>8
<1> QED BY <1>2, <1>3, <1>10, <1>11, <1>12

LEMMA PositionDigits ==
  ASSUME NEW T \in Stored, NEW p \in Positions(T)
  PROVE  /\ DOMAIN p = Axes(T)
         /\ \A k \in 1 .. 3 : Digit(p, k) \in Nat /\ Digit(p, k) < Width(T, k)
<1>1. DOMAIN p = Axes(T) /\ \A k \in Axes(T) : p[k] \in UNION {0 .. Len(T.idx[j]) - 1 : j \in Axes(T)} /\ p[k] < Len(T.idx[k])
  BY DEF Positions
<1>2. \A k \in Axes(T) : p[k] \in Nat
  BY <1>1
<1> QED BY <1>1, <1>2 DEF Digit, Width

LEMMA PlaceIsHigh ==
  ASSUME NEW T \in Stored, NEW p \in Positions(T)
  PROVE  Place(T, p) = High(Digit(p, 1), Digit(p, 2), Digit(p, 3), Width(T, 2), Width(T, 3))
<1>1. DOMAIN p = Axes(T)
  BY PositionDigits
<1>2. PICK a \in Nat, b \in Nat, c \in Nat : a = Digit(p, 1) /\ b = Digit(p, 2) /\ c = Digit(p, 3)
  <2>1. Digit(p, 1) \in Nat /\ Digit(p, 2) \in Nat /\ Digit(p, 3) \in Nat
    BY PositionDigits
  <2> QED BY <2>1
<1>3. PICK d \in Nat, e \in Nat : d = Width(T, 2) /\ e = Width(T, 3)
  BY Extents
<1> DEFINE At(k) == IF k \in DOMAIN p THEN p[k] * T.stride[k] ELSE 0
<1>4. Place(T, p) = At(1) + At(2) + At(3)
  BY DEF Place, Walked
<1>5. 0 * (d * e) = 0 /\ 0 * e = 0 /\ c * 1 = c
  OBVIOUS
<1>6. At(1) = a * (d * e)
  <2>1. 1 \in Axes(T) => T.stride[1] = d * e
    BY <1>3, Extents
  <2> QED BY <1>1, <1>2, <1>5, <2>1 DEF Digit
<1>7. At(2) = b * e
  <2>1. 2 \in Axes(T) => T.stride[2] = e
    BY <1>3, Extents
  <2> QED BY <1>1, <1>2, <1>5, <2>1 DEF Digit
<1>8. At(3) = c
  <2>1. 3 \in Axes(T) => T.stride[3] = 1
    BY Extents
  <2> QED BY <1>1, <1>2, <1>5, <2>1 DEF Digit
<1> HIDE DEF At
<1>9. a * (d * e) \in Nat /\ b * e \in Nat
  OBVIOUS
<1>10. Place(T, p) = High(a, b, c, d, e)
  BY <1>4, <1>6, <1>7, <1>8, <1>9 DEF High, Low
<1> QED BY <1>2, <1>3, <1>10

\* Every place is that of a position, and no position has another.
LEMMA PlacesFill ==
  ASSUME NEW T \in Stored
  PROVE  {Place(T, p) : p \in Positions(T)} = 0 .. Len(T.values) - 1
<1>1. PICK f \in Nat, d \in Nat, e \in Nat : f = Width(T, 1) /\ d = Width(T, 2) /\ e = Width(T, 3)
  BY Extents
<1>2. PICK all \in Nat : all = f * d * e /\ Len(T.values) = all
  <2>1. Len(T.values) = f * d * e
    BY <1>1, Extents
  <2>2. f * d * e \in Nat
    OBVIOUS
  <2> QED BY <2>1, <2>2
<1>3. ASSUME NEW p \in Positions(T) PROVE Place(T, p) \in 0 .. Len(T.values) - 1
  <2>1. PICK a \in Nat, b \in Nat, c \in Nat :
          a = Digit(p, 1) /\ b = Digit(p, 2) /\ c = Digit(p, 3) /\ a < f /\ b < d /\ c < e
    <3>1. /\ Digit(p, 1) \in Nat /\ Digit(p, 2) \in Nat /\ Digit(p, 3) \in Nat
          /\ Digit(p, 1) < f /\ Digit(p, 2) < d /\ Digit(p, 3) < e
      BY <1>1, PositionDigits
    <3> QED BY <3>1
  <2>2. Place(T, p) = High(a, b, c, d, e)
    BY <1>1, <2>1, PlaceIsHigh
  <2>3. High(a, b, c, d, e) \in Nat /\ High(a, b, c, d, e) < f * d * e
    BY <2>1, PlaceBound
  <2> QED BY <1>2, <2>2, <2>3
<1>4. ASSUME NEW n \in 0 .. Len(T.values) - 1 PROVE \E p \in Positions(T) : Place(T, p) = n
  <2>1. n \in Nat /\ n < all
    BY <1>2
  <2>2. PICK a \in Nat, b \in Nat, c \in Nat : a < f /\ b < d /\ c < e /\ n = High(a, b, c, d, e)
    <3>1. Placed(n, f, d, e)
      BY <1>2, <2>1, PlaceExists
    <3> QED BY <3>1 DEF Placed
  <2>3. PICK p : p = [k \in Axes(T) |-> IF k = 1 THEN a ELSE IF k = 2 THEN b ELSE c]
    OBVIOUS
  <2>4. ASSUME NEW k \in Axes(T) PROVE p[k] \in 0 .. Len(T.idx[k]) - 1 /\ p[k] < Len(T.idx[k])
    <3>1. k \in 1 .. 3 /\ Len(T.idx[k]) \in Nat /\ Width(T, k) = Len(T.idx[k])
      BY DEF Axes, Stored, Width
    <3>2. k = 1 \/ k = 2 \/ k = 3
      BY <3>1
    <3>3. p[k] \in Nat /\ p[k] < Width(T, k)
      <4>1. CASE k = 1
        BY <1>1, <2>2, <2>3, <4>1
      <4>2. CASE k = 2
        BY <1>1, <2>2, <2>3, <4>2
      <4>3. CASE k = 3
        BY <1>1, <2>2, <2>3, <4>3
      <4> QED BY <3>2, <4>1, <4>2, <4>3
    <3> QED BY <3>1, <3>3
  <2>5. p \in Positions(T)
    <3>1. DOMAIN p = Axes(T) /\ p = [k \in Axes(T) |-> p[k]]
      BY <2>3
    <3>2. \A k \in Axes(T) : p[k] \in UNION {0 .. Len(T.idx[j]) - 1 : j \in Axes(T)}
      BY <2>4
    <3> QED BY <2>4, <3>1, <3>2 DEF Positions
  <2>6. Digit(p, 1) = a /\ Digit(p, 2) = b /\ Digit(p, 3) = c
    <3>1. (1 \notin Axes(T) => a = 0) /\ (2 \notin Axes(T) => b = 0) /\ (3 \notin Axes(T) => c = 0)
      BY <1>1, <2>2 DEF Width
    <3> QED BY <2>3, <3>1 DEF Digit
  <2>7. Place(T, p) = n
    BY <1>1, <2>2, <2>5, <2>6, PlaceIsHigh
  <2> QED BY <2>5, <2>7
<1> QED BY <1>3, <1>4

\* A later position has a later place.
LEMMA PlacesOrdered ==
  ASSUME NEW T \in Stored, NEW p \in Positions(T), NEW q \in Positions(T), NEW k \in DOMAIN p,
         p[k] < q[k], \A j \in DOMAIN p : j < k => p[j] = q[j]
  PROVE  Place(T, p) < Place(T, q)
<1>1. PICK d \in Nat, e \in Nat : d = Width(T, 2) /\ e = Width(T, 3)
  BY Extents
<1>2. PICK a \in Nat, b \in Nat, c \in Nat : a = Digit(p, 1) /\ b = Digit(p, 2) /\ c = Digit(p, 3) /\ b < d /\ c < e
  <2>1. /\ Digit(p, 1) \in Nat /\ Digit(p, 2) \in Nat /\ Digit(p, 3) \in Nat /\ Digit(p, 2) < d /\ Digit(p, 3) < e
    BY <1>1, PositionDigits
  <2> QED BY <2>1
<1>3. PICK x \in Nat, y \in Nat, z \in Nat : x = Digit(q, 1) /\ y = Digit(q, 2) /\ z = Digit(q, 3)
  <2>1. Digit(q, 1) \in Nat /\ Digit(q, 2) \in Nat /\ Digit(q, 3) \in Nat
    BY PositionDigits
  <2> QED BY <2>1
<1>4. DOMAIN q = DOMAIN p /\ DOMAIN p \subseteq 1 .. 3
  BY PositionDigits DEF Axes
<1>5. Digit(p, k) < Digit(q, k) /\ \A j \in 1 .. 3 : j < k => Digit(p, j) = Digit(q, j)
  BY <1>4 DEF Digit
<1>6. a < x \/ (a = x /\ b < y) \/ (a = x /\ b = y /\ c < z)
  <2>1. k = 1 \/ k = 2 \/ k = 3
    BY <1>4
  <2> QED BY <1>2, <1>3, <1>5, <2>1
<1>7. High(a, b, c, d, e) < High(x, y, z, d, e)
  BY <1>2, <1>6, PlaceOrder
<1> QED BY <1>1, <1>2, <1>3, <1>7, PlaceIsHigh

\* The values of each stored table, of up to three axes with any breakpoints, are
\* addressed as a file lists them, and each has a position (lib-parser.c:622-661).
THEOREM StoredInFileOrder == Spec => []FileOrder
<1>1. TypeOK => FileOrder
  <2>1. SUFFICES ASSUME TypeOK, NEW t \in DOMAIN lib.timings, NEW w \in DOMAIN lib.timings[t].tables
                 PROVE  lib.timings[t].tables[w] \in Stored
    BY PlacesFill, PlacesOrdered DEF FileOrder
  <2>2. lib.timings[t] \in Timing
    BY <2>1 DEF TypeOK, Library
  <2> QED BY <2>1, <2>2 DEF Timing, Parts
<1> QED BY <1>1, LibValuesTypes, PTL

===============================================================================
