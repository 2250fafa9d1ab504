------------------------------ MODULE LefFiles -------------------------------
(* LEF files: the reader (lef.c) statement by statement, how its tree is loaded  *)
(* into cells (load_lef in misc.c), made again from them (fmt-lef.c) and written *)
(* (lef-write.c).                                                                *)
(*                                                                               *)
(* A statement is a sequence of words: what a rule or skip() takes off the file. *)
(* The reader is between two of them in every state, with the groups it is in on *)
(* a stack. A file uses one unit and numbers that "%f" prints in full, so that   *)
(* loading scales what writing scales back; words that no property tells apart   *)
(* are left out.                                                                 *)
EXTENDS Integers, Sequences, FiniteSets, SequencesExt, TLC

CONSTANTS
  Prelude,     \* how a file may begin: sequences of statements
  Statements,  \* what may follow in a group of each kind: a function to sets of statements
  Names,       \* words that may follow END
  Number,      \* the words strtod reads a number from, with the number
  MaxStmts     \* bound: statements after the prelude that end no group

ASSUME MaxStmtsAssumption == MaxStmts \in Nat

VARIABLES
  open,    \* the groups that are open, outermost first
  lef,     \* the macros read so far
  result,  \* "reading", or what lef_read returns: "ok" or "error"; or "crashed"
  file,    \* the statements read so far (history)
  left     \* statements that may still follow

vars == <<open, lef, result, file, left>>

Symbol == {"(", ")", ";"}
Reader == [open |-> open, lef |-> lef, result |-> result]
Start  == [open |-> <<>>, lef |-> <<>>, result |-> "reading"]

-------------------------------------------------------------------------------
(* Words: l holds those of a statement that are left, and the numbers read.      *)

\* lex_next: the word for a closing parenthesis is that for an opening one.
Token(w) == IF w = ")" THEN "(" ELSE w
At(l, w) == l.rest # <<>> /\ Token(l.rest[1]) = w
Drop(l)  == [l EXCEPT !.rest = Tail(@)]
Wrong(l) == [l EXCEPT !.ok = FALSE]
Expect(l, w) == IF l.ok /\ At(l, w) THEN Drop(l) ELSE Wrong(l)

\* lex_real: any word but a symbol will do, for strtod gives 0 if it is no number.
LexReal(l) ==
  IF ~l.ok \/ l.rest = <<>> \/ l.rest[1] \in Symbol THEN Wrong(l)
  ELSE LET w == l.rest[1] IN
       [Drop(l) EXCEPT !.num = Append(@, IF w \in DOMAIN Number THEN Number[w] ELSE 0)]

\* lex_xy: parentheses are optional.
LexXy(l) ==
  IF At(l, "(") THEN Expect(LexReal(LexReal(Drop(l))), ")") ELSE LexReal(LexReal(l))

-------------------------------------------------------------------------------
(* Rules. A group keeps what its begin function made, until its end function     *)
(* hands it to the group around it.                                              *)

Group(k, n, x) == [kind |-> k, name |-> n, made |-> x, fresh |-> TRUE]
NewMacro(n)    == [name |-> n, size |-> <<0, 0>>, origin |-> <<0, 0>>, pins |-> <<>>]
NewPin(n)      == [name |-> n, ports |-> <<>>]
NewPort        == [class |-> "NONE", geos |-> <<>>]
NewLayer(n)    == [layer |-> n, width |-> 0, rects |-> <<>>]

\* parse_macro_size, parse_macro_origin and the prefns of port_rules, on what the
\* group made. The layer that LAYER adds is the last until the next one.
Parsed(x, s) ==
  LET l == [rest |-> Tail(s), num |-> <<>>, ok |-> TRUE]
      Done(r, y) == [ok |-> r.ok /\ r.rest = <<";">>, made |-> y]
      Bad  == [ok |-> FALSE, made |-> x]
      last == Len(x.geos)
  IN  CASE s[1] = "SIZE"   -> LET r == LexReal(Expect(LexReal(l), "BY")) IN Done(r, [x EXCEPT !.size = r.num])
        [] s[1] = "ORIGIN" -> LET r == LexXy(l) IN Done(r, [x EXCEPT !.origin = r.num])
        [] s[1] = "CLASS"  -> IF \E c \in {"NONE", "CORE", "BUMP"} : At(l, c)
                              THEN Done(Drop(l), [x EXCEPT !.class = l.rest[1]]) ELSE Bad
        [] s[1] = "LAYER"  -> Done(Drop(l), [x EXCEPT !.geos = Append(@, NewLayer(l.rest[1]))])
        [] s[1] = "WIDTH"  -> IF last = 0 THEN Bad ELSE LET r == LexReal(l) IN Done(r, [x EXCEPT !.geos[last].width = r.num[1]])
        [] s[1] = "RECT"   -> IF last = 0 THEN Bad ELSE LET r == LexXy(LexXy(l)) IN Done(r, [x EXCEPT !.geos[last].rects = Append(@, r.num)])
        [] OTHER           -> Bad  \* PATH, POLYGON and VIA are not implemented

\* The rules of each group, with the kind of what they begin: "" for a statement.
Rules ==
  [root  |-> "MACRO" :> "macro",
   macro |-> "SIZE" :> "" @@ "ORIGIN" :> "" @@ "PIN" :> "pin" @@ "OBS" :> "obs",
   pin   |-> "PORT" :> "port",
   port  |-> [w \in {"CLASS", "LAYER", "VIA", "WIDTH", "PATH", "RECT", "POLYGON"} |-> ""],
   obs   |-> <<>>,
   skip  |-> <<>>]
Here(r) == IF r.open = <<>> THEN "root" ELSE Last(r.open).kind

Error(r)    == [r EXCEPT !.open = <<>>, !.lef = <<>>, !.result = "error"]
Enter(r, g) == [r EXCEPT !.open = Append(@, g)]
Used(r)     == IF r.open = <<>> THEN r ELSE [r EXCEPT !.open[Len(r.open)].fresh = FALSE]
Keep(r, x)  == [r EXCEPT !.open[Len(r.open)].made = x]

\* skip: a statement, or a group of which only the end counts.
Skip(r, s) ==
  IF s = <<";">> THEN r
  ELSE IF s[1] \in {"PIN", "MACRO", "SITE"}
  THEN IF Len(s) < 2 \/ s[2] \in Symbol THEN Error(r)
       ELSE IF Len(s) > 2 /\ s[3] = ";" THEN r
       ELSE Enter(r, Group("skip", s[2], <<>>))
  ELSE IF s[1] = "PROPERTYDEFINITIONS" THEN Enter(r, Group("skip", s[1], <<>>))
  ELSE IF s[1] \in {"OBS", "PORT"} THEN Enter(r, Group("skip", "", <<>>))
  ELSE IF Last(s) = ";" /\ ~Contains(s, "END") THEN r
  ELSE Error(r)

\* parse_with_rules: the first rule for the word, or skip.
Statement(r, s) ==
  LET rules == Rules[Here(r)]
      u     == Used(r)
  IN  IF s[1] \notin DOMAIN rules THEN Skip(u, s)
      ELSE IF rules[s[1]] = "" THEN LET p == Parsed(Last(u.open).made, s) IN IF p.ok THEN Keep(u, p.made) ELSE Error(u)
      ELSE Enter(u, CASE rules[s[1]] = "macro" -> Group("macro", s[2], NewMacro(s[2]))
                      [] rules[s[1]] = "pin"   -> Group("pin", s[2], NewPin(s[2]))
                      [] rules[s[1]] = "port"  -> Group("port", "", NewPort)
                      [] rules[s[1]] = "obs"   -> Group("obs", "", <<>>))

\* Mutant of Hand: the port is dropped with its group.
HandPinsOnly(r, g) ==
  IF g.kind = "macro" THEN [r EXCEPT !.lef = Append(@, g.made)]
  ELSE IF g.kind = "pin" THEN Keep(r, [Last(r.open).made EXCEPT !.pins = Append(@, g.made)])
  ELSE r

\* end_macro, end_pin and end_port.
Hand(r, g) ==
  IF g.kind = "macro" THEN [r EXCEPT !.lef = Append(@, g.made)]
  ELSE IF g.kind = "pin" THEN Keep(r, [Last(r.open).made EXCEPT !.pins = Append(@, g.made)])
  ELSE IF g.kind = "port" THEN Keep(r, [Last(r.open).made EXCEPT !.ports = Append(@, g.made)])
  ELSE r

\* The end of a group in parse_with_rules and skip: a group with a name repeats it.
EndGroup(r, s) ==
  LET g == Last(r.open) IN
  IF g.name # "" /\ s # <<"END", g.name>> THEN Error(r) ELSE Hand([r EXCEPT !.open = Front(@)], g)

\* An obstruction without a statement leaves err unset: it may be an error.
Ends(r, s) ==
  LET g == Last(r.open) IN
  {EndGroup(r, s)} \cup (IF g.kind = "obs" /\ g.fresh THEN {Error(r)} ELSE {})

\* parse: END LIBRARY is the end of the file.
EndLibrary(r, s) == IF s = <<"END", "LIBRARY">> THEN [r EXCEPT !.result = "ok"] ELSE Error(r)

\* Where the reader may be behind the statement s.
After(r, s) ==
  IF s[1] # "END" THEN {Statement(r, s)}
  ELSE IF r.open = <<>> THEN {EndLibrary(r, s)}
  ELSE Ends(r, s)

-------------------------------------------------------------------------------
(* From the tree to the cells of the database: the size of a cell, and the       *)
(* shapes on the layers of its pins. What has the same name is the same.         *)

Corners(q) == <<<<q[1], q[2]>>, <<q[3], q[2]>>, <<q[3], q[4]>>, <<q[1], q[4]>>>>
At0(f, n, x) == IF n \in DOMAIN f THEN f[n] ELSE x
Put(f, n, x) == (n :> x) @@ f

LoadLayer(layers, g) == Put(layers, g.layer, At0(layers, g.layer, <<>>) \o [k \in DOMAIN g.rects |-> Corners(g.rects[k])])
LoadPort(layers, p)  == FoldLeft(LoadLayer, layers, p.geos)
LoadPin(pins, p)     == Put(pins, p.name, FoldLeft(LoadPort, At0(pins, p.name, <<>>), p.ports))
LoadMacro(cells, m)  ==
  LET old == At0(cells, m.name, [size |-> <<0, 0>>, pins |-> <<>>]) IN
  Put(cells, m.name, [size |-> m.size, pins |-> FoldLeft(LoadPin, old.pins, m.pins)])
LoadLef(macros)      == FoldLeft(LoadMacro, <<>>, macros)

-------------------------------------------------------------------------------
(* From the cells to a file.                                                     *)

\* Mutant of IsRect: the first edge is taken to be vertical.
IsRectUpright(pts) ==
  /\ Len(pts) = 4
  /\ LET P(k) == pts[(k % 4) + 1] IN
     P(0)[1] = P(1)[1] /\ P(1)[2] = P(2)[2] /\ P(2)[1] = P(3)[1] /\ P(3)[2] = P(4)[2]

\* make_lef_geo: i is the corner that a vertical edge leaves.
IsRect(pts) ==
  /\ Len(pts) = 4
  /\ LET i == IF pts[1][1] # pts[2][1] THEN 1 ELSE 0
         P(k) == pts[((i + k) % 4) + 1]
     IN  P(0)[1] = P(1)[1] /\ P(1)[2] = P(2)[2] /\ P(2)[1] = P(3)[1] /\ P(3)[2] = P(4)[2]

Word(x)  == CHOOSE w \in DOMAIN Number : Number[w] = x
Xy(p)    == <<"(", Word(p[1]), Word(p[2]), ")">>
WriteShape(pts) ==
  (IF IsRect(pts) THEN <<"RECT">> \o Xy(pts[1]) \o Xy(pts[3])
   ELSE <<"POLYGON">> \o FlattenSeq([k \in DOMAIN pts |-> Xy(pts[k])])) \o <<";">>
Each(f, W(_)) == LET n == SetToSeq(DOMAIN f) IN FlattenSeq([k \in DOMAIN n |-> W(n[k])])

\* write_geos, write_port, write_pin, write_macro and write, of the macros that
\* phx_make_lef_macro_from_cell makes.
WriteGeos(layers) == Each(layers, LAMBDA n : <<<<"LAYER", n, ";">>>> \o [k \in DOMAIN layers[n] |-> WriteShape(layers[n][k])])
WritePins(pins)   == Each(pins, LAMBDA n : <<<<"PIN", n>>, <<"PORT">>>> \o WriteGeos(pins[n]) \o <<<<"END">>, <<"END", n>>>>)
WriteMacro(n, c)  ==
  <<<<"MACRO", n>>>>
  \o (IF c.size = <<0, 0>> THEN <<>> ELSE <<<<"SIZE", Word(c.size[1]), "BY", Word(c.size[2]), ";">>>>)
  \o WritePins(c.pins) \o <<<<"END", n>>>>
WriteLef(cells)   == Each(cells, LAMBDA n : WriteMacro(n, cells[n])) \o <<<<"END", "LIBRARY", ";">>>>

-------------------------------------------------------------------------------
Become(r) == open' = r.open /\ lef' = r.lef /\ result' = r.result

Init ==
  \E p \in Prelude :
    LET r == FoldLeft(Statement, Start, p) IN
    open = r.open /\ lef = r.lef /\ result = r.result /\ file = p /\ left = MaxStmts

\* parse and lef_read: at an error the tree is freed and the rest is not read.
Read(s, n) ==
  /\ result = "reading"
  /\ \E r \in After(Reader, s) :
       /\ Become(r)
       /\ file' = IF r.result = "error" THEN <<>> ELSE Append(file, s)
       /\ left' = IF r.result = "error" THEN 0 ELSE n

\* The words after END that the reader takes for the end of a group, or others.
EndWords == {<<"END">>, <<"END", "LIBRARY">>, <<"END", "LIBRARY", ";">>} \cup {<<"END", n>> : n \in Names}
EndsHere(s) == IF open # <<>> /\ Last(open).name = "" THEN s = <<"END">> ELSE Len(s) > 1

\* The file ends wherever the reader is. To report where, lef_read walks back from
\* the last word, which a file of blanks and comments does not have.
EndOfFile ==
  /\ result = "reading"
  /\ \E end \in {"error"} \cup (IF file = <<>> THEN {"crashed"} ELSE {}) :
       Become([Error(Reader) EXCEPT !.result = end])
  /\ file' = <<>> /\ left' = 0

Next ==
  \/ \E s \in Statements[Here(Reader)] : left > 0 /\ Read(s, left - 1)
  \/ \E s \in EndWords : EndsHere(s) /\ Read(s, left)
  \/ EndOfFile

Spec == Init /\ [][Next]_vars

-------------------------------------------------------------------------------
(* Properties. What a file f says is told from the nesting of its statements.    *)

\* Does statement s begin a group? A SITE or a PIN may be a statement.
Begins(s) ==
  \/ s[1] \in {"MACRO", "PIN", "SITE"} /\ Last(s) # ";"
  \/ s[1] \in {"PORT", "OBS", "PROPERTYDEFINITIONS"}
Begun(f, i, j) == Cardinality({k \in i .. j : Begins(f[k])})
Ended(f, i, j) == Cardinality({k \in i .. j : f[k][1] = "END"})

\* The groups around statement k: those begun and not ended before it.
Around(f, k) ==
  SetToSortSeq({g \in 1 .. k - 1 : Begins(f[g]) /\ \A j \in g .. k - 1 : Begun(f, g, j) > Ended(f, g, j)}, <)
Within(f, k) == [d \in DOMAIN Around(f, k) |-> f[Around(f, k)[d]][1]]
MacroPin(f, k) == <<f[Around(f, k)[1]][2], f[Around(f, k)[2]][2]>>

Select(f, C(_)) == SetToSortSeq({k \in DOMAIN f : C(k)}, <)
PinPort         == <<"MACRO", "PIN", "PORT">>
Float(w)        == IF w \in DOMAIN Number THEN Number[w] ELSE 0

\* The layer of a shape is the one named last in its port.
LayerOf(f, k) ==
  f[CHOOSE j \in 1 .. k : /\ f[j][1] = "LAYER" /\ Around(f, j) = Around(f, k)
                          /\ \A i \in j + 1 .. k : ~(f[i][1] = "LAYER" /\ Around(f, i) = Around(f, k))][2]

\* Every group with a name ends with that name.
NamesMatch(f) ==
  \A g \in DOMAIN f : Begins(f[g]) /\ Len(f[g]) > 1 =>
    LET e == CHOOSE j \in g .. Len(f) : Begun(f, g, j) = Ended(f, g, j) /\ \A i \in g .. j - 1 : Begun(f, g, i) > Ended(f, g, i)
    IN  f[e] = <<"END", f[g][2]>>

\* The size that the group begun by statement g is given.
SizeOf(f, g) ==
  LET z == Select(f, LAMBDA j : j > g /\ f[j][1] = "SIZE" /\ Around(f, j) = <<g>>) IN
  IF z = <<>> THEN <<0, 0>> ELSE <<Float(f[Last(z)][2]), Float(f[Last(z)][4])>>
Macros(f) == Select(f, LAMBDA k : f[k][1] = "MACRO" /\ Within(f, k) = <<>> /\ Begins(f[k]))
Pins(f)   == Select(f, LAMBDA k : f[k][1] = "PIN" /\ Within(f, k) = <<"MACRO">> /\ Begins(f[k]))

\* The tree that lef_read returns is what the file says, in its order: each RECT
\* in a PORT of a PIN of a MACRO is in the tree with the layer named last in that
\* port, those anywhere else (in an obstruction, a group passed over, a pin within
\* one) are not, and so for the pins and the sizes of macros; and a file is read to
\* its end only if the names of its groups match.
TreeIsFile ==
  result = "ok" =>
    LET rects  == Select(file, LAMBDA k : file[k][1] = "RECT" /\ Within(file, k) = PinPort)
        pins   == Pins(file)
        macros == Macros(file)
        Flat(T(_), q) == FlattenSeq([k \in DOMAIN q |-> T(q[k])])
        OfGeo(g) == [k \in DOMAIN g.rects |-> <<g.layer, g.rects[k]>>]
        OfPin(p) == Flat(LAMBDA t : Flat(OfGeo, t.geos), p.ports)
    IN  /\ NamesMatch(file)
        /\ Flat(LAMBDA m : Flat(OfPin, m.pins), lef)
             = [i \in DOMAIN rects |-> <<LayerOf(file, rects[i]), [n \in 1 .. 4 |-> Float(file[rects[i]][n + 1])]>>]
        /\ Flat(LAMBDA m : [i \in DOMAIN m.pins |-> <<m.name, m.pins[i].name>>], lef)
             = [i \in DOMAIN pins |-> <<file[Around(file, pins[i])[1]][2], file[pins[i]][2]>>]
        /\ [i \in DOMAIN lef |-> lef[i].name] = [i \in DOMAIN macros |-> file[macros[i]][2]]
        /\ \A i \in DOMAIN lef : lef[i].size = SizeOf(file, macros[i])

\* A written shape as the language means it: a rectangle by two corners, a polygon
\* by its points, in parentheses.
Meant(s) ==
  LET q == LET w == SelectSeq(Tail(s), LAMBDA x : x \notin Symbol) IN [i \in DOMAIN w |-> Float(w[i])] IN
  IF s[1] = "RECT" THEN Corners(q) ELSE [i \in 1 .. Len(q) \div 2 |-> <<q[2 * i - 1], q[2 * i]>>]
Thin(pts) == pts[1][1] = pts[3][1] /\ pts[1][2] # pts[3][2]

\* What is written for the cells that a file was loaded into (lef-write.c) says
\* what the cells are, told from the nesting of the text, not from the reader: its
\* macros, their sizes and pins, and on each layer of a pin the same points in the
\* same order; every rectangle is written as such but for one of no width and some
\* height, which is a polygon (fmt-lef.c:35-45).
WrittenSaysCells ==
  result = "ok" =>
    LET cells  == LoadLef(lef)
        text   == WriteLef(cells)
        macros == Macros(text)
        pins   == Pins(text)
        layers == Select(text, LAMBDA k : text[k][1] = "LAYER")
        shapes == Select(text, LAMBDA k : text[k][1] \in {"RECT", "POLYGON"})
        Spot(k) == MacroPin(text, k) \o <<LayerOf(text, k)>>
        On(a)   == SelectSeq(shapes, LAMBDA k : Spot(k) = a)
        Held    == UNION {UNION {{<<m, p, n>> : n \in DOMAIN cells[m].pins[p]} : p \in DOMAIN cells[m].pins} : m \in DOMAIN cells}
    IN  /\ NamesMatch(Front(text)) /\ Last(text) = <<"END", "LIBRARY", ";">>
        /\ {<<text[k][2], SizeOf(text, k)>> : k \in ToSet(macros)} = {<<m, cells[m].size>> : m \in DOMAIN cells}
        /\ {<<text[Around(text, k)[1]][2], text[k][2]>> : k \in ToSet(pins)}
             = UNION {{<<m, p>> : p \in DOMAIN cells[m].pins} : m \in DOMAIN cells}
        /\ \A k \in ToSet(layers \o shapes) : Within(text, k) = PinPort
        /\ {Spot(k) : k \in ToSet(layers)} = Held
        /\ \A a \in Held : [i \in DOMAIN On(a) |-> Meant(text[On(a)[i]])] = cells[a[1]].pins[a[2]][a[3]]
        /\ \A k \in ToSet(shapes) : text[k][1] = "POLYGON" <=> Thin(Meant(text[k]))

\* "Parses a coordinate pair enclosed in optional parentheses." (lex_xy,
\* lef.c:619-621): each rectangle that is written for the cells of a file, with its
\* pairs in parentheses, is taken by the rule for it in a port with a layer.
ShapesReadBack ==
  result = "ok" =>
    LET text == WriteLef(LoadLef(lef)) IN
    \A k \in DOMAIN text : text[k][1] = "RECT" =>
      Parsed([NewPort EXCEPT !.geos = <<NewLayer("")>>], text[k]).ok
===============================================================================
