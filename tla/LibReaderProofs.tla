--------------------------- MODULE LibReaderProofs ---------------------------
(* Proofs about LibReader: for files of any length, nested to any depth, the      *)
(* library that is returned is what the braces of the file say.                   *)
EXTENDS LibReader, Foundations, SequenceTheorems

Call == [kind : Kind, handler : Handler, cell : Ident \cup {None}]
Head0 == [word : Ident, args : Seq(Ident)]

-------------------------------------------------------------------------------
(* What the braces say of the place where the parser is: p is the heads of the    *)
(* groups around it, outermost first.                                             *)

Inner(p) == SubSeq(p, 1, Len(p) - 1)

\* The handler for the statements of this place, and the cell it is for.
HandlerOf(p) ==
  IF p = <<>> THEN "root"
  ELSE IF p[1].word # "library" THEN None
  ELSE IF Len(p) = 1 THEN "library"
  ELSE IF p[2].word # "cell" THEN None
  ELSE IF Len(p) = 2 THEN "cell"
  ELSE IF Len(p) = 3 /\ p[3].word = "pin" THEN "pin"
  ELSE None
CellOf(p) == IF HandlerOf(p) \in {"cell", "pin"} THEN p[2].args[1] ELSE None

\* What the tree f becomes with a group at this place that has head h.
Grown(f, p, h) ==
  IF HandlerOf(p) = "root" /\ h.word = "library" THEN Empty
  ELSE IF HandlerOf(p) = "library" /\ h.word = "cell" /\ Len(h.args) = 1
  THEN [f EXCEPT !.cells = @ \cup {h.args[1]}]
  ELSE IF HandlerOf(p) = "cell" /\ h.word = "pin" /\ Len(h.args) = 1
  THEN [f EXCEPT !.pins = @ \cup {<<p[2].args[1], h.args[1]>>}]
  ELSE f

-------------------------------------------------------------------------------
(* The invariant. While nothing went wrong, s[k] is the place of the file where   *)
(* call number k was made, and the last one is where the parser is.               *)

Live == ~stuck /\ ~lenient /\ pc \notin {"error", "crashed"}

Types ==
  /\ tkn \in Token /\ params \in Seq(Ident) /\ words \in Seq(Ident)
  /\ pc \in {"name", "params", "comma", "kind", "GRP"} => name \in Ident
  /\ lib \in Library \cup {None}
  /\ calls \in Seq(Call)

Tree == IF lib = None THEN Empty ELSE lib

\* A handler is called with a library and, inside a cell, with the name of one.
Served(p) ==
  /\ HandlerOf(p) \in {"cell", "pin"} => Len(p[2].args) = 1
  /\ HandlerOf(p) \in {"library", "cell", "pin"} => lib # None

Levels(s) ==
  /\ s \in [1 .. Len(calls) + 1 -> Seq(Head0)] /\ s[1] = <<>>
  /\ \A k \in 1 .. Len(calls) + 1 : Served(s[k])
  /\ \A k \in 1 .. Len(calls) :
       /\ calls[k].handler = HandlerOf(s[k]) /\ calls[k].cell = CellOf(s[k])
       /\ \/ calls[k].kind = "GRP" /\ s[k + 1] # <<>> /\ s[k] = Inner(s[k + 1])
          \/ calls[k].kind = "CATTR" /\ s[k] # <<>> /\ s[k + 1] = s[k]
  /\ handler = HandlerOf(s[Len(calls) + 1]) /\ cell = CellOf(s[Len(calls) + 1])

\* The lexer is one token ahead: t is the first one of a statement at place p, or
\* what follows the last.
Before(p) ==
  /\ tkn \in Ident => words = <<tkn>> /\ path = p
  /\ tkn = "EOF" => path = p
  /\ tkn = "}" => IF p = <<>> THEN path = p ELSE words = <<>> /\ path = Inner(p)

Stmt == [word |-> name, args |-> params]
At(p) == path = p /\ file = Tree

\* How far the statement at place p has been read.
Place(p) ==
  /\ pc \in {"stmts", "CATTR"} => Before(p) /\ file = Tree
  /\ pc = "name" /\ tkn \in {":", "("} => At(p) /\ words = <<name>>
  /\ pc = "SATTR" /\ tkn \in Ident => At(p)
  /\ pc \in {"params", "comma"} /\ tkn \in Ident =>
       At(p) /\ words = <<name>> \o Append(params, tkn) /\ Len(params) < MaxParams
  /\ pc = "params" /\ tkn = ")" => At(p) /\ words = <<name>> \o params
  /\ pc = "comma" /\ tkn \in {",", ")"} => At(p) /\ words = <<name>> \o params
  /\ pc = "kind" /\ tkn = "{" => path = Append(p, Stmt) /\ words = <<>> /\ file = Grown(Tree, p, Stmt)
  /\ pc = "kind" /\ tkn = ";" => At(p) /\ words = <<>>
  /\ pc = "GRP" => Before(Append(p, Stmt)) /\ file = Grown(Tree, p, Stmt)
  /\ pc = "semicolon" /\ tkn = ";" => At(p) /\ words = <<>>
  /\ pc = "close" /\ tkn = "}" => At(p) /\ words = <<>>
  /\ pc = "ok" => At(<<>>)

Here(s) == s[Len(calls) + 1]
IInv == Live => Types /\ \E s : Levels(s) /\ Place(Here(s))

-------------------------------------------------------------------------------
(* The lexer.                                                                     *)

LEMMA Tokens ==
  /\ Ident \cap Symbol = {} /\ "EOF" \notin Ident \cup Symbol
  /\ Name \cap Word = {} /\ None \notin Ident \cup Word \cup {"root"}
BY NameAssumption, NoneAssumption DEF Ident, Symbol, Word

\* The lexer finds a token, which is recorded, or the parser stops.
LEMMA Lexed ==
  ASSUME NEW I \in {Word, Name}, Advance(I), ~stuck', tkn # "EOF"
  PROVE  /\ tkn' \in Token /\ History(tkn')
         /\ tkn' \in Ident => tkn' \in I
         /\ I = Name /\ tkn' \in Ident => Len(params') < MaxParams
<1>1. ~stuck
  BY DEF Advance, lexer
<1>2. CASE /\ I = Name => Len(params') < MaxParams
           /\ \E t \in I : tkn' = t /\ History(t)
  BY <1>2 DEF Token, Ident
<1>3. CASE \E t \in Symbol : tkn' = t /\ History(t)
  BY <1>3, Tokens DEF Token
<1>4. CASE tkn' = "EOF" /\ UNCHANGED history
  BY <1>4, Tokens DEF Token, History, history
<1> QED BY <1>1, <1>2, <1>3, <1>4 DEF Advance

LEMMA Unlexed == UNCHANGED lexer => tkn' = tkn /\ stuck' = stuck
BY DEF lexer

LEMMA WordsTyped ==
  ASSUME words \in Seq(Ident), NEW t, History(t)
  PROVE  words' \in Seq(Ident)
<1>1. words' = <<>> \/ words' = words \/ (t \in Ident /\ words' = Append(words, t))
  BY DEF History
<1>2. t \in Ident => Append(words, t) \in Seq(Ident)
  BY AppendProperties
<1>3. <<>> \in Seq(Ident)
  BY EmptySeq
<1> QED BY <1>1, <1>2, <1>3, Zenon

\* Behind a brace or a semicolon, and behind nothing, the next token begins a
\* statement or is not one.
LEMMA NextStatement ==
  ASSUME NEW p, path = p, words = <<>>, History(tkn'), tkn' \in Token
  PROVE  Before(p)' /\ UNCHANGED file
<1>1. CASE tkn' \in Ident
  <2>1. tkn' \notin Symbol
    BY <1>1, Tokens
  <2>a. Len(words) <= MaxParams
    BY MaxParamsAssumption
  <2>2. words' = Append(words, tkn') /\ UNCHANGED <<path, file>>
    BY <1>1, <2>1, <2>a DEF History, Symbol
  <2>3. words' = <<tkn'>>
    BY <2>2
  <2>4. tkn' # "EOF" /\ tkn' # "}"
    BY <1>1, <2>1, Tokens DEF Symbol
  <2> QED BY <2>2, <2>3, <2>4 DEF Before
<1>2. CASE tkn' \notin Ident
  BY <1>2 DEF Before, History, Inner
<1> QED BY <1>1, <1>2

\* Inside a statement, an identifier is one more word.
LEMMA NextWord ==
  ASSUME words \in Seq(Ident), Len(words) <= MaxParams, tkn' \in Ident, History(tkn')
  PROVE  words' = Append(words, tkn') /\ UNCHANGED <<path, file>>
<1>1. tkn' \notin Symbol
  BY Tokens
<1> QED BY <1>1 DEF History, Symbol

\* Punctuation changes nothing.
LEMMA NextMark ==
  ASSUME tkn' \in {"(", ")", ":", ","}, History(tkn')
  PROVE  UNCHANGED history
<1>1. tkn' \notin Ident
  BY Tokens DEF Symbol
<1> QED BY <1>1 DEF History, history

-------------------------------------------------------------------------------
(* Statements.                                                                    *)

\* The words of a statement with this name and these parameters.
LEMMA Spelled ==
  ASSUME NEW n \in Ident, NEW ps \in Seq(Ident)
  PROVE  /\ <<n>> \o ps \in Seq(Ident) /\ <<n>> \o ps # <<>>
         /\ Len(<<n>> \o ps) = Len(ps) + 1
         /\ (<<n>> \o ps)[1] = n /\ Tail(<<n>> \o ps) = ps
         /\ \A t \in Ident : Append(<<n>> \o ps, t) = <<n>> \o Append(ps, t)
<1> DEFINE w == <<n>> \o ps
<1>1. <<n>> \in Seq(Ident) /\ Len(<<n>>) = 1 /\ <<n>>[1] = n
  OBVIOUS
<1>2. Len(ps) \in Nat
  OBVIOUS
<1>3. /\ w \in Seq(Ident) /\ Len(w) = 1 + Len(ps)
      /\ \A i \in 1 .. 1 + Len(ps) : w[i] = IF i <= 1 THEN <<n>>[i] ELSE ps[i - 1]
  BY <1>1, ConcatProperties
<1>4. w # <<>> /\ Len(w) = Len(ps) + 1
  BY <1>2, <1>3
<1>5. w[1] = n
  BY <1>1, <1>2, <1>3
<1>6. Tail(w) = ps
  <2>1. /\ Tail(w) \in Seq(Ident) /\ Len(Tail(w)) = Len(w) - 1
        /\ \A i \in 1 .. Len(Tail(w)) : Tail(w)[i] = w[i + 1]
    BY <1>3, <1>4, HeadTailProperties
  <2>2. Len(Tail(w)) = Len(ps)
    BY <1>2, <1>4, <2>1
  <2>3. \A i \in 1 .. Len(ps) : w[i + 1] = ps[i]
    BY <1>2, <1>3
  <2> HIDE DEF w
  <2> QED BY <2>1, <2>2, <2>3, SeqEqual
<1>7. ASSUME NEW t \in Ident PROVE Append(w, t) = <<n>> \o Append(ps, t)
  <2>1. Append(w, t) = w \o <<t>> /\ Append(ps, t) = ps \o <<t>> /\ <<t>> \in Seq(Ident)
    BY <1>3, AppendIsConcat
  <2>2. (<<n>> \o ps) \o <<t>> = <<n>> \o (ps \o <<t>>)
    BY <1>1, <2>1, ConcatAssociative
  <2> QED BY <2>1, <2>2
<1> HIDE DEF w
<1>8. w = <<n>> \o ps
  BY DEF w
<1> QED BY <1>3, <1>4, <1>5, <1>6, <1>7, <1>8, Zenon

\* What is read without a group: the places stay as they are.
Fit(s) == Types /\ Levels(s) /\ Place(Here(s))

LEMMA LevelsKept ==
  ASSUME NEW s, Levels(s), UNCHANGED <<handler, cell, calls, lib>>
  PROVE  Levels(s)' /\ Here(s)' = Here(s) /\ Tree' = Tree
BY DEF Levels, Here, Tree, Served

\* To be shown of an action that leaves the calls alone.
LEMMA FitKept ==
  ASSUME NEW s, Fit(s), NEW p, p = Here(s), UNCHANGED <<handler, cell, calls, lib>>,
         Place(p)', tkn' \in Token, params' \in Seq(Ident), words' \in Seq(Ident),
         pc' \in {"name", "params", "comma", "kind", "GRP"} => name' \in Ident
  PROVE  Fit(s)'
<1>1. Levels(s)' /\ Here(s)' = p
  BY LevelsKept DEF Fit
<1>2. Place(Here(s))'
  BY <1>1
<1>3. Types'
  BY DEF Fit, Types
<1> QED BY <1>1, <1>2, <1>3 DEF Fit

LEMMA BeginStmtFits ==
  ASSUME NEW s, Fit(s), Live, Live', BeginStmt
  PROVE  Fit(s)'
<1>1. PICK p : p = Here(s)
  OBVIOUS
<1>2. /\ pc = "stmts" /\ tkn \in Ident /\ name' = tkn /\ pc' = "name" /\ Advance(Word)
      /\ UNCHANGED <<params, handler, cell, calls, lib>>
  BY DEF BeginStmt, Goto
<1>3. words = <<tkn>> /\ path = p /\ file = Tree
  BY <1>1, <1>2 DEF Fit, Place, Before
<1>4. tkn' \in Token /\ History(tkn')
  BY <1>2, Lexed, Tokens DEF Live
<1>5. words' \in Seq(Ident)
  BY <1>4, WordsTyped DEF Fit, Types
<1>6. Tree' = Tree
  BY <1>2 DEF Tree
<1>7. Place(p)'
  <2>1. ASSUME tkn' \in {":", "("} PROVE At(p)' /\ words' = <<name'>>
    <3>1. UNCHANGED history
      BY <1>4, <2>1, NextMark
    <3> QED BY <1>2, <1>3, <1>6, <3>1 DEF history, At
  <2> QED BY <1>2, <2>1 DEF Place
<1> QED BY <1>1, <1>2, <1>4, <1>5, <1>7, FitKept DEF Fit, Types

LEMMA AfterNameFits ==
  ASSUME NEW s, Fit(s), Live, Live', AfterName
  PROVE  Fit(s)'
<1>1. PICK p : p = Here(s)
  OBVIOUS
<1>2. /\ pc = "name" /\ tkn \in {":", "("} /\ name \in Ident /\ name' = name
      /\ UNCHANGED <<handler, cell, calls, lib>>
  BY DEF AfterName, Fit, Types
<1>3. At(p) /\ words = <<name>> /\ tkn # "EOF"
  BY <1>1, <1>2 DEF Fit, Place
<1>4. Tree' = Tree
  BY <1>2 DEF Tree
<1>5. CASE tkn = "("
  <2>1. params' = <<>> /\ pc' = "params" /\ Advance(Name)
    BY <1>5 DEF AfterName, Goto
  <2>2. tkn' \in Token /\ History(tkn') /\ (tkn' \in Ident => Len(params') < MaxParams)
    BY <1>3, <2>1, Lexed DEF Live
  <2>3. words' \in Seq(Ident)
    BY <2>2, WordsTyped DEF Fit, Types
  <2>4. ASSUME tkn' \in Ident
        PROVE  At(p)' /\ words' = <<name'>> \o Append(params', tkn') /\ Len(params') < MaxParams
    <3>1. <<>> \in Seq(Ident) /\ Len(words) = 1 /\ words \in Seq(Ident) /\ <<name>> \o <<>> = <<name>>
      BY <1>2, <1>3, EmptySeq, ConcatEmptySeq
    <3>2. words' = Append(words, tkn') /\ UNCHANGED <<path, file>>
      BY <2>2, <2>4, <3>1, NextWord, MaxParamsAssumption
    <3>3. words' = <<name>> \o Append(<<>>, tkn')
      BY <1>2, <1>3, <2>4, <3>1, <3>2, Spelled
    <3> QED BY <1>2, <1>3, <1>4, <2>1, <2>2, <2>4, <3>2, <3>3 DEF At
  <2>5. ASSUME tkn' = ")" PROVE At(p)' /\ words' = <<name'>> \o params'
    <3>1. UNCHANGED history
      BY <2>2, <2>5, NextMark
    <3>2. <<name>> \o <<>> = <<name>>
      BY <1>2, ConcatEmptySeq
    <3> QED BY <1>2, <1>3, <1>4, <2>1, <3>1, <3>2 DEF At, history
  <2>6. Place(p)'
    BY <2>1, <2>4, <2>5 DEF Place
  <2>7. params' \in Seq(Ident)
    BY <2>1, EmptySeq
  <2> QED BY <1>1, <1>2, <2>2, <2>3, <2>6, <2>7, FitKept
<1>6. CASE tkn # "("
  <2>1. params' = params /\ pc' = "SATTR" /\ Advance(Word)
    BY <1>6 DEF AfterName, Goto
  <2>2. tkn' \in Token /\ History(tkn')
    BY <1>3, <2>1, Lexed DEF Live
  <2>3. words' \in Seq(Ident)
    BY <2>2, WordsTyped DEF Fit, Types
  <2>4. ASSUME tkn' \in Ident PROVE At(p)'
    <3>1. Len(words) <= MaxParams /\ words \in Seq(Ident)
      BY <1>2, <1>3, MaxParamsAssumption
    <3>2. UNCHANGED <<path, file>>
      BY <2>2, <2>4, <3>1, NextWord
    <3> QED BY <1>3, <1>4, <3>2 DEF At
  <2>5. Place(p)'
    BY <2>1, <2>4 DEF Place
  <2> QED BY <1>1, <1>2, <2>1, <2>2, <2>3, <2>5, FitKept DEF Fit, Types
<1> QED BY <1>5, <1>6

\* The tokens that may come behind a parameter, or behind the parenthesis.
LEMMA NextParam ==
  ASSUME NEW s, Fit(s), NEW p, Tree' = Tree, Live, Live', tkn # "EOF", Advance(Name),
         At(p), name \in Ident, name' = name, params' \in Seq(Ident), words = <<name>> \o params'
  PROVE  /\ tkn' \in Token /\ words' \in Seq(Ident)
         /\ tkn' \in Ident =>
              (At(p) /\ words = <<name>> \o Append(params, tkn) /\ Len(params) < MaxParams)'
         /\ tkn' \in {",", ")"} => (At(p) /\ words = <<name>> \o params)'
<1>1. tkn' \in Token /\ History(tkn') /\ (tkn' \in Ident => Len(params') < MaxParams)
  BY Lexed DEF Live
<1>2. words' \in Seq(Ident)
  BY <1>1, WordsTyped DEF Fit, Types
<1>3. ASSUME tkn' \in Ident
      PROVE  (At(p) /\ words = <<name>> \o Append(params, tkn) /\ Len(params) < MaxParams)'
  <2>1. Len(words) = Len(params') + 1 /\ words \in Seq(Ident) /\ Len(params') \in Nat
    BY Spelled
  <2>2. words' = Append(words, tkn') /\ UNCHANGED <<path, file>>
    BY <1>1, <1>3, <2>1, NextWord, MaxParamsAssumption
  <2>3. words' = <<name>> \o Append(params', tkn')
    BY <1>3, <2>2, Spelled
  <2> QED BY <1>1, <1>3, <2>2, <2>3 DEF At
<1>4. ASSUME tkn' \in {",", ")"} PROVE (At(p) /\ words = <<name>> \o params)'
  <2>1. UNCHANGED history
    BY <1>1, <1>4, NextMark
  <2> QED BY <2>1 DEF At, history
<1> QED BY <1>1, <1>2, <1>3, <1>4

LEMMA ParamFits ==
  ASSUME NEW s, Fit(s), Live, Live', Param
  PROVE  Fit(s)'
<1>1. PICK p : p = Here(s)
  OBVIOUS
<1>2. /\ pc = "params" /\ tkn \in Ident /\ name \in Ident /\ name' = name /\ pc' = "comma"
      /\ Advance(Name) /\ UNCHANGED <<handler, cell, calls, lib>>
  BY DEF Param, Goto, Fit, Types
<1>3. At(p) /\ words = <<name>> \o Append(params, tkn) /\ Len(params) < MaxParams
  BY <1>1, <1>2 DEF Fit, Place
<1>4. params' = Append(params, tkn) /\ params' \in Seq(Ident)
  BY <1>2, <1>3, AppendProperties DEF Param, Fit, Types
<1>5. tkn # "EOF" /\ Tree' = Tree
  BY <1>2, Tokens DEF Tree
<1>6. /\ tkn' \in Token /\ words' \in Seq(Ident)
      /\ tkn' \in Ident =>
           (At(p) /\ words = <<name>> \o Append(params, tkn) /\ Len(params) < MaxParams)'
      /\ tkn' \in {",", ")"} => (At(p) /\ words = <<name>> \o params)'
  BY <1>2, <1>3, <1>4, <1>5, NextParam
<1>7. Place(p)'
  BY <1>2, <1>6 DEF Place
<1> QED BY <1>1, <1>2, <1>4, <1>6, <1>7, FitKept

LEMMA CommaFits ==
  ASSUME NEW s, Fit(s), Live, Live', Comma
  PROVE  Fit(s)'
<1>1. PICK p : p = Here(s)
  OBVIOUS
<1>2. /\ pc = "comma" /\ name \in Ident /\ name' = name /\ params' = params /\ pc' = "params"
      /\ UNCHANGED <<handler, cell, calls, lib>>
  BY DEF Comma, Goto, Fit, Types
<1>3. Tree' = Tree /\ params' \in Seq(Ident)
  BY <1>2 DEF Tree, Fit, Types
<1>4. CASE tkn = ","
  <2>1. At(p) /\ words = <<name>> \o params /\ Advance(Name) /\ tkn # "EOF"
    BY <1>1, <1>2, <1>4 DEF Fit, Place, Comma
  <2>2. /\ tkn' \in Token /\ words' \in Seq(Ident)
        /\ tkn' \in Ident =>
             (At(p) /\ words = <<name>> \o Append(params, tkn) /\ Len(params) < MaxParams)'
        /\ tkn' \in {",", ")"} => (At(p) /\ words = <<name>> \o params)'
    BY <1>2, <1>3, <2>1, NextParam
  <2>3. Place(p)'
    BY <1>2, <2>2 DEF Place
  <2> QED BY <1>1, <1>2, <1>3, <2>2, <2>3, FitKept
<1>5. CASE tkn # ","
  <2>1. UNCHANGED <<tkn, path, words, file>>
    BY <1>5 DEF Comma, lexer, history
  <2>2. /\ tkn \in Ident =>
             At(p) /\ words = <<name>> \o Append(params, tkn) /\ Len(params) < MaxParams
        /\ tkn = ")" => At(p) /\ words = <<name>> \o params
    BY <1>1, <1>2 DEF Fit, Place
  <2>3. /\ tkn' \in Ident =>
             (At(p) /\ words = <<name>> \o Append(params, tkn) /\ Len(params) < MaxParams)'
        /\ tkn' = ")" => (At(p) /\ words = <<name>> \o params)'
    BY <1>2, <1>3, <2>1, <2>2 DEF At
  <2>4. Place(p)'
    BY <1>2, <2>3 DEF Place
  <2> QED BY <1>1, <1>2, <1>3, <2>1, <2>4, FitKept DEF Fit, Types
<1> QED BY <1>4, <1>5

\* Where a group may begin, the tree is told what its head says.
LEMMA WithGroupIsGrown ==
  ASSUME NEW s, Levels(s), NEW p, p = Here(s), At(p), NEW h \in Head0
  PROVE  WithGroup(h) = Grown(Tree, p, h)
<1>1. p \in Seq(Head0) /\ Served(p)
  BY DEF Levels, Here
<1>2. PICK n \in Nat : n = Len(p)
  BY <1>1
<1>3. p = <<>> <=> n = 0
  BY <1>1, <1>2
<1>4. path = p /\ file = Tree /\ n = Len(path)
  BY <1>2 DEF At
<1>5. None \notin {"root", "library", "cell", "pin"}
  BY Tokens DEF Word
<1>6. Opens(h, "cell", <<"library">>) <=> HandlerOf(p) = "library" /\ h.word = "cell" /\ Len(h.args) = 1
  <2>1. Opens(h, "cell", <<"library">>) <=> h.word = "cell" /\ Len(h.args) = 1 /\ n = 1 /\ p[1].word = "library"
    BY <1>4 DEF Opens
  <2> QED BY <1>2, <1>3, <1>5, <2>1 DEF HandlerOf
<1>7. Opens(h, "pin", <<"library", "cell">>) /\ Len(p[2].args) = 1 <=>
        HandlerOf(p) = "cell" /\ h.word = "pin" /\ Len(h.args) = 1
  <2>1. Opens(h, "pin", <<"library", "cell">>) <=>
          h.word = "pin" /\ Len(h.args) = 1 /\ n = 2 /\ p[1].word = "library" /\ p[2].word = "cell"
    BY <1>4 DEF Opens
  <2>2. n = 2 /\ p[1].word = "library" /\ p[2].word = "cell" <=> HandlerOf(p) = "cell"
    BY <1>2, <1>3, <1>5 DEF HandlerOf
  <2> QED BY <1>1, <2>1, <2>2 DEF Served
<1>8. path = <<>> <=> HandlerOf(p) = "root"
  BY <1>4, <1>5 DEF HandlerOf
<1> QED BY <1>4, <1>6, <1>7, <1>8 DEF WithGroup, Grown

LEMMA EndParamsFits ==
  ASSUME NEW s, Fit(s), Live, Live', EndParams
  PROVE  Fit(s)'
<1>1. PICK p : p = Here(s)
  OBVIOUS
<1>2. /\ pc = "params" /\ tkn = ")" /\ name \in Ident /\ name' = name /\ params' = params
      /\ pc' = "kind" /\ Advance(Word) /\ UNCHANGED <<handler, cell, calls, lib>>
  BY DEF EndParams, Goto, Fit, Types
<1>3. At(p) /\ words = <<name>> \o params /\ params \in Seq(Ident)
  BY <1>1, <1>2 DEF Fit, Place, Types
<1>4. Tree' = Tree /\ Stmt' = Stmt /\ Stmt \in Head0
  BY <1>2, <1>3 DEF Tree, Stmt, Head0
<1>5. tkn' \in Token /\ History(tkn')
  BY <1>2, Lexed DEF Live
<1>6. words' \in Seq(Ident)
  BY <1>5, WordsTyped DEF Fit, Types
<1>7. Heading = Stmt /\ words # <<>>
  BY <1>2, <1>3, Spelled DEF Heading, Stmt
<1>8. ASSUME tkn' = "{"
      PROVE  (path = Append(p, Stmt) /\ words = <<>> /\ file = Grown(Tree, p, Stmt))'
  <2>1. path' = Append(path, Stmt) /\ words' = <<>> /\ file' = WithGroup(Stmt)
    BY <1>5, <1>7, <1>8 DEF History
  <2>2. WithGroup(Stmt) = Grown(Tree, p, Stmt)
    BY <1>1, <1>3, <1>4, WithGroupIsGrown DEF Fit
  <2>3. Grown(Tree, p, Stmt)' = Grown(Tree, p, Stmt)
    BY <1>4 DEF Grown
  <2> QED BY <1>3, <1>4, <2>1, <2>2, <2>3 DEF At
<1>9. ASSUME tkn' = ";" PROVE At(p)' /\ words' = <<>>
  BY <1>3, <1>4, <1>5, <1>9 DEF History, At
<1>10. Place(p)'
  BY <1>2, <1>8, <1>9 DEF Place
<1> QED BY <1>1, <1>2, <1>3, <1>5, <1>6, <1>10, FitKept

\* What follows a head that a brace or a semicolon ends.
LEMMA KindOfStmtFits ==
  ASSUME NEW s, Fit(s), Live, Live', KindOfStmt
  PROVE  Fit(s)'
<1>1. PICK p : p = Here(s)
  OBVIOUS
<1>2. /\ pc = "kind" /\ tkn \in {";", "{"} /\ name \in Ident /\ name' = name /\ params' = params
      /\ pc' = (IF tkn = ";" THEN "CATTR" ELSE "GRP")
      /\ Advance(Word) /\ UNCHANGED <<handler, cell, calls, lib>>
  BY DEF KindOfStmt, Goto, Fit, Types
<1>3. Tree' = Tree /\ Stmt' = Stmt /\ params \in Seq(Ident)
  BY <1>2 DEF Tree, Stmt, Fit, Types
<1>4. tkn' \in Token /\ History(tkn')
  BY <1>2, Lexed DEF Live
<1>5. words' \in Seq(Ident)
  BY <1>4, WordsTyped DEF Fit, Types
<1>6. CASE tkn = ";"
  <2>1. path = p /\ file = Tree /\ words = <<>> /\ pc' = "CATTR"
    BY <1>1, <1>2, <1>6 DEF Fit, Place, At
  <2>2. Before(p)' /\ UNCHANGED file
    BY <1>4, <2>1, NextStatement
  <2>3. Place(p)'
    BY <1>3, <2>1, <2>2 DEF Place
  <2> QED BY <1>1, <1>2, <1>3, <1>4, <1>5, <2>3, FitKept
<1>7. CASE tkn = "{"
  <2>1. PICK q : q = Append(p, Stmt)
    OBVIOUS
  <2>2. path = q /\ words = <<>> /\ file = Grown(Tree, p, Stmt) /\ pc' = "GRP"
    BY <1>1, <1>2, <1>7, <2>1 DEF Fit, Place
  <2>3. Before(q)' /\ UNCHANGED file
    BY <1>4, <2>2, NextStatement
  <2>4. Grown(Tree, p, Stmt)' = Grown(Tree, p, Stmt)
    BY <1>3 DEF Grown
  <2>5. Before(Append(p, Stmt))'
    BY <1>3, <2>1, <2>3 DEF Before, Inner
  <2>6. Place(p)'
    BY <2>2, <2>3, <2>4, <2>5 DEF Place
  <2> QED BY <1>1, <1>2, <1>3, <1>4, <1>5, <2>6, FitKept
<1> QED BY <1>2, <1>6, <1>7

\* What follows a statement.
LEMMA EndAttrFits ==
  ASSUME NEW s, Fit(s), Live, Live', EndAttr \/ EndGroup
  PROVE  Fit(s)'
<1>1. PICK p : p = Here(s)
  OBVIOUS
<1>2. /\ \/ pc = "semicolon" /\ tkn = ";"
         \/ pc = "close" /\ tkn = "}"
      /\ pc' = "stmts" /\ Advance(Word) /\ UNCHANGED <<name, params, handler, cell, calls, lib>>
  BY DEF EndAttr, EndGroup, Goto
<1>3. path = p /\ file = Tree /\ words = <<>> /\ tkn # "EOF"
  BY <1>1, <1>2 DEF Fit, Place, At
<1>4. Tree' = Tree
  BY <1>2 DEF Tree
<1>5. tkn' \in Token /\ History(tkn')
  BY <1>2, <1>3, Lexed DEF Live
<1>6. words' \in Seq(Ident)
  BY <1>5, WordsTyped DEF Fit, Types
<1>7. Before(p)' /\ UNCHANGED file
  BY <1>3, <1>5, NextStatement
<1>8. Place(p)'
  BY <1>2, <1>3, <1>4, <1>7 DEF Place
<1> QED BY <1>1, <1>2, <1>5, <1>6, <1>8, FitKept DEF Fit, Types

-------------------------------------------------------------------------------
(* The calls of handlers and their returns.                                       *)

\* The place inside a group, by what its head says.
LEMMA HandlerInside ==
  ASSUME NEW p \in Seq(Head0), NEW h \in Head0
  PROVE  /\ Append(p, h) \in Seq(Head0) /\ Append(p, h) # <<>> /\ Inner(Append(p, h)) = p
         /\ HandlerOf(Append(p, h)) =
              IF HandlerOf(p) = "root" /\ h.word = "library" THEN "library"
              ELSE IF HandlerOf(p) = "library" /\ h.word = "cell" THEN "cell"
              ELSE IF HandlerOf(p) = "cell" /\ h.word = "pin" THEN "pin" ELSE None
         /\ HandlerOf(p) = "library" => Append(p, h)[2] = h
         /\ HandlerOf(p) = "cell" => Append(p, h)[2] = p[2]
<1>1. PICK n \in Nat : n = Len(p)
  OBVIOUS
<1>2. PICK q : q = Append(p, h)
  OBVIOUS
<1>3. /\ q \in Seq(Head0) /\ Len(q) = n + 1 /\ q[n + 1] = h
      /\ \A k \in 1 .. n : q[k] = p[k]
  BY <1>1, <1>2, AppendProperties
<1>4. (p = <<>> <=> n = 0) /\ q # <<>>
  BY <1>1, <1>3
<1>5. Inner(q) = p
  <2>1. SubSeq(q, 1, n) = p
    BY <1>1, <1>2, <1>3, SubSeqProperties, SeqEqual
  <2> QED BY <1>3, <2>1 DEF Inner
<1>6. None \notin {"root", "library", "cell", "pin"}
  BY Tokens DEF Word
<1>7. CASE n = 0
  <2>1. p = <<>> /\ Len(q) = 1 /\ q[1] = h
    BY <1>3, <1>4, <1>7
  <2>2. HandlerOf(p) = "root" /\ HandlerOf(q) = IF h.word = "library" THEN "library" ELSE None
    BY <1>4, <2>1 DEF HandlerOf
  <2> QED BY <1>2, <1>3, <1>4, <1>5, <2>2
<1>8. CASE n = 1
  <2>1. p # <<>> /\ Len(q) = 2 /\ q[1] = p[1] /\ q[2] = h
    BY <1>3, <1>4, <1>8
  <2>2. /\ HandlerOf(p) = IF p[1].word = "library" THEN "library" ELSE None
        /\ HandlerOf(q) = IF p[1].word = "library" /\ h.word = "cell" THEN "cell" ELSE None
    BY <1>1, <1>4, <1>8, <2>1 DEF HandlerOf
  <2> QED BY <1>2, <1>3, <1>4, <1>5, <1>6, <2>1, <2>2
<1>9. CASE n = 2
  <2>1. p # <<>> /\ Len(q) = 3 /\ q[1] = p[1] /\ q[2] = p[2] /\ q[3] = h
    BY <1>3, <1>4, <1>9
  <2>2. /\ HandlerOf(p) = IF p[1].word = "library" /\ p[2].word = "cell" THEN "cell" ELSE None
        /\ HandlerOf(q) =
             IF p[1].word = "library" /\ p[2].word = "cell" /\ h.word = "pin" THEN "pin" ELSE None
    BY <1>1, <1>4, <1>9, <2>1 DEF HandlerOf
  <2> QED BY <1>2, <1>3, <1>4, <1>5, <1>6, <2>1, <2>2
<1>10. CASE n > 2
  <2>1. p # <<>> /\ Len(q) > 3
    BY <1>3, <1>4, <1>10
  <2>2. HandlerOf(p) \in {None, "pin"} /\ HandlerOf(q) = None
    BY <1>1, <1>3, <1>4, <1>10, <2>1 DEF HandlerOf
  <2> QED BY <1>2, <1>3, <1>4, <1>5, <1>6, <2>2
<1>11. n = 0 \/ n = 1 \/ n = 2 \/ n > 2
  OBVIOUS
<1> QED BY <1>7, <1>8, <1>9, <1>10, <1>11, Zenon

LEMMA HandlerTyped ==
  ASSUME NEW p \in Seq(Head0), Served(p)
  PROVE  /\ HandlerOf(p) \in Handler /\ CellOf(p) \in Ident \cup {None}
         /\ HandlerOf(p) = None => p # <<>> /\ CellOf(p) = None
<1>1. None \notin {"root", "library", "cell", "pin"}
  BY Tokens DEF Word
<1>2. HandlerOf(p) \in Handler /\ (HandlerOf(p) = None => p # <<>>)
  BY <1>1 DEF HandlerOf, Handler
<1>3. CellOf(p) \in Ident \cup {None}
  <2>1. CASE HandlerOf(p) \in {"cell", "pin"}
    <3>1. Len(p) >= 2
      BY <1>1, <2>1 DEF HandlerOf
    <3>2. p[2] \in Head0 /\ Len(p[2].args) = 1
      BY <2>1, <3>1 DEF Served
    <3>3. p[2].args[1] \in Ident
      BY <3>2 DEF Head0
    <3> QED BY <2>1, <3>3 DEF CellOf
  <2> QED BY <2>1 DEF CellOf
<1> QED BY <1>1, <1>2, <1>3 DEF CellOf

\* A handler that is called for place q, inside the statement or behind it.
LEMMA NestFits ==
  ASSUME NEW s, Fit(s), NEW p, p = Here(s), NEW q \in Seq(Head0), q # <<>>,
         Nest(HandlerOf(q), CellOf(q)), Before(q), file = Tree',
         (pc = "GRP" /\ p = Inner(q)) \/ (pc = "CATTR" /\ p = q),
         Served(q)', lib # None => lib' # None, lib' \in Library \cup {None}
  PROVE  \E t : Fit(t)'
<1>a. PICK n : n = Len(calls)
  OBVIOUS
<1>b. PICK call : call = [kind |-> pc, handler |-> handler, cell |-> cell]
  OBVIOUS
<1>c. PICK t : t = [k \in 1 .. n + 2 |-> IF k = n + 2 THEN q ELSE s[k]]
  OBVIOUS
<1>1. n \in Nat /\ calls \in Seq(Call)
  BY <1>a DEF Fit, Types
<1>2. /\ s \in [1 .. n + 1 -> Seq(Head0)] /\ s[1] = <<>> /\ s[n + 1] = p
      /\ \A k \in 1 .. n + 1 : Served(s[k])
      /\ handler = HandlerOf(p) /\ cell = CellOf(p)
  BY <1>a DEF Fit, Levels, Here
<1>3. p \in Seq(Head0) /\ Served(p)
  BY <1>1, <1>2
<1>4. call \in Call
  BY <1>b, <1>2, <1>3, HandlerTyped DEF Call, Kind
<1>5. /\ calls' = Append(calls, call) /\ handler' = HandlerOf(q) /\ cell' = CellOf(q)
      /\ pc' = "stmts" /\ params' = <<>> /\ UNCHANGED <<tkn, path, words, file>>
  BY <1>b DEF Nest, Goto, Forget, lexer, history
<1>6. /\ calls' \in Seq(Call) /\ Len(calls') = n + 1 /\ calls'[n + 1] = call
      /\ \A k \in 1 .. n : calls'[k] = calls[k]
  BY <1>a, <1>1, <1>4, <1>5, AppendProperties
<1>7. /\ t \in [1 .. n + 2 -> Seq(Head0)] /\ t[n + 2] = q
      /\ \A k \in 1 .. n + 1 : t[k] = s[k]
  BY <1>c, <1>1, <1>2
<1>8. Types'
  <2>1. tkn' \in Token /\ words' \in Seq(Ident) /\ params' \in Seq(Ident)
    BY <1>5, EmptySeq DEF Fit, Types
  <2> QED BY <1>5, <1>6, <2>1 DEF Types
<1>9. Levels(t)'
  <2>1. t \in [1 .. Len(calls') + 1 -> Seq(Head0)] /\ t[1] = <<>>
    BY <1>1, <1>2, <1>6, <1>7
  <2>2. ASSUME NEW k \in 1 .. Len(calls') + 1 PROVE Served(t[k])'
    <3>1. CASE k = n + 2
      BY <1>7, <3>1 DEF Served
    <3>2. CASE k \in 1 .. n + 1
      BY <1>2, <1>7, <3>2 DEF Served
    <3> QED BY <1>1, <1>6, <3>1, <3>2
  <2>3. ASSUME NEW k \in 1 .. Len(calls')
        PROVE  /\ calls'[k].handler = HandlerOf(t[k]) /\ calls'[k].cell = CellOf(t[k])
               /\ \/ calls'[k].kind = "GRP" /\ t[k + 1] # <<>> /\ t[k] = Inner(t[k + 1])
                  \/ calls'[k].kind = "CATTR" /\ t[k] # <<>> /\ t[k + 1] = t[k]
    <3>1. CASE k = n + 1
      <4>1. t[k] = p /\ t[k + 1] = q
        BY <1>1, <1>2, <1>7, <3>1
      <4> QED BY <1>b, <1>2, <1>6, <3>1, <4>1
    <3>2. CASE k \in 1 .. n
      <4>1. t[k] = s[k] /\ t[k + 1] = s[k + 1] /\ calls'[k] = calls[k]
        <5>1. k \in 1 .. n + 1 /\ k + 1 \in 1 .. n + 1
          BY <1>1, <3>2
        <5> QED BY <1>6, <1>7, <3>2, <5>1, Zenon
      <4> QED BY <1>a, <3>2, <4>1 DEF Fit, Levels
    <3> QED BY <1>1, <1>6, <3>1, <3>2
  <2>4. t[Len(calls') + 1] = q
    BY <1>1, <1>6, <1>7
  <2> QED BY <1>5, <2>1, <2>2, <2>3, <2>4 DEF Levels
<1>10. Place(Here(t))'
  <2>1. Here(t)' = q
    BY <1>1, <1>6, <1>7 DEF Here
  <2>2. Before(q)' /\ file' = Tree'
    BY <1>5 DEF Before
  <2>3. Place(q)'
    BY <1>5, <2>2 DEF Place
  <2> QED BY <2>1, <2>3
<1> QED BY <1>8, <1>9, <1>10 DEF Fit

\* A group of a name that the handler does not know, and all in it, is skipped.
LEMMA SkipGroupFits ==
  ASSUME NEW s, Fit(s), pc = "GRP", handler = None \/ ~Known, Nest(None, None), lib' = lib
  PROVE  \E t : Fit(t)'
<1>1. PICK p : p = Here(s)
  OBVIOUS
<1>2. p \in Seq(Head0) /\ handler = HandlerOf(p) /\ Stmt \in Head0
  <2>1. Len(calls) + 1 \in 1 .. Len(calls) + 1
    BY DEF Fit, Types
  <2>2. name \in Ident /\ params \in Seq(Ident)
    BY DEF Fit, Types
  <2> QED BY <1>1, <2>1, <2>2 DEF Fit, Levels, Here, Head0, Stmt
<1>3. PICK q : q = Append(p, Stmt)
  OBVIOUS
<1>4. Before(q) /\ file = Grown(Tree, p, Stmt)
  BY <1>1, <1>3 DEF Fit, Place
<1>5. None \notin {"root", "library", "cell", "pin"}
  BY Tokens DEF Word
<1>6. /\ ~(HandlerOf(p) = "root" /\ name = "library")
      /\ ~(HandlerOf(p) = "library" /\ name = "cell")
      /\ ~(HandlerOf(p) = "cell" /\ name = "pin")
  BY <1>2, <1>5 DEF Known
<1>7. q \in Seq(Head0) /\ q # <<>> /\ p = Inner(q) /\ HandlerOf(q) = None
  BY <1>2, <1>3, <1>6, HandlerInside DEF Stmt
<1>8. CellOf(q) = None /\ Served(q)'
  BY <1>5, <1>7 DEF CellOf, Served
<1>9. file = Tree'
  <2>1. Grown(Tree, p, Stmt) = Tree
    BY <1>6 DEF Grown, Stmt
  <2> QED BY <1>4, <2>1 DEF Tree
<1>10. lib' \in Library \cup {None}
  BY DEF Fit, Types
<1>11. Nest(HandlerOf(q), CellOf(q)) /\ (lib # None => lib' # None)
  BY <1>7, <1>8
<1>12. (pc = "GRP" /\ p = Inner(q)) \/ (pc = "CATTR" /\ p = q)
  BY <1>7
<1>13. q \in Seq(Head0) /\ q # <<>>
  BY <1>7
<1> QED BY <1>1, <1>4, <1>8, <1>9, <1>10, <1>11, <1>12, <1>13, NestFits, Zenon

\* Called without a handler, the parser calls itself for what follows.
LEMMA NoHandlerFits ==
  ASSUME NEW s, Fit(s), Live, Live', NoHandler, pc # "SATTR"
  PROVE  \E t : Fit(t)'
<1>1. PICK p : p = Here(s)
  OBVIOUS
<1>2. handler = None /\ pc \in {"GRP", "CATTR"} /\ Nest(None, None) /\ lib' = lib
  BY DEF NoHandler, Called
<1>3. CASE pc = "GRP"
  BY <1>2, <1>3, SkipGroupFits
<1>4. CASE pc = "CATTR"
  <2>1. Len(calls) + 1 \in 1 .. Len(calls) + 1 /\ lib' \in Library \cup {None}
    BY <1>2 DEF Fit, Types
  <2>2. p \in Seq(Head0) /\ Served(p) /\ HandlerOf(p) = None
    BY <1>1, <1>2, <2>1 DEF Fit, Levels, Here
  <2>3. p # <<>> /\ CellOf(p) = None
    BY <2>2, HandlerTyped
  <2>4. Before(p) /\ file = Tree'
    BY <1>1, <1>2, <1>4 DEF Fit, Place, Tree
  <2>5. Served(p)'
    BY <1>2, <2>2 DEF Served
  <2>6. Nest(HandlerOf(p), CellOf(p)) /\ (lib # None => lib' # None)
    BY <1>2, <2>2, <2>3
  <2>7. (pc = "GRP" /\ p = Inner(p)) \/ (pc = "CATTR" /\ p = p)
    BY <1>4
  <2> QED BY <1>1, <2>1, <2>2, <2>3, <2>4, <2>5, <2>6, <2>7, NestFits, Zenon
<1> QED BY <1>2, <1>3, <1>4

\* A handler returns at once from an attribute.
LEMMA ReturnFits ==
  ASSUME NEW s, Fit(s), Live, Live', Called, pc # "GRP", Return, lib' = lib
  PROVE  Fit(s)'
<1>1. PICK p : p = Here(s)
  OBVIOUS
<1>2. UNCHANGED <<handler, cell, calls, lib>> /\ params' = <<>> /\ params' \in Seq(Ident)
  BY EmptySeq DEF Return, Forget
<1>3. Tree' = Tree
  BY <1>2 DEF Tree
<1>4. CASE pc = "SATTR" /\ tkn \in Ident
  <2>1. At(p) /\ Advance(Word) /\ pc' = "semicolon" /\ tkn # "EOF"
    BY <1>1, <1>4, Tokens DEF Fit, Place, Return, Goto
  <2>2. tkn' \in Token /\ History(tkn')
    BY <2>1, Lexed DEF Live
  <2>3. words' \in Seq(Ident)
    BY <2>2, WordsTyped DEF Fit, Types
  <2>4. ASSUME tkn' = ";" PROVE At(p)' /\ words' = <<>>
    BY <1>3, <2>1, <2>2, <2>4 DEF History, At
  <2>5. Place(p)'
    BY <2>1, <2>4 DEF Place
  <2> QED BY <1>1, <1>2, <2>1, <2>2, <2>3, <2>5, FitKept
<1>5. CASE pc = "CATTR"
  <2>1. UNCHANGED <<tkn, path, words, file>> /\ pc' = "stmts"
    BY <1>5 DEF Return, Goto, lexer, history
  <2>2. Before(p) /\ file = Tree
    BY <1>1, <1>5 DEF Fit, Place
  <2>3. Before(p)'
    BY <2>1, <2>2 DEF Before
  <2>4. Place(p)'
    BY <1>3, <2>1, <2>2, <2>3 DEF Place
  <2> QED BY <1>1, <1>2, <2>1, <2>4, FitKept DEF Fit, Types
<1> QED BY <1>4, <1>5 DEF Called

LEMMA SkipFits ==
  ASSUME NEW s, Fit(s), Live, Live', Skip
  PROVE  \E t : Fit(t)'
<1>1. Called /\ ~Known /\ lib' = lib
  BY DEF Skip
<1>2. CASE pc = "GRP"
  BY <1>1, <1>2, SkipGroupFits DEF Skip
<1>3. CASE pc # "GRP"
  BY <1>1, <1>3, ReturnFits DEF Skip
<1> QED BY <1>2, <1>3

\* A handler that adds what the head says to the tree.
LEMMA GrownFits ==
  ASSUME NEW s, Fit(s), pc = "GRP", NEW p, p = Here(s), lib' \in Library,
         lib' = Grown(Tree, p, Stmt), NEW q, q = Append(p, Stmt),
         HandlerOf(q) \in {"cell", "pin"} => Len(q[2].args) = 1, Nest(HandlerOf(q), CellOf(q))
  PROVE  \E t : Fit(t)'
<1>1. p \in Seq(Head0) /\ Stmt \in Head0
  <2>1. Len(calls) + 1 \in 1 .. Len(calls) + 1
    BY DEF Fit, Types
  <2>2. name \in Ident /\ params \in Seq(Ident)
    BY DEF Fit, Types
  <2> QED BY <2>1, <2>2 DEF Fit, Levels, Here, Head0, Stmt
<1>2. q \in Seq(Head0) /\ q # <<>> /\ p = Inner(q)
  BY <1>1, HandlerInside
<1>3. lib' # None /\ lib' \in Library \cup {None}
  BY NoneAssumption
<1>4. Before(q) /\ file = Tree'
  BY <1>3 DEF Fit, Place, Tree
<1>5. Served(q)'
  BY <1>3 DEF Served
<1>6. (pc = "GRP" /\ p = Inner(q)) \/ (pc = "CATTR" /\ p = q)
  BY <1>2
<1> QED BY <1>2, <1>3, <1>4, <1>5, <1>6, NestFits, Zenon

LEMMA RootLibraryFits ==
  ASSUME NEW s, Fit(s), Live, Live', RootLibrary
  PROVE  \E t : Fit(t)'
<1>1. PICK p : p = Here(s)
  OBVIOUS
<1>2. /\ pc = "GRP" /\ handler = "root" /\ name = "library" /\ lib' = Empty
      /\ Nest("library", None)
  BY DEF RootLibrary, Live, Goto
<1>3. p \in Seq(Head0) /\ Stmt \in Head0 /\ HandlerOf(p) = "root"
  <2>1. Len(calls) + 1 \in 1 .. Len(calls) + 1
    BY DEF Fit, Types
  <2>2. name \in Ident /\ params \in Seq(Ident)
    BY <1>2 DEF Fit, Types
  <2> QED BY <1>1, <1>2, <2>1, <2>2 DEF Fit, Levels, Here, Head0, Stmt
<1>4. PICK q : q = Append(p, Stmt)
  OBVIOUS
<1>5. HandlerOf(q) = "library" /\ CellOf(q) = None
  BY <1>2, <1>3, <1>4, HandlerInside DEF Stmt, CellOf
<1>6. lib' \in Library /\ lib' = Grown(Tree, p, Stmt)
  BY <1>2, <1>3 DEF Library, Empty, Grown, Stmt
<1>7. Nest(HandlerOf(q), CellOf(q))
  BY <1>2, <1>5
<1> QED BY <1>1, <1>2, <1>4, <1>5, <1>6, <1>7, GrownFits

\* A handler that fails ends the reading, or the error is dropped.
LEMMA FailIsNoticed == Fail => ~Live'
BY DEF Fail, Live, Goto

LEMMA OneParam ==
  ASSUME params \in Seq(Ident), Len(params) = 1
  PROVE  params[1] \in Ident
OBVIOUS

LEMMA LibraryCellFits ==
  ASSUME NEW s, Fit(s), Live, Live', LibraryCell
  PROVE  \E t : Fit(t)'
<1>1. PICK p : p = Here(s)
  OBVIOUS
<1>2. /\ pc = "GRP" /\ handler = "library" /\ name = "cell" /\ Len(params) = 1
      /\ lib' = [lib EXCEPT !.cells = @ \cup {params[1]}] /\ Nest("cell", params[1])
  BY FailIsNoticed DEF LibraryCell
<1>3. name \in Ident /\ params \in Seq(Ident) /\ params[1] \in Ident
  <2>1. name \in Ident /\ params \in Seq(Ident)
    BY <1>2 DEF Fit, Types
  <2> QED BY <1>2, <2>1, OneParam
<1>4. p \in Seq(Head0) /\ Stmt \in Head0 /\ HandlerOf(p) = "library" /\ Served(p)
  <2>1. Len(calls) + 1 \in 1 .. Len(calls) + 1
    BY DEF Fit, Types
  <2> QED BY <1>1, <1>2, <1>3, <2>1 DEF Fit, Levels, Here, Head0, Stmt
<1>5. PICK q : q = Append(p, Stmt)
  OBVIOUS
<1>6. HandlerOf(q) = "cell" /\ q[2] = Stmt
  BY <1>2, <1>4, <1>5, HandlerInside DEF Stmt
<1>7. CellOf(q) = params[1] /\ Len(q[2].args) = 1
  BY <1>2, <1>6 DEF CellOf, Stmt
<1>8. lib \in Library /\ Tree = lib
  BY <1>4 DEF Fit, Types, Served, Tree
<1>9. lib' \in Library /\ lib' = Grown(Tree, p, Stmt)
  BY <1>2, <1>3, <1>4, <1>8 DEF Library, Grown, Stmt
<1>10. Nest(HandlerOf(q), CellOf(q))
  BY <1>2, <1>6, <1>7
<1> QED BY <1>1, <1>2, <1>5, <1>7, <1>9, <1>10, GrownFits

LEMMA CellPinFits ==
  ASSUME NEW s, Fit(s), Live, Live', CellPin
  PROVE  \E t : Fit(t)'
<1>1. PICK p : p = Here(s)
  OBVIOUS
<1>2. /\ pc = "GRP" /\ handler = "cell" /\ name = "pin" /\ Len(params) = 1
      /\ lib' = [lib EXCEPT !.pins = @ \cup {<<cell, params[1]>>}] /\ Nest("pin", cell)
  BY FailIsNoticed DEF CellPin
<1>3. name \in Ident /\ params \in Seq(Ident) /\ params[1] \in Ident
  <2>1. name \in Ident /\ params \in Seq(Ident)
    BY <1>2 DEF Fit, Types
  <2> QED BY <1>2, <2>1, OneParam
<1>4. /\ p \in Seq(Head0) /\ Stmt \in Head0 /\ HandlerOf(p) = "cell" /\ Served(p)
      /\ cell = CellOf(p)
  <2>1. Len(calls) + 1 \in 1 .. Len(calls) + 1
    BY DEF Fit, Types
  <2> QED BY <1>1, <1>2, <1>3, <2>1 DEF Fit, Levels, Here, Head0, Stmt
<1>5. PICK q : q = Append(p, Stmt)
  OBVIOUS
<1>6. HandlerOf(q) = "pin" /\ q[2] = p[2]
  BY <1>2, <1>4, <1>5, HandlerInside DEF Stmt
<1>7. cell = p[2].args[1] /\ CellOf(q) = cell /\ Len(q[2].args) = 1
  BY <1>4, <1>6 DEF CellOf, Served
<1>8. lib \in Library /\ Tree = lib
  BY <1>4 DEF Fit, Types, Served, Tree
<1>9. cell \in Ident
  <2>1. CellOf(p) \in Ident \cup {None}
    BY <1>4, HandlerTyped
  <2>2. CellOf(p) # None
    <3>1. Len(p) >= 2
      BY <1>4, Tokens DEF HandlerOf, Word
    <3>2. p[2] \in Head0 /\ Len(p[2].args) = 1
      BY <1>4, <3>1 DEF Served
    <3>3. p[2].args[1] \in Ident
      BY <3>2 DEF Head0
    <3> QED BY <1>4, <1>7, <3>3, Tokens
  <2> QED BY <1>4, <2>1, <2>2
<1>10. lib' \in Library /\ lib' = Grown(Tree, p, Stmt)
  BY <1>2, <1>3, <1>4, <1>7, <1>8, <1>9 DEF Library, Grown, Stmt
<1>11. Nest(HandlerOf(q), CellOf(q))
  BY <1>2, <1>6, <1>7
<1> QED BY <1>1, <1>2, <1>5, <1>7, <1>10, <1>11, GrownFits

\* A handler returns from the statements it has parsed, to the brace that closes
\* them or, behind a complex attribute, to the statements around.
LEMMA EndStmtsFits ==
  ASSUME NEW s, Fit(s), Live, Live', EndStmts
  PROVE  \E t : Fit(t)'
<1>1. PICK n : n = Len(calls)
  OBVIOUS
<1>2. calls \in Seq(Call) /\ n \in Nat /\ n # 0
  <2>1. calls \in Seq(Call) /\ calls # <<>>
    BY DEF EndStmts, Fit, Types
  <2> QED BY <1>1, <2>1, EmptySeq
<1>3. PICK p : p = s[n + 1]
  OBVIOUS
<1>4. PICK q : q = s[n]
  OBVIOUS
<1>5. PICK t : t = [k \in 1 .. n |-> s[k]]
  OBVIOUS
<1>6. /\ s \in [1 .. n + 1 -> Seq(Head0)] /\ s[1] = <<>>
      /\ \A k \in 1 .. n + 1 : Served(s[k])
      /\ \A k \in 1 .. n :
           /\ calls[k].handler = HandlerOf(s[k]) /\ calls[k].cell = CellOf(s[k])
           /\ \/ calls[k].kind = "GRP" /\ s[k + 1] # <<>> /\ s[k] = Inner(s[k + 1])
              \/ calls[k].kind = "CATTR" /\ s[k] # <<>> /\ s[k + 1] = s[k]
  BY <1>1 DEF Fit, Levels
<1>7. n \in 1 .. n /\ n \in 1 .. n + 1
  BY <1>2
<1>8. /\ calls[n].handler = HandlerOf(q) /\ calls[n].cell = CellOf(q)
      /\ \/ calls[n].kind = "GRP" /\ p # <<>> /\ q = Inner(p)
         \/ calls[n].kind = "CATTR" /\ q # <<>> /\ p = q
  BY <1>3, <1>4, <1>6, <1>7
<1>9. /\ calls' = SubSeq(calls, 1, n - 1) /\ handler' = HandlerOf(q) /\ cell' = CellOf(q)
      /\ pc' = (IF calls[n].kind = "GRP" THEN "close" ELSE "stmts")
      /\ UNCHANGED <<tkn, path, words, file, name, params, lib>>
  BY <1>1, <1>8 DEF EndStmts, Resume, Goto, lexer, history
<1>10. /\ calls' \in Seq(Call) /\ Len(calls') = n - 1
       /\ \A k \in 1 .. n - 1 : calls'[k] = calls[k]
  <2>1. /\ calls' \in Seq(Call) /\ Len(calls') = n - 1
        /\ \A k \in 1 .. n - 1 : calls'[k] = calls[1 + k - 1]
    BY <1>1, <1>2, <1>9, SubSeqProperties
  <2> QED BY <1>2, <2>1
<1>11. Types'
  BY <1>9, <1>10 DEF Fit, Types
<1>12. Levels(t)'
  <2>1. t \in [1 .. n -> Seq(Head0)] /\ \A k \in 1 .. n : t[k] = s[k]
    BY <1>2, <1>5, <1>6
  <2>2. Len(calls') + 1 = n /\ t[1] = <<>> /\ t[Len(calls') + 1] = q
    BY <1>2, <1>4, <1>6, <1>7, <1>10, <2>1
  <2>3. ASSUME NEW k \in 1 .. n PROVE Served(t[k])'
    <3>1. Served(s[k]) /\ t[k] = s[k]
      BY <1>2, <1>6, <2>1
    <3> QED BY <1>9, <3>1 DEF Served
  <2>4. ASSUME NEW k \in 1 .. Len(calls')
        PROVE  /\ calls'[k].handler = HandlerOf(t[k]) /\ calls'[k].cell = CellOf(t[k])
               /\ \/ calls'[k].kind = "GRP" /\ t[k + 1] # <<>> /\ t[k] = Inner(t[k + 1])
                  \/ calls'[k].kind = "CATTR" /\ t[k] # <<>> /\ t[k + 1] = t[k]
    <3>1. k \in 1 .. n /\ k + 1 \in 1 .. n /\ k \in 1 .. n - 1
      BY <1>2, <1>10
    <3>2. t[k] = s[k] /\ t[k + 1] = s[k + 1] /\ calls'[k] = calls[k]
      BY <1>10, <2>1, <3>1
    <3> QED BY <1>6, <3>1, <3>2
  <2> QED BY <1>9, <2>1, <2>2, <2>3, <2>4 DEF Levels
<1>13. Place(Here(t))'
  <2>1. Here(t)' = q
    BY <1>2, <1>4, <1>5, <1>7, <1>10 DEF Here
  <2>2. Before(p) /\ file = Tree /\ tkn \in {"EOF", "}"}
    BY <1>1, <1>3 DEF EndStmts, Fit, Place, Here
  <2>3. Tree' = Tree /\ (Before(p) => Before(p)')
    BY <1>9 DEF Tree, Before
  <2>4. tkn = "}" /\ p # <<>> => words = <<>> /\ path = Inner(p)
    BY <2>2 DEF Before
  <2>5. CASE calls[n].kind = "GRP"
    <3>1. pc' = "close" /\ p # <<>> /\ q = Inner(p)
      BY <1>8, <1>9, <2>5
    <3>2. tkn' = "}" => At(q)' /\ words' = <<>>
      BY <1>9, <2>2, <2>3, <2>4, <3>1 DEF At
    <3>3. Place(q)'
      BY <3>1, <3>2 DEF Place
    <3> QED BY <2>1, <3>3
  <2>6. CASE calls[n].kind # "GRP"
    <3>1. pc' = "stmts" /\ p = q
      BY <1>8, <1>9, <2>6
    <3>2. Before(q)' /\ file' = Tree'
      BY <1>9, <2>2, <2>3, <3>1
    <3>3. Place(q)'
      BY <3>1, <3>2 DEF Place
    <3> QED BY <2>1, <3>3
  <2> QED BY <2>5, <2>6
<1> QED BY <1>11, <1>12, <1>13 DEF Fit

LEMMA SuccessFits ==
  ASSUME NEW s, Fit(s), Success
  PROVE  Fit(s)'
<1>1. /\ pc = "stmts" /\ tkn \in {"EOF", "}"} /\ calls = <<>> /\ pc' = "ok"
      /\ UNCHANGED <<tkn, path, words, file, name, params, handler, cell, calls, lib>>
  BY DEF Success, Goto, lexer, history
<1>2. Here(s) = <<>>
  <2>1. Len(calls) = 0
    BY <1>1
  <2>2. Len(calls) + 1 = 1 /\ s[1] = <<>>
    BY <2>1 DEF Fit, Levels
  <2> QED BY <2>2 DEF Here
<1>3. path = <<>> /\ file = Tree
  BY <1>1, <1>2, Tokens DEF Fit, Place, Before
<1>4. Place(<<>>)'
  BY <1>1, <1>3 DEF Place, At, Tree
<1> QED BY <1>1, <1>2, <1>4, FitKept DEF Fit, Types

LEMMA StutterFits ==
  ASSUME NEW s, Fit(s), UNCHANGED vars
  PROVE  Fit(s)'
<1>1. UNCHANGED <<tkn, pc, name, params, handler, cell, calls, lib, path, words, file>>
  BY DEF vars, lexer, history
<1>2. PICK p : p = Here(s)
  OBVIOUS
<1>3. Tree' = Tree /\ Stmt' = Stmt
  BY <1>1 DEF Tree, Stmt
<1>4. Grown(Tree, p, Stmt)' = Grown(Tree, p, Stmt)
  BY <1>3 DEF Grown
<1>5. Before(p)' = Before(p) /\ Before(Append(p, Stmt))' = Before(Append(p, Stmt)) /\ At(p)' = At(p)
  BY <1>1, <1>3 DEF Before, At, Inner
<1>6. Place(p)'
  BY <1>1, <1>2, <1>3, <1>4, <1>5 DEF Place, Fit, At
<1> QED BY <1>1, <1>2, <1>6, FitKept DEF Fit, Types

-------------------------------------------------------------------------------
(* Theorems.                                                                      *)

\* What went wrong stays so.
LEMMA LiveBefore ==
  ASSUME [Next]_vars, Live'
  PROVE  Live
<1>1. CASE Next
  <2>1. pc \notin {"error", "crashed"}
    <3>1. CASE BeginStmt \/ AfterName \/ Param \/ Comma \/ EndParams \/ KindOfStmt \/ EndAttr \/ EndGroup
      BY <3>1 DEF BeginStmt, AfterName, Param, Comma, EndParams, KindOfStmt, EndAttr, EndGroup
    <3>2. CASE SyntaxError
      BY <3>2 DEF SyntaxError
    <3>3. CASE NoHandler \/ RootLibrary \/ LibraryCell \/ CellPin \/ BadAttribute \/ Skip
      BY <3>3 DEF NoHandler, RootLibrary, LibraryCell, CellPin, BadAttribute, Skip, Called
    <3>4. CASE EndStmts \/ Success
      BY <3>4 DEF EndStmts, Success
    <3> QED BY <1>1, <3>1, <3>2, <3>3, <3>4 DEF Next
  <2>2. ~Fail
    BY FailIsNoticed
  <2>3. (lenient => lenient') /\ (UNCHANGED lexer \/ Advance(Word) \/ Advance(Name))
    <3>1. CASE BeginStmt \/ AfterName \/ Param \/ Comma \/ EndParams \/ KindOfStmt \/ EndAttr \/ EndGroup
      <4>1. lenient' = lenient
        BY <3>1 DEF BeginStmt, AfterName, Param, Comma, EndParams, KindOfStmt, EndAttr, EndGroup
      <4>2. UNCHANGED lexer \/ Advance(Word) \/ Advance(Name)
        <5>1. AfterName => Advance(Word) \/ Advance(Name)
          BY DEF AfterName
        <5>2. Comma => UNCHANGED lexer \/ Advance(Name)
          BY DEF Comma
        <5> QED BY <3>1, <5>1, <5>2 DEF BeginStmt, Param, EndParams, KindOfStmt, EndAttr, EndGroup
      <4> QED BY <4>1, <4>2, Zenon
    <3>2. CASE SyntaxError \/ BadAttribute
      BY <2>2, <3>2 DEF SyntaxError, BadAttribute
    <3>3. CASE NoHandler \/ Skip
      <4>1. lenient' = lenient /\ (Return \/ Nest(None, None))
        BY <3>3 DEF NoHandler, Skip
      <4>2. Return => UNCHANGED lexer \/ Advance(Word)
        BY DEF Return
      <4>3. Nest(None, None) => UNCHANGED lexer
        BY DEF Nest
      <4> QED BY <4>1, <4>2, <4>3, Zenon
    <3>4. CASE RootLibrary
      <4>1. UNCHANGED lexer
        BY <3>4 DEF RootLibrary, Nest
      <4>2. ASSUME lenient PROVE lenient'
        <5>1. lenient' = lenient \/ lenient' = (lenient \/ pc # "GRP")
          BY <3>4 DEF RootLibrary
        <5>2. CASE lenient' = lenient
          BY <4>2, <5>2, Zenon
        <5>3. CASE lenient' = (lenient \/ pc # "GRP")
          BY <4>2, <5>3, Zenon
        <5> QED BY <5>1, <5>2, <5>3, Zenon
      <4> QED BY <4>1, <4>2, Zenon
    <3>5. CASE LibraryCell \/ CellPin
      <4>1. lenient' = lenient /\ (Nest("cell", params[1]) \/ Nest("pin", cell))
        BY <2>2, <3>5 DEF LibraryCell, CellPin
      <4>2. \A h, c : Nest(h, c) => UNCHANGED lexer
        BY DEF Nest
      <4> QED BY <4>1, <4>2, Zenon
    <3>6. CASE EndStmts \/ Success
      <4>1. lenient' = lenient /\ (Resume(Len(calls)) \/ UNCHANGED lexer)
        BY <3>6 DEF EndStmts, Success
      <4>2. Resume(Len(calls)) => UNCHANGED lexer \/ Advance(Word)
        BY DEF Resume
      <4> QED BY <4>1, <4>2, Zenon
    <3> QED BY <1>1, <3>1, <3>2, <3>3, <3>4, <3>5, <3>6 DEF Next
  <2>4. stuck => stuck'
    BY <2>3 DEF Advance, lexer
  <2> QED BY <2>1, <2>3, <2>4 DEF Live
<1>2. CASE UNCHANGED vars
  BY <1>2 DEF vars, lexer, Live
<1> QED BY <1>1, <1>2

LEMMA InitIInv == Init => IInv
<1> SUFFICES ASSUME Init, Live PROVE Types /\ \E s : Levels(s) /\ Place(Here(s))
  BY DEF IInv
<1>1. PICK s : s = [k \in 1 .. 1 |-> <<>>]
  OBVIOUS
<1>2. calls = <<>> /\ Len(calls) = 0 /\ params = <<>> /\ handler = "root" /\ cell = None /\ lib = None
  BY DEF Init
<1>3. <<>> \in Seq(Head0) /\ <<>> \in Seq(Ident) /\ <<>> \in Seq(Call)
  BY EmptySeq
<1>4. HandlerOf(<<>>) = "root" /\ CellOf(<<>>) = None
  BY DEF HandlerOf, CellOf
<1>5. s \in [1 .. 1 -> Seq(Head0)] /\ s[1] = <<>>
  BY <1>1, <1>3
<1>6. Levels(s)
  BY <1>2, <1>4, <1>5 DEF Levels, Served
<1>7. Here(s) = <<>>
  BY <1>2, <1>5 DEF Here
<1>8. Place(<<>>)
  <2>1. pc = "stmts" /\ path = <<>> /\ file = Tree /\ words = IF tkn \in Ident THEN <<tkn>> ELSE <<>>
    BY <1>2 DEF Init, Tree
  <2> QED BY <2>1 DEF Place, Before
<1>9. Types
  <2>1. words \in Seq(Ident)
    BY <1>3 DEF Init
  <2> QED BY <1>2, <1>3, <2>1 DEF Init, Types
<1> QED BY <1>6, <1>7, <1>8, <1>9

LEMMA NextIInv == IInv /\ [Next]_vars => IInv'
<1> SUFFICES ASSUME IInv, [Next]_vars, Live' PROVE \E s : Fit(s)'
  <2>1. (\E s : Fit(s)') => Types' /\ \E s : (Levels(s) /\ Place(Here(s)))'
    BY DEF Fit
  <2> QED BY <2>1 DEF IInv
<1>1. Live
  BY LiveBefore
<1>2. PICK s : Fit(s)
  BY <1>1 DEF IInv, Fit
<1>3. CASE BeginStmt
  BY <1>1, <1>2, <1>3, BeginStmtFits
<1>4. CASE AfterName
  BY <1>1, <1>2, <1>4, AfterNameFits
<1>5. CASE Param
  BY <1>1, <1>2, <1>5, ParamFits
<1>6. CASE Comma
  BY <1>1, <1>2, <1>6, CommaFits
<1>7. CASE EndParams
  BY <1>1, <1>2, <1>7, EndParamsFits
<1>8. CASE KindOfStmt
  BY <1>1, <1>2, <1>8, KindOfStmtFits
<1>9. CASE EndAttr \/ EndGroup
  BY <1>1, <1>2, <1>9, EndAttrFits
<1>10. CASE SyntaxError \/ BadAttribute
  BY <1>10, FailIsNoticed DEF SyntaxError, BadAttribute
<1>11. CASE NoHandler
  <2>1. CASE pc = "SATTR"
    <3>1. Called /\ Return /\ lib' = lib
      BY <1>11, <2>1 DEF NoHandler
    <3> QED BY <1>1, <1>2, <2>1, <3>1, ReturnFits
  <2>2. CASE pc # "SATTR"
    BY <1>1, <1>2, <1>11, <2>2, NoHandlerFits
  <2> QED BY <2>1, <2>2
<1>12. CASE RootLibrary
  BY <1>1, <1>2, <1>12, RootLibraryFits
<1>13. CASE LibraryCell
  BY <1>1, <1>2, <1>13, LibraryCellFits
<1>14. CASE CellPin
  BY <1>1, <1>2, <1>14, CellPinFits
<1>15. CASE Skip
  BY <1>1, <1>2, <1>15, SkipFits
<1>16. CASE EndStmts
  BY <1>1, <1>2, <1>16, EndStmtsFits
<1>17. CASE Success
  BY <1>1, <1>2, <1>17, SuccessFits
<1>18. CASE UNCHANGED vars
  BY <1>1, <1>2, <1>18, StutterFits
<1> QED
  BY <1>3, <1>4, <1>5, <1>6, <1>7, <1>8, <1>9, <1>10, <1>11, <1>12, <1>13, <1>14, <1>15, <1>16,
     <1>17, <1>18 DEF Next

\* The parser and the file agree on where in the tree of groups they are, after
\* every token and at any depth (lib-parser.c:30-162).
THEOREM PlacesAgree == Spec => []IInv
<1>1. Init => IInv
  BY InitIInv
<1>2. IInv /\ [Next]_vars => IInv'
  BY NextIInv
<1> QED BY <1>1, <1>2, PTL DEF Spec

\* A library that lib_read returns has the cells and pins that the braces of the
\* file enclose in it, whatever came in between (lib-parser.c:679-906).
THEOREM LibraryIsFile == Spec => []TreeIsFile
<1>1. IInv => TreeIsFile
  <2> SUFFICES ASSUME IInv, pc = "ok", ~stuck, ~lenient
               PROVE  IF lib = None THEN file = Empty ELSE lib = file /\ path = <<>>
    BY DEF TreeIsFile
  <2>1. PICK s : Place(Here(s))
    BY DEF IInv, Live
  <2>2. path = <<>> /\ file = Tree
    BY <2>1 DEF Place, At
  <2> QED BY <2>2 DEF Tree
<1> QED BY <1>1, PlacesAgree, PTL

-------------------------------------------------------------------------------
(* Types, which hold also of files that went wrong.                               *)

\* A handler is called with a library and, inside a cell, with one that is in it.
Held(h, c) ==
  /\ h \in {"library", "cell", "pin"} => lib # None
  /\ h \in {"cell", "pin"} => c \in lib.cells

TInv ==
  /\ TypeOK
  /\ params \in Seq(Ident) /\ calls \in Seq(Call)
  /\ handler = "root" => calls = <<>>
  /\ \A k \in 2 .. Len(calls) : calls[k].handler # "root"
  /\ cell \in Ident \cup {None} /\ Held(handler, cell)
  /\ \A k \in 1 .. Len(calls) : Held(calls[k].handler, calls[k].cell)

LEMMA LexerTyped ==
  ASSUME tkn \in Token, left \in 0 .. MaxWords, stuck \in BOOLEAN, NEW I \in {Word, Name},
         Advance(I) \/ UNCHANGED lexer
  PROVE  tkn' \in Token /\ left' \in 0 .. MaxWords /\ stuck' \in BOOLEAN
<1>1. CASE UNCHANGED lexer
  BY <1>1 DEF lexer
<1>2. CASE Advance(I) /\ ~UNCHANGED lexer
  <2>1. Word \subseteq Token /\ Name \subseteq Token /\ Symbol \subseteq Token /\ "EOF" \in Token
    BY DEF Token, Ident
  <2>2. tkn' \in Token
    BY <1>2, <2>1 DEF Advance, lexer
  <2>3. \/ left' = left
        \/ I = Word /\ left > 0 /\ left' = left - 1
    BY <1>2 DEF Advance
  <2>4. left' \in 0 .. MaxWords
    BY <2>3, MaxWordsAssumption
  <2>5. stuck' = stuck \/ stuck' = TRUE
    BY <1>2 DEF Advance
  <2> QED BY <2>2, <2>4, <2>5
<1> QED BY <1>1, <1>2

LEMMA CallsTyped ==
  ASSUME NEW c \in Seq(Call), NEW k \in DOMAIN c
  PROVE  c[k].kind \in Kind /\ c[k].handler \in Handler
<1>1. c[k] \in Call
  OBVIOUS
<1> QED BY <1>1 DEF Call

\* The calls and the library stay.
LEMMA CalmTyped ==
  ASSUME TInv, NEW I \in {Word, Name}, Advance(I) \/ UNCHANGED lexer, params' \in Seq(Ident),
         UNCHANGED <<handler, cell, calls, lib>>
  PROVE  TInv'
<1>1. tkn' \in Token /\ left' \in 0 .. MaxWords /\ stuck' \in BOOLEAN
  BY LexerTyped DEF TInv, TypeOK
<1>2. TypeOK'
  BY <1>1 DEF TInv, TypeOK
<1> QED BY <1>2 DEF TInv, Held

\* A call is left.
LEMMA ResumeTyped ==
  ASSUME TInv, NEW k \in 1 .. Len(calls), Resume(k), params' \in Seq(Ident), lib' = lib
  PROVE  TInv'
<1>1. calls \in Seq(Call) /\ Len(calls) \in Nat /\ k \in Nat
  BY DEF TInv
<1>2. /\ calls' = SubSeq(calls, 1, k - 1) /\ handler' = calls[k].handler /\ cell' = calls[k].cell
      /\ Advance(Word) \/ UNCHANGED lexer
  BY DEF Resume
<1>3. /\ calls' \in Seq(Call) /\ Len(calls') = k - 1 /\ \A j \in 1 .. k - 1 : calls'[j] = calls[j]
  <2>1. /\ calls' \in Seq(Call) /\ Len(calls') = k - 1
        /\ \A j \in 1 .. k - 1 : calls'[j] = calls[1 + j - 1]
    BY <1>1, <1>2, SubSeqProperties
  <2> QED BY <1>1, <2>1
<1>4. tkn' \in Token /\ left' \in 0 .. MaxWords /\ stuck' \in BOOLEAN
  BY <1>2, LexerTyped DEF TInv, TypeOK
<1>5. calls[k] \in Call
  BY <1>1
<1>6. handler' \in Handler /\ cell' \in Ident \cup {None}
  BY <1>2, <1>5 DEF Call
<1>7. Held(handler', cell') /\ (Held(handler', cell') => Held(handler, cell)')
  BY <1>2 DEF TInv, Held
<1>8. TypeOK'
  <2>1. \A j \in DOMAIN calls' : calls'[j].kind \in Kind /\ calls'[j].handler \in Handler
    BY <1>3, CallsTyped
  <2>2. lib' # None => lib' \in Library /\ \A p \in lib'.pins : p[1] \in lib'.cells
    BY DEF TInv, TypeOK
  <2> QED BY <1>4, <1>6, <2>1, <2>2 DEF TypeOK
<1>9. handler' = "root" => calls' = <<>>
  <2>1. ASSUME k # 1 PROVE handler' # "root"
    <3>1. k \in 2 .. Len(calls)
      BY <1>1, <2>1
    <3> QED BY <1>2, <3>1 DEF TInv
  <2> QED BY <1>2, <1>3, <2>1
<1>10. \A j \in 2 .. Len(calls') : calls'[j].handler # "root"
  BY <1>1, <1>3 DEF TInv
<1>11. \A j \in 1 .. Len(calls') : Held(calls[j].handler, calls[j].cell)'
  <2>1. ASSUME NEW j \in 1 .. k - 1, NEW g, NEW d, g = calls'[j].handler, d = calls'[j].cell
        PROVE  Held(g, d)'
    <3>1. Held(g, d)
      BY <1>1, <1>3, <2>1 DEF TInv
    <3> QED BY <3>1 DEF Held
  <2> QED BY <1>3, <2>1
<1> QED BY <1>3, <1>6, <1>7, <1>8, <1>9, <1>10, <1>11 DEF TInv

\* A handler is called; the library only grows, unless it begins.
LEMMA NestTyped ==
  ASSUME TInv, NEW h \in Handler \ {"root"}, NEW c \in Ident \cup {None}, Nest(h, c), pc \in Kind,
         lib' # None => lib' \in Library /\ \A p \in lib'.pins : p[1] \in lib'.cells,
         \/ lib # None => lib' # None /\ lib.cells \subseteq lib'.cells
         \/ handler = "root" /\ lib' # None,
         Held(h, c)'
  PROVE  TInv'
<1>1. PICK call : call = [kind |-> pc, handler |-> handler, cell |-> cell]
  OBVIOUS
<1>2. /\ calls' = Append(calls, call) /\ handler' = h /\ cell' = c /\ params' = <<>>
      /\ UNCHANGED lexer
  BY <1>1 DEF Nest, Forget
<1>3. calls \in Seq(Call) /\ call \in Call
  BY <1>1 DEF TInv, TypeOK, Call
<1>4. PICK n \in Nat : n = Len(calls)
  BY <1>3
<1>5. /\ calls' \in Seq(Call) /\ Len(calls') = n + 1 /\ calls'[n + 1] = call
      /\ \A k \in 1 .. n : calls'[k] = calls[k]
  BY <1>2, <1>3, <1>4, AppendProperties
<1>6. tkn' \in Token /\ left' \in 0 .. MaxWords /\ stuck' \in BOOLEAN
  BY <1>2, LexerTyped DEF TInv, TypeOK
<1>7. TypeOK'
  <2>1. \A j \in DOMAIN calls' : calls'[j].kind \in Kind /\ calls'[j].handler \in Handler
    BY <1>5, CallsTyped
  <2> QED BY <1>2, <1>6, <2>1 DEF TypeOK
<1>8. \A k \in 2 .. Len(calls') : calls'[k].handler # "root"
  <2>1. ASSUME NEW k \in 2 .. n + 1 PROVE calls'[k].handler # "root"
    <3>1. CASE k = n + 1
      <4>1. n # 0
        BY <2>1, <3>1, <1>4
      <4>2. calls # <<>>
        BY <1>4, <4>1
      <4> QED BY <1>1, <1>5, <3>1, <4>2 DEF TInv
    <3>2. CASE k \in 2 .. n
      BY <1>4, <1>5, <3>2 DEF TInv
    <3> QED BY <1>4, <3>1, <3>2
  <2> QED BY <1>5, <2>1
<1>9. \A k \in 1 .. Len(calls') : Held(calls[k].handler, calls[k].cell)'
  <2>1. ASSUME NEW k \in 1 .. n + 1, NEW g, NEW d, g = calls'[k].handler, d = calls'[k].cell
        PROVE  Held(g, d)'
    <3>1. CASE k = n + 1
      <4>1. g = handler /\ d = cell
        BY <1>1, <1>5, <2>1, <3>1
      <4>2. Held(g, d) /\ (g = "root" <=> handler = "root")
        BY <4>1 DEF TInv
      <4> QED BY <4>2 DEF Held
    <3>2. CASE k \in 1 .. n
      <4>1. g = calls[k].handler /\ d = calls[k].cell
        BY <1>5, <2>1, <3>2
      <4>2. Held(g, d) /\ handler # "root"
        <5>1. calls # <<>>
          BY <1>4, <3>2
        <5> QED BY <1>4, <3>2, <4>1, <5>1 DEF TInv
      <4> QED BY <4>2 DEF Held
    <3> QED BY <1>4, <3>1, <3>2
  <2> QED BY <1>5, <2>1
<1>10. params' \in Seq(Ident)
  BY <1>2, EmptySeq
<1> QED BY <1>2, <1>5, <1>7, <1>8, <1>9, <1>10 DEF TInv

LEMMA FailTyped ==
  ASSUME TInv, Fail
  PROVE  TInv'
<1>1. PICK deaf : deaf = {k \in DOMAIN calls : calls[k].handler = None}
  OBVIOUS
<1>2. calls \in Seq(Call) /\ Len(calls) \in Nat /\ deaf \subseteq 1 .. Len(calls)
  BY <1>1 DEF TInv
<1>3. params' = <<>> /\ params' \in Seq(Ident)
  BY EmptySeq DEF Fail, Forget
<1>4. CASE deaf # {}
  <2>1. PICK k : k = CHOOSE i \in deaf : \A j \in deaf : j <= i
    OBVIOUS
  <2>2. Resume(k) /\ lib' = lib
    BY <1>1, <1>4, <2>1 DEF Fail
  <2>3. deaf \in SUBSET (0 .. Len(calls))
    BY <1>2
  <2>4. Max(deaf) \in deaf /\ \A j \in deaf : j <= Max(deaf)
    BY <1>2, <1>4, <2>3, LargestThere
  <2>5. k \in deaf
    BY <2>1, <2>4
  <2> QED BY <1>2, <1>3, <2>2, <2>5, ResumeTyped
<1>5. CASE deaf = {}
  <2>1. lib' = None /\ Dispose
    BY <1>1, <1>5 DEF Fail
  <2>2. /\ tkn' = "EOF" /\ left' = 0 /\ stuck' = FALSE /\ handler' = "root" /\ cell' = None
        /\ calls' = <<>> /\ Len(calls') = 0
    BY <2>1 DEF Dispose
  <2>4. calls' \in Seq(Call)
    BY <2>2, EmptySeq
  <2>3. TypeOK'
    <3>1. \A j \in DOMAIN calls' : calls'[j].kind \in Kind /\ calls'[j].handler \in Handler
      BY <2>4, CallsTyped
    <3>2. 0 \in 0 .. MaxWords
      BY MaxWordsAssumption
    <3> QED BY <2>1, <2>2, <3>1, <3>2 DEF TypeOK, Token, Handler
  <2> QED BY <1>3, <2>2, <2>3, <2>4 DEF TInv, Held
<1> QED BY <1>4, <1>5

LEMMA InitTInv == Init => TInv
<1> SUFFICES ASSUME Init PROVE TInv
  OBVIOUS
<1>1. /\ tkn \in Token /\ left = MaxWords /\ stuck \in BOOLEAN /\ handler = "root" /\ cell = None
      /\ calls = <<>> /\ Len(calls) = 0 /\ lib = None /\ params = <<>>
  BY DEF Init
<1>2. calls \in Seq(Call) /\ params \in Seq(Ident)
  BY <1>1, EmptySeq
<1>3. \A j \in DOMAIN calls : calls[j].kind \in Kind /\ calls[j].handler \in Handler
  BY <1>2, CallsTyped
<1>4. MaxWords \in 0 .. MaxWords
  BY MaxWordsAssumption
<1>5. TypeOK
  BY <1>1, <1>3, <1>4 DEF TypeOK, Handler
<1> QED BY <1>1, <1>2, <1>5 DEF TInv, Held

LEMMA NextTInv == TInv /\ [Next]_vars => TInv'
<1> SUFFICES ASSUME TInv, [Next]_vars PROVE TInv'
  OBVIOUS
<1>1. params \in Seq(Ident) /\ <<>> \in Seq(Ident) /\ handler \in Handler
  BY EmptySeq DEF TInv, TypeOK
<1>2. CASE BeginStmt \/ EndParams \/ KindOfStmt \/ EndAttr \/ EndGroup
  <2>1. Advance(Word) /\ UNCHANGED <<params, handler, cell, calls, lib>>
    BY <1>2 DEF BeginStmt, EndParams, KindOfStmt, EndAttr, EndGroup
  <2> QED BY <1>1, <2>1, CalmTyped
<1>3. CASE AfterName
  <2>1. /\ (Advance(Word) \/ Advance(Name)) /\ params' \in {<<>>, params}
        /\ UNCHANGED <<handler, cell, calls, lib>>
    BY <1>3 DEF AfterName
  <2> QED BY <1>1, <2>1, CalmTyped
<1>4. CASE Param
  <2>1. /\ Advance(Name) /\ tkn \in Ident /\ params' \in {params, Append(params, tkn)}
        /\ UNCHANGED <<handler, cell, calls, lib>>
    BY <1>4 DEF Param
  <2>2. params' \in Seq(Ident)
    BY <1>1, <2>1, AppendProperties
  <2> QED BY <2>1, <2>2, CalmTyped
<1>5. CASE Comma
  <2>1. (UNCHANGED lexer \/ Advance(Name)) /\ UNCHANGED <<params, handler, cell, calls, lib>>
    BY <1>5 DEF Comma
  <2> QED BY <1>1, <2>1, CalmTyped
<1>6. CASE SyntaxError \/ BadAttribute
  BY <1>6, FailTyped DEF SyntaxError, BadAttribute
<1>7. CASE Return /\ UNCHANGED lib
  <2>1. /\ (Advance(Word) \/ UNCHANGED lexer) /\ params' = <<>>
        /\ UNCHANGED <<handler, cell, calls, lib>>
    BY <1>7 DEF Return, Forget
  <2> QED BY <1>1, <2>1, CalmTyped
<1>8. CASE Nest(None, None) /\ UNCHANGED lib /\ pc \in Kind
  <2>1. None \in Handler \ {"root"} /\ None \in Ident \cup {None} /\ None \notin {"library", "cell", "pin"}
    BY Tokens DEF Handler, Word
  <2>2. lib' # None => lib' \in Library /\ \A p \in lib'.pins : p[1] \in lib'.cells
    BY <1>8 DEF TInv, TypeOK
  <2>3. lib # None => lib' # None /\ lib.cells \subseteq lib'.cells
    BY <1>8
  <2>4. Held(None, None)'
    BY <2>1 DEF Held
  <2> QED BY <1>8, <2>1, <2>2, <2>3, <2>4, NestTyped
<1>9. CASE NoHandler \/ Skip
  <2>1. (Return \/ Nest(None, None)) /\ UNCHANGED lib /\ pc \in Kind
    BY <1>9 DEF NoHandler, Skip, Called, Kind
  <2> QED BY <1>7, <1>8, <2>1
<1>10. CASE RootLibrary
  <2>1. CASE lib' = Empty /\ Nest("library", None)
    <3>1. handler = "root" /\ pc \in Kind
      BY <1>10 DEF RootLibrary, Called, Kind
    <3>2. lib' \in Library /\ lib' # None /\ lib'.pins = {}
      BY <2>1, NoneAssumption DEF Empty, Library
    <3>3. "library" \in Handler \ {"root"} /\ None \in Ident \cup {None}
      BY DEF Handler
    <3>4. Held("library", None)'
      BY <3>2 DEF Held
    <3>5. lib' # None => lib' \in Library /\ \A p \in lib'.pins : p[1] \in lib'.cells
      BY <3>2
    <3> QED BY <2>1, <3>1, <3>2, <3>3, <3>4, <3>5, NestTyped
  <2>2. CASE UNCHANGED <<lexer, name, params, handler, cell, calls, lib, lenient, history>>
    BY <1>1, <2>2, CalmTyped
  <2> QED BY <1>10, <2>1, <2>2 DEF RootLibrary
<1>11. CASE LibraryCell /\ ~Fail
  <2>1. /\ pc = "GRP" /\ handler = "library" /\ Len(params) = 1
        /\ lib' = [lib EXCEPT !.cells = @ \cup {params[1]}] /\ Nest("cell", params[1])
    BY <1>11 DEF LibraryCell
  <2>2. params[1] \in Ident
    BY <1>1, <2>1, OneParam
  <2>3. lib \in Library /\ lib # None /\ \A p \in lib.pins : p[1] \in lib.cells
    BY <2>1 DEF TInv, Held, TypeOK
  <2>4. /\ lib' \in Library /\ lib'.pins = lib.pins /\ lib'.cells = lib.cells \cup {params[1]}
        /\ lib' # None
    BY <2>1, <2>2, <2>3, NoneAssumption DEF Library
  <2>5. "cell" \in Handler \ {"root"} /\ params[1] \in Ident \cup {None} /\ pc \in Kind
    BY <2>1, <2>2 DEF Handler, Kind
  <2>6. PICK c : c = params[1]
    OBVIOUS
  <2>7. Held("cell", c)'
    BY <2>4, <2>6 DEF Held
  <2>8. lib' # None => lib' \in Library /\ \A p \in lib'.pins : p[1] \in lib'.cells
    BY <2>3, <2>4
  <2>9. lib # None => lib' # None /\ lib.cells \subseteq lib'.cells
    BY <2>4
  <2> QED BY <2>1, <2>5, <2>6, <2>7, <2>8, <2>9, NestTyped
<1>12. CASE CellPin /\ ~Fail
  <2>1. /\ pc = "GRP" /\ handler = "cell" /\ Len(params) = 1
        /\ lib' = [lib EXCEPT !.pins = @ \cup {<<cell, params[1]>>}] /\ Nest("pin", cell)
    BY <1>12 DEF CellPin
  <2>2. params[1] \in Ident
    BY <1>1, <2>1, OneParam
  <2>3. /\ lib \in Library /\ lib # None /\ cell \in lib.cells
        /\ \A p \in lib.pins : p[1] \in lib.cells
    BY <2>1 DEF TInv, Held, TypeOK
  <2>4. cell \in Ident
    BY <2>3 DEF Library
  <2>5. /\ lib' \in Library /\ lib'.pins = lib.pins \cup {<<cell, params[1]>>}
        /\ lib'.cells = lib.cells /\ lib' # None
    BY <2>1, <2>2, <2>3, <2>4, NoneAssumption DEF Library
  <2>6. "pin" \in Handler \ {"root"} /\ cell \in Ident \cup {None} /\ pc \in Kind
    BY <2>1, <2>4 DEF Handler, Kind
  <2>7. PICK c : c = cell
    OBVIOUS
  <2>8. Held("pin", c)'
    BY <2>3, <2>5, <2>7 DEF Held
  <2>9. lib' # None => lib' \in Library /\ \A p \in lib'.pins : p[1] \in lib'.cells
    BY <2>3, <2>5
  <2>10. lib # None => lib' # None /\ lib.cells \subseteq lib'.cells
    BY <2>5
  <2> QED BY <2>1, <2>6, <2>7, <2>8, <2>9, <2>10, NestTyped
<1>13. CASE LibraryCell \/ CellPin
  BY <1>11, <1>12, <1>13, FailTyped
<1>14. CASE EndStmts
  <2>1. calls \in Seq(Call) /\ calls # <<>>
    BY <1>14 DEF EndStmts, TInv
  <2>2. Len(calls) \in 1 .. Len(calls)
    BY <2>1, EmptySeq
  <2>3. PICK k \in 1 .. Len(calls) : k = Len(calls)
    BY <2>2
  <2>4. Resume(k) /\ params' = params /\ lib' = lib
    BY <1>14, <2>3 DEF EndStmts
  <2> QED BY <1>1, <2>4, ResumeTyped
<1>15. CASE Success \/ UNCHANGED vars
  <2>1. UNCHANGED <<lexer, params, handler, cell, calls, lib>>
    BY <1>15 DEF Success, vars
  <2> QED BY <1>1, <2>1, CalmTyped
<1> QED BY <1>2, <1>3, <1>4, <1>5, <1>6, <1>9, <1>10, <1>13, <1>14, <1>15 DEF Next

\* Types, in whatever way the file goes wrong: the handlers are those of the
\* code, and the pins of a library belong to its cells (lib-parser.c:679-906).
THEOREM LibReaderTypes == Spec => []TypeOK
<1>1. Init => TInv
  BY InitTInv
<1>2. TInv /\ [Next]_vars => TInv'
  BY NextTInv
<1>3. TInv => TypeOK
  BY DEF TInv
<1> QED BY <1>1, <1>2, <1>3, PTL DEF Spec

=============================================================================
