----------------------------- MODULE LibReader -------------------------------
(* The LIB reader (lib-lexer.c, lib-parser.c, lib.c): statements parsed by     *)
(* recursive descent, whose groups are given to a handler each, from the       *)
(* library down to its pins.  The recursion is explicit here, a stack of the   *)
(* statements whose groups are being parsed; a step is what the code does      *)
(* with one token.                                                             *)
(*                                                                             *)
(* The file is made up while it is read: every call of the lexer finds some    *)
(* token, the end of the file (or of an unfinished comment or string, which    *)
(* the parser cannot tell from it), or a character that begins no token.       *)
(* What the attributes say is left out, and so are table templates and timing  *)
(* groups, which are skipped here like any group of another name.              *)
EXTENDS Naturals, Sequences

CONSTANTS
  Name,       \* names of libraries, cells and pins
  None,       \* the NULL pointer
  MaxWords,   \* bound: statements and values of attributes in the file
  MaxParams   \* bound: parameters of a statement

Word    == {"library", "cell", "pin"}
Ident   == Name \cup Word
Symbol  == {"(", ")", "{", "}", ":", ";", ","}
Token   == Ident \cup Symbol \cup {"EOF"}
Library == [cells : SUBSET Ident, pins : SUBSET (Ident \X Ident)]

ASSUME NameAssumption == Name \cap (Word \cup Symbol \cup {"EOF"}) = {}
ASSUME NoneAssumption == None \notin Name \cup Word \cup {"root"} /\ None \notin Library
ASSUME MaxWordsAssumption == MaxWords \in Nat
ASSUME MaxParamsAssumption == MaxParams \in Nat /\ MaxParams >= 2

\* What follows the head of a statement: a group, a complex or a simple attribute.
Kind == {"GRP", "CATTR", "SATTR"}

\* The handlers of parse_stmts, None where it is called without one.
Handler == {"root", "library", "cell", "pin", None}

VARIABLES
  tkn,     \* the current token
  left,    \* words the file may still have
  stuck,   \* the lexer stands before a character that begins no token
  pc,      \* where the innermost parse_stmt, or parse_stmts, stands
  name,    \* the name of its statement
  params,  \* the parameters of the last statement that had any
  handler, \* the handler of the innermost parse_stmts
  cell,    \* the cell that handler is for, if any
  calls,   \* the statements whose groups are being parsed, outermost first
  lib,     \* the library
  lenient, \* the reader has let something pass (history)
  path,    \* what is open at this place of the file (history)
  words,   \* its identifiers since the last brace or semicolon (history)
  file     \* the cells and pins the file has so far (history)

lexer   == <<tkn, left, stuck>>
history == <<path, words, file>>
vars    == <<lexer, pc, name, params, handler, cell, calls, lib, lenient, history>>

Empty == [cells |-> {}, pins |-> {}]

-----------------------------------------------------------------------------
(* The file as its braces and semicolons divide it, which is what the parser   *)
(* has to find.                                                                *)

\* The statement words begins: its name and the names in its parentheses.
Heading == [word |-> words[1], args |-> Tail(words)]

Opens(head, word, outer) ==
  /\ head.word = word /\ Len(head.args) = 1
  /\ Len(path) = Len(outer) /\ \A k \in DOMAIN outer : path[k].word = outer[k]

\* The cells and pins of the file once the group with this head is open.
WithGroup(head) ==
  IF head.word = "library" /\ path = <<>> THEN Empty
  ELSE IF Opens(head, "cell", <<"library">>)
  THEN [file EXCEPT !.cells = @ \cup {head.args[1]}]
  ELSE IF Opens(head, "pin", <<"library", "cell">>) /\ Len(path[2].args) = 1
  THEN [file EXCEPT !.pins = @ \cup {<<path[2].args[1], head.args[1]>>}]
  ELSE file

History(t) ==
  CASE t = "{" /\ words # <<>> ->
         /\ path' = Append(path, Heading) /\ words' = <<>> /\ file' = WithGroup(Heading)
    [] t = "}" /\ path # <<>> ->
         /\ path' = SubSeq(path, 1, Len(path) - 1) /\ words' = <<>> /\ UNCHANGED file
    [] t = ";" ->
         /\ words' = <<>> /\ UNCHANGED <<path, file>>
    [] OTHER ->
         /\ words' = IF t \in Ident /\ Len(words) <= MaxParams THEN Append(words, t) ELSE words
         /\ UNCHANGED <<path, file>>

-----------------------------------------------------------------------------
(* The lexer.                                                                  *)

\* lib_lexer_next: at a character that begins no token it leaves the token as it
\* is, and will find the same character the next time.  Names are found between
\* parentheses and words elsewhere: no handler compares a parameter with a word.
Advance(idents) ==
  IF stuck \/ tkn = "EOF"
  THEN UNCHANGED <<lexer, history>>
  ELSE \/ /\ idents = Word => left > 0
          /\ idents = Name => Len(params') < MaxParams
          /\ \E t \in idents : tkn' = t /\ History(t)
          /\ left' = (IF idents = Word THEN left - 1 ELSE left) /\ UNCHANGED stuck
       \/ \E t \in Symbol : tkn' = t /\ History(t) /\ UNCHANGED <<left, stuck>>
       \/ tkn' = "EOF" /\ UNCHANGED <<left, stuck, history>>
       \/ stuck' = TRUE /\ UNCHANGED <<tkn, left, history>>

\* lib_lexer_init on a cleared lexer, whose token is that of the end of the file.
Init ==
  /\ tkn \in Token /\ left = MaxWords
  /\ stuck \in {s \in BOOLEAN : s => tkn = "EOF"}
  /\ pc = "stmts" /\ name = None /\ params = <<>>
  /\ handler = "root" /\ cell = None /\ calls = <<>>
  /\ lib = None /\ lenient = FALSE
  /\ path = <<>> /\ words = (IF tkn \in Ident THEN <<tkn>> ELSE <<>>) /\ file = Empty

-----------------------------------------------------------------------------
(* The statements.  Each action is the part of parse_stmt between two calls of *)
(* the lexer, or a turn of the loop of parse_stmts.                            *)

Goto(l) == pc' = l

\* The name and the parameters, which only messages look at from here on.
Forget == name' = None /\ params' = <<>>

BeginStmt ==
  /\ pc = "stmts" /\ tkn \in Ident
  /\ name' = tkn /\ Advance(Word) /\ Goto("name")
  /\ UNCHANGED <<params, handler, cell, calls, lib, lenient>>

AfterName ==
  /\ pc = "name" /\ tkn \in {":", "("}
  /\ params' = IF tkn = "(" THEN <<>> ELSE params
  /\ Goto(IF tkn = "(" THEN "params" ELSE "SATTR")
  /\ Advance(IF tkn = "(" THEN Name ELSE Word)
  /\ UNCHANGED <<name, handler, cell, calls, lib, lenient>>

Param ==
  /\ pc = "params" /\ tkn \in Ident
  /\ params' = IF Len(params) < MaxParams THEN Append(params, tkn) ELSE params
  /\ Advance(Name) /\ Goto("comma")
  /\ UNCHANGED <<name, handler, cell, calls, lib, lenient>>

Comma ==
  /\ pc = "comma"
  /\ UNCHANGED <<name, params, handler, cell, calls, lib, lenient>>
  /\ IF tkn = "," THEN Advance(Name) ELSE UNCHANGED <<lexer, history>>
  /\ Goto("params")

EndParams ==
  /\ pc = "params" /\ tkn = ")"
  /\ Advance(Word) /\ Goto("kind")
  /\ UNCHANGED <<name, params, handler, cell, calls, lib, lenient>>

KindOfStmt ==
  /\ pc = "kind" /\ tkn \in {";", "{"}
  /\ Goto(IF tkn = ";" THEN "CATTR" ELSE "GRP") /\ Advance(Word)
  /\ UNCHANGED <<name, params, handler, cell, calls, lib, lenient>>

EndAttr ==
  /\ pc = "semicolon" /\ tkn = ";"
  /\ Advance(Word) /\ Goto("stmts")
  /\ UNCHANGED <<name, params, handler, cell, calls, lib, lenient>>

\* Mutant of EndGroup: the end of the file closes all groups.
EndGroupAtEOF ==
  /\ pc = "close" /\ tkn \in {"}", "EOF"}
  /\ Advance(Word) /\ Goto("stmts")
  /\ UNCHANGED <<name, params, handler, cell, calls, lib, lenient>>

EndGroup ==
  /\ pc = "close" /\ tkn = "}"
  /\ Advance(Word) /\ Goto("stmts")
  /\ UNCHANGED <<name, params, handler, cell, calls, lib, lenient>>

-----------------------------------------------------------------------------
(* The ways out of parse_stmts.                                                *)

\* Back in parse_stmt number k, whose handler has returned: where it goes on.
Resume(k) ==
  /\ calls' = SubSeq(calls, 1, k - 1)
  /\ handler' = calls[k].handler /\ cell' = calls[k].cell
  /\ IF calls[k].kind = "SATTR" THEN Advance(Word) ELSE UNCHANGED <<lexer, history>>
  /\ Goto(CASE calls[k].kind = "GRP" -> "close" [] calls[k].kind = "CATTR" -> "stmts"
            [] calls[k].kind = "SATTR" -> "semicolon")

\* Mutant of Fail: the statements are gone on with after an error.
FailGoesOn ==
  /\ Goto("stmts") /\ Forget
  /\ UNCHANGED <<lexer, handler, cell, calls, lib, lenient, history>>

\* What lib_lexer_dispose and the end of lib_parse leave.
Dispose ==
  /\ tkn' = "EOF" /\ left' = 0 /\ stuck' = FALSE
  /\ handler' = "root" /\ cell' = None /\ calls' = <<>>
  /\ path' = <<>> /\ words' = <<>> /\ file' = Empty /\ UNCHANGED lenient

\* An error ends the statements around it, up to one in which parse_stmt called
\* parse_stmts itself: there it does not look at what that returned.  At the end
\* of lib_read the library is freed, which fails an assertion if there is none.
Fail ==
  LET deaf == {k \in DOMAIN calls : calls[k].handler = None}
  IN  /\ Forget
      /\ IF deaf # {}
         THEN /\ Resume(CHOOSE k \in deaf : \A j \in deaf : j <= k)
              /\ lenient' = TRUE /\ UNCHANGED lib
         ELSE /\ Goto(IF lib = None THEN "crashed" ELSE "error") /\ lib' = None
              /\ Dispose

SyntaxError ==
  /\ \/ pc = "stmts" /\ tkn \notin Ident \cup {"EOF", "}"}
     \/ pc = "name" /\ tkn \notin {":", "("}
     \/ pc = "SATTR" /\ tkn \notin Ident
     \/ pc = "params" /\ tkn \notin Ident \cup {")"}
     \/ pc = "kind" /\ tkn \notin {";", "{"}
     \/ pc = "semicolon" /\ tkn # ";"
     \/ pc = "close" /\ tkn # "}"
  /\ Fail

-----------------------------------------------------------------------------
(* The handlers.  They are called where pc is the kind of the statement.       *)

Called == pc \in {"GRP", "CATTR"} \/ (pc = "SATTR" /\ tkn \in Ident)

\* What the handler is given: the value of an attribute or the parameters.
Args == IF pc = "SATTR" THEN <<tkn>> ELSE params

\* A handler that returns at once.
Return ==
  /\ IF pc = "SATTR" THEN Advance(Word) /\ Goto("semicolon")
                     ELSE UNCHANGED <<lexer, history>> /\ Goto("stmts")
  /\ Forget
  /\ UNCHANGED <<handler, cell, calls>>

\* A handler, or parse_stmt itself, that calls parse_stmts.
Nest(h, c) ==
  /\ calls' = Append(calls, [kind |-> pc, handler |-> handler, cell |-> cell])
  /\ handler' = h /\ cell' = c
  /\ Goto("stmts") /\ Forget
  /\ UNCHANGED <<lexer, history>>

\* Without a handler what follows is parsed as if it were a group, also after a
\* complex attribute.
NoHandler ==
  /\ Called /\ handler = None
  /\ IF pc = "SATTR" THEN Return ELSE Nest(None, None)
  /\ UNCHANGED <<lib, lenient>>

\* stmt_root: whatever kind of statement it is, a library is one.  Its name is
\* read from where there may be none.
RootLibrary ==
  /\ Called /\ handler = "root" /\ name = "library"
  /\ \/ /\ lib' = Empty /\ lenient' = (lenient \/ pc # "GRP")
        /\ Nest("library", None)
     \/ /\ Args = <<>> /\ Goto("crashed")
        /\ UNCHANGED <<lexer, name, params, handler, cell, calls, lib, lenient, history>>

\* stmt_library with lib_add_cell.
LibraryCell ==
  /\ pc = "GRP" /\ handler = "library" /\ name = "cell"
  /\ IF Len(params) # 1 \/ params[1] \in lib.cells
     THEN Fail
     ELSE /\ lib' = [lib EXCEPT !.cells = @ \cup {params[1]}]
          /\ Nest("cell", params[1])
          /\ UNCHANGED lenient

\* stmt_cell with lib_cell_add_pin.
CellPin ==
  /\ pc = "GRP" /\ handler = "cell" /\ name = "pin"
  /\ IF Len(params) # 1 \/ <<cell, params[1]>> \in lib.pins
     THEN Fail
     ELSE /\ lib' = [lib EXCEPT !.pins = @ \cup {<<cell, params[1]>>}]
          /\ Nest("pin", cell)
          /\ UNCHANGED lenient

\* The statements each handler knows.
Known ==
  \/ handler = "root" /\ name = "library"
  \/ pc = "GRP" /\ <<handler, name>> \in {<<"library", "cell">>, <<"cell", "pin">>}

\* A value that cannot be read, of an attribute some handler knows.
BadAttribute ==
  /\ pc = "SATTR" /\ tkn \in Ident /\ handler \in {"library", "cell", "pin"}
  /\ Fail

\* All others are skipped.
Skip ==
  /\ Called /\ handler # None /\ ~Known
  /\ IF pc = "GRP" THEN Nest(None, None) ELSE Return
  /\ UNCHANGED <<lib, lenient>>

-----------------------------------------------------------------------------
(* The ends of parse_stmts and of lib_read.                                    *)

EndStmts ==
  /\ pc = "stmts" /\ tkn \in {"EOF", "}"} /\ calls # <<>>
  /\ Resume(Len(calls))
  /\ UNCHANGED <<name, params, lib, lenient>>

Success ==
  /\ pc = "stmts" /\ tkn \in {"EOF", "}"} /\ calls = <<>>
  /\ Goto("ok")
  /\ UNCHANGED <<lexer, name, params, handler, cell, calls, lib, lenient, history>>

Next ==
  \/ BeginStmt \/ AfterName \/ Param \/ Comma \/ EndParams \/ KindOfStmt \/ EndAttr \/ EndGroup
  \/ SyntaxError
  \/ NoHandler \/ RootLibrary \/ LibraryCell \/ CellPin \/ BadAttribute \/ Skip
  \/ EndStmts \/ Success

\* lib_read runs on until it returns.
Spec == Init /\ [][Next]_vars /\ WF_vars(Next)

-----------------------------------------------------------------------------
(* The stacked statements have kinds and handlers; pins belong to cells.       *)
TypeOK ==
  /\ tkn \in Token /\ left \in 0 .. MaxWords /\ stuck \in BOOLEAN
  /\ handler \in Handler /\ cell \in Name \cup Ident \cup {None}
  /\ \A k \in DOMAIN calls : calls[k].kind \in Kind /\ calls[k].handler \in Handler
  /\ lib # None => lib \in Library /\ \A p \in lib.pins : p[1] \in lib.cells

(* A library that lib_read returns has the cells and pins that the braces of   *)
(* the file enclose in it, and all groups of the file are closed, whatever     *)
(* statements, known and unknown, came in between (lib-parser.c:30-162,        *)
(* 679-906); unless the lexer met a character that begins no token, an error   *)
(* was dropped, or a library had no braces.                                    *)
TreeIsFile ==
  pc = "ok" /\ ~stuck /\ ~lenient =>
    IF lib = None THEN file = Empty ELSE lib = file /\ path = <<>>

(* "Parses an entire LIB file." (lib-parser.c:886): where lib_read succeeds the  *)
(* lexer has come to the end of the file.                                      *)
EntireFile == pc = "ok" => tkn = "EOF" /\ ~stuck

\* parse_stmt collects parameters until a parenthesis closes.
Collecting == pc \in {"params", "comma"}

(* The reader comes to an end with every file, except that the loop over the   *)
(* parameters (lib-parser.c:86-103) never does where the lexer stands before   *)
(* a character that begins no token.                                           *)
ReadEnds == <>(pc \in {"ok", "error", "crashed"} \/ (stuck /\ Collecting))

=============================================================================
