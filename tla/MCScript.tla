------------------------------- MODULE MCScript -------------------------------
(* A small instance of Script: scripts that draw on layers of nested blocks,      *)
(* scripts that place instances and write libraries, and files loaded in any      *)
(* order after any layer map.                                                     *)
EXTENDS Script

CONSTANTS a, b, p, m1, m2

MCCell     == {a, b}
MCGeometry == {a, b, p}
MCName     == {m1, m2}

Head1(w, x)  == {St(w, x, "{")}
CloseStmt    == {St("}", NoName, "")}
Plain(w)     == {St(w, NoName, ";")}
CellStmts    == {St("cell", c, "{") : c \in MCCell}
LayerStmts   == {St("layer", n, e) : n \in MCName, e \in {"{", ";"}}
LoadStmts    == {St("load_gds", <<a, i>>, ";") : i \in Id} \cup {St("load_lef", <<p, n>>, ";") : n \in MCName}

Draw  == CellStmts \cup Head1("geometry", NoName) \cup LayerStmts \cup Plain("rect") \cup CloseStmt
           \cup {St("load_gds", <<a, 12>>, ";")}
DrawOn == Plain("rect") \cup CloseStmt \cup LayerStmts
Place == CellStmts \cup {St("inst", c, "{") : c \in MCCell} \cup Head1("pin", NoName) \cup Head1("gds", NoName) \cup Plain("gds")
           \cup Plain("set_size") \cup Plain("set_position") \cup Plain("write_gds") \cup CloseStmt
           \cup {St("set_size", NoName, ""), St("cell", b, ""), St("inst", b, ";"), St("load", NoName, ";")}

MCPlans ==
  {[lines |-> {<<m1, 11>>, <<m2, 12>>},
    script |-> <<Head1("cell", a), Head1("geometry", NoName), LayerStmts, Draw, Draw, Draw, DrawOn>>],
   [lines |-> {}, script |-> <<Place, Place, Place, Place, Place>>],
   [lines |-> MCName \X Id,
    script |-> <<Head1("cell", a), Head1("geometry", NoName)>> \o [k \in 1 .. 3 |-> LoadStmts \cup LayerStmts]]}
===============================================================================
