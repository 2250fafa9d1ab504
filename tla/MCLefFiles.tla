----------------------------- MODULE MCLefFiles ------------------------------
(* A small instance of LefFiles: files that begin with nothing, or with groups    *)
(* down to a layer of a port.                                                    *)
EXTENDS LefFiles

Macro     == <<<<"MACRO", "m">>>>
Sized     == Macro \o <<<<"SIZE", "1", "BY", "2", ";">>>>
Pin       == Sized \o <<<<"PIN", "p">>>>
Port      == Pin \o <<<<"PORT">>>>
Layer     == Port \o <<<<"LAYER", "l", ";">>>>
Two       == Layer \o <<<<"RECT", "0", "0", "1", "2", ";">>, <<"END">>, <<"END", "p">>>>
MCPrelude == {<<>>, Sized, Pin, Layer, Two}
MCNames   == {"m", "p", "q", "PROPERTYDEFINITIONS"}
MCNumber  == "0" :> 0 @@ "1" :> 1 @@ "2" :> 2

RectStmt  == {<<"RECT", "0", "0", "1", "2", ";">>, <<"RECT", "1", "0", "1", "2", ";">>}
MCStatements ==
  [root  |-> {<<"MACRO", "m">>, <<"SITE", "q">>, <<"SITE", "q", ";">>, <<"VERSION", "1", ";">>,
              <<"PROPERTYDEFINITIONS">>},
   macro |-> {<<"SIZE", "2", "BY", "1", ";">>, <<"SIZE", "2", "1", ";">>, <<"ORIGIN", "1", "1", ";">>,
              <<"ORIGIN", "(", "1", "1", ")", ";">>, <<"PIN", "p">>, <<"PIN", "q">>, <<"OBS">>, <<"PORT">>,
              <<"SITE", "q", ";">>, <<"FOREIGN", "END">>},
   pin   |-> {<<"PORT">>, <<"PIN", "q">>, <<"LAYER", "l", ";">>, <<"USE", "q", ";">>},
   port  |-> RectStmt \cup {<<"RECT", "0", "0", "x", "2", ";">>, <<"LAYER", "l", ";">>, <<"LAYER", "k", ";">>,
              <<"WIDTH", "1", ";">>, <<"CLASS", "CORE", ";">>, <<"CLASS", "q", ";">>, <<"PATH", "0", "0", ";">>,
              <<"RECT", "(", "0", "0", ")", "(", "1", "2", ")", ";">>, <<"SITE", "q">>},
   obs   |-> RectStmt \cup {<<"LAYER", "l", ";">>, <<"PORT">>},
   skip  |-> RectStmt \cup {<<"PIN", "q">>, <<"PORT">>, <<";">>, <<"SITE", ";">>}]
===============================================================================
