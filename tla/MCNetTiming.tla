----------------------------- MODULE MCNetTiming -----------------------------
(* A small instance of NetTiming: two or three gates between the pins of a cell,  *)
(* and tables of three slopes and two loads.                                     *)
EXTENDS NetTiming

T(i, p)     == [inst |-> i, pin |-> p]
G(i, p, r)  == [inst |-> i, pin |-> p, rel |-> r]
Buffers     == <<G(1, "o", "i"), G(2, "o", "i")>>
Chain       == [conns |-> <<<<T(Outer, "A"), T(1, "i")>>, <<T(1, "o"), T(2, "i")>>, <<T(2, "o"), T(Outer, "Z")>>>>,
                gates |-> Buffers]
\* The same, the nets in the opposite order.
Backward    == [Chain EXCEPT !.conns = Reverse(@)]
\* The net between the gates leads to a pin as well.
Tapped      == [Chain EXCEPT !.conns[2] = Append(@, T(Outer, "M"))]
\* The pin leads to the second gate both directly and through the first.
Converging  == [conns |-> <<<<T(2, "o"), T(Outer, "Z")>>, <<T(Outer, "A"), T(1, "i"), T(2, "j")>>, <<T(1, "o"), T(2, "i")>>>>,
                gates |-> Append(Buffers, G(2, "o", "j"))]
\* Two pins on one net.
Shorted     == [Chain EXCEPT !.conns[1] = Append(@, T(Outer, "B"))]
MCCircuits  == {Chain, Backward, Tapped, Converging, Shorted}

Slopes == <<0, 2, 4>>
Caps   == <<1, 3>>
Grid(order) == TableNew(order, InTrans :> Slopes @@ OutCap :> Caps, [k \in 0 .. 5 |-> <<0, 2, 4, 2, 4, 4>>[k + 1]])
BySlope     == TableNew(<<InTrans>>, InTrans :> Slopes, [k \in 0 .. 2 |-> <<2, 0, 4>>[k + 1]])
ByLoad      == TableNew(<<OutCap>>, OutCap :> Caps, [k \in 0 .. 1 |-> <<0, 2>>[k + 1]])
OneLoad     == TableNew(<<OutCap>>, OutCap :> <<2>>, [k \in {0} |-> 2])
Arc(d, t)   == [delay |-> d, trans |-> t]
MCLibArcs   == {Arc(Grid(<<InTrans, OutCap>>), Grid(<<InTrans, OutCap>>)),
                Arc(Grid(<<OutCap, InTrans>>), Grid(<<OutCap, InTrans>>)),
                Arc(BySlope, BySlope), Arc(BySlope, Grid(<<InTrans, OutCap>>)),
                Arc(BySlope, ByLoad), Arc(OneLoad, BySlope), Arc(BySlope, NoTable)}

\* A library whose slopes begin below zero, for FindsBreakpoints.
Below0      == TableNew(<<InTrans>>, InTrans :> <<-4, -2, 0>>, [k \in 0 .. 2 |-> <<0, 2, 4>>[k + 1]])
MCNegative  == {Arc(Below0, Below0)}
===============================================================================
