--------------------------- MODULE MCDesignValues ---------------------------
(* A small instance of DesignValues: cells in a hierarchy of three levels or    *)
(* beside each other, with capacitances and leakages that can be told apart.   *)
EXTENDS DesignValues, TLC

Symmetric == Permutations(Cell) \cup Permutations(Inst) \cup Permutations(Pin)

=============================================================================
