--------------------------- MODULE MCComposition ----------------------------
(* What a cell is composed of: an instance placed in it (InstTransform, and     *)
(* GdsCoords for the export), and the nets between terminals (Netlist).  The    *)
(* two have no state in common, so that a behaviour goes on with the one it     *)
(* began with.  Coordinates are on either side of zero, as are differences.     *)
EXTENDS GdsCoords, Netlist, TLC

MCCoord == {-4, 3}

Init == PlaceInit /\ NetInit

Place   == NetInit /\ PlaceNext /\ UNCHANGED netVars
Connect == PlaceInit /\ NetNext /\ UNCHANGED placeVars

Spec == Init /\ [][Place \/ Connect]_<<placeVars, netVars>>

Symmetric == Permutations(Pin)

=============================================================================
