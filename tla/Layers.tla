------------------------------- MODULE Layers --------------------------------
(* The layers of the technology (tech.c), found by name or by number, and the   *)
(* layers of geometries (design-geometry.c), found by halving an array. Both    *)
(* are ordered by the address of the technology layer, which malloc picks.      *)
EXTENDS Integers, Sequences, FiniteSets

CONSTANTS
  Addr,      \* addresses of technology layers, positive
  Name, Id,  \* names and numbers that files and scripts use
  NoName,    \* the NULL pointer
  Geometry   \* the geometries: the bodies of cells and pins

ASSUME AddrAssumption == Addr \subseteq Nat \ {0}
ASSUME IdAssumption   == Id \subseteq Nat
ASSUME NoNameAssumption == NoName \notin Name

VARIABLES
  tech,    \* the technology layers: a function on their addresses
  geo,     \* the layers of each geometry, by the address of their technology layer
  mapping, \* the layer map is being loaded: before anything else
  map,     \* history: the number the layer map gives a name, -1 if none
  crashed  \* strcmp was handed a NULL pointer

vars == <<tech, geo, mapping, map, crashed>>

Init ==
  /\ tech = <<>> /\ geo = [g \in Geometry |-> <<>>]
  /\ mapping = TRUE /\ map = [n \in Name |-> -1]
  /\ crashed = FALSE

First(S) == CHOOSE a \in S : \A b \in S : a <= b

\* phx_tech_find_layer_id: 0 if there is none.
Numbered(i) == {a \in DOMAIN tech : tech[a].id = i}
ById(i)     == IF Numbered(i) = {} THEN 0 ELSE First(Numbered(i))

\* phx_tech_find_layer_name compares names until one is equal; a layer that the
\* search meets before and that has none ends the program.
Named(n)  == {a \in DOMAIN tech : tech[a].name = n}
ByName(n) == IF Named(n) = {} THEN 0 ELSE First(Named(n))
Crashes(n) ==
  \E a \in DOMAIN tech : tech[a].name = NoName /\ (Named(n) = {} \/ a < ByName(n))

\* phx_tech_layer_create.
WithLayer(a, n, i) == [b \in DOMAIN tech \cup {a} |-> IF b = a THEN [name |-> n, id |-> i] ELSE tech[b]]
Fresh == Addr \ DOMAIN tech

\* Mutant of Search: the middle is cut off together with the layer before it.
SearchShort(layers, a) ==
  LET Ends == (0 .. Len(layers)) \X (0 .. Len(layers))
      find[r \in Ends] ==
        LET mid == r[1] + (r[2] - r[1]) \div 2 IN
        IF r[1] >= r[2] THEN 0
        ELSE IF a < layers[mid + 1] THEN find[<<r[1], IF mid > r[1] THEN mid - 1 ELSE mid>>]
        ELSE IF a > layers[mid + 1] THEN find[<<mid + 1, r[2]>>]
        ELSE mid + 1
  IN  find[<<0, Len(layers)>>]

\* array_bsearch: the index where a layer of `a` is, or 0.
Search(layers, a) ==
  LET Ends == (0 .. Len(layers)) \X (0 .. Len(layers))
      find[r \in Ends] ==
        LET mid == r[1] + (r[2] - r[1]) \div 2 IN
        IF r[1] >= r[2] THEN 0
        ELSE IF a < layers[mid + 1] THEN find[<<r[1], mid>>]
        ELSE IF a > layers[mid + 1] THEN find[<<mid + 1, r[2]>>]
        ELSE mid + 1
  IN  find[<<0, Len(layers)>>]

\* phx_geometry_on_layer: a layer that is not found is added at the end.
OnLayer(g, a) ==
  IF Search(geo[g], a) # 0 THEN UNCHANGED geo ELSE geo' = [geo EXCEPT ![g] = Append(@, a)]

\* Mutant of MapLine: a layer that is there keeps its number.
MapLineOnce(n, i) ==
  /\ mapping
  /\ IF ByName(n) # 0 THEN UNCHANGED tech
     ELSE \E a \in Fresh : tech' = WithLayer(a, n, i)
  /\ map' = [map EXCEPT ![n] = i]
  /\ UNCHANGED <<geo, mapping, crashed>>

\* A line of load_tech_layer_map. Whether another name has the number, it does
\* not ask.
MapLine(n, i) ==
  /\ mapping
  /\ IF ByName(n) # 0 THEN tech' = [tech EXCEPT ![ByName(n)].id = i]
     ELSE \E a \in Fresh : tech' = WithLayer(a, n, i)
  /\ map' = [map EXCEPT ![n] = i]
  /\ UNCHANGED <<geo, mapping, crashed>>

MapLoaded == mapping /\ mapping' = FALSE /\ UNCHANGED <<tech, geo, map, crashed>>

\* Mutant of GdsElem: the layer is created without looking for it.
GdsElemNew(g, i) ==
  /\ ~mapping /\ ~crashed
  /\ \E a \in Fresh : tech' = WithLayer(a, NoName, i) /\ OnLayer(g, a)
  /\ UNCHANGED <<mapping, map, crashed>>

\* load_gds: an element on layer and type i.
GdsElem(g, i) ==
  /\ ~mapping /\ ~crashed
  /\ IF ById(i) # 0 THEN OnLayer(g, ById(i)) /\ UNCHANGED tech
     ELSE \E a \in Fresh : tech' = WithLayer(a, NoName, i) /\ OnLayer(g, a)
  /\ UNCHANGED <<mapping, map, crashed>>

\* load_lef: a geometry on layer n; umc65_route does the same.
LefShape(g, n) ==
  /\ ~mapping /\ ~crashed
  /\ IF Crashes(n) THEN crashed' = TRUE /\ UNCHANGED <<tech, geo>>
     ELSE /\ UNCHANGED crashed
          /\ IF ByName(n) # 0 THEN OnLayer(g, ByName(n)) /\ UNCHANGED tech
             ELSE \E a \in Fresh : tech' = WithLayer(a, n, 0) /\ OnLayer(g, a)
  /\ UNCHANGED <<mapping, map>>

\* The command `layer`, which creates none.
LayerCommand(g, n) ==
  /\ ~mapping /\ ~crashed
  /\ IF Crashes(n) THEN crashed' = TRUE /\ UNCHANGED geo
     ELSE ByName(n) # 0 /\ OnLayer(g, ByName(n)) /\ UNCHANGED crashed
  /\ UNCHANGED <<tech, mapping, map>>

Next ==
  \/ \E n \in Name, i \in Id : MapLine(n, i)
  \/ MapLoaded
  \/ \E g \in Geometry, i \in Id : GdsElem(g, i)
  \/ \E g \in Geometry, n \in Name : LefShape(g, n) \/ LayerCommand(g, n)

Spec == Init /\ [][Next]_vars

-----------------------------------------------------------------------------
\* The layers that the layer map gives number i. No layer has no number, 0: it is
\* that of every layer the map does not number.
Called(i) == {ByName(n) : n \in {m \in Name : map[m] = i}}

(* Whatever was loaded in whatever order since: a name of the layer map is that *)
(* of a layer, and an element on a number the map gives is put on a layer that  *)
(* the map gives that number: on the same one as a shape on the name, if there  *)
(* is just one name.                                                            *)
MapUnites ==
  \A n \in Name : map[n] > 0 => ByName(n) # 0 /\ ById(map[n]) \in Called(map[n])

(* A name is that of one layer, and so is a number, unless it is the layer map  *)
(* that gives it to several names: apart from that, what is found does not      *)
(* depend on where malloc put it.                                               *)
FoundWherever ==
  /\ \A n \in Name : Cardinality(Named(n)) <= 1
  /\ \A i \in Id \ {0} :
       IF Called(i) = {} THEN Cardinality(Numbered(i)) <= 1 ELSE Numbered(i) = Called(i)

(* "Performs a binary search in an array under the assumption that it be       *)
(* sorted." (util-array.c:278)                                                 *)
SortedForSearch(layers) == \A j, k \in DOMAIN layers : j < k => layers[j] < layers[k]

(* The layers of a geometry are what array_bsearch assumes them to be.          *)
LayersSorted == \A g \in Geometry : SortedForSearch(geo[g])

(* While the layers of a geometry happen to be asked for in the order of their *)
(* addresses, each is there once.                                              *)
OnceIfSorted ==
  [][\A g \in Geometry :
       SortedForSearch(geo[g]) /\ Len(geo'[g]) > Len(geo[g]) =>
         \A k \in DOMAIN geo[g] : geo[g][k] # geo'[g][Len(geo'[g])]]_vars

=============================================================================
