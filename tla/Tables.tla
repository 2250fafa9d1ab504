------------------------------- MODULE Tables --------------------------------
(* Lookup tables (table.c) and their formats (table-fmt.c). A format maps each   *)
(* axis of the table to its breakpoints and its stride; the scalar format, which *)
(* the code writes as NULL, has no axes. Positions along an axis and in the data *)
(* count from 0.                                                                 *)
EXTENDS Integers, Sequences, FiniteSets, FiniteSetsExt, SequencesExt

InTrans == 0
OutCap  == 1   \* PHX_TABLE_OUT_EDGE has no use in the program

Extent(fmt, a)    == Len(fmt[a].indices)
NumValues(fmt, A) == FoldSet(LAMBDA a, n : Extent(fmt, a) * n, 1, A)

\* The points of the axes A, one position on each, and where a point is stored.
Points(fmt, A) ==
  {p \in [A -> 0 .. Max({0} \cup {Extent(fmt, a) : a \in A})] : \A a \in A : p[a] < Extent(fmt, a)}
Offset(fmt, p) == MapThenSumSet(LAMBDA a : p[a] * fmt[a].stride, DOMAIN p)

\* The values of a table as it is meant: one for each point.
ValueAt(T, p) == T.data[Offset(T.fmt, p)]

\* A point with its position k on axis a.
Moved(p, a, k) == [b \in DOMAIN p \cup {a} |-> IF b = a THEN k ELSE p[b]]

\* The axes A by their numbers.
ByNumber(A) ==
  CHOOSE q \in [1 .. Cardinality(A) -> A] : \A i, j \in DOMAIN q : i < j => q[i] < q[j]

\* A format laid out in the order of a sequence of axes, the first the fastest.
Laid(order, indices) ==
  [a \in ToSet(order) |->
    [indices |-> indices[a],
     stride  |-> LET k == CHOOSE i \in DOMAIN order : order[i] = a IN
                 FoldSet(LAMBDA b, n : Len(indices[b]) * n, 1, {order[i] : i \in 1 .. k - 1})]]

\* phx_table_new and phx_table_set_indices: the table also keeps the axes in a
\* list of its own. update_strides lays a format out by the number of the axis.
TableNew(order, indices, data) ==
  [fmt |-> Laid(order, indices), own |-> TRUE, data |-> data]
UpdateStrides(indices) == Laid(ByNumber(DOMAIN indices), indices)

\* phx_table_create_with_format: the list of its own stays empty.
CreateWithFormat(fmt) ==
  [fmt |-> fmt, own |-> FALSE, data |-> [k \in 0 .. NumValues(fmt, DOMAIN fmt) - 1 |-> 0]]
OwnAxes(T) == IF T.own THEN DOMAIN T.fmt ELSE {}
===============================================================================
