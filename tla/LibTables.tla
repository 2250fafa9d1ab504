------------------------------ MODULE LibTables ------------------------------
(* The lookup tables that the libraries give the gates of a composed cell, and   *)
(* what reading them promises to the handlers that do (NetTiming).               *)
EXTENDS TableOps

CONSTANTS
  LibArcs,    \* arcs a library may contain: tables for delay and transition
  NoTable     \* the NULL pointer

\* What a library gives along an axis: breakpoints that increase.
Axis == {s \in Seq(Int) : s # <<>> /\ \A i, j \in DOMAIN s : i < j => s[i] < s[j]}

\* A table of slopes, of loads, of both or of neither, with a value at each point.
IsTable(T) ==
  /\ DOMAIN T.fmt \subseteq {InTrans, OutCap}
  /\ \A a \in DOMAIN T.fmt : T.fmt[a].indices \in Axis /\ T.fmt[a].stride \in Nat
  /\ \A p \in Points(T.fmt, DOMAIN T.fmt) : ValueAt(T, p) \in Int

ASSUME LibArcsAssumption == \A r \in LibArcs : \A T \in {r.delay, r.trans} \ {NoTable} : IsTable(T)

VARIABLE
  lib       \* lib[i]: the arcs of the cell that instance i places

Tabs == (UNION {{lib[i].delay, lib[i].trans} : i \in DOMAIN lib}) \ {NoTable}

\* An axis of T that has no negative breakpoints.
Upward(T, a) == \A k \in DOMAIN T.fmt[a].indices : T.fmt[a].indices[k] \in Nat

\* A table fixed at a breakpoint of an axis is the slice of it there, however
\* its values are laid out (phx_table_reduce). Axes with negative breakpoints are
\* not searched in their order (FindsBreakpoints).
ReduceIsSlice ==
  \A T \in Tabs : \A a \in {b \in DOMAIN T.fmt : Upward(T, b)} : \A k \in 0 .. Extent(T.fmt, a) - 1 :
    LET R == Reduce(T, Fixed(a, T.fmt[a].indices[k + 1]))
    IN  /\ DOMAIN R.fmt = DOMAIN T.fmt \ {a}
        /\ \A p \in Points(R.fmt, DOMAIN R.fmt) : ValueAt(R, p) = ValueAt(T, Moved(p, a, k))

\* A table read anywhere along such an axis, but at a negative number, gives a
\* value between those at the breakpoints around, and beyond its ends the value
\* there, whatever the search for the interval does (phx_table_axis_get_lerp).
LookupBounded ==
  \A T \in Tabs : \A a \in {b \in DOMAIN T.fmt : Upward(T, b)} :
    LET at == T.fmt[a].indices IN
    \A x \in {y \in at[1] - 1 .. at[Len(at)] + 1 : y \in Nat /\ ~LerpFails(at, y)} :
      LET R == Reduce(T, Fixed(a, x))
          lo == Max({1} \cup {k \in DOMAIN at : at[k] <= x})
          hi == Min({Len(at)} \cup {k \in DOMAIN at : at[k] >= x})
      IN  \A p \in Points(R.fmt, DOMAIN R.fmt) :
            LET V == {ValueAt(T, Moved(p, a, lo - 1)), ValueAt(T, Moved(p, a, hi - 1))}
            IN  ValueAt(R, p) \in Min(V) .. Max(V)

\* "If we find an exact match, no interpolation is necessary" (table-ops.c:19): a
\* breakpoint of an axis is found where it is.
FindsBreakpoints ==
  \A T \in Tabs : \A a \in DOMAIN T.fmt : \A k \in DOMAIN T.fmt[a].indices :
    Lookup(T.fmt[a].indices, T.fmt[a].indices[k]) = [at |-> k - 1, met |-> TRUE]

\* "Calculate the linear interpolation parameters for an index along a table axis"
\* (table-ops.c:6): between two breakpoints the value is on the line through those
\* at the two.
Interpolates ==
  \A T \in Tabs : \A a \in {b \in DOMAIN T.fmt : Upward(T, b)} :
    LET at == T.fmt[a].indices IN
    \A k \in 1 .. Len(at) - 1 : \A x \in at[k] .. at[k + 1] :
      LET R == Reduce(T, Fixed(a, x)) IN
      \A p \in Points(R.fmt, DOMAIN R.fmt) :
        ValueAt(R, p) = ((at[k + 1] - x) * ValueAt(T, Moved(p, a, k - 1)) + (x - at[k]) * ValueAt(T, Moved(p, a, k)))
                          \div (at[k + 1] - at[k])
===============================================================================
