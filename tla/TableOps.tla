------------------------------ MODULE TableOps -------------------------------
(* The operations that read, cut and join lookup tables (table-ops.c), and their *)
(* sum (table.c).                                                                *)
(*                                                                               *)
(* A number stands for a double, in steps of the smallest difference. The search *)
(* along an axis does not compare doubles but subtracts their bit patterns as    *)
(* signed integers: the pattern is the magnitude, with the sign in the top bit.  *)
EXTENDS Tables

CONSTANT
  Wraps   \* does a signed difference that overflows wrap around? The language
          \* leaves it to the build; in the others its sign is the exact one

ASSUME WrapsAssumption == Wraps \in BOOLEAN

\* The difference of the patterns of x and y: of two negative numbers the smaller
\* one has the larger pattern, and across zero the difference may not fit.
Overflows(x, y) == IF x < 0 THEN y >= 0 /\ -x < y ELSE y < 0 /\ x >= -y
Difference(x, y) == IF (x < 0 /\ y < 0) \/ (Wraps /\ Overflows(x, y)) THEN y - x ELSE x - y

\* The search of phx_table_axis_get_lerp: where it ends, and whether it met x.
Lookup(indices, x) ==
  LET Spans == (0 .. Len(indices)) \X (0 .. Len(indices))
      find[r \in Spans] ==
        LET mid  == r[1] + (r[2] - r[1]) \div 2
            diff == Difference(x, indices[mid + 1])
        IN  IF r[1] >= r[2] THEN [at |-> r[1], met |-> FALSE]
            ELSE IF diff < 0 THEN find[<<r[1], mid>>]
            ELSE IF diff > 0 THEN find[<<mid + 1, r[2]>>]
            ELSE [at |-> mid, met |-> TRUE]
  IN  find[<<0, Len(indices)>>]

Clamp(x, lo, hi) == IF x < lo THEN lo ELSE IF x > hi THEN hi ELSE x

\* Mutant of AxisLerp: the last interval is not kept for what lies beyond it.
AxisLerpUnclamped(indices, x) ==
  LET b == Lookup(indices, x)
      s == IF b.at + 1 >= Len(indices) THEN Len(indices) - 2 ELSE b.at
      w == indices[s + 2] - indices[s + 1]
  IN  IF b.met THEN [lower |-> b.at, upper |-> b.at, num |-> 0, den |-> 1]
      ELSE [lower |-> s, upper |-> s + 1, num |-> x - indices[s + 1], den |-> w]

\* phx_table_axis_get_lerp, with the factor num / den. A search that ends behind
\* the breakpoints below x takes the interval after x unless there is none.
AxisLerp(indices, x) ==
  LET b == Lookup(indices, x)
      s == IF b.at + 1 >= Len(indices) THEN Len(indices) - 2 ELSE b.at
      w == indices[s + 2] - indices[s + 1]
  IN  IF b.met THEN [lower |-> b.at, upper |-> b.at, num |-> 0, den |-> 1]
      ELSE [lower |-> s, upper |-> s + 1, num |-> Clamp(x - indices[s + 1], 0, w), den |-> w]

\* Its assertion fails for a single breakpoint that is not met.
LerpFails(indices, x) == Len(indices) < 2 /\ ~Lookup(indices, x).met

-------------------------------------------------------------------------------
\* The places of the source that one value is read from, with their weights: each
\* axis doubles them. Only the first half keeps what earlier axes added to it.
LerpSlots(fmt, lerps) ==
  FoldLeft(LAMBDA s, l :
             [at  |-> [k \in DOMAIN s.at |-> [off |-> s.at[k].off + l.by.lower * fmt[l.axis].stride,
                                              w   |-> s.at[k].w * (l.by.den - l.by.num)]]
                      \o [k \in DOMAIN s.at |-> [off |-> l.by.upper * fmt[l.axis].stride,
                                                 w   |-> l.by.num * s.den]],
              den |-> s.den * l.by.den],
           [at |-> <<[off |-> 0, w |-> 1]>>, den |-> 1], lerps)

Narrow(p, A) == [a \in A |-> p[a]]

\* Mutant of CopyValues: the copy walks the source with the strides of the target.
CopyValuesOneStride(A, dst, src, at, lerps) ==
  LET shared == A \cap DOMAIN dst.fmt
      slots  == LerpSlots(src.fmt, lerps)
      Value(p) == MapThenSumSet(LAMBDA k :
                    slots.at[k].w * src.data[(Offset(dst.fmt, Narrow(p, shared \cap DOMAIN src.fmt)) + slots.at[k].off)
                                             % Cardinality(DOMAIN src.data)],
                    DOMAIN slots.at) \div slots.den
  IN  [dst EXCEPT !.data = [k \in DOMAIN @ |->
         LET hit == {p \in Points(dst.fmt, shared) : at + Offset(dst.fmt, p) = k}
         IN  IF hit = {} THEN @[k] ELSE Value(CHOOSE p \in hit : TRUE)]]

\* phx_table_copy_values into the part of dst that begins at `at`.
CopyValues(A, dst, src, at, lerps) ==
  LET shared == A \cap DOMAIN dst.fmt
      slots  == LerpSlots(src.fmt, lerps)
      Value(p) == MapThenSumSet(LAMBDA k :
                    slots.at[k].w * src.data[Offset(src.fmt, Narrow(p, shared \cap DOMAIN src.fmt)) + slots.at[k].off],
                    DOMAIN slots.at) \div slots.den
  IN  [dst EXCEPT !.data = [k \in DOMAIN @ |->
         LET hit == {p \in Points(dst.fmt, shared) : at + Offset(dst.fmt, p) = k}
         IN  IF hit = {} THEN @[k] ELSE Value(CHOOSE p \in hit : TRUE)]]

\* phx_table_get_lerp for an axis the table has.
GetLerp(T, a, x) == [axis |-> a, by |-> AxisLerp(T.fmt[a].indices, x)]

\* One axis fixed at x.
Fixed(a, x) == [b \in {a} |-> x]

\* phx_table_reduce: fixes maps axes to values; those T lacks are ignored.
Reduce(T, fixes) ==
  LET cut  == DOMAIN T.fmt \cap DOMAIN fixes
      rest == DOMAIN T.fmt \ cut
      order == ByNumber(cut)
  IN  IF cut = {} THEN T
      ELSE CopyValues(rest, CreateWithFormat(UpdateStrides([a \in rest |-> T.fmt[a].indices])), T, 0,
                      [k \in DOMAIN order |-> GetLerp(T, order[k], fixes[order[k]])])

\* phx_table_join: the values of Ti are where Tb is read along axis a. Where a row
\* goes is counted with the strides of Tb, which must have the axes of Ti.
TableJoin(Tb, a, Ti) ==
  LET rest    == DOMAIN Tb.fmt \ {a}
      indices == [b \in rest \cup DOMAIN Ti.fmt |->
                    IF b \in DOMAIN Ti.fmt THEN Ti.fmt[b].indices ELSE Tb.fmt[b].indices]
      order   == UpdateStrides([b \in DOMAIN Ti.fmt |-> Ti.fmt[b].indices])
      rows    == SetToSortSeq(Points(Ti.fmt, DOMAIN Ti.fmt), LAMBDA p, q : Offset(order, p) < Offset(order, q))
  IN  IF a \notin DOMAIN Tb.fmt THEN Tb
      ELSE IF DOMAIN Ti.fmt = {} THEN Reduce(Tb, Fixed(a, Ti.data[0]))
      ELSE FoldLeft(LAMBDA T, p : CopyValues(rest, T, Tb, Offset(Tb.fmt, p), <<GetLerp(Tb, a, ValueAt(Ti, p))>>),
                    CreateWithFormat(UpdateStrides(indices)), rows)

\* phx_table_add walks the own axes of the three tables: along an axis that a
\* table does not list it is taken to be constant.
AddFails(Tr, T) == \E a \in OwnAxes(Tr) \cap OwnAxes(T) : Tr.fmt[a].indices # T.fmt[a].indices
Add(Tr, Ta, Tb) ==
  [Tr EXCEPT !.data = [k \in DOMAIN @ |->
     LET p == CHOOSE q \in Points(Tr.fmt, OwnAxes(Tr)) : Offset(Tr.fmt, q) = k
         At(T) == T.data[Offset(T.fmt, Narrow(p, OwnAxes(Tr) \cap OwnAxes(T)))]
     IN  At(Ta) + At(Tb)]]
===============================================================================
