------------------------------- MODULE NetOps -------------------------------
(* The nets of a cell (struct phx_net) and what connect() does to them.  A      *)
(* terminal is a pin of an instance in the cell or, with no instance, a pin of  *)
(* the cell itself.  Connections are a sequence, as the array is: a terminal    *)
(* may be listed more than once.                                                *)
EXTENDS Naturals, Sequences

CONSTANTS NoInst   \* the NULL instance of a pin of the cell itself

Terminals(inst, pin) == [inst : inst \cup {NoInst}, pin : pin]

Outer(t) == t.inst = NoInst

Lists(net, t) == \E k \in DOMAIN net.conns : net.conns[k] = t

\* phx_net_connects_to, for all nets of the cell.
On(nets, t) == {k \in DOMAIN nets : Lists(nets[k], t)}

\* Both terminals are on one net already.
SameNet(nets, a, b) == On(nets, a) \cap On(nets, b) # {}

\* The third case of connect: both are on nets, and those are two.
NeedsJoin(nets, a, b) ==
  /\ On(nets, a) # {} /\ On(nets, b) # {}
  /\ ~SameNet(nets, a, b)

\* The first case: neither is on a net and one is created for them.
WithNewNet(nets, a, b) ==
  Append(nets, [conns |-> <<a, b>>, exposed |-> Outer(a) \/ Outer(b)])

\* Mutant of Extended: a pin of the cell does not expose the net it joins.
ExtendedUnexposed(nets, k, t) ==
  [nets EXCEPT ![k] = [conns |-> Append(@.conns, t), exposed |-> @.exposed]]

\* Mutant of Extended: lists once more the terminal the net was found by.
ExtendedTwice(nets, k, t) ==
  [nets EXCEPT ![k] = [conns |-> Append(@.conns, @.conns[1]), exposed |-> @.exposed \/ Outer(t)]]

\* The second case: one is on net k, which the other, t, joins.
Extended(nets, k, t) ==
  [nets EXCEPT ![k] = [conns |-> Append(@.conns, t), exposed |-> @.exposed \/ Outer(t)]]

=============================================================================
