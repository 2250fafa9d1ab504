---------------------------- MODULE Reachability ----------------------------
(* Reachability along a relation, as the least set that contains the start and *)
(* is closed under the relation: what a recursive walk that follows the pairs  *)
(* of the relation visits, in whatever order it follows them.                  *)

ClosedUnder(S, step) == \A e \in step : e[1] \in S => e[2] \in S

\* The elements of node reached from the set start along the pairs of step.
Reach(node, start, step) ==
  {n \in node : \A S \in SUBSET node : start \subseteq S /\ ClosedUnder(S, step) => n \in S}

=============================================================================
