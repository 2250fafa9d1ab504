------------------------------ MODULE Netlist -------------------------------
(* The nets of one cell as a script connects its terminals, call by call, in    *)
(* whatever order (connect, misc.c).  Two nets that need to be joined stop the   *)
(* program: the code asserts that this is not implemented.                       *)
EXTENDS NetOps, Reachability, FiniteSets

CONSTANTS Inst, Pin

Terminal == Terminals(Inst, Pin)

VARIABLES
  nets,    \* the nets of the cell, in the order of their creation
  halted,  \* an assertion has stopped the program
  wires    \* history: the pairs of terminals connected so far, both ways

netVars == <<nets, halted, wires>>

NetInit == nets = <<>> /\ halted = FALSE /\ wires = {}

\* What every call that returns leaves in the history.
Wire(a, b) == wires' = wires \cup {<<a, b>>, <<b, a>>} /\ UNCHANGED halted

\* Nothing is left to do.
Same(a, b) == SameNet(nets, a, b) /\ UNCHANGED nets /\ Wire(a, b)

\* Mutant of Create: does not ask whether b is on a net.
CreateUnasked(a, b) ==
  /\ On(nets, a) = {}
  /\ nets' = WithNewNet(nets, a, b)
  /\ Wire(a, b)

Create(a, b) ==
  /\ On(nets, a) = {} /\ On(nets, b) = {}
  /\ nets' = WithNewNet(nets, a, b)
  /\ Wire(a, b)

\* Mutant of Extend: does not ask whether t is on a net.
ExtendUnasked(a, b, k, t) ==
  /\ k \in On(nets, a) \cup On(nets, b) /\ t \in {a, b}
  /\ nets' = Extended(nets, k, t)
  /\ Wire(a, b)

\* k is the net of a or of b, and t is the other of the two.
Extend(a, b, k, t) ==
  /\ k \in On(nets, a) \cup On(nets, b) /\ t \in {a, b}
  /\ On(nets, t) = {}
  /\ nets' = Extended(nets, k, t)
  /\ Wire(a, b)

\* assert(0 && "not implemented").
Join(a, b) ==
  /\ NeedsJoin(nets, a, b)
  /\ halted' = TRUE
  /\ UNCHANGED <<nets, wires>>

NetNext ==
  /\ ~halted
  /\ \E a, b \in Terminal :
       \/ Same(a, b)
       \/ Create(a, b)
       \/ \E k \in DOMAIN nets, t \in Terminal : Extend(a, b, k, t)
       \/ Join(a, b)

NetSpec == NetInit /\ [][NetNext]_netVars

-----------------------------------------------------------------------------
(* Nets list two terminals of the cell or more; the history is of terminals.   *)
Net == {net \in [conns : Seq(Terminal), exposed : BOOLEAN] : Len(net.conns) >= 2}

NetTypeOK == /\ nets \in Seq(Net)
          /\ halted \in BOOLEAN
          /\ wires \in SUBSET (Terminal \X Terminal)

(* A terminal is on one net at most: the assertions of connect (misc.c:53, 57) *)
(* never fail, whatever was connected before.                                  *)
TerminalOnOneNet ==
  \A t \in Terminal : \A j, k \in On(nets, t) : j = k

(* A net is exposed exactly when a pin of the cell itself is on it, in whatever *)
(* order its terminals arrived (misc.c:78-79, 87-88, 92-93).                   *)
ExposedIffOuter ==
  \A k \in DOMAIN nets :
     nets[k].exposed <=> \E t \in Terminal : Outer(t) /\ Lists(nets[k], t)

(* Until a join stops the program the nets are the components of what was      *)
(* connected: two terminals are on one net exactly when a chain of connections *)
(* leads from one to the other.                                                *)
Joined(t) == Reach(Terminal, {t}, wires)

NetsAreComponents ==
  \A t, u \in Terminal : t # u => (SameNet(nets, t, u) <=> u \in Joined(t))

(* A net lists a terminal once, unless the script connected it to itself       *)
(* first: then phx_cell_update_capacitances counts its pin twice.              *)
ListedOnce ==
  \A k \in DOMAIN nets : \A i, j \in DOMAIN nets[k].conns :
     i # j /\ nets[k].conns[i] = nets[k].conns[j]
       => <<nets[k].conns[i], nets[k].conns[i]>> \in wires

-----------------------------------------------------------------------------
(* The inductive invariant behind NetsAreComponents.                           *)

\* Both ends of a connection are on one net.
WiresAreOnNets == \A e \in wires : SameNet(nets, e[1], e[2])

\* Terminals on one net are connected by a chain.
NetsAreJoined == \A t, u \in Terminal : SameNet(nets, t, u) => u \in Joined(t)

NetInv == /\ NetTypeOK /\ TerminalOnOneNet /\ ExposedIffOuter /\ ListedOnce
        /\ WiresAreOnNets /\ NetsAreJoined

=============================================================================
