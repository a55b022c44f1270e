----------------------------- MODULE MCDispatch -----------------------------
EXTENDS Dispatch, TLC

CONSTANT c1

\* Every connection uses the same ctid, one after the other, ...
OneCtid == [k \in Conns |-> c1]

\* ... and has a tuple of its own: the connection itself stands for it.
OwnTuple == [k \in Conns |-> k]

Symmetry == Permutations(Conns) \cup Permutations(Packets)

=============================================================================
