------------------------------ MODULE MCStrings ------------------------------
(***************************************************************************)
(* Instances of NonoStrings for TLC: one call of every kind that has a     *)
(* string to pass or to convert.                                           *)
(***************************************************************************)
EXTENDS NonoStrings, TLC

CONSTANTS g1, g2, c1, q1, s1, nul, garbage

Call(op, h, str) == [op |-> op, h |-> h, str |-> str, val |-> Nil]

StringCallsOfAllKinds ==
    {Call("AllowPath", c1, p) : p \in {"dir", nul}}
    \cup {Call("QueryPath", q1, "dir"), Call("FSCapabilities", c1, Nil), Call("SupportInfo", Nil, Nil),
          Call("JSON", s1, Nil), Call("StateFromJSON", Nil, garbage), Call("New", Nil, Nil),
          Call("PathCovered", c1, "dir"), Call("NewQueryContext", c1, Nil)}

AnySymmetry == Permutations(Goroutines) \cup Permutations(Addresses)
=============================================================================
