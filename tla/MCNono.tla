------------------------------- MODULE MCNono -------------------------------
(***************************************************************************)
(* Instances of NonoCalls for TLC.  A run is a set of handles and the set  *)
(* of calls its goroutines may make on them.                               *)
(***************************************************************************)
EXTENDS NonoInvariant, TLC

CONSTANTS g1, g2, g3, c1, c2, q1, s1, t1, t2, t3, nul, garbage

Call(op, h) == [op |-> op, h |-> h, str |-> Nil, val |-> Nil]

CallWith(op, h, str, val) == [op |-> op, h |-> h, str |-> str, val |-> val]

Read == {"r"}

ReadWrite == {"r", "w"}

\* dir holds file; any path lies under itself.
MCUnder == {<<"dir", "dir">>, <<"file", "file">>, <<"dir", "file">>}

ThreadSymmetry == Permutations(Threads)

BothSymmetry == Permutations(Threads) \cup Permutations(Goroutines)

(* One capability set: mutation, enumeration, Apply and Close collide.     *)
CapsCalls ==
    {Call("New", Nil), Call("FSCapabilities", c1), Call("Deduplicate", c1),
     Call("Apply", c1), Call("CloseCaps", c1),
     CallWith("AllowPath", c1, "dir", Read), CallWith("AllowPath", c1, "dir", ReadWrite)}

(* Failing calls: writers, readers sharing a read lock, and no lock at all.*)
ErrorCalls ==
    {Call("New", Nil), Call("NewQueryContext", c1), CallWith("AllowPath", c1, "dir", Read),
     CallWith("QueryPath", q1, "file", Read), Call("QueryNetwork", q1),
     CallWith("StateFromJSON", Nil, garbage, Nil), Call("Version", Nil)}

(* Making, cloning, dropping and closing handles of two kinds.             *)
LifeCalls ==
    {Call("New", Nil), Call("StateFromCaps", c1), Call("Caps", s1), Call("Apply", c1),
     Call("CloseCaps", c1), Call("CloseState", s1), CallWith("AllowPath", c1, "dir", Read)}

(* Enumerations that overlap for ever, a writer, Close and the collector.  *)
LiveCalls ==
    {Call("New", Nil), Call("FSCapabilities", c1), CallWith("AllowPath", c1, "dir", Read),
     Call("CloseCaps", c1)}

(* Every method of CapabilitySet, with good and bad arguments.             *)
MethodCalls ==
    {Call("New", Nil), Call("Apply", Nil)}
    \cup {Call(op, c1) : op \in {"Apply", "Deduplicate", "NetworkMode", "ProxyPort",
                                 "IsNetworkBlocked", "Summary", "FSCapabilities", "CloseCaps"}}
    \cup {CallWith("SetNetworkBlocked", c1, Nil, b) : b \in BOOLEAN}
    \cup {CallWith("SetNetworkMode", c1, Nil, "ProxyOnly"), CallWith("SetProxyPort", c1, Nil, 8080)}
    \cup {CallWith("AllowPath", c1, p, Read) : p \in {"dir", nul}}
    \cup {CallWith("AllowFile", c1, p, ReadWrite) : p \in {"file", nul}}
    \cup {CallWith(op, c1, s, Nil) : op \in {"AllowCommand", "BlockCommand", "AddPlatformRule"},
                                     s \in {"s", nul}}
    \cup {CallWith("PathCovered", c1, p, Nil) : p \in {"file", nul}}

(* Every other function and method, with good and bad arguments.           *)
SnapshotCalls ==
    {Call(op, Nil) : op \in {"New", "Version", "IsSupported", "SupportInfo",
                             "NewQueryContext", "StateFromCaps"}}
    \cup {Call(op, c1) : op \in {"NewQueryContext", "StateFromCaps", "CloseCaps"}}
    \cup {Call("QueryNetwork", q1), Call("CloseQuery", q1), Call("JSON", s1), Call("Caps", s1),
          Call("CloseState", s1)}
    \cup {CallWith("SetNetworkMode", c1, Nil, "ProxyOnly"),
          CallWith("AllowPath", c1, "dir", Read)}
    \cup {CallWith("QueryPath", q1, p, m) : p \in {"dir", "file", nul}, m \in {Read, ReadWrite}}
    \cup {CallWith("StateFromJSON", Nil, d, Nil) : d \in {garbage, nul, ToJSON(EmptyContent)}}
=============================================================================
