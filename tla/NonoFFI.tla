------------------------------ MODULE NonoFFI ------------------------------
(***************************************************************************)
(* The C library behind internal/clib/nono.h, as far as the Go bindings    *)
(* rely on it: what each function does to the object it is given and what  *)
(* it returns when it succeeds.  The library's own source is not part of   *)
(* the repository, so everything here is external; where the header leaves *)
(* a result open the operators allow every answer.                         *)
(*                                                                         *)
(* An operation is named after the Go method that makes the call.          *)
(***************************************************************************)
EXTENDS Integers, Sequences, Functions

CONSTANTS
    Nil,         \* a NULL pointer, an absent value
    Under,       \* <<dir, path>> : path is dir itself or lies below it
    DefaultNet,  \* the network mode of a new set, which the header leaves open
    Malformed,   \* the JSON arguments that do not parse
    MaxEntries   \* bound: the library refuses more filesystem capabilities

NetworkModes == {"Blocked", "AllowAll", "ProxyOnly"}

(***************************************************************************)
(* The content of an object.  A query context and a sandbox state hold a   *)
(* clone of a capability set, so the three kinds share one shape.  rules   *)
(* stands for the command lists and the platform rules, which nothing but  *)
(* the summary shows.                                                      *)
(***************************************************************************)
EmptyContent == [fs |-> <<>>, net |-> DefaultNet, port |-> 0, rules |-> {}]

Entry(path, access, isFile) == [path |-> path, access |-> access, file |-> isFile]

IsContent(c) ==
    /\ DOMAIN c = {"fs", "net", "port", "rules"}
    /\ c.fs \in Seq(Range(c.fs))
    /\ \A e \in Range(c.fs) : e = Entry(e.path, e.access, e.file) /\ e.file \in BOOLEAN

AddEntry(c, e) ==
    IF Len(c.fs) < MaxEntries THEN {[c EXCEPT !.fs = Append(@, e)]} ELSE {}

\* A change of mode may keep or forget a port given earlier.
SetMode(c, mode) ==
    {[c EXCEPT !.net = mode, !.port = p] : p \in IF mode = c.net THEN {c.port} ELSE {c.port, 0}}

\* Outside proxy mode the port is "not meaningful": stored or dropped.
SetPort(c, port) ==
    {[c EXCEPT !.port = p] : p \in IF c.net = "ProxyOnly" THEN {port} ELSE {port, c.port}}

\* Entry i adds nothing: an entry for the same path grants more, or as much and comes first.
Redundant(fs, i) ==
    \E j \in DOMAIN fs \ {i} :
        /\ fs[j].path = fs[i].path /\ fs[j].file = fs[i].file
        /\ fs[i].access \subseteq fs[j].access
        /\ fs[i].access # fs[j].access \/ j < i

\* What remains, in the order it had.
Deduplicated(c) ==
    LET kept == {i \in DOMAIN c.fs : ~Redundant(c.fs, i)}
        inOrder == {f \in UNION {[1..n -> kept] : n \in 0..Len(c.fs)} :
                       /\ Range(f) = kept
                       /\ \A j, k \in DOMAIN f : j < k => f[j] < f[k]}
    IN  {[c EXCEPT !.fs = [k \in DOMAIN f |-> c.fs[f[k]]]] : f \in inOrder}

Covering(c, path) ==
    {e \in {c.fs[i] : i \in DOMAIN c.fs} :
        IF e.file THEN e.path = path ELSE <<e.path, path>> \in Under}

CResult(status, reason, path, access, granted, requested) ==
    [status |-> status, reason |-> reason, granted_path |-> path,
     access |-> access, granted |-> granted, requested |-> requested]

QueryPathResults(c, path, mode) ==
    LET covering == Covering(c, path)
        granting == {e \in covering : mode \subseteq e.access}
    IN  IF granting # {}
          THEN {CResult("Allowed", "GrantedPath", e.path, e.access, Nil, Nil) : e \in granting}
        ELSE IF covering # {}
          THEN {CResult("Denied", "InsufficientAccess", Nil, Nil, e.access, mode) : e \in covering}
        ELSE {CResult("Denied", "PathNotGranted", Nil, Nil, Nil, Nil)}

QueryNetworkResults(c) ==
    {CResult(a[1], a[2], Nil, Nil, Nil, Nil) :
        a \in {b \in {<<"Allowed", "NetworkAllowed">>, <<"Denied", "NetworkBlocked">>} :
                 /\ c.net = "AllowAll" => b[1] = "Allowed"
                 /\ c.net = "Blocked" => b[1] = "Denied"}}

ToJSON(c) == [json |-> c]

FromJSON(doc) == IF doc \in Malformed THEN {} ELSE {doc.json}

(***************************************************************************)
(* What a successful call may leave in the object and what it returns.     *)
(***************************************************************************)
\* The functions that take their object as a non-const pointer.
Mutators ==
    {"AllowPath", "AllowFile", "SetNetworkBlocked", "SetNetworkMode", "SetProxyPort",
     "AllowCommand", "BlockCommand", "AddPlatformRule", "Deduplicate",
     "CloseCaps", "CloseQuery", "CloseState"}

\* The functions with a const char * argument, which C reads up to its first NUL.
StringFunctions ==
    {"AllowPath", "AllowFile", "AllowCommand", "BlockCommand", "AddPlatformRule",
     "PathCovered", "QueryPath", "StateFromJSON"}

\* The contents a mutator may leave behind.
Mutated(op, c, str, val) ==
    CASE op = "AllowPath"         -> AddEntry(c, Entry(str, val, FALSE))
      [] op = "AllowFile"         -> AddEntry(c, Entry(str, val, TRUE))
      [] op = "SetNetworkBlocked" -> SetMode(c, IF val THEN "Blocked" ELSE "AllowAll")
      [] op = "SetNetworkMode"    -> SetMode(c, val)
      [] op = "SetProxyPort"      -> SetPort(c, val)
      [] op = "Deduplicate"       -> Deduplicated(c)
      [] OTHER                    -> {[c EXCEPT !.rules = @ \cup {<<op, str>>}]}

\* The answers of the others; Version, IsSupported and SupportInfo have a fixed one.
Answers(op, c, str, val) ==
    CASE op = "NetworkMode"       -> {c.net}
      [] op = "ProxyPort"         -> {IF c.net = "ProxyOnly" THEN c.port ELSE 0}
      [] op = "IsNetworkBlocked"  -> {c.net = "Blocked"}
      [] op = "PathCovered"       -> {\E e \in Covering(c, str) : ~e.file}
      [] op = "Summary"           -> {c}
      [] op = "JSON"              -> {ToJSON(c)}
      [] op = "QueryPath"         -> QueryPathResults(c, str, val)
      [] op = "QueryNetwork"      -> QueryNetworkResults(c)
      [] OTHER                    -> {Nil}

Outcomes(op, c, str, val) ==
    IF op \in Mutators
      THEN {[post |-> p, val |-> Nil] : p \in Mutated(op, c, str, val)}
      ELSE {[post |-> c, val |-> v] : v \in Answers(op, c, str, val)}

\* The contents a function that makes a new object may give it; c is its receiver's.
Produced(op, c, str) ==
    IF op = "New" THEN {EmptyContent}
    ELSE IF op = "StateFromJSON" THEN FromJSON(str)
    ELSE {c}     \* a clone
=============================================================================
