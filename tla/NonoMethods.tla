---------------------------- MODULE NonoMethods ----------------------------
(***************************************************************************)
(* The exported methods of the package.  They all have one shape: check    *)
(* the arguments, take the handle's lock, return early if the handle is    *)
(* closed, pin the goroutine to its OS thread, call the C library, and     *)
(* turn the answer into Go values.  A method is the record of what it does *)
(* at each of these points:                                                *)
(*   handle  the argument whose mu and ptr it uses: its receiver, a        *)
(*           *CapabilitySet argument it first compares with nil ("guarded")*)
(*           or no handle at all                                           *)
(*   lock    "W" for mu.Lock, "R" for mu.RLock                             *)
(*   string  it has a string argument, which checkNUL sees first           *)
(*   closed  its result when ptr is nil                                    *)
(*   pin     it calls LockOSThread before the C call                       *)
(*   fails   how a failed C call is reported: "code" and "unknown" go      *)
(*           through mapError, with the C code or with ErrCodeUnknown;     *)
(*           "static" uses staticError; "panic"; or the call cannot fail   *)
(* Concurrent and atomic specifications read the same table.               *)
(***************************************************************************)
EXTENDS NonoFFI

CONSTANTS
    CapsHandles,   \* the values of type *CapabilitySet a run can make,
    QueryHandles,  \* *QueryContext
    StateHandles,  \* and *SandboxState
    NulStrings,    \* the string arguments with a NUL byte in them
    FailCodes      \* the error codes the failing C calls of a run return

Handles == CapsHandles \cup QueryHandles \cup StateHandles

(* Results: an error code with its message, or "OK" with a value. *)
Ok(v) == [code |-> "OK", msg |-> Nil, val |-> v]

mapped(code, msg) == [code |-> code, msg |-> msg, val |-> Nil]

staticError(code, msg) == [code |-> code, msg |-> msg, val |-> Nil]

NoResult == [code |-> Nil, msg |-> Nil, val |-> Nil]

isOK(r) == r.code = "OK"

errCapSetClosed == staticError("InvalidArg", "capability set is closed")

errSandboxStateClosed == staticError("InvalidArg", "sandbox state is closed")

errQueryContextClosed == staticError("InvalidArg", "query context is closed")

errNilCaps == staticError("InvalidArg", "nil capability set")

(***************************************************************************)
(* Shapes several methods share.                                           *)
(***************************************************************************)
Mutation(takesString) ==
    [handle |-> "receiver", lock |-> "W", string |-> takesString,
     closed |-> errCapSetClosed, pin |-> TRUE, fails |-> "code"]

Getter(takesString, zero) ==
    [handle |-> "receiver", lock |-> "R", string |-> takesString,
     closed |-> Ok(zero), pin |-> FALSE, fails |-> "never"]

Reader(takesString, closed, fails) ==
    [handle |-> "receiver", lock |-> "R", string |-> takesString,
     closed |-> closed, pin |-> TRUE, fails |-> fails]

Snapshot ==
    [handle |-> "guarded", lock |-> "R", string |-> FALSE,
     closed |-> errCapSetClosed, pin |-> FALSE, fails |-> "static"]

Global(takesString, pin, fails) ==
    [handle |-> "none", lock |-> "none", string |-> takesString,
     closed |-> NoResult, pin |-> pin, fails |-> fails]

Closer ==
    [handle |-> "receiver", lock |-> "W", string |-> FALSE,
     closed |-> Ok(Nil), pin |-> FALSE, fails |-> "never"]

(* Package functions. *)
New == Global(FALSE, FALSE, "panic")

Version == Global(FALSE, FALSE, "never")

IsSupported == Global(FALSE, FALSE, "never")

SupportInfo == Global(FALSE, FALSE, "never")

\* Mutant: no checkNUL.
StateFromJSONUnchecked == Global(FALSE, TRUE, "unknown")

StateFromJSON == Global(TRUE, TRUE, "unknown")

Apply ==
    [handle |-> "guarded", lock |-> "W", string |-> FALSE,
     closed |-> errCapSetClosed, pin |-> TRUE, fails |-> "code"]

NewQueryContext == Snapshot

StateFromCaps == Snapshot

(* Methods of CapabilitySet. *)
AllowPath == Mutation(TRUE)

AllowFile == Mutation(TRUE)

SetNetworkBlocked == Mutation(FALSE)

SetNetworkMode == Mutation(FALSE)

SetProxyPort == Mutation(FALSE)

AllowCommand == Mutation(TRUE)

BlockCommand == Mutation(TRUE)

AddPlatformRule == Mutation(TRUE)

\* Mutant: deduplicates under the read lock.
DeduplicateReadLocked ==
    [handle |-> "receiver", lock |-> "R", string |-> FALSE,
     closed |-> errCapSetClosed, pin |-> FALSE, fails |-> "never"]

Deduplicate ==
    [handle |-> "receiver", lock |-> "W", string |-> FALSE,
     closed |-> errCapSetClosed, pin |-> FALSE, fails |-> "never"]

\* Mutant: a closed set allows the network.
NetworkModeAllows == Getter(FALSE, "AllowAll")

NetworkMode == Getter(FALSE, "Blocked")

ProxyPort == Getter(FALSE, 0)

\* Mutant: no checkNUL.
PathCoveredUnchecked == Getter(FALSE, FALSE)

PathCovered == Getter(TRUE, FALSE)

IsNetworkBlocked == Getter(FALSE, FALSE)

Summary == Getter(FALSE, Nil)

FSCapabilities == Getter(FALSE, Nil)

(* Methods of QueryContext and SandboxState. *)
\* Mutant: no LockOSThread.
QueryPathUnpinned == [Reader(TRUE, errQueryContextClosed, "code") EXCEPT !.pin = FALSE]

QueryPath == Reader(TRUE, errQueryContextClosed, "code")

QueryNetwork == Reader(FALSE, errQueryContextClosed, "code")

JSON == Reader(FALSE, errSandboxStateClosed, "unknown")

Caps == Reader(FALSE, errSandboxStateClosed, "unknown")

(* Close of each of the three types. *)
CloseCaps == Closer

CloseQuery == Closer

CloseState == Closer

Methods ==
    [New |-> New, Version |-> Version, IsSupported |-> IsSupported, SupportInfo |-> SupportInfo,
     StateFromJSON |-> StateFromJSON, Apply |-> Apply, NewQueryContext |-> NewQueryContext,
     StateFromCaps |-> StateFromCaps, AllowPath |-> AllowPath, AllowFile |-> AllowFile,
     SetNetworkBlocked |-> SetNetworkBlocked, SetNetworkMode |-> SetNetworkMode,
     SetProxyPort |-> SetProxyPort, AllowCommand |-> AllowCommand, BlockCommand |-> BlockCommand,
     AddPlatformRule |-> AddPlatformRule, Deduplicate |-> Deduplicate,
     NetworkMode |-> NetworkMode, ProxyPort |-> ProxyPort, PathCovered |-> PathCovered,
     IsNetworkBlocked |-> IsNetworkBlocked, Summary |-> Summary,
     FSCapabilities |-> FSCapabilities, QueryPath |-> QueryPath, QueryNetwork |-> QueryNetwork,
     JSON |-> JSON, Caps |-> Caps, CloseCaps |-> CloseCaps, CloseQuery |-> CloseQuery,
     CloseState |-> CloseState]

Operations == DOMAIN Methods

Method(op) == Methods[op]

Closers == {"CloseCaps", "CloseQuery", "CloseState"}

Creators == {"New", "NewQueryContext", "StateFromCaps", "StateFromJSON", "Caps"}

\* The handles a creator can return.
Makes(op) ==
    IF op \in {"New", "Caps"} THEN CapsHandles
    ELSE IF op = "NewQueryContext" THEN QueryHandles
    ELSE IF op \in {"StateFromCaps", "StateFromJSON"} THEN StateHandles
    ELSE {}

(***************************************************************************)
(* A call: the operation, its handle, a string argument and another one.   *)
(***************************************************************************)
checkNUL(s) ==
    IF s \in NulStrings
      THEN staticError("InvalidArg", "string contains NUL byte")
      ELSE NoResult

NoCall == [op |-> "Version", h |-> Nil, str |-> Nil, val |-> Nil]

\* The call the finalizer of h makes.
CloseCall(h) ==
    [op |-> IF h \in CapsHandles THEN "CloseCaps"
            ELSE IF h \in QueryHandles THEN "CloseQuery"
            ELSE "CloseState",
     h |-> h, str |-> Nil, val |-> Nil]

\* The handles a call with result r hands to its caller.
Returned(call, r) ==
    IF call.op \in Creators /\ isOK(r) THEN {r.val} ELSE {}

\* The error a call returns before it looks at its handle, or NoResult.
ArgumentError(call) ==
    IF Method(call.op).string THEN checkNUL(call.str)
    ELSE IF Method(call.op).handle = "guarded" /\ call.h = Nil THEN errNilCaps
    ELSE NoResult

(***************************************************************************)
(* The Go value made of what C returned.  goString makes "" of NULL, which *)
(* Nil stands for on both sides.                                           *)
(***************************************************************************)
\* Mutant: the C names granted and requested mixed up.
extractQueryResultSwapped(r) ==
    [Status |-> r.status, Reason |-> r.reason,
     GrantedPath |-> r.granted_path, GrantedAccess |-> r.access,
     ActualAccess |-> r.requested, RequestedAccess |-> r.granted]

extractQueryResult(r) ==
    [Status |-> r.status, Reason |-> r.reason,
     GrantedPath |-> r.granted_path, GrantedAccess |-> r.access,
     ActualAccess |-> r.granted, RequestedAccess |-> r.requested]

GoValue(op, v) ==
    IF op \in {"QueryPath", "QueryNetwork"} THEN extractQueryResult(v) ELSE v

(***************************************************************************)
(* The error codes a failed C call of op is reported with.                 *)
(***************************************************************************)
ErrorCodes(op) ==
    IF Method(op).fails = "code" THEN FailCodes
    ELSE IF Method(op).fails = "unknown" THEN {"Unknown"}
    ELSE {}

\* The messages the package makes up itself.
Messages ==
    {"unknown error", "string contains NUL byte", "nil capability set", "capability set is closed",
     "sandbox state is closed", "query context is closed", "failed to create query context",
     "failed to create sandbox state", "nono_capability_set_new returned nil"}

\* Failures of which the library leaves no message.
SilentFailures(op) ==
    IF op = "NewQueryContext" THEN {staticError("Unknown", "failed to create query context")}
    ELSE IF op = "StateFromCaps" THEN {staticError("Unknown", "failed to create sandbox state")}
    ELSE IF op = "New" THEN {staticError("panic", "nono_capability_set_new returned nil")}
    ELSE {}
=============================================================================
