----------------------------- MODULE NonoErrors -----------------------------
(***************************************************************************)
(* The error values of the package as objects: the sentinels, the *Error   *)
(* that mapError and staticError make for every failure, and what the      *)
(* program may do with a pointer to one.  The fields of Error are          *)
(* unexported, but Go lets any package assign one struct to another as a   *)
(* whole, *p = *q or *p = nono.Error{}.                                    *)
(***************************************************************************)
EXTENDS Integers

CONSTANTS
    Nil,                \* no object, no code
    Slots,              \* where errors can be allocated
    Unlisted,           \* codes a newer library may return
    Reports,            \* the texts nono_last_error may return; "" for NULL
    SentinelsInReach    \* whether the program also assigns through sentinels

\* The failures of NonoErrorCode.
ErrorCodes ==
    [PathNotFound |-> -1, ExpectedDirectory |-> -2, ExpectedFile |-> -3,
     PathCanonicalization |-> -4, NoCapabilities |-> -5, SandboxInit |-> -6,
     UnsupportedPlatform |-> -7, BlockedCommand |-> -8, ConfigParse |-> -9,
     ProfileParse |-> -10, IO |-> -11, InvalidArg |-> -12, TrustVerification |-> -13,
     Unknown |-> -99]

Names == DOMAIN ErrorCodes

ASSUME SlotsAssumption == Slots \cap Names = {}

ASSUME UnlistedAssumption == Unlisted \subseteq Int \ ({0, -99} \cup -13..-1)

Error(code, message) == [code |-> code, message |-> message]

Descriptions ==
    [PathNotFound |-> "path not found", ExpectedDirectory |-> "expected directory",
     ExpectedFile |-> "expected file", PathCanonicalization |-> "path canonicalization failed",
     NoCapabilities |-> "no capabilities", SandboxInit |-> "sandbox init failed",
     UnsupportedPlatform |-> "unsupported platform", BlockedCommand |-> "blocked command",
     ConfigParse |-> "config parse error", ProfileParse |-> "profile parse error",
     IO |-> "i/o error", InvalidArg |-> "invalid argument",
     TrustVerification |-> "trust verification failed", Unknown |-> "unknown error"]

\* Mutant: the line of ErrProfileParse repeats the code of the line above it.
SentinelPasted(s) ==
    Error(ErrorCodes[IF s = "ProfileParse" THEN "ConfigParse" ELSE s], Descriptions[s])

\* The sentinel named Err<s>.
Sentinel(s) == Error(ErrorCodes[s], Descriptions[s])

ZeroError == Error(0, "")

VARIABLES
    object,    \* the Error at each pointer, or Nil
    returned,  \* the pointers the package has returned to the program
    made       \* the code each was made with, Nil once the program wrote to it

vars == <<object, returned, made>>

Pointers == Names \cup Slots

Init ==
    /\ object = [p \in Pointers |-> IF p \in Names THEN Sentinel(p) ELSE Nil]
    /\ returned = {}
    /\ made = [p \in Slots |-> Nil]

Allocate(p, e) ==
    /\ p \in Slots /\ object[p] = Nil
    /\ object' = [object EXCEPT ![p] = e]
    /\ made' = [made EXCEPT ![p] = e.code]
    /\ returned' = returned \cup {p}

\* Mutant: no "unknown error" for a failure without a message.
MessageOfNothing(report) == report

Message(report) == IF report = "" THEN "unknown error" ELSE report

\* A failing C call: any failure code, with or without a message.
mapError(p) ==
    \E code \in {ErrorCodes[s] : s \in Names} \cup Unlisted, report \in Reports :
        Allocate(p, Error(code, Message(report)))

\* Mutant: hands out the sentinel of the code instead of a new error.
staticErrorShared(p) ==
    /\ p \in Slots /\ object[p] = Nil
    /\ \E s \in {"InvalidArg", "Unknown"} : returned' = returned \cup {s}
    /\ UNCHANGED <<object, made>>

\* The package's own failures: arguments, closed handles, NULL from C.
staticError(p) ==
    \E s \in {"InvalidArg", "Unknown"}, message \in {"string contains NUL byte", "failed to create query context"} :
        Allocate(p, Error(ErrorCodes[s], message))

\* What the program can assign through: errors.As gives it the pointer in an error.
Writable == returned \cup (IF SentinelsInReach THEN Names ELSE {})

\* *p = nono.Error{} or *p = *q
Overwrite(p) ==
    /\ p \in Writable
    /\ \E e \in {ZeroError} \cup {object[q] : q \in Names \cup returned} :
          object' = [object EXCEPT ![p] = e]
    /\ made' = [q \in Slots |-> IF q = p THEN Nil ELSE made[q]]
    /\ UNCHANGED returned

\* The program forgets an error, and its memory is used again.
Forget(p) ==
    /\ p \in returned \ Names
    /\ object' = [object EXCEPT ![p] = Nil]
    /\ made' = [made EXCEPT ![p] = Nil]
    /\ returned' = returned \ {p}

Next == \E p \in Pointers : mapError(p) \/ staticError(p) \/ Overwrite(p) \/ Forget(p)

Spec == Init /\ [][Next]_vars

\* errors.Is without wrapping: the same pointer, or Error.Is, which compares codes.
Matches(p, target) == p = target \/ object[p].code = object[target].code

\* Error.Error falls back to "nono error <code>".
FallsBack(p) == object[p].message = ""

-----------------------------------------------------------------------------
(***************************************************************************)
(* Properties.                                                             *)
(***************************************************************************)
TypeOK ==
    /\ DOMAIN object = Pointers
    /\ returned \subseteq Pointers
    /\ DOMAIN made = Slots

(* "callers cannot mutate sentinel values through an errors.As pointer:    *)
(* the error codes are stable for the lifetime of the process"             *)
(* (errors.go:39-41).  With SentinelsInReach FALSE it says that no pointer *)
(* the package returns is a sentinel's, so that writing to one's own       *)
(* errors is harmless to everybody else's errors.Is.                       *)
SentinelsStable == \A s \in Names : object[s] = Sentinel(s)

(* An error matches the sentinel of the code it was made with and no       *)
(* other, a code without a sentinel matches none (errors.go:42-57, 90-100),*)
(* whatever the program does to its other errors.                          *)
MatchesItsSentinel ==
    \A p \in Slots : made[p] # Nil =>
        /\ \A s \in Names : Matches(p, s) <=> made[p] = ErrorCodes[s]
        /\ \A s, t \in Names : Matches(p, s) /\ Matches(p, t) => s = t

(* The fallback text of Error() is "unreachable through normal code paths" *)
(* (errors.go:82-84): only an error the program wrote to can show it.      *)
NoFallbackText == \A p \in Slots : made[p] # Nil => ~FallsBack(p)

(* The inductive invariant.                                                *)
MadeInv ==
    \A p \in Slots : made[p] # Nil =>
        /\ object[p].code = made[p] /\ object[p].message # ""
        /\ made[p] \in {ErrorCodes[s] : s \in Names} \cup Unlisted

ErrorInv == TypeOK /\ returned \subseteq Slots /\ MadeInv /\ SentinelsStable
=============================================================================
