----------------------------- MODULE NonoStrings -----------------------------
(***************************************************************************)
(* The C strings of the calls.  NonoCalls passes strings as values; here   *)
(* they are memory.  A method copies its string argument to C with         *)
(* C.CString and frees the copy in a deferred C.free; it turns every       *)
(* string the library returns into a Go string with goString, which copies *)
(* it and then gives it back with nono_string_free.                        *)
(*                                                                         *)
(* The allocator may hand an address out again as soon as it is freed, to  *)
(* any goroutine, so a string freed too early or twice is another call's   *)
(* string.  Locks play no part: a C string belongs to one call.            *)
(***************************************************************************)
EXTENDS NonoMethods

CONSTANTS
    Goroutines,  \* the goroutines of the program
    Calls,       \* the calls they make
    Addresses    \* where C strings can be: a call waits while all are taken

ASSUME NilAssumption == Nil \notin Addresses \cup Goroutines

ASSUME MaxEntriesAssumption == MaxEntries \in Nat

VARIABLES
    pc,       \* where each goroutine is in its method
    call,     \* its call in progress
    carg,     \* the C copy of its string argument, or Nil
    cresult,  \* the string fields of what the last C call returned
    next,     \* the field goString is at
    got,      \* the Go strings made of the fields so far
    left,     \* the C calls with strings that are still to be made
    heap      \* per address: <<g, i>> when it holds string i of g's call, or Free

frame == <<call, carg, left>>

vars == <<pc, frame, cresult, next, got, heap>>

\* The string fields of a C result; 0 stands for the argument.
Fields == 1..4

\* What an address holds that is not in use: nobody's string.
Free == <<Nil, 0>>

FreeAddresses == {p \in Addresses : heap[p] = Free}

NoPointers == [i \in Fields |-> Nil]

Init ==
    /\ pc = [g \in Goroutines |-> "idle"]
    /\ call = [g \in Goroutines |-> NoCall]
    /\ carg = [g \in Goroutines |-> Nil]
    /\ cresult = [g \in Goroutines |-> NoPointers]
    /\ next = [g \in Goroutines |-> 1]
    /\ got = [g \in Goroutines |-> NoPointers]
    /\ left = [g \in Goroutines |-> 0]
    /\ heap = [p \in Addresses |-> Free]

Goto(g, from, to) == pc[g] = from /\ pc' = [pc EXCEPT ![g] = to]

\* The fields a successful C call of op may fill; the others are NULL.
Filled(op) ==
    IF op \in {"QueryPath", "QueryNetwork"} THEN SUBSET Fields
    ELSE IF op = "SupportInfo" THEN {{1, 2}}
    ELSE IF op \in {"Version", "Summary", "JSON"} THEN {{1}}
    ELSE IF op = "FSCapabilities" THEN {{}, {1}}
    ELSE {{}}

\* FSCapabilities asks for three strings per entry, each in a C call of its own.
StringCalls(op) == IF op = "FSCapabilities" THEN {3 * n : n \in 0..MaxEntries} ELSE {1}

\* The library returns, with new strings in the fields F.
Fill(g, F) ==
    \E at \in [F -> FreeAddresses] :
        /\ \A i, j \in F : at[i] = at[j] => i = j
        /\ cresult' = [cresult EXCEPT ![g] = [i \in Fields |-> IF i \in F THEN at[i] ELSE Nil]]
        /\ heap' = [p \in Addresses |->
                        IF \E i \in F : at[i] = p THEN <<g, CHOOSE i \in F : at[i] = p>> ELSE heap[p]]
        /\ next' = [next EXCEPT ![g] = 1]
        /\ got' = [got EXCEPT ![g] = NoPointers]

(***************************************************************************)
(* A method.                                                               *)
(***************************************************************************)
Invoke(g, c) ==
    /\ Goto(g, "idle", "enter")
    /\ call' = [call EXCEPT ![g] = c]
    /\ UNCHANGED <<carg, left, cresult, next, got, heap>>

\* The argument is rejected, or the handle is closed.
EarlyReturn(g) ==
    /\ Goto(g, "enter", "return")
    /\ ArgumentError(call[g]) # NoResult \/ Method(call[g].op).handle # "none"
    /\ UNCHANGED <<frame, cresult, next, got, heap>>

CString(g) ==
    /\ Goto(g, "enter", "call")
    /\ ArgumentError(call[g]) = NoResult
    /\ IF Method(call[g].op).string
          THEN \E p \in FreeAddresses : /\ carg' = [carg EXCEPT ![g] = p]
                                        /\ heap' = [heap EXCEPT ![p] = <<g, 0>>]
          ELSE UNCHANGED <<carg, heap>>
    /\ \E n \in StringCalls(call[g].op) : left' = [left EXCEPT ![g] = n]
    /\ UNCHANGED <<call, cresult, next, got>>

\* Mutant: the copy of the argument is freed at once, without defer.
CallCFreed(g) ==
    /\ Goto(g, "call", "inC")
    /\ left[g] > 0
    /\ left' = [left EXCEPT ![g] = @ - 1]
    /\ heap' = IF carg[g] = Nil THEN heap ELSE [heap EXCEPT ![carg[g]] = Free]
    /\ UNCHANGED <<call, carg, cresult, next, got>>

CallC(g) ==
    /\ Goto(g, "call", "inC")
    /\ left[g] > 0
    /\ left' = [left EXCEPT ![g] = @ - 1]
    /\ UNCHANGED <<call, carg, cresult, next, got, heap>>

CReturn(g) ==
    /\ Goto(g, "inC", "convert")
    /\ \E F \in Filled(call[g].op) : Fill(g, F)
    /\ UNCHANGED frame

\* The call fails and fills nothing; mapError asks for the message, if there is one.
CFail(g) ==
    /\ Goto(g, "inC", "failed")
    /\ Method(call[g].op).fails # "never"
    /\ UNCHANGED <<frame, cresult, next, got, heap>>

MapError(g) ==
    /\ Goto(g, "failed", "convert")
    /\ Method(call[g].op).fails \in {"code", "unknown"}
    /\ \E F \in {{}, {1}} : Fill(g, F)
    /\ UNCHANGED frame

StaticError(g) ==
    /\ Goto(g, "failed", "return")
    /\ Method(call[g].op).fails \in {"static", "panic"}
    /\ UNCHANGED <<frame, cresult, next, got, heap>>

(***************************************************************************)
(* goString, field by field, and the end of the method.                    *)
(***************************************************************************)
\* Mutant: the last conversion repeats the field before it.
FieldRepeated(g) == IF next[g] = 4 THEN cresult[g][3] ELSE cresult[g][next[g]]

Field(g) == cresult[g][next[g]]

Converting(g) == pc[g] = "convert" /\ next[g] \in Fields

SkipNull(g) ==
    /\ Converting(g)
    /\ Field(g) = Nil
    /\ got' = [got EXCEPT ![g][next[g]] = Nil]
    /\ next' = [next EXCEPT ![g] = @ + 1]
    /\ UNCHANGED <<pc, frame, cresult, heap>>

GoString(g) ==
    /\ Converting(g)
    /\ Field(g) # Nil
    /\ Goto(g, "convert", "free")
    /\ got' = [got EXCEPT ![g][next[g]] = heap[Field(g)]]
    /\ UNCHANGED <<frame, cresult, next, heap>>

\* Mutant: no deferred nono_string_free.
StringFreeSkipped(g) ==
    /\ Goto(g, "free", "convert")
    /\ next' = [next EXCEPT ![g] = @ + 1]
    /\ UNCHANGED <<frame, cresult, got, heap>>

StringFree(g) ==
    /\ Goto(g, "free", "convert")
    /\ heap' = [heap EXCEPT ![Field(g)] = Free]
    /\ next' = [next EXCEPT ![g] = @ + 1]
    /\ UNCHANGED <<frame, cresult, got>>

NextString(g) ==
    /\ Goto(g, "convert", "call")
    /\ next[g] \notin Fields /\ left[g] > 0
    /\ UNCHANGED <<frame, cresult, next, got, heap>>

Finish(g) ==
    /\ \/ Goto(g, "convert", "return") /\ next[g] \notin Fields
       \/ Goto(g, "call", "return")     \* FSCapabilities of an empty set
    /\ left[g] = 0
    /\ UNCHANGED <<frame, cresult, next, got, heap>>

\* Mutant: no deferred C.free.
ReturnKeeps(g) ==
    /\ Goto(g, "return", "idle")
    /\ call' = [call EXCEPT ![g] = NoCall]
    /\ carg' = [carg EXCEPT ![g] = Nil]
    /\ cresult' = [cresult EXCEPT ![g] = NoPointers]
    /\ next' = [next EXCEPT ![g] = 1]
    /\ got' = [got EXCEPT ![g] = NoPointers]
    /\ UNCHANGED <<left, heap>>

\* The deferred C.free; the caller has the Go strings.
Return(g) ==
    /\ Goto(g, "return", "idle")
    /\ heap' = IF carg[g] = Nil THEN heap ELSE [heap EXCEPT ![carg[g]] = Free]
    /\ call' = [call EXCEPT ![g] = NoCall]
    /\ carg' = [carg EXCEPT ![g] = Nil]
    /\ cresult' = [cresult EXCEPT ![g] = NoPointers]
    /\ next' = [next EXCEPT ![g] = 1]
    /\ got' = [got EXCEPT ![g] = NoPointers]
    /\ UNCHANGED left

Step(g) ==
    \/ EarlyReturn(g) \/ CString(g) \/ CallC(g) \/ CReturn(g) \/ CFail(g)
    \/ MapError(g) \/ StaticError(g) \/ SkipNull(g) \/ GoString(g) \/ StringFree(g)
    \/ NextString(g) \/ Finish(g) \/ Return(g)

Next == \E g \in Goroutines : Step(g) \/ \E c \in Calls : Invoke(g, c)

Spec == Init /\ [][Next]_vars

-----------------------------------------------------------------------------
(***************************************************************************)
(* Properties.                                                             *)
(***************************************************************************)
TypeOK ==
    /\ pc \in [Goroutines -> {"idle", "enter", "call", "inC", "failed", "convert", "free", "return"}]
    /\ call \in [Goroutines -> Calls \cup {NoCall}]
    /\ carg \in [Goroutines -> Addresses \cup {Nil}]
    /\ cresult \in [Goroutines -> [Fields -> Addresses \cup {Nil}]]
    /\ next \in [Goroutines -> 1..5]
    /\ DOMAIN got = Goroutines /\ \A g \in Goroutines : DOMAIN got[g] = Fields
    /\ left \in [Goroutines -> Nat]
    /\ heap \in [Addresses -> {Free} \cup (Goroutines \X (0..4))]

\* The strings goroutine g still has to free: string i is at address p.
Owes(g, i, p) ==
    \/ i = 0 /\ carg[g] = p
    \/ /\ pc[g] \in {"convert", "free"}
       /\ i \in next[g]..4 /\ cresult[g][i] = p

(* Every pointer a call is still going to read or free holds the string it *)
(* was made for, not one that was freed or that the allocator has since    *)
(* put there: nothing is freed twice, copied after its free, or freed      *)
(* under C (goString in nono.go:121-129, the deferred C.free, as in        *)
(* capability_set.go:73-74).                                               *)
NoDanglingString ==
    \A g \in Goroutines, i \in 0..4, p \in Addresses : Owes(g, i, p) => heap[p] = <<g, i>>

(* Whatever way a method returns, every C string it made or was given is   *)
(* freed: a string in memory belongs to a call that still owes its free.   *)
(* extractQueryResult frees all four fields "regardless of which are       *)
(* populated" (query.go:109-114).                                          *)
NoStringLeak ==
    \A p \in Addresses : heap[p] # Free =>
        \E g \in Goroutines, i \in 0..4 : heap[p] = <<g, i>> /\ Owes(g, i, p)

(* The Go strings of a result are the C strings of the same call, each in  *)
(* its field, and the empty string where C returned NULL.                  *)
FaithfulStrings ==
    \A g \in Goroutines, i \in Fields : i < next[g] =>
        got[g][i] = IF cresult[g][i] = Nil THEN Nil ELSE <<g, i>>

(* The inductive invariant.  The argument is copied once per call, and     *)
(* between the copy of a field and its free the field is done but for that *)
(* free.                                                                   *)
ArgumentInv == \A g \in Goroutines : pc[g] \in {"idle", "enter"} => carg[g] = Nil

CopiedInv ==
    \A g \in Goroutines : pc[g] = "free" =>
        next[g] \in Fields /\ Field(g) # Nil /\ got[g][next[g]] = <<g, next[g]>>

StringInv ==
    TypeOK /\ ArgumentInv /\ CopiedInv /\ NoDanglingString /\ NoStringLeak /\ FaithfulStrings
=============================================================================
