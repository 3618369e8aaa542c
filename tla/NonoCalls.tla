----------------------------- MODULE NonoCalls -----------------------------
(***************************************************************************)
(* Calls of the package as they run: every goroutine steps through its     *)
(* method (argument checks, mu, the nil check of ptr, LockOSThread, the C  *)
(* call, mapError, the deferred unlocks) while the others, the garbage     *)
(* collector and the scheduler interleave with it.                         *)
(*                                                                         *)
(* The state of a handle is its mutex, its pointer and its finalizer; that *)
(* of the C library is the memory behind the pointer, the content of the   *)
(* object, and one error slot per OS thread.                               *)
(***************************************************************************)
EXTENDS NonoMethods

INSTANCE RWMutex

CONSTANTS
    Goroutines,  \* the goroutines of the program
    Collector,   \* the runtime's goroutine that runs finalizers
    Threads,     \* the OS threads of the process
    Calls        \* the calls the program makes

Procs == Goroutines \cup {Collector}

ASSUME NilAssumption == Nil \notin Procs \cup Threads \cup Handles

ASSUME NilMessageAssumption == Nil \notin Messages

ASSUME CollectorAssumption == Collector \notin Goroutines

ASSUME MessageAssumption == Procs \cap Messages = {}

ASSUME FailCodesAssumption == "OK" \notin FailCodes

ASSUME CallsAssumption ==
    \A c \in Calls : /\ c.op \in Operations
                     /\ c.h \in Handles \cup {Nil}
                     /\ Method(c.op).handle = "none" => c.h = Nil
                     /\ Method(c.op).handle = "receiver" => c.h # Nil

\* A path lies under itself.
ASSUME UnderAssumption ==
    \A c \in Calls : c.op = "QueryPath" /\ c.str \notin NulStrings => <<c.str, c.str>> \in Under

\* A document that parses describes a content.
ASSUME DocumentsAssumption ==
    \A c \in Calls : c.op = "StateFromJSON" /\ c.str \notin Malformed \cup NulStrings
                    => IsContent(c.str.json)

VARIABLES
    pc,         \* where each goroutine is in its method
    call,       \* its call in progress
    result,     \* what that call is going to return
    scan,       \* FSCapabilities: the locals count, i and caps
    thread,     \* the OS thread it is locked to, or Nil
    mu,         \* the RWMutex of each handle
    ptr,        \* whether its pointer is non-nil
    finalizer,  \* whether its finalizer is set
    roots,      \* the handles the program still refers to
    mem,        \* the C object behind it: "unborn", "live" or "freed"
    heap,       \* the content of that object
    lastError,  \* per thread: the goroutine whose failed C call left a message, or Nil
    applied     \* the content each handle was applied with, or Nil

frame == <<call, scan, thread>>

handle == <<mu, ptr, finalizer, roots>>

library == <<mem, heap, lastError, applied>>

vars == <<pc, call, result, scan, thread, handle, library>>

NoScan == [count |-> Nil, i |-> 0, access |-> Nil, caps |-> <<>>]

Init ==
    /\ pc = [g \in Procs |-> "idle"]
    /\ call = [g \in Procs |-> NoCall]
    /\ result = [g \in Procs |-> NoResult]
    /\ scan = [g \in Procs |-> NoScan]
    /\ thread = [g \in Procs |-> Nil]
    /\ mu = [h \in Handles |-> Unlocked]
    /\ ptr = [h \in Handles |-> FALSE]
    /\ finalizer = [h \in Handles |-> FALSE]
    /\ roots = {}
    /\ mem = [h \in Handles |-> "unborn"]
    /\ heap = [h \in Handles |-> EmptyContent]
    /\ lastError = [t \in Threads |-> Nil]
    /\ applied = [h \in Handles |-> Nil]

Goto(g, from, to) == pc[g] = from /\ pc' = [pc EXCEPT ![g] = to]

M(g) == Method(call[g].op)

\* The object a C call of g gets; one without a handle gets none.
Given(g) == IF call[g].h = Nil THEN EmptyContent ELSE heap[call[g].h]

(***************************************************************************)
(* A locked goroutine runs on its thread; the scheduler runs any other on  *)
(* a thread nobody is locked to, and may change its choice at every call.  *)
(***************************************************************************)
FreeThreads == Threads \ {thread[g] : g \in Procs}

RunsOn(g) == IF thread[g] # Nil THEN {thread[g]} ELSE FreeThreads

(***************************************************************************)
(* The beginning of a method.                                              *)
(***************************************************************************)
Invoke(g, c) ==
    /\ Goto(g, "idle", "enter")
    /\ c.h \in roots \cup {Nil}
    /\ call' = [call EXCEPT ![g] = c]
    /\ UNCHANGED <<result, scan, thread, handle, library>>

Reject(g) ==
    /\ Goto(g, "enter", "exit")
    /\ ArgumentError(call[g]) # NoResult
    /\ result' = [result EXCEPT ![g] = ArgumentError(call[g])]
    /\ UNCHANGED <<frame, handle, library>>

Proceed(g) ==
    /\ Goto(g, "enter", IF M(g).lock = "none" THEN "call" ELSE "lock")
    /\ ArgumentError(call[g]) = NoResult
    /\ UNCHANGED <<result, frame, handle, library>>

ReadLock(g) ==
    /\ Goto(g, "lock", "check")
    /\ M(g).lock = "R"
    /\ mu' = [mu EXCEPT ![call[g].h] = RLock(@, g)]
    /\ UNCHANGED <<result, frame, ptr, finalizer, roots, library>>

WriteLock(g) ==
    /\ Goto(g, "lock", "check")
    /\ M(g).lock = "W"
    /\ CanAnnounce(mu[call[g].h])
    /\ mu' = [mu EXCEPT ![call[g].h] = Lock(@, g)]
    /\ UNCHANGED <<result, frame, ptr, finalizer, roots, library>>

Holds(g) ==
    IF M(g).lock = "W" THEN HoldsWrite(mu[call[g].h], g) ELSE HoldsRead(mu[call[g].h], g)

\* Mutant: a closed handle is no error.
FindClosedSucceeds(g) ==
    /\ Goto(g, "check", "exit")
    /\ Holds(g)
    /\ ~ptr[call[g].h]
    /\ result' = [result EXCEPT ![g] = Ok(Nil)]
    /\ UNCHANGED <<frame, handle, library>>

FindClosed(g) ==
    /\ Goto(g, "check", "exit")
    /\ Holds(g)
    /\ ~ptr[call[g].h]
    /\ result' = [result EXCEPT ![g] = M(g).closed]
    /\ UNCHANGED <<frame, handle, library>>

\* Mutant: ptr is read under the lock and used after it.
FindOpenUnlocks(g) ==
    /\ Goto(g, "check", IF call[g].op \in Closers THEN "free" ELSE "call")
    /\ Holds(g)
    /\ ptr[call[g].h]
    /\ mu' = [mu EXCEPT ![call[g].h] = IF M(g).lock = "W" THEN Unlock(@) ELSE RUnlock(@, g)]
    /\ UNCHANGED <<result, frame, ptr, finalizer, roots, library>>

FindOpen(g) ==
    /\ Goto(g, "check", IF call[g].op \in Closers THEN "free" ELSE "call")
    /\ Holds(g)
    /\ ptr[call[g].h]
    /\ UNCHANGED <<result, frame, handle, library>>

\* LockOSThread, where the method has it, and the jump into C.
EnterC(g) ==
    /\ Goto(g, "call", "inC")
    /\ \E t \in IF M(g).pin THEN FreeThreads ELSE {Nil} : thread' = [thread EXCEPT ![g] = t]
    /\ UNCHANGED <<call, result, scan, handle, library>>

(***************************************************************************)
(* The C call.                                                             *)
(***************************************************************************)
\* A getter, a query or a mutation succeeds.
CSucceed(g) ==
    LET c == call[g] IN
    /\ Goto(g, "inC", "exit")
    /\ c.op \notin Creators \cup {"Apply", "FSCapabilities"}
    /\ \E o \in Outcomes(c.op, Given(g), c.str, c.val) :
          /\ heap' = IF c.h = Nil THEN heap ELSE [heap EXCEPT ![c.h] = o.post]
          /\ result' = [result EXCEPT ![g] = Ok(GoValue(c.op, o.val))]
    /\ UNCHANGED <<frame, handle, mem, lastError, applied>>

\* Mutant: no SetFinalizer.
CCreateBare(g) ==
    LET c == call[g] IN
    /\ Goto(g, "inC", "exit")
    /\ \E n \in {h \in Makes(c.op) : mem[h] = "unborn"}, new \in Produced(c.op, Given(g), c.str) :
          /\ mem' = [mem EXCEPT ![n] = "live"]
          /\ heap' = [heap EXCEPT ![n] = new]
          /\ ptr' = [ptr EXCEPT ![n] = TRUE]
          /\ result' = [result EXCEPT ![g] = Ok(n)]
    /\ UNCHANGED <<frame, mu, finalizer, roots, lastError, applied>>

\* Mutant: hands out a handle it made before, as a cache would.
CCreateCached(g) ==
    LET c == call[g] IN
    /\ Goto(g, "inC", "exit")
    /\ \E n \in {h \in Makes(c.op) : mem[h] # "freed"}, new \in Produced(c.op, Given(g), c.str) :
          /\ mem' = [mem EXCEPT ![n] = "live"]
          /\ heap' = [heap EXCEPT ![n] = new]
          /\ ptr' = [ptr EXCEPT ![n] = TRUE]
          /\ finalizer' = [finalizer EXCEPT ![n] = TRUE]
          /\ result' = [result EXCEPT ![g] = Ok(n)]
    /\ UNCHANGED <<frame, mu, roots, lastError, applied>>

\* A new object, wrapped in a handle with a finalizer.
CCreate(g) ==
    LET c == call[g] IN
    /\ Goto(g, "inC", "exit")
    /\ \E n \in {h \in Makes(c.op) : mem[h] = "unborn"}, new \in Produced(c.op, Given(g), c.str) :
          /\ mem' = [mem EXCEPT ![n] = "live"]
          /\ heap' = [heap EXCEPT ![n] = new]
          /\ ptr' = [ptr EXCEPT ![n] = TRUE]
          /\ finalizer' = [finalizer EXCEPT ![n] = TRUE]
          /\ result' = [result EXCEPT ![g] = Ok(n)]
    /\ UNCHANGED <<frame, mu, roots, lastError, applied>>

\* Mutant: the set stays open.
CApplyKeeps(g) ==
    /\ Goto(g, "inC", "exit")
    /\ call[g].op = "Apply"
    /\ applied' = [applied EXCEPT ![call[g].h] = heap[call[g].h]]
    /\ result' = [result EXCEPT ![g] = Ok(Nil)]
    /\ UNCHANGED <<frame, handle, mem, heap, lastError>>

CApply(g) ==
    /\ Goto(g, "inC", "free")
    /\ call[g].op = "Apply"
    /\ applied' = [applied EXCEPT ![call[g].h] = heap[call[g].h]]
    /\ UNCHANGED <<result, frame, handle, mem, heap, lastError>>

\* The call fails on thread t; the library may or may not leave a message there.
CFail(g) ==
    /\ Goto(g, "inC", "failed")
    /\ \E code \in ErrorCodes(call[g].op) : result' = [result EXCEPT ![g] = mapped(code, Nil)]
    /\ \E t \in RunsOn(g), leavesMessage \in BOOLEAN :
          lastError' = IF leavesMessage THEN [lastError EXCEPT ![t] = g] ELSE lastError
    /\ UNCHANGED <<frame, handle, mem, heap, applied>>

\* Mutant: the pointer is wrapped without a look at it.
CFailStaticWrapped(g) ==
    /\ Goto(g, "inC", "exit")
    /\ \E r \in SilentFailures(call[g].op) : result' = [result EXCEPT ![g] = Ok(Nil)]
    /\ UNCHANGED <<frame, handle, library>>

\* A failure reported without mapError.
CFailStatic(g) ==
    /\ Goto(g, "inC", "exit")
    /\ \E r \in SilentFailures(call[g].op) : result' = [result EXCEPT ![g] = r]
    /\ UNCHANGED <<frame, handle, library>>

(***************************************************************************)
(* FSCapabilities asks for the count and then, entry by entry, for the     *)
(* access mode and the other fields.  An index out of bounds reads as      *)
(* INVALID or NULL and leaves a message on the thread of that C call.      *)
(***************************************************************************)
Scanning(g) == pc[g] = "inC" /\ call[g].op = "FSCapabilities"

Complain(g, inBounds) ==
    IF inBounds
      THEN UNCHANGED lastError
      ELSE \E t \in RunsOn(g) : lastError' = [lastError EXCEPT ![t] = g]

ScanCount(g) ==
    /\ Scanning(g) /\ scan[g].count = Nil
    /\ scan' = [scan EXCEPT ![g].count = Len(Given(g).fs)]
    /\ UNCHANGED <<pc, call, result, thread, handle, library>>

ScanAccess(g) ==
    LET inBounds == scan[g].i < Len(Given(g).fs) IN
    /\ Scanning(g) /\ scan[g].count # Nil /\ scan[g].access = Nil
    /\ scan[g].i < scan[g].count
    /\ scan' = IF inBounds
                  THEN [scan EXCEPT ![g].access = Given(g).fs[scan[g].i + 1].access]
                  ELSE [scan EXCEPT ![g].i = @ + 1]
    /\ Complain(g, inBounds)
    /\ UNCHANGED <<pc, call, result, thread, handle, mem, heap, applied>>

ScanFields(g) ==
    LET s == scan[g]
        inBounds == s.i < Len(Given(g).fs)
        path == IF inBounds THEN Given(g).fs[s.i + 1].path ELSE Nil
        isFile == inBounds /\ Given(g).fs[s.i + 1].file
    IN
    /\ Scanning(g) /\ s.access # Nil
    /\ scan' = [scan EXCEPT ![g] = [s EXCEPT !.i = @ + 1, !.access = Nil,
                                             !.caps = Append(@, Entry(path, s.access, isFile))]]
    /\ Complain(g, inBounds)
    /\ UNCHANGED <<pc, call, result, thread, handle, mem, heap, applied>>

ScanDone(g) ==
    /\ Scanning(g) /\ scan[g].count # Nil /\ scan[g].access = Nil
    /\ scan[g].i >= scan[g].count
    /\ Goto(g, "inC", "exit")
    /\ result' = [result EXCEPT ![g] = Ok(scan[g].caps)]
    /\ scan' = [scan EXCEPT ![g] = NoScan]
    /\ UNCHANGED <<call, thread, handle, library>>

(***************************************************************************)
(* mapError: copy the message of the thread the goroutine is running on,   *)
(* then clear that thread's slot.                                          *)
(***************************************************************************)
\* Mutant: clears the slot before it copies the message.
LastErrorCleared(g) ==
    /\ Goto(g, "failed", "clear")
    /\ \E t \in RunsOn(g) : lastError' = [lastError EXCEPT ![t] = Nil]
    /\ result' = [result EXCEPT ![g].msg = "unknown error"]
    /\ UNCHANGED <<frame, handle, mem, heap, applied>>

LastError(g) ==
    /\ Goto(g, "failed", "clear")
    /\ \E t \in RunsOn(g) :
          result' = [result EXCEPT ![g].msg = IF lastError[t] = Nil THEN "unknown error" ELSE lastError[t]]
    /\ UNCHANGED <<frame, handle, library>>

\* Mutant: no nono_clear_error.
ClearErrorSkipped(g) ==
    /\ Goto(g, "clear", "exit")
    /\ UNCHANGED <<result, frame, handle, library>>

ClearError(g) ==
    /\ Goto(g, "clear", "exit")
    /\ \E t \in RunsOn(g) : lastError' = [lastError EXCEPT ![t] = Nil]
    /\ UNCHANGED <<result, frame, handle, mem, heap, applied>>

(***************************************************************************)
(* The end of Close and of a successful Apply.                             *)
(***************************************************************************)
Free(g) ==
    /\ Goto(g, "free", "detach")
    /\ mem' = [mem EXCEPT ![call[g].h] = "freed"]
    /\ UNCHANGED <<result, frame, handle, heap, lastError, applied>>

\* Mutant: ptr is not set to nil.
DetachKeepsPtr(g) ==
    /\ Goto(g, "detach", "exit")
    /\ finalizer' = [finalizer EXCEPT ![call[g].h] = FALSE]
    /\ result' = [result EXCEPT ![g] = Ok(Nil)]
    /\ UNCHANGED <<frame, mu, ptr, roots, library>>

Detach(g) ==
    /\ Goto(g, "detach", "exit")
    /\ ptr' = [ptr EXCEPT ![call[g].h] = FALSE]
    /\ finalizer' = [finalizer EXCEPT ![call[g].h] = FALSE]
    /\ result' = [result EXCEPT ![g] = Ok(Nil)]
    /\ UNCHANGED <<frame, mu, roots, library>>

Release(g, m) ==
    IF m.writer = g THEN Unlock(m)
    ELSE IF g \in m.readers THEN RUnlock(m, g)
    ELSE m

\* Mutant: no deferred Unlock.
ExitKeepsLock(g) ==
    /\ Goto(g, "exit", "idle")
    /\ roots' = roots \cup Returned(call[g], result[g])
    /\ thread' = [thread EXCEPT ![g] = Nil]
    /\ call' = [call EXCEPT ![g] = NoCall]
    /\ result' = [result EXCEPT ![g] = NoResult]
    /\ UNCHANGED <<scan, mu, ptr, finalizer, library>>

\* The deferred UnlockOSThread and Unlock or RUnlock, and the return to the caller.
Exit(g) ==
    /\ Goto(g, "exit", "idle")
    /\ mu' = IF call[g].h = Nil THEN mu ELSE [mu EXCEPT ![call[g].h] = Release(g, @)]
    /\ roots' = roots \cup Returned(call[g], result[g])
    /\ thread' = [thread EXCEPT ![g] = Nil]
    /\ call' = [call EXCEPT ![g] = NoCall]
    /\ result' = [result EXCEPT ![g] = NoResult]
    /\ UNCHANGED <<scan, ptr, finalizer, library>>

(***************************************************************************)
(* The program forgets a handle, and the garbage collector runs the        *)
(* finalizer of one it cannot reach.  A running method refers to its       *)
(* handle until it has locked mu, and then as long as its deferred Unlock  *)
(* is pending: nothing else keeps the handle alive under a C call, which   *)
(* has only the pointer.                                                   *)
(***************************************************************************)
Drop(h) ==
    /\ h \in roots
    /\ roots' = roots \ {h}
    /\ UNCHANGED <<pc, result, frame, mu, ptr, finalizer, library>>

Refers(g, h) ==
    \/ pc[g] \in {"enter", "lock"} /\ call[g].h = h
    \/ InMutex(g, mu[h])
    \/ pc[g] # "idle" /\ h \in Returned(call[g], result[g])

Reachable(h) == h \in roots \/ \E g \in Procs : Refers(g, h)

Finalize(h) ==
    /\ finalizer[h]
    /\ ~Reachable(h)
    /\ Goto(Collector, "idle", "enter")
    /\ call' = [call EXCEPT ![Collector] = CloseCall(h)]
    /\ finalizer' = [finalizer EXCEPT ![h] = FALSE]
    /\ UNCHANGED <<result, scan, thread, mu, ptr, roots, library>>

(***************************************************************************)
(* The specification.                                                      *)
(***************************************************************************)
Step(g) ==
    \/ Reject(g) \/ Proceed(g) \/ ReadLock(g) \/ WriteLock(g)
    \/ FindClosed(g) \/ FindOpen(g) \/ EnterC(g)
    \/ CSucceed(g) \/ CCreate(g) \/ CApply(g) \/ CFail(g) \/ CFailStatic(g)
    \/ ScanCount(g) \/ ScanAccess(g) \/ ScanFields(g) \/ ScanDone(g)
    \/ LastError(g) \/ ClearError(g) \/ Free(g) \/ Detach(g) \/ Exit(g)

Next ==
    \/ \E g \in Goroutines, c \in Calls : Invoke(g, c)
    \/ \E g \in Procs : Step(g)
    \/ \E h \in Handles : Drop(h) \/ Finalize(h)

Spec == Init /\ [][Next]_vars

(***************************************************************************)
(* The Go scheduler runs every goroutine; a writer waiting for the mutex   *)
(* of another writer gets it in the end (sync.Mutex hands over after a     *)
(* millisecond); garbage collections keep happening.  Nothing obliges the  *)
(* program to make a call or to drop a handle.                             *)
(***************************************************************************)
Fairness ==
    /\ \A g \in Procs : WF_vars(Step(g)) /\ SF_vars(WriteLock(g))
    /\ WF_vars(\E h \in Handles : Finalize(h))

FairSpec == Spec /\ Fairness

-----------------------------------------------------------------------------
(***************************************************************************)
(* Properties.                                                             *)
(***************************************************************************)
ControlPoints ==
    {"idle", "enter", "lock", "check", "call", "inC", "failed", "clear", "free", "detach", "exit"}

(* The type invariant.  Contents and values returned by the library are    *)
(* left untyped.                                                           *)
TypeOK ==
    /\ pc \in [Procs -> ControlPoints]
    /\ call \in [Procs -> Calls \cup {NoCall} \cup {CloseCall(h) : h \in Handles}]
    /\ DOMAIN result = Procs
    /\ DOMAIN scan = Procs
    /\ thread \in [Procs -> Threads \cup {Nil}]
    /\ mu \in [Handles -> RWMutexes(Procs)]
    /\ ptr \in [Handles -> BOOLEAN]
    /\ finalizer \in [Handles -> BOOLEAN]
    /\ roots \subseteq Handles
    /\ mem \in [Handles -> {"unborn", "live", "freed"}]
    /\ DOMAIN heap = Handles
    /\ lastError \in [Threads -> Procs \cup {Nil}]
    /\ DOMAIN applied = Handles

\* The C code is working on the object of h on behalf of g.
Touches(g, h) == pc[g] \in {"inC", "free"} /\ call[g].h = h

(* No C function, nono_*_free included, gets the pointer of an object that *)
(* has been freed: not from a method racing Close, not from the finalizer, *)
(* not from Apply's own free (capability_set.go:45-57, nono.go:173-184).   *)
NoUseAfterFree ==
    \A g \in Procs, h \in Handles : Touches(g, h) => mem[h] = "live"

(* While a C function that writes to an object or frees it runs, no other  *)
(* C function runs on that object.  The C library has no locks of its own; *)
(* this is what "safe for concurrent use" rests on.                        *)
ExclusiveAccess ==
    \A h \in Handles : \A g1, g2 \in Procs :
        /\ Touches(g1, h) /\ Touches(g2, h)
        /\ g1 # g2
        => pc[g1] = "inC" /\ call[g1].op \notin Mutators

(* An error carries the message of the C call that failed, never that of   *)
(* another goroutine's failure on the same thread (errors.go:102-117).     *)
ErrorAttribution ==
    \A g \in Procs : pc[g] = "exit" /\ result[g].msg \in Procs => result[g].msg = g

(* A message is left in a thread's slot only while the goroutine that will *)
(* read and clear it is locked to that thread; so a call that fails with   *)
(* no message finds no stale one (state.go:73-76).                         *)
CleanSlots ==
    \A t \in Threads : lastError[t] # Nil =>
        /\ pc[lastError[t]] \in {"failed", "clear"}
        /\ thread[lastError[t]] = t

(* No message is lost: it leaves its slot only when the call that failed   *)
(* has copied it (errors.go:107-115).  Until then no other C call runs on  *)
(* the thread, and mapError itself reads before it clears.                 *)
NoMessageLost ==
    [][\A t \in Threads : lastError[t] # Nil /\ lastError'[t] # lastError[t] =>
          LET g == lastError[t] IN pc[g] = "clear" /\ pc'[g] = "exit" /\ result[g].msg = g]_vars

(* Every object that is not freed still has somebody to free it: its       *)
(* finalizer is set or its Close has begun.                                *)
NoLeak ==
    \A h \in Handles : mem[h] = "live" =>
        \/ finalizer[h]
        \/ \E g \in Procs : /\ pc[g] \in {"enter", "lock", "check", "free"}
                            /\ call[g].h = h /\ call[g].op \in Closers

(* Once a set is in force nothing changes it any more: what the program    *)
(* sees of the set is what the kernel enforces (nono.go:158-159).          *)
AppliedIsFinal ==
    \A h \in Handles : applied[h] # Nil => heap[h] = applied[h]

\* What a QueryPath result has to say about the call c.
AnswersCall(r, c) ==
    /\ (r.Status = "Allowed") <=> (r.Reason = "GrantedPath")
    /\ IF r.Reason = "GrantedPath"
          THEN c.val \subseteq r.GrantedAccess /\ <<r.GrantedPath, c.str>> \in Under
          ELSE r.GrantedPath = Nil /\ r.GrantedAccess = Nil
    /\ IF r.Reason = "InsufficientAccess"
          THEN r.RequestedAccess = c.val /\ ~(c.val \subseteq r.ActualAccess)
          ELSE r.RequestedAccess = Nil /\ r.ActualAccess = Nil

(* The fields of a QueryPath result are about the path and the mode that   *)
(* were asked for, and only those its Reason gives a meaning to are set    *)
(* (type in nono.go:92-112, extractQueryResult).                           *)
QueryAnswersCall ==
    \A g \in Procs : pc[g] = "exit" /\ call[g].op = "QueryPath" /\ isOK(result[g])
                     => AnswersCall(result[g].val, call[g])

(* "Subsequent calls on a closed set return an error" (capability_set.go:20):*)
(* no method with an error result, Close aside, succeeds on a closed set.  *)
ClosedSetCallsFail ==
    \A g \in Procs :
        /\ pc[g] = "exit" /\ isOK(result[g])
        /\ call[g].op \in {"AllowPath", "AllowFile", "SetNetworkBlocked", "SetNetworkMode",
                          "SetProxyPort", "AllowCommand", "BlockCommand", "AddPlatformRule",
                          "Deduplicate", "PathCovered"}
        => ptr[call[g].h]

(* C never gets a string with a NUL byte, which it would see truncated     *)
(* (nono.go:134-142).                                                      *)
NoTruncatedString ==
    \A g \in Procs :
        pc[g] = "inC" /\ call[g].op \in StringFunctions => call[g].str \notin NulStrings

(* The doc of StateFromJSON: "the error code is always ErrCodeUnknown"     *)
(* (state.go:47).                                                          *)
StateFromJSONFailsUnknown ==
    \A g \in Procs :
        pc[g] = "exit" /\ call[g].op = "StateFromJSON" /\ ~isOK(result[g])
        => result[g].code = "Unknown"

(* The finalizer never waits for a handle's mutex.  The runtime runs all   *)
(* finalizers of the process in one goroutine: one Close that waited there *)
(* would hold up every other (SetFinalizer in capability_set.go:38,        *)
(* query.go:44, state.go:41).                                              *)
FinalizerUncontended ==
    /\ pc[Collector] = "lock" => mu[call[Collector].h] = Unlocked
    /\ pc[Collector] = "check" => Holds(Collector)

(* Calls are linearizable: each takes effect at one instant, an error      *)
(* leaves no effect, and NonoAPI is what the callers see.                  *)
Consumed(h) == \E g \in Procs : pc[g] = "free" /\ call[g].op = "Apply" /\ call[g].h = h

Status ==
    [h \in Handles |-> IF mem[h] = "unborn" THEN "unborn"
                       ELSE IF mem[h] = "live" /\ ~Consumed(h) THEN "open"
                       ELSE "closed"]

HasActed(g) ==
    \/ pc[g] \in {"failed", "clear", "detach", "exit"}
    \/ pc[g] = "free" /\ call[g].op = "Apply"

Stage ==
    [g \in Procs |-> IF pc[g] = "idle" THEN "idle" ELSE IF HasActed(g) THEN "done" ELSE "invoked"]

Reported ==
    [g \in Procs |->
        IF pc[g] \in {"free", "detach"} /\ HasActed(g) THEN Ok(Nil)
        ELSE IF pc[g] = "failed" \/ result[g].msg \in {g, "unknown error"}
          THEN mapped(result[g].code, "from the library")
        ELSE result[g]]

API == INSTANCE NonoAPI WITH
    status <- Status, content <- heap, st <- Stage, result <- Reported

Linearizable == API!Spec

(* Every call returns, whoever holds or waits for the mutex: readers do    *)
(* not starve writers, which capability_set.go:310-315 fears of            *)
(* FSCapabilities.                                                         *)
CallsReturn == \A g \in Procs : pc[g] # "idle" ~> pc[g] = "idle"

(* An object the program has dropped is freed in the end, without Close    *)
(* (capability_set.go:16-17).                                              *)
Reclaimed ==
    \A h \in Handles : mem[h] = "live" /\ h \notin roots ~> mem[h] = "freed" \/ h \in roots
=============================================================================
