---------------------------- MODULE NonoFinalizer ----------------------------
(***************************************************************************)
(* The finalizer of a handle never has to wait for its mutex: when it runs *)
(* the handle is out of everybody's reach and stays so, because a handle   *)
(* reaches the program only from the call that made it.                    *)
(***************************************************************************)
EXTENDS NonoProofs

\* The handle the finalizer is closing, or would be if it were running.
Dying == call[Collector].h

\* g neither works on the handle h nor is in its mutex, nor is about to return it.
Away(g, h) ==
    /\ pc[g] \notin {"idle", "exit"} => call[g].h # h
    /\ ~InMutex(g, mu[h])
    /\ pc[g] = "exit" => h \notin Returned(call[g], result[g])

FinalizerInv ==
    /\ \A h \in Handles : finalizer[h] => mem[h] # "unborn"
    /\ pc[Collector] # "idle" =>
          /\ Dying \in Handles \ roots
          /\ mem[Dying] # "unborn"
          /\ call[Collector].op \in Closers
          /\ \A g \in Goroutines : Away(g, Dying)

LEMMA CollectorIsApart == Collector \in Procs /\ Collector \notin Goroutines /\ Goroutines = Procs \ {Collector}
  BY CollectorAssumption DEF Procs

(* A closer takes the write lock.                                          *)
LEMMA CloserLocks ==
    ASSUME NEW op \in Closers
    PROVE  Method(op).lock = "W"
  BY CloserPolicy, LockPolicy

(* Nothing comes out of a failed call or of one that makes no handle.      *)
LEMMA NothingReturned ==
    ASSUME NEW c, NEW r, c.op \notin Creators \/ ~isOK(r)
    PROVE  Returned(c, r) = {}
  BY DEF Returned

(* The failures the package reports itself.                                *)
LEMMA SilentFailuresFail ==
    ASSUME NEW op, NEW r \in SilentFailures(op)
    PROVE  ~isOK(r)
  <1>1. \/ r = staticError("Unknown", "failed to create query context")
        \/ r = staticError("Unknown", "failed to create sandbox state")
        \/ r = staticError("panic", "nono_capability_set_new returned nil")
    BY DEF SilentFailures
  <1>2. \A code, msg : staticError(code, msg).code = code
    BY DEF staticError
  <1>3. r.code = "Unknown" \/ r.code = "panic"
    BY <1>1, <1>2
  <1> QED
    BY <1>3 DEF isOK

(* A call that failed, was rejected or found its handle closed returns no  *)
(* handle.                                                                 *)
LEMMA RejectionsReturnNothing ==
    ASSUME IInv, NEW g \in Procs,
           Reject(g) \/ FindClosed(g) \/ CSucceed(g) \/ CFailStatic(g) \/ ScanDone(g)
           \/ ClearError(g) \/ Detach(g)
    PROVE  Returned(call'[g], result'[g]) = {}
  <1>1. call' = call /\ DOMAIN result = Procs
    BY DEF Reject, FindClosed, CSucceed, CFailStatic, ScanDone, ClearError, Detach, frame, IInv, TypeOK
  <1>2. CASE Reject(g)
    <2>1. result'[g] = ArgumentError(call[g]) /\ ArgumentError(call[g]) # NoResult
      BY <1>1, <1>2 DEF Reject
    <2>2. ArgumentError(call[g]).code = "InvalidArg"
      BY <2>1 DEF ArgumentError, checkNUL, errNilCaps, staticError
    <2> QED
      BY <1>1, <2>1, <2>2, NothingReturned DEF isOK
  <1>3. CASE FindClosed(g)
    <2>1. result'[g] = M(g).closed /\ M(g).lock # "none"
      BY <1>1, <1>3 DEF FindClosed, Goto, IInv, CallInv
    <2>2. call[g].op \in Creators => ~isOK(M(g).closed)
      BY <2>1, CallFacts, ClosedPolicy DEF M, IInv
    <2> QED
      BY <1>1, <2>1, <2>2, NothingReturned
  <1>4. CASE CSucceed(g)
    BY <1>1, <1>4, NothingReturned DEF CSucceed
  <1>5. CASE CFailStatic(g)
    <2>1. result'[g] \in SilentFailures(call[g].op)
      BY <1>1, <1>5 DEF CFailStatic
    <2>2. ~isOK(result'[g])
      BY <2>1, SilentFailuresFail
    <2> QED
      BY <1>1, <2>2, NothingReturned
  <1>6. CASE ScanDone(g)
    BY <1>1, <1>6, NothingReturned DEF ScanDone, Scanning, Creators
  <1>7. CASE ClearError(g)
    <2>1. result' = result /\ ~isOK(result[g])
      BY <1>7 DEF ClearError, Goto, IInv, ResultInv
    <2> QED
      BY <1>1, <2>1, NothingReturned
  <1>8. CASE Detach(g)
    <2>1. call[g].op \notin Creators
      BY <1>8, CloserPolicy, ApplyIsNoCloser DEF Detach, Goto, IInv, CallInv
    <2> QED
      BY <1>1, <2>1, NothingReturned
  <1> QED
    BY <1>2, <1>3, <1>4, <1>5, <1>6, <1>7, <1>8

(* A step of g, which keeps away from h, leaves h where it is.             *)
LEMMA AwayStep ==
    ASSUME IInv, NEW g \in Procs, NEW h \in Handles \ roots, mem[h] # "unborn", Away(g, h), Step(g)
    PROVE  Away(g, h)' /\ h \notin roots' /\ mem'[h] # "unborn" /\ mu'[h] = mu[h]
  <1>1. /\ pc[g] # "idle" /\ pc[g] # "exit" => call[g].h # h
        /\ ~InMutex(g, mu[h])
    BY OthersStay DEF Away
  <1>2. CASE Reject(g) \/ FindClosed(g) \/ CSucceed(g) \/ CFailStatic(g) \/ ScanDone(g)
             \/ ClearError(g) \/ Detach(g)
    <2>1. Returned(call'[g], result'[g]) = {}
      BY <1>2, RejectionsReturnNothing
    <2>2. UNCHANGED <<call, mu, roots, mem>> /\ pc'[g] = "exit"
      BY <1>2, GotoEffect DEF Reject, FindClosed, CSucceed, CFailStatic, ScanDone, ClearError, Detach,
         frame, handle, library, IInv
    <2> QED
      BY <1>1, <2>1, <2>2 DEF Away
  <1>3. CASE Proceed(g) \/ FindOpen(g) \/ EnterC(g) \/ CApply(g) \/ CFail(g) \/ ScanCount(g)
             \/ ScanAccess(g) \/ ScanFields(g) \/ LastError(g) \/ Free(g)
    <2>1. pc[g] # "exit" /\ pc'[g] # "exit"
      BY <1>3 DEF Proceed, FindOpen, EnterC, CApply, CFail, ScanCount, ScanAccess, ScanFields,
         Scanning, LastError, Free, Goto, IInv, TypeOK
    <2>2. UNCHANGED <<call, mu, roots>> /\ mem'[h] # "unborn"
      BY <1>1, <1>3 DEF Proceed, FindOpen, EnterC, CApply, CFail, ScanCount, ScanAccess, ScanFields,
         LastError, Free, frame, handle, library, IInv, TypeOK
    <2> QED
      BY <1>1, <2>1, <2>2, OthersStay DEF Away
  <1>4. CASE ReadLock(g) \/ WriteLock(g)
    <2>1. /\ UNCHANGED <<call, roots, mem>> /\ pc[g] = "lock" /\ pc'[g] = "check"
      BY <1>4, GotoEffect DEF ReadLock, WriteLock, frame, library, IInv
    <2>2. mu'[h] = mu[h]
      BY <1>1, <1>4, <2>1 DEF ReadLock, WriteLock, IInv, TypeOK
    <2> QED
      BY <1>1, <2>1, <2>2 DEF Away
  <1>5. CASE CCreate(g)
    <2>1. PICK n \in Makes(call[g].op) :
             /\ mem[n] = "unborn" /\ mem' = [mem EXCEPT ![n] = "live"]
             /\ result' = [result EXCEPT ![g] = Ok(n)]
      BY <1>5 DEF CCreate
    <2>2. UNCHANGED <<call, mu, roots>> /\ mem'[h] = mem[h] /\ pc'[g] = "exit"
      BY <1>5, <2>1, GotoEffect DEF CCreate, frame, IInv, TypeOK
    <2>3. h \notin Returned(call'[g], result'[g])
      BY <2>1, <2>2 DEF Returned, Ok, IInv, TypeOK
    <2> QED
      BY <1>1, <2>2, <2>3 DEF Away
  <1>6. CASE Exit(g)
    <2>1. /\ pc[g] = "exit" /\ pc'[g] = "idle" /\ mem' = mem
          /\ roots' = roots \cup Returned(call[g], result[g])
      BY <1>6 DEF Exit, Goto, library, IInv, TypeOK
    <2>2. Release(g, mu[h]) = mu[h]
      BY <1>1 DEF Release, InMutex
    <2>3. mu'[h] = mu[h]
      BY <1>6, <2>2 DEF Exit, IInv, TypeOK
    <2> QED
      BY <1>1, <2>1, <2>3 DEF Away
  <1> QED
    BY <1>2, <1>3, <1>4, <1>5, <1>6 DEF Step

(* A handle with a finalizer exists.                                       *)
LEMMA FinalizableStep ==
    ASSUME IInv, FinalizerInv, [Next]_vars, NEW h \in Handles, finalizer'[h]
    PROVE  mem'[h] # "unborn"
  <1>1. ASSUME NEW g \in Procs, CCreate(g)
        PROVE  mem'[h] # "unborn"
    BY <1>1 DEF CCreate, IInv, TypeOK, FinalizerInv
  <1>2. ASSUME NEW g \in Procs, Free(g)
        PROVE  mem'[h] # "unborn"
    BY <1>2 DEF Free, handle, IInv, TypeOK, FinalizerInv
  <1>3. ASSUME NEW g \in Procs, Detach(g)
        PROVE  mem'[h] # "unborn"
    BY <1>3 DEF Detach, library, IInv, TypeOK, FinalizerInv
  <1>4. ASSUME NEW k \in Handles, Finalize(k)
        PROVE  mem'[h] # "unborn"
    BY <1>4 DEF Finalize, library, IInv, TypeOK, FinalizerInv
  <1>5. ASSUME NEW g \in Procs,
               Reject(g) \/ Proceed(g) \/ ReadLock(g) \/ WriteLock(g) \/ FindClosed(g)
               \/ FindOpen(g) \/ EnterC(g) \/ CSucceed(g) \/ CApply(g) \/ CFail(g)
               \/ CFailStatic(g) \/ ScanCount(g) \/ ScanAccess(g) \/ ScanFields(g) \/ ScanDone(g)
               \/ LastError(g) \/ ClearError(g) \/ Exit(g)
        PROVE  UNCHANGED <<mem, finalizer>>
    BY <1>5 DEF Reject, Proceed, ReadLock, WriteLock, FindClosed, FindOpen, EnterC, CSucceed, CApply,
       CFail, CFailStatic, ScanCount, ScanAccess, ScanFields, ScanDone, LastError, ClearError, Exit,
       frame, handle, library
  <1>6. CASE \/ \E g \in Goroutines, c \in Calls : Invoke(g, c)
             \/ \E k \in Handles : Drop(k)
             \/ UNCHANGED vars
    BY <1>6 DEF Invoke, Drop, handle, library, vars, FinalizerInv
  <1> QED
    BY <1>1, <1>2, <1>3, <1>4, <1>5, <1>6 DEF Next, Step, FinalizerInv

(* From Lock to Unlock a method is in the mutex of its handle.             *)
LEMMA InMutexInside ==
    ASSUME IInv, NEW g \in Procs, NEW h \in Handles,
           pc[g] \in Using \cup {"check", "detach"}, call[g].h = h
    PROVE  InMutex(g, mu[h])
  <1>1. CASE pc[g] = "check"
    BY <1>1 DEF IInv, WaitInv
  <1>2. CASE pc[g] \in Using \cup {"detach"}
    BY <1>2, NilAssumption DEF IInv, LockInv, Holds, HoldsRead, HoldsWrite, InMutex
  <1> QED
    BY <1>1, <1>2

(* The finalizer starts on a handle nobody can reach.                      *)
LEMMA FinalizeStep ==
    ASSUME IInv, FinalizerInv, NEW h \in Handles, Finalize(h)
    PROVE  FinalizerInv'
  <1>1. Collector \in Procs /\ Collector \notin Goroutines /\ Goroutines \subseteq Procs
    BY CollectorIsApart
  <1>2. /\ pc'[Collector] = "enter" /\ Dying' = h /\ call'[Collector].op \in Closers
        /\ \A p \in Goroutines : pc'[p] = pc[p] /\ call'[p] = call[p] /\ result'[p] = result[p]
    BY <1>1 DEF Finalize, Goto, Dying, CloseCall, Closers, IInv, TypeOK
  <1>3. h \notin roots' /\ mem'[h] # "unborn"
    BY DEF Finalize, Reachable, FinalizerInv, library
  <1>4. ASSUME NEW p \in Goroutines
        PROVE  Away(p, h)'
    <2>1. /\ ~InMutex(p, mu[h]) /\ mu' = mu
          /\ pc[p] \in {"enter", "lock"} => call[p].h # h
          /\ pc[p] # "idle" => h \notin Returned(call[p], result[p])
      BY <1>1 DEF Finalize, Reachable, Refers
    <2>2. pc[p] \in Using \cup {"check", "detach"} => call[p].h # h
      BY <1>1, <2>1, InMutexInside
    <2>3. pc[p] \in Using \cup {"enter", "lock", "check", "detach", "idle", "exit"}
      BY <1>1 DEF IInv, TypeOK, ControlPoints, Using
    <2> QED
      BY <1>2, <2>1, <2>2, <2>3 DEF Away
  <1>5. \A k \in Handles : finalizer'[k] => mem'[k] # "unborn"
    BY FinalizableStep DEF Next
  <1> QED
    BY <1>2, <1>3, <1>4, <1>5 DEF FinalizerInv, Dying

(* A step of the finalizer itself.                                         *)
LEMMA CollectorStep ==
    ASSUME IInv, FinalizerInv, Step(Collector)
    PROVE  FinalizerInv'
  <1>1. Collector \in Procs /\ Collector \notin Goroutines /\ Goroutines \subseteq Procs
    BY CollectorIsApart
  <1>2. /\ pc[Collector] # "idle"
        /\ \A p \in Goroutines : pc'[p] = pc[p] /\ call'[p] = call[p] /\ result'[p] = result[p]
    BY <1>1, OthersStay
  <1>3. Dying \in Handles \ roots /\ mem[Dying] # "unborn" /\ call[Collector].op \in Closers
    BY <1>2 DEF FinalizerInv
  <1>4. M(Collector).lock = "W" /\ call[Collector].op \notin Creators
    BY <1>3, CloserLocks, CloserPolicy DEF M
  <1>5. \A k \in Handles : finalizer'[k] => mem'[k] # "unborn"
    BY <1>1, FinalizableStep DEF Next
  <1>6. CASE Exit(Collector)
    BY <1>1, <1>5, <1>6 DEF Exit, Goto, FinalizerInv, IInv, TypeOK
  <1>7. CASE ~Exit(Collector)
    <2>1. call' = call /\ roots' = roots
      BY <1>7 DEF Step, Reject, Proceed, ReadLock, WriteLock, FindClosed, FindOpen, EnterC, CSucceed,
         CCreate, CApply, CFail, CFailStatic, ScanCount, ScanAccess, ScanFields, ScanDone, LastError,
         ClearError, Free, Detach, frame, handle
    <2>2. mem'[Dying] # "unborn"
      BY <1>3, <1>7 DEF Step, Reject, Proceed, ReadLock, WriteLock, FindClosed, FindOpen, EnterC,
         CSucceed, CCreate, CApply, CFail, CFailStatic, ScanCount, ScanAccess, ScanFields, ScanDone,
         LastError, ClearError, Free, Detach, library, IInv, TypeOK
    <2>3. ASSUME NEW p \in Goroutines
          PROVE  ~InMutex(p, mu'[Dying])
      <3>1. ~InMutex(p, mu[Dying]) /\ p # Collector
        BY <1>1, <1>2 DEF FinalizerInv, Away
      <3>2. CASE WriteLock(Collector)
        BY <1>1, <1>3, <3>1, <3>2, MutexEffects DEF WriteLock, Dying, InMutex, IInv, TypeOK
      <3>3. CASE ~WriteLock(Collector)
        BY <1>4, <1>7, <3>1, <3>3 DEF Step, Reject, Proceed, ReadLock, FindClosed, FindOpen, EnterC,
           CSucceed, CCreate, CApply, CFail, CFailStatic, ScanCount, ScanAccess, ScanFields, ScanDone,
           LastError, ClearError, Free, Detach, handle
      <3> QED
        BY <3>2, <3>3
    <2>4. \A p \in Goroutines : Away(p, Dying)'
      BY <1>2, <2>1, <2>3 DEF FinalizerInv, Away, Dying
    <2> QED
      BY <1>3, <1>5, <2>1, <2>2, <2>4 DEF FinalizerInv, Dying
  <1> QED
    BY <1>6, <1>7

(* A step of the program.                                                  *)
LEMMA ProgramStep ==
    ASSUME IInv, FinalizerInv, NEW g \in Goroutines, Step(g)
    PROVE  FinalizerInv'
  <1>1. g \in Procs /\ g # Collector /\ Collector \in Procs
    BY CollectorIsApart
  <1>2. \A p \in Procs \ {g} : pc'[p] = pc[p] /\ call'[p] = call[p] /\ result'[p] = result[p]
    BY <1>1, OthersStay
  <1>3. \A k \in Handles : finalizer'[k] => mem'[k] # "unborn"
    BY <1>1, FinalizableStep DEF Next
  <1>4. CASE pc[Collector] = "idle"
    BY <1>1, <1>2, <1>3, <1>4 DEF FinalizerInv
  <1>5. CASE pc[Collector] # "idle"
    <2>1. /\ Dying \in Handles \ roots /\ mem[Dying] # "unborn" /\ call[Collector].op \in Closers
          /\ \A p \in Goroutines : Away(p, Dying)
      BY <1>5 DEF FinalizerInv
    <2> PICK d \in Handles : d = Dying
      BY <2>1
    <2>2. Dying' = d /\ pc'[Collector] = pc[Collector] /\ call'[Collector] = call[Collector]
      BY <1>1, <1>2 DEF Dying
    <2>3. Away(g, d)' /\ d \notin roots' /\ mem'[d] # "unborn" /\ mu'[d] = mu[d]
      BY <1>1, <2>1, AwayStep
    <2>4. \A p \in Goroutines \ {g} : Away(p, d)'
      BY <1>2, <2>1, <2>3 DEF Away, Procs
    <2> QED
      BY <1>1, <1>3, <2>1, <2>2, <2>3, <2>4 DEF FinalizerInv
  <1> QED
    BY <1>4, <1>5

(* Every other step.                                                       *)
LEMMA FinalizerStep == IInv /\ FinalizerInv /\ [Next]_vars => FinalizerInv'
  <1> SUFFICES ASSUME IInv, FinalizerInv, [Next]_vars PROVE FinalizerInv'
    OBVIOUS
  <1>1. \A k \in Handles : finalizer'[k] => mem'[k] # "unborn"
    BY FinalizableStep
  <1>2. ASSUME NEW g \in Goroutines, NEW c \in Calls, Invoke(g, c)
        PROVE  FinalizerInv'
    <2>1. g \in Procs /\ g # Collector /\ Collector \in Procs
      BY CollectorIsApart
    <2>2. /\ pc'[g] = "enter" /\ call'[g] = c /\ c.h \in roots \cup {Nil}
          /\ \A p \in Procs \ {g} : pc'[p] = pc[p] /\ call'[p] = call[p]
          /\ UNCHANGED <<result, mu, roots, mem>>
      BY <1>2, <2>1 DEF Invoke, Goto, handle, library, IInv, TypeOK
    <2>3. CASE pc[Collector] = "idle"
      BY <1>1, <2>1, <2>2, <2>3 DEF FinalizerInv
    <2>4. CASE pc[Collector] # "idle"
      <3>1. Dying' = Dying /\ Dying \in Handles \ roots /\ Dying # Nil
        BY <2>1, <2>2, <2>4, NilAssumption DEF FinalizerInv, Dying
      <3>2. \A p \in Goroutines : Away(p, Dying)'
        BY <2>1, <2>2, <2>4, <3>1 DEF FinalizerInv, Away, Procs
      <3> QED
        BY <1>1, <2>1, <2>2, <2>4, <3>1, <3>2 DEF FinalizerInv
    <2> QED
      BY <2>3, <2>4
  <1>3. ASSUME NEW h \in Handles, Drop(h)
        PROVE  FinalizerInv'
    BY <1>1, <1>3 DEF Drop, frame, library, FinalizerInv, Dying, Away
  <1>4. CASE UNCHANGED vars
    BY <1>1, <1>4 DEF vars, frame, handle, library, FinalizerInv, Dying, Away
  <1> QED
    BY <1>2, <1>3, <1>4, FinalizeStep, CollectorStep, ProgramStep, CollectorIsApart DEF Next

(* The mutex of a handle out of reach is in nobody else's hands.           *)
LEMMA OutOfReach ==
    ASSUME IInv, FinalizerInv, pc[Collector] \in {"lock", "check"}
    PROVE  /\ pc[Collector] = "lock" => mu[Dying] = Unlocked
           /\ pc[Collector] = "check" => Holds(Collector)
  <1>1. Collector \in Procs /\ Goroutines = Procs \ {Collector} /\ Dying \in Handles
    BY CollectorIsApart DEF FinalizerInv
  <1>2. M(Collector).lock = "W"
    BY CloserLocks DEF FinalizerInv, M
  <1>3. mu[Dying] \in RWMutexes(Procs)
    BY <1>1 DEF IInv, TypeOK
  <1>4. \A p \in Goroutines : p \notin mu[Dying].readers \cup mu[Dying].parked /\ mu[Dying].writer # p
    BY DEF FinalizerInv, Away, InMutex
  <1>5. Collector \notin mu[Dying].readers \cup mu[Dying].parked
    BY <1>1, <1>2 DEF IInv, LockInv
  <1>6. mu[Dying].readers = {} /\ mu[Dying].parked = {}
    BY <1>1, <1>3, <1>4, <1>5 DEF RWMutexes
  <1>7. CASE pc[Collector] = "lock"
    <2>1. mu[Dying].writer = Nil
      BY <1>1, <1>3, <1>4, <1>7 DEF IInv, LockInv, RWMutexes, Using
    <2> QED
      BY <1>3, <1>6, <1>7, <2>1 DEF RWMutexes, Unlocked
  <1>8. CASE pc[Collector] = "check"
    <2>1. mu[Dying].writer = Collector
      BY <1>1, <1>6, <1>8 DEF IInv, WaitInv, InMutex, Dying
    <2> QED
      BY <1>2, <1>6, <1>8, <2>1 DEF Holds, HoldsWrite, Dying
  <1> QED
    BY <1>7, <1>8

(* The runtime's finalizer goroutine never waits for the mutex of a handle *)
(* (capability_set.go:38, 45-57).                                          *)
THEOREM FinalizerDoesNotWait == Spec => []FinalizerUncontended
  <1>1. Init => FinalizerInv
    BY CollectorIsApart DEF Init, FinalizerInv
  <1>2. IInv /\ FinalizerInv => FinalizerUncontended
    BY OutOfReach DEF FinalizerUncontended, Dying
  <1> QED
    BY <1>1, <1>2, FinalizerStep, Invariance, PTL DEF Spec
=============================================================================
