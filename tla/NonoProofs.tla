----------------------------- MODULE NonoProofs -----------------------------
(***************************************************************************)
(* The proof that IInv is an invariant of NonoCalls, for any number of     *)
(* goroutines, threads, handles and calls and whatever the C library does  *)
(* with the contents of its objects.                                       *)
(***************************************************************************)
EXTENDS NonoInvariant, TLAPS

-----------------------------------------------------------------------------
(* What the proofs use of the methods: the policies the comments in        *)
(* nono.go:144-152 and the types' doc comments state.                      *)

(* Methods with a handle lock it; C functions that write to an object, and *)
(* Apply, are called with the lock held for writing.                       *)
LEMMA LockPolicy ==
    ASSUME NEW op \in Operations
    PROVE  /\ Method(op).lock \in {"none", "R", "W"}
           /\ Method(op).lock = "none" <=> Method(op).handle = "none"
           /\ Method(op).handle \in {"none", "receiver", "guarded"}
           /\ Method(op).handle = "guarded" => ~Method(op).string
           /\ op \in Mutators \cup {"Apply"} => Method(op).lock = "W"
  BY DEF Operations, Method, Methods, New, Version, IsSupported, SupportInfo, StateFromJSON, Apply,
         NewQueryContext, StateFromCaps, AllowPath, AllowFile, SetNetworkBlocked, SetNetworkMode,
         SetProxyPort, AllowCommand, BlockCommand, AddPlatformRule, Deduplicate, NetworkMode,
         ProxyPort, PathCovered, IsNetworkBlocked, Summary, FSCapabilities, QueryPath, QueryNetwork,
         JSON, Caps, CloseCaps, CloseQuery, CloseState, Mutation, Getter, Reader, Snapshot, Global,
         Closer, Mutators

(* Apply frees its object too, but is a method of its own.                 *)
LEMMA ApplyIsNoCloser == "Apply" \notin Closers \cup Creators \cup Mutators
  BY DEF Closers, Creators, Mutators

(* Close has no argument that could be rejected.                           *)
LEMMA CloserPolicy ==
    ASSUME NEW op \in Closers
    PROVE  /\ op \in Operations /\ op \in Mutators /\ op \notin Creators
           /\ Method(op).handle = "receiver" /\ ~Method(op).string
  BY DEF Closers, Creators, Mutators, Operations, Method, Methods, CloseCaps, CloseQuery, CloseState,
         Closer

(* Every method that calls mapError calls LockOSThread (nono.go:144-152).  *)
LEMMA PinPolicy ==
    ASSUME NEW op \in Operations, Method(op).fails \in {"code", "unknown"}
    PROVE  Method(op).pin
  BY DEF Operations, Method, Methods, New, Version, IsSupported, SupportInfo, StateFromJSON, Apply,
         NewQueryContext, StateFromCaps, AllowPath, AllowFile, SetNetworkBlocked, SetNetworkMode,
         SetProxyPort, AllowCommand, BlockCommand, AddPlatformRule, Deduplicate, NetworkMode,
         ProxyPort, PathCovered, IsNetworkBlocked, Summary, FSCapabilities, QueryPath, QueryNetwork,
         JSON, Caps, CloseCaps, CloseQuery, CloseState, Mutation, Getter, Reader, Snapshot, Global,
         Closer

(* Results have one shape, and static errors messages of the package's     *)
(* own.                                                                    *)
LEMMA ResultShapes ==
    /\ \A v : isOK(Ok(v)) /\ Ok(v).msg = Nil /\ DOMAIN Ok(v) = {"code", "msg", "val"}
    /\ \A r \in {errCapSetClosed, errSandboxStateClosed, errQueryContextClosed, errNilCaps} :
          ~isOK(r) /\ r.msg \in Messages /\ DOMAIN r = {"code", "msg", "val"}
    /\ NoResult.msg = Nil /\ DOMAIN NoResult = {"code", "msg", "val"}
  BY DEF Ok, isOK, staticError, Messages, NoResult, errCapSetClosed, errSandboxStateClosed,
         errQueryContextClosed, errNilCaps

(* What a closed handle answers; a method that makes a handle fails.       *)
LEMMA ClosedPolicy ==
    ASSUME NEW op \in Operations
    PROVE  /\ DOMAIN Method(op).closed = {"code", "msg", "val"}
           /\ Method(op).closed.msg \in Messages \cup {Nil}
           /\ op \in Creators /\ Method(op).lock # "none" => ~isOK(Method(op).closed)
  <1> DEFINE Errors == {errCapSetClosed, errSandboxStateClosed, errQueryContextClosed}
  <1> DEFINE Getters == {"NetworkMode", "ProxyPort", "PathCovered", "IsNetworkBlocked", "Summary",
                         "FSCapabilities"}
  <1>1. op \notin Getters => Method(op).closed \in Errors \cup {NoResult, Ok(Nil)}
    BY DEF Operations, Method, Methods, New, Version, IsSupported, SupportInfo, StateFromJSON,
           Apply, NewQueryContext, StateFromCaps, AllowPath, AllowFile, SetNetworkBlocked,
           SetNetworkMode, SetProxyPort, AllowCommand, BlockCommand, AddPlatformRule, Deduplicate,
           QueryPath, QueryNetwork, JSON, Caps, CloseCaps, CloseQuery, CloseState, Mutation, Reader,
           Snapshot, Global, Closer
  <1>2. ASSUME op \in Getters
        PROVE  Method(op).closed.msg = Nil /\ DOMAIN Method(op).closed = {"code", "msg", "val"}
    BY <1>2 DEF Method, Methods, NetworkMode, ProxyPort, PathCovered, IsNetworkBlocked, Summary,
                FSCapabilities, Getter, Ok
  <1>3. op \in Creators /\ Method(op).lock # "none" => Method(op).closed \in Errors
    BY DEF Creators, Method, Methods, New, StateFromJSON, NewQueryContext, StateFromCaps, Caps,
           Reader, Snapshot, Global
  <1> QED
    BY <1>1, <1>2, <1>3, ResultShapes

(* A call in progress is one the program or a finalizer can make.          *)
LEMMA CallFacts ==
    ASSUME TypeOK, NEW g \in Procs
    PROVE  /\ call[g].op \in Operations
           /\ call[g].h \in Handles \cup {Nil}
           /\ M(g).handle = "none" => call[g].h = Nil
           /\ M(g).handle = "receiver" => call[g].h # Nil
  <1>1. call[g] \in Calls \cup {NoCall} \cup {CloseCall(h) : h \in Handles}
    BY DEF TypeOK
  <1>2. CASE call[g] \in Calls
    BY <1>2, CallsAssumption DEF M
  <1>3. CASE call[g] = NoCall
    BY <1>3 DEF M, NoCall, Operations, Methods, Method, Version, Global
  <1>4. CASE \E h \in Handles : call[g] = CloseCall(h)
    <2>1. PICK h \in Handles : call[g] = CloseCall(h)
      BY <1>4
    <2>2. call[g].op \in Closers /\ call[g].h = h
      BY <2>1 DEF CloseCall, Closers
    <2> QED
      BY <2>2, CloserPolicy, NilAssumption DEF M
  <1> QED
    BY <1>1, <1>2, <1>3, <1>4

-----------------------------------------------------------------------------
(* The mutex.                                                              *)

(* Locking and unlocking make mutexes of mutexes.                          *)
LEMMA MutexTypes ==
    ASSUME NEW m \in RWMutexes(Procs), NEW p \in Procs
    PROVE  /\ RLock(m, p) \in RWMutexes(Procs)
           /\ Lock(m, p) \in RWMutexes(Procs)
           /\ Release(p, m) \in RWMutexes(Procs)
  BY DEF RWMutexes, RLock, Lock, Release, Unlock, RUnlock

(* Who has the mutex, and who waits for it, after each of its operations.  *)
LEMMA MutexEffects ==
    ASSUME NEW m \in RWMutexes(Procs), NEW p \in Procs
    PROVE  /\ RLock(m, p).writer = m.writer
           /\ m.writer = Nil => /\ RLock(m, p).readers = m.readers \cup {p}
                                /\ RLock(m, p).parked = m.parked
           /\ m.writer # Nil => /\ RLock(m, p).readers = m.readers
                                /\ RLock(m, p).parked = m.parked \cup {p}
           /\ Lock(m, p).writer = p
           /\ Lock(m, p).readers = m.readers
           /\ Lock(m, p).parked = m.parked
           /\ m.writer = p => /\ Release(p, m).writer = Nil
                              /\ Release(p, m).readers = m.readers \cup m.parked
                              /\ Release(p, m).parked = {}
           /\ m.writer # p => /\ Release(p, m).writer = m.writer
                              /\ Release(p, m).readers = m.readers \ {p}
                              /\ Release(p, m).parked = m.parked
  BY DEF RWMutexes, RLock, Lock, Release, Unlock, RUnlock

(* A step of g moves g and nobody else.                                    *)
LEMMA GotoEffect ==
    ASSUME TypeOK, NEW g \in Procs, NEW from, NEW to, Goto(g, from, to)
    PROVE  /\ pc[g] = from /\ pc'[g] = to
           /\ \A p \in Procs \ {g} : pc'[p] = pc[p]
  BY DEF TypeOK, Goto

(* A nil *CapabilitySet is rejected (nono.go:160-162).                     *)
LEMMA NilCapsIsAnError == errNilCaps # NoResult
  <1>1. errNilCaps.code = "InvalidArg" /\ errNilCaps.msg = "nil capability set"
    BY DEF errNilCaps, staticError
  <1>2. NoResult.code = Nil /\ NoResult.msg = Nil
    BY DEF NoResult
  <1> QED
    BY <1>1, <1>2

(* A C function that is no mutator leaves its object alone.                *)
LEMMA OutcomePost ==
    ASSUME NEW op, NEW c, NEW str, NEW val, op \notin Mutators,
           NEW o \in Outcomes(op, c, str, val)
    PROVE  o.post = c
  BY DEF Outcomes

-----------------------------------------------------------------------------
(* The parts of the invariant, one by one: each survives every step from a *)
(* state in which all of them hold.  A lemma called ...Frame says what     *)
(* cannot disturb the part; steps with the same reason share a case.       *)

(* Types: the lock functions keep a mutex a mutex, and only handles become *)
(* roots.                                                                  *)
LEMMA TypeStep ==
    ASSUME IInv, [Next]_vars
    PROVE  TypeOK'
  <1> USE DEF IInv
  <1>1. ASSUME NEW g \in Goroutines, NEW c \in Calls, Invoke(g, c)
        PROVE  TypeOK'
    BY <1>1 DEF TypeOK, ControlPoints, Goto, frame, handle, library, Invoke
  <1>2. ASSUME NEW g \in Procs,
                Reject(g) \/ Proceed(g) \/ FindClosed(g) \/ FindOpen(g)
        PROVE  TypeOK'
    BY <1>2 DEF TypeOK, ControlPoints, Goto, frame, handle, library, Reject, Proceed, FindClosed,
       FindOpen
  <1>3. ASSUME NEW g \in Procs, ReadLock(g)
        PROVE  TypeOK'
    <2>1. call[g].h \in Handles /\ mu[call[g].h] \in RWMutexes(Procs)
      BY <1>3, CallFacts DEF ReadLock, Goto, IInv, CallInv, TypeOK
    <2> QED
      BY <1>3, <2>1, MutexTypes DEF TypeOK, ControlPoints, Goto, frame, library, ReadLock
  <1>4. ASSUME NEW g \in Procs, WriteLock(g)
        PROVE  TypeOK'
    <2>1. call[g].h \in Handles /\ mu[call[g].h] \in RWMutexes(Procs)
      BY <1>4, CallFacts DEF WriteLock, Goto, IInv, CallInv, TypeOK
    <2> QED
      BY <1>4, <2>1, MutexTypes DEF TypeOK, ControlPoints, Goto, frame, library, WriteLock
  <1>5. ASSUME NEW g \in Procs, EnterC(g)
        PROVE  TypeOK'
    BY <1>5 DEF TypeOK, ControlPoints, Goto, frame, handle, library, FreeThreads, EnterC
  <1>6. ASSUME NEW g \in Procs, CSucceed(g)
        PROVE  TypeOK'
    BY <1>6 DEF TypeOK, ControlPoints, Goto, frame, handle, library, CSucceed
  <1>7. ASSUME NEW g \in Procs, CCreate(g)
        PROVE  TypeOK'
    BY <1>7 DEF TypeOK, ControlPoints, Goto, frame, handle, library, CCreate
  <1>8. ASSUME NEW g \in Procs, CApply(g)
        PROVE  TypeOK'
    BY <1>8 DEF TypeOK, ControlPoints, Goto, frame, handle, library, CApply
  <1>9. ASSUME NEW g \in Procs,
                CFail(g) \/ CFailStatic(g) \/ ScanCount(g) \/ ScanDone(g)
        PROVE  TypeOK'
    BY <1>9 DEF TypeOK, ControlPoints, Goto, frame, handle, library, CFail, CFailStatic,
       ScanCount, ScanDone
  <1>10. ASSUME NEW g \in Procs,
                ScanAccess(g) \/ ScanFields(g)
        PROVE  TypeOK'
    BY <1>10 DEF TypeOK, ControlPoints, Goto, frame, handle, library, Complain, RunsOn,
       FreeThreads, ScanAccess, ScanFields
  <1>11. ASSUME NEW g \in Procs,
                LastError(g) \/ ClearError(g) \/ Free(g) \/ Detach(g)
        PROVE  TypeOK'
    BY <1>11 DEF TypeOK, ControlPoints, Goto, frame, handle, library, LastError, ClearError,
       Free, Detach
  <1>12. ASSUME NEW g \in Procs, Exit(g)
        PROVE  TypeOK'
    <2>1. Returned(call[g], result[g]) \subseteq Handles
      BY <1>12 DEF Exit, Goto, IInv, ResultInv
    <2>2. call[g].h # Nil => mu[call[g].h] \in RWMutexes(Procs)
      BY <1>12, CallFacts DEF TypeOK
    <2> QED
      BY <1>12, <2>1, <2>2, MutexTypes, CallFacts DEF TypeOK, ControlPoints, Goto, library, Exit
  <1>13. ASSUME NEW h \in Handles, Drop(h)
        PROVE  TypeOK'
    BY <1>13 DEF TypeOK, ControlPoints, Goto, frame, handle, library, Drop
  <1>14. ASSUME NEW h \in Handles, Finalize(h)
        PROVE  TypeOK'
    BY <1>14 DEF TypeOK, ControlPoints, Goto, frame, handle, library, Finalize
  <1>15. CASE UNCHANGED vars
    BY <1>15 DEF TypeOK, ControlPoints, Goto, frame, handle, library, vars
  <1> QED
    BY <1>1, <1>2, <1>3, <1>4, <1>5, <1>6, <1>7, <1>8, <1>9, <1>10, <1>11, <1>12, <1>13, <1>14,
       <1>15 DEF Next, Step

(* Only methods with a lock wait for one, check ptr or free.               *)
LEMMA CallStep ==
    ASSUME IInv, [Next]_vars
    PROVE  CallInv'
  <1>1. ASSUME NEW g \in Goroutines, NEW c \in Calls, Invoke(g, c)
        PROVE  CallInv'
    BY <1>1 DEF IInv, TypeOK, CallInv, Using, M, Goto, frame, Invoke
  <1>2. ASSUME NEW g \in Procs,
                Reject(g) \/ ReadLock(g) \/ WriteLock(g) \/ FindClosed(g) \/ EnterC(g) \/
                CSucceed(g) \/ CCreate(g) \/ CFail(g)
        PROVE  CallInv'
    BY <1>2 DEF IInv, TypeOK, CallInv, Using, M, Goto, frame, Reject, ReadLock, WriteLock,
       FindClosed, EnterC, CSucceed, CCreate, CFail, RLock, Lock
  <1>3. ASSUME NEW g \in Procs, Proceed(g)
        PROVE  CallInv'
    <2>1. M(g).lock = "none" <=> call[g].h = Nil
      BY <1>3, CallFacts, LockPolicy, NilCapsIsAnError DEF Proceed, ArgumentError, M, IInv
    <2> QED
      BY <1>3, <2>1 DEF IInv, TypeOK, CallInv, Using, M, Goto, frame, Proceed
  <1>4. ASSUME NEW g \in Procs, FindOpen(g)
        PROVE  CallInv'
    BY <1>4, CallFacts, LockPolicy, CloserPolicy DEF IInv, TypeOK, CallInv, Using, M, Goto,
       frame, FindOpen
  <1>5. ASSUME NEW g \in Procs, CApply(g)
        PROVE  CallInv'
    BY <1>5, CallFacts, LockPolicy DEF IInv, TypeOK, CallInv, Using, M, Goto, frame, CApply
  <1>6. ASSUME NEW g \in Procs,
                CFailStatic(g) \/ ScanCount(g) \/ ScanAccess(g) \/ ScanFields(g) \/ ScanDone(g) \/
                LastError(g) \/ ClearError(g) \/ Free(g)
        PROVE  CallInv'
    BY <1>6 DEF IInv, TypeOK, CallInv, Using, M, Goto, frame, CFailStatic, ScanCount, ScanAccess,
       ScanFields, ScanDone, LastError, ClearError, Free
  <1>7. ASSUME NEW g \in Procs,
                Detach(g) \/ Exit(g)
        PROVE  CallInv'
    BY <1>7 DEF IInv, TypeOK, CallInv, Using, M, Goto, frame, Detach, Exit, Release, Unlock,
       RUnlock
  <1>8. ASSUME NEW h \in Handles, Drop(h)
        PROVE  CallInv'
    BY <1>8 DEF IInv, TypeOK, CallInv, Using, M, Goto, frame, Drop
  <1>9. ASSUME NEW h \in Handles, Finalize(h)
        PROVE  CallInv'
    BY <1>9 DEF IInv, TypeOK, CallInv, Using, M, Goto, frame, CloseCall, Finalize
  <1>10. CASE UNCHANGED vars
    BY <1>10 DEF IInv, TypeOK, CallInv, Using, M, Goto, frame, vars
  <1> QED
    BY <1>1, <1>2, <1>3, <1>4, <1>5, <1>6, <1>7, <1>8, <1>9, <1>10 DEF Next, Step

(* Moving on inside the critical section, or to its end, leaves LockInv    *)
(* true.                                                                   *)
LEMMA LockFrame ==
    ASSUME IInv, NEW g \in Procs, UNCHANGED <<mu, call>>,
           pc[g] \in Using \cup {"detach"}, pc'[g] \in Using \cup {"detach", "exit"},
           pc'[g] = "detach" => M(g).lock = "W",
           \A p \in Procs \ {g} : pc'[p] = pc[p]
    PROVE  LockInv'
  BY DEF IInv, LockInv, Holds, HoldsRead, HoldsWrite, Using, M

(* A mutex changes when a goroutine asks for it, gets it or returns, and   *)
(* then records where that goroutine is.                                   *)
LEMMA LockStep ==
    ASSUME IInv, [Next]_vars
    PROVE  LockInv'
  <1>1. ASSUME NEW g \in Goroutines, NEW c \in Calls, Invoke(g, c)
        PROVE  LockInv'
    BY <1>1, CallFacts DEF IInv, TypeOK, CallInv, LockInv, Holds, HoldsRead, HoldsWrite, Using,
       M, Goto, frame, handle, Invoke
  <1>2. ASSUME NEW g \in Procs, Reject(g)
        PROVE  LockInv'
    BY <1>2 DEF IInv, TypeOK, CallInv, LockInv, Holds, HoldsRead, HoldsWrite, Using, M, Goto,
       frame, handle, Reject
  <1>3. ASSUME NEW g \in Procs, Proceed(g)
        PROVE  LockInv'
    <2>1. pc[g] = "enter" /\ pc'[g] \in {"call", "lock"} /\ \A p \in Procs \ {g} : pc'[p] = pc[p]
      BY <1>3, GotoEffect DEF Proceed, IInv
    <2>2. pc'[g] = "call" => call[g].h = Nil
      BY <1>3, <2>1, CallFacts, LockPolicy DEF Proceed, Goto, IInv, TypeOK, M
    <2> QED
      BY <1>3, <2>1, <2>2 DEF Proceed, IInv, LockInv, Holds, M, Using, frame, handle
  <1>4. ASSUME NEW g \in Procs, ReadLock(g)
        PROVE  LockInv'
    <2> DEFINE k == call[g].h
    <2>1. k \in Handles /\ mu[k] \in RWMutexes(Procs)
      BY <1>4, CallFacts DEF ReadLock, Goto, IInv, CallInv, TypeOK
    <2>2. /\ mu'[k] = RLock(mu[k], g)
          /\ \A h \in Handles \ {k} : mu'[h] = mu[h]
      BY <1>4, <2>1 DEF ReadLock, IInv, TypeOK
    <2>3. pc[g] = "lock" /\ pc'[g] = "check" /\ \A p \in Procs \ {g} : pc'[p] = pc[p]
      BY <1>4, GotoEffect DEF ReadLock, IInv
    <2>4. \A h \in Handles : g \notin mu[h].parked \cup mu[h].readers /\ mu[h].writer # g
      BY <2>3 DEF IInv, LockInv, Using
    <2>5. \A h \in Handles : mu'[h].readers \cap mu'[h].parked = {}
      BY <1>4, <2>1, <2>2, <2>4, MutexEffects DEF IInv, LockInv
    <2>6. ASSUME NEW p \in Procs \ {g}, NEW h \in Handles
          PROVE  /\ p \in mu'[h].parked <=> p \in mu[h].parked
                 /\ p \in mu'[h].readers <=> p \in mu[h].readers
                 /\ mu'[h].writer = p <=> mu[h].writer = p
                 /\ HoldsRead(mu[h], p) => HoldsRead(mu'[h], p)
                 /\ HoldsWrite(mu[h], p) => HoldsWrite(mu'[h], p)
      BY <1>4, <2>1, <2>2, <2>6, MutexEffects, NilAssumption
      DEF HoldsRead, HoldsWrite, ReadLock, CanAnnounce
    <2>7. \A p \in Procs : pc'[p] \in Using \cup {"detach"} /\ call'[p].h # Nil => Holds(p)'
      BY <1>4, <2>3, <2>6, CallFacts DEF IInv, LockInv, Holds, M, Using, ReadLock, frame
    <2>8. ASSUME NEW h \in Handles, g \in mu'[h].parked \cup mu'[h].readers \/ mu'[h].writer = g
          PROVE  h = k
      BY <2>2, <2>4, <2>8
    <2>9. /\ g \in mu'[k].parked \cup mu'[k].readers => M(g).lock = "R"
          /\ mu'[k].writer = g => M(g).lock = "W"
      BY <1>4, <2>1, <2>2, <2>4, MutexEffects, NilAssumption DEF ReadLock
    <2> QED
      BY <1>4, <2>3, <2>5, <2>6, <2>7, <2>8, <2>9 DEF IInv, LockInv, M, Using, ReadLock, frame
  <1>5. ASSUME NEW g \in Procs, WriteLock(g)
        PROVE  LockInv'
    <2> DEFINE k == call[g].h
    <2>1. k \in Handles /\ mu[k] \in RWMutexes(Procs)
      BY <1>5, CallFacts DEF WriteLock, Goto, IInv, CallInv, TypeOK
    <2>2. /\ mu'[k] = Lock(mu[k], g)
          /\ \A h \in Handles \ {k} : mu'[h] = mu[h]
      BY <1>5, <2>1 DEF WriteLock, IInv, TypeOK
    <2>3. pc[g] = "lock" /\ pc'[g] = "check" /\ \A p \in Procs \ {g} : pc'[p] = pc[p]
      BY <1>5, GotoEffect DEF WriteLock, IInv
    <2>4. \A h \in Handles : g \notin mu[h].parked \cup mu[h].readers /\ mu[h].writer # g
      BY <2>3 DEF IInv, LockInv, Using
    <2>5. \A h \in Handles : mu'[h].readers \cap mu'[h].parked = {}
      BY <1>5, <2>1, <2>2, <2>4, MutexEffects DEF IInv, LockInv
    <2>6. ASSUME NEW p \in Procs \ {g}, NEW h \in Handles
          PROVE  /\ p \in mu'[h].parked <=> p \in mu[h].parked
                 /\ p \in mu'[h].readers <=> p \in mu[h].readers
                 /\ mu'[h].writer = p <=> mu[h].writer = p
                 /\ HoldsRead(mu[h], p) => HoldsRead(mu'[h], p)
                 /\ HoldsWrite(mu[h], p) => HoldsWrite(mu'[h], p)
      BY <1>5, <2>1, <2>2, <2>6, MutexEffects, NilAssumption
      DEF HoldsRead, HoldsWrite, WriteLock, CanAnnounce
    <2>7. \A p \in Procs : pc'[p] \in Using \cup {"detach"} /\ call'[p].h # Nil => Holds(p)'
      BY <1>5, <2>3, <2>6, CallFacts DEF IInv, LockInv, Holds, M, Using, WriteLock, frame
    <2>8. ASSUME NEW h \in Handles, g \in mu'[h].parked \cup mu'[h].readers \/ mu'[h].writer = g
          PROVE  h = k
      BY <2>2, <2>4, <2>8
    <2>9. /\ g \in mu'[k].parked \cup mu'[k].readers => M(g).lock = "R"
          /\ mu'[k].writer = g => M(g).lock = "W"
      BY <1>5, <2>1, <2>2, <2>4, MutexEffects, NilAssumption DEF WriteLock
    <2> QED
      BY <1>5, <2>3, <2>5, <2>6, <2>7, <2>8, <2>9 DEF IInv, LockInv, M, Using, WriteLock, frame
  <1>6. ASSUME NEW g \in Procs,
                FindClosed(g) \/ FindOpen(g)
        PROVE  LockInv'
    BY <1>6, CallFacts, LockPolicy DEF IInv, TypeOK, CallInv, LockInv, Holds, HoldsRead,
       HoldsWrite, Using, M, Goto, frame, handle, FindClosed, FindOpen
  <1>7. ASSUME NEW g \in Procs,
                EnterC(g) \/ CSucceed(g) \/ CApply(g) \/ CFail(g) \/ CFailStatic(g) \/ ClearError(g)
        PROVE  LockInv'
    BY <1>7, GotoEffect, LockFrame DEF EnterC, CSucceed, CApply, CFail, CFailStatic, ClearError,
       IInv, Using, frame, handle
  <1>8. ASSUME NEW g \in Procs,
                CCreate(g) \/ Detach(g)
        PROVE  LockInv'
    BY <1>8, GotoEffect, LockFrame DEF CCreate, Detach, IInv, Using, frame
  <1>9. ASSUME NEW g \in Procs, ScanCount(g)
        PROVE  LockInv'
    BY <1>9 DEF IInv, TypeOK, CallInv, LockInv, Holds, HoldsRead, HoldsWrite, Using, M, Goto,
       frame, handle, ScanCount
  <1>10. ASSUME NEW g \in Procs, ScanAccess(g)
        PROVE  LockInv'
    BY <1>10 DEF IInv, TypeOK, CallInv, LockInv, Holds, HoldsRead, HoldsWrite, Using, M, Goto,
       frame, handle, ScanAccess
  <1>11. ASSUME NEW g \in Procs, ScanFields(g)
        PROVE  LockInv'
    BY <1>11 DEF IInv, TypeOK, CallInv, LockInv, Holds, HoldsRead, HoldsWrite, Using, M, Goto,
       frame, handle, ScanFields
  <1>12. ASSUME NEW g \in Procs, ScanDone(g)
        PROVE  LockInv'
    BY <1>12, GotoEffect, LockFrame DEF ScanDone, IInv, Using, frame, handle, Scanning
  <1>13. ASSUME NEW g \in Procs, LastError(g)
        PROVE  LockInv'
    <2>1. Goto(g, "failed", "clear") /\ UNCHANGED <<frame, handle>>
      BY <1>13 DEF LastError
    <2> QED
      BY <2>1, GotoEffect, LockFrame DEF IInv, Using, frame, handle
  <1>14. ASSUME NEW g \in Procs, Free(g)
        PROVE  LockInv'
    <2>1. M(g).lock = "W"
      BY <1>14, CallFacts, LockPolicy, CloserPolicy DEF Free, Goto, IInv, CallInv, M
    <2> QED
      BY <1>14, <2>1, GotoEffect, LockFrame DEF Free, IInv, Using, frame, handle
  <1>15. ASSUME NEW g \in Procs, Exit(g)
        PROVE  LockInv'
    <2>1. pc[g] = "exit" /\ pc'[g] = "idle" /\ \A p \in Procs \ {g} : pc'[p] = pc[p]
      BY <1>15, GotoEffect DEF Exit, IInv
    <2>2. \A p \in Procs \ {g} : call'[p] = call[p]
      BY <1>15 DEF Exit, IInv, TypeOK
    <2>3. \A h \in Handles : mu'[h] = IF h = call[g].h THEN Release(g, mu[h]) ELSE mu[h]
      BY <1>15, NilAssumption DEF Exit, IInv, TypeOK
    <2>4. \A h \in Handles : mu[h] \in RWMutexes(Procs)
      BY DEF IInv, TypeOK
    <2>5. \A h \in Handles : /\ g \notin mu'[h].parked
                             /\ g \notin mu'[h].readers
                             /\ mu'[h].writer # g
      BY <2>1, <2>3, <2>4, MutexEffects, NilAssumption DEF IInv, LockInv, M
    <2>6. \A h \in Handles : mu'[h].readers \cap mu'[h].parked = {}
      BY <2>3, <2>4, MutexEffects DEF IInv, LockInv
    <2>7. ASSUME NEW p \in Procs \ {g}, NEW h \in Handles
          PROVE  /\ p \in mu'[h].parked => p \in mu[h].parked
                 /\ p \in mu'[h].readers => p \in mu[h].readers \cup mu[h].parked
                 /\ mu'[h].writer = p => mu[h].writer = p
      BY <2>3, <2>4, <2>7, MutexEffects, NilAssumption
    <2>8. ASSUME NEW p \in Procs \ {g}, NEW h \in Handles
          PROVE  /\ HoldsRead(mu[h], p) => HoldsRead(mu'[h], p)
                 /\ HoldsWrite(mu[h], p) => HoldsWrite(mu'[h], p)
      BY <2>3, <2>4, <2>8, MutexEffects DEF HoldsRead, HoldsWrite
    <2>9. \A p \in Procs : pc'[p] \in Using \cup {"detach"} /\ call'[p].h # Nil => Holds(p)'
      BY <2>1, <2>2, <2>8, CallFacts DEF IInv, LockInv, Holds, M, Using
    <2> QED
      BY <2>1, <2>2, <2>5, <2>6, <2>7, <2>9 DEF IInv, LockInv, M, Using
  <1>16. ASSUME NEW h \in Handles, Drop(h)
        PROVE  LockInv'
    BY <1>16 DEF IInv, TypeOK, CallInv, LockInv, Holds, HoldsRead, HoldsWrite, Using, M, Goto,
       frame, handle, Drop
  <1>17. ASSUME NEW h \in Handles, Finalize(h)
        PROVE  LockInv'
    BY <1>17 DEF IInv, TypeOK, CallInv, LockInv, Holds, HoldsRead, HoldsWrite, Using, M, Goto,
       frame, handle, Finalize
  <1>18. CASE UNCHANGED vars
    BY <1>18 DEF IInv, TypeOK, CallInv, LockInv, Holds, HoldsRead, HoldsWrite, Using, M, Goto,
       frame, handle, vars
  <1> QED
    BY <1>1, <1>2, <1>3, <1>4, <1>5, <1>6, <1>7, <1>8, <1>9, <1>10, <1>11, <1>12, <1>13, <1>14,
       <1>15, <1>16, <1>17, <1>18 DEF Next, Step

(* Nobody is removed from a mutex but by itself, on the way out.           *)
LEMMA WaitStep ==
    ASSUME IInv, [Next]_vars
    PROVE  WaitInv'
  <1>1. ASSUME NEW g \in Procs, ReadLock(g) \/ WriteLock(g)
        PROVE  WaitInv'
    <2> DEFINE k == call[g].h
    <2>1. /\ pc[g] = "lock" /\ pc'[g] = "check" /\ call' = call
          /\ \A p \in Procs \ {g} : pc'[p] = pc[p]
      BY <1>1, GotoEffect DEF ReadLock, WriteLock, frame, IInv
    <2>2. k \in Handles /\ mu[k] \in RWMutexes(Procs)
      BY <2>1, CallFacts DEF IInv, CallInv, TypeOK
    <2>3. /\ \A h \in Handles \ {k} : mu'[h] = mu[h]
          /\ \/ mu'[k] = RLock(mu[k], g)
             \/ mu[k].writer = Nil /\ mu'[k] = Lock(mu[k], g)
      BY <1>1, <2>2 DEF ReadLock, WriteLock, CanAnnounce, IInv, TypeOK
    <2>4. InMutex(g, mu'[k])
      BY <2>2, <2>3, MutexEffects DEF InMutex
    <2>5. ASSUME NEW p \in Procs, NEW h \in Handles, InMutex(p, mu[h])
          PROVE  InMutex(p, mu'[h])
      BY <2>2, <2>3, <2>5, MutexEffects, NilAssumption DEF InMutex
    <2>6. ASSUME NEW p \in Procs, pc'[p] = "check"
          PROVE  InMutex(p, mu'[call[p].h])
      <3>1. CASE p = g
        BY <2>4, <3>1
      <3>2. CASE p # g
        BY <2>1, <2>5, <2>6, <3>2, CallFacts DEF IInv, WaitInv, CallInv
      <3> QED
        BY <3>1, <3>2
    <2> QED
      BY <2>1, <2>6 DEF WaitInv
  <1>2. ASSUME NEW g \in Procs, Exit(g)
        PROVE  WaitInv'
    <2>1. pc'[g] = "idle" /\ \A p \in Procs \ {g} : pc'[p] = pc[p] /\ call'[p] = call[p]
      BY <1>2, GotoEffect DEF Exit, IInv, TypeOK
    <2>2. \A h \in Handles : mu'[h] = IF h = call[g].h THEN Release(g, mu[h]) ELSE mu[h]
      BY <1>2, NilAssumption DEF Exit, IInv, TypeOK
    <2>3. \A h \in Handles : mu[h] \in RWMutexes(Procs)
      BY DEF IInv, TypeOK
    <2>4. ASSUME NEW p \in Procs \ {g}, NEW h \in Handles, InMutex(p, mu[h])
          PROVE  InMutex(p, mu'[h])
      BY <2>2, <2>3, <2>4, MutexEffects DEF InMutex
    <2> QED
      BY <2>1, <2>4, CallFacts DEF IInv, WaitInv, CallInv
  <1>3. ASSUME NEW g \in Procs, Goto(g, "idle", "enter"), mu' = mu, NEW c,
               call' = [call EXCEPT ![g] = c]
        PROVE  WaitInv'
    BY <1>3, GotoEffect DEF IInv, TypeOK, WaitInv
  <1>4. ASSUME NEW g \in Goroutines, NEW c \in Calls, Invoke(g, c)
        PROVE  WaitInv'
    BY <1>3, <1>4 DEF Invoke, handle, Procs
  <1>5. ASSUME NEW h \in Handles, Finalize(h)
        PROVE  WaitInv'
    BY <1>3, <1>5 DEF Finalize, Procs
  <1>6. ASSUME NEW g \in Procs, UNCHANGED <<mu, call>>, pc'[g] # "check",
               \A p \in Procs \ {g} : pc'[p] = pc[p]
        PROVE  WaitInv'
    BY <1>6 DEF IInv, WaitInv
  <1>7. ASSUME NEW g \in Procs,
               Reject(g) \/ FindClosed(g) \/ EnterC(g) \/ CSucceed(g) \/ CCreate(g) \/ CApply(g)
               \/ CFail(g) \/ CFailStatic(g) \/ ScanDone(g) \/ LastError(g) \/ ClearError(g)
               \/ Free(g) \/ Detach(g)
        PROVE  WaitInv'
    <2>1. /\ UNCHANGED <<mu, call>>
          /\ \E to \in {"exit", "inC", "free", "failed", "clear", "detach"} : pc' = [pc EXCEPT ![g] = to]
      BY <1>7 DEF Reject, FindClosed, EnterC, CSucceed, CCreate, CApply, CFail, CFailStatic, ScanDone,
         LastError, ClearError, Free, Detach, Goto, frame, handle
    <2> QED
      BY <1>6, <2>1 DEF IInv, TypeOK
  <1>8. ASSUME NEW g \in Procs, Proceed(g) \/ FindOpen(g)
        PROVE  WaitInv'
    <2>1. /\ pc' = [pc EXCEPT ![g] = "call"] \/ pc' = [pc EXCEPT ![g] = "lock"]
             \/ pc' = [pc EXCEPT ![g] = "free"]
          /\ UNCHANGED <<mu, call>>
      BY <1>8 DEF Proceed, FindOpen, Goto, frame, handle
    <2> QED
      BY <1>6, <2>1 DEF IInv, TypeOK
  <1>9. CASE \/ \E g \in Procs : ScanCount(g) \/ ScanAccess(g) \/ ScanFields(g)
             \/ \E h \in Handles : Drop(h)
             \/ UNCHANGED vars
    BY <1>9 DEF ScanCount, ScanAccess, ScanFields, Drop, frame, handle, vars, IInv, WaitInv
  <1> QED
    BY <1>1, <1>2, <1>4, <1>5, <1>7, <1>8, <1>9 DEF Next, Step

(* A writer has its critical section to itself.                            *)
LEMMA Exclusion ==
    ASSUME NEW g1 \in Procs, NEW g2 \in Procs, Holds(g1), Holds(g2),
           call[g1].h = call[g2].h, M(g1).lock = "W"
    PROVE  g1 = g2
  BY DEF Holds, HoldsRead, HoldsWrite

(* Moving on while using the object, or to exit, leaves MemInv true.       *)
LEMMA MemFrame ==
    ASSUME IInv, NEW g \in Procs, UNCHANGED <<mem, ptr, call>>,
           pc[g] # "detach", pc'[g] # "detach",
           pc'[g] \in Using /\ call[g].h # Nil => mem[call[g].h] = "live",
           \A p \in Procs \ {g} : pc'[p] = pc[p]
    PROVE  MemInv'
  BY DEF IInv, MemInv

(* A new object and the pointer to it leave MemInv true.                   *)
LEMMA MemCreate ==
    ASSUME IInv, NEW g \in Procs, NEW n \in Handles,
           mem[n] = "unborn", mem'[n] = "live", ptr'[n] = TRUE,
           \A h \in Handles \ {n} : mem'[h] = mem[h] /\ ptr'[h] = ptr[h],
           call' = call, pc[g] # "detach", pc'[g] = "exit",
           \A p \in Procs \ {g} : pc'[p] = pc[p],
           \A p \in Procs : /\ pc[p] \in Using /\ call[p].h # Nil => call[p].h # n
                            /\ pc[p] = "detach" => call[p].h # n
    PROVE  MemInv'
  <1>1. \A p \in Procs : call[p].h \in Handles \cup {Nil}
    BY CallFacts DEF IInv
  <1>2. \A p \in Procs : pc[p] = "detach" => call[p].h \in Handles
    BY CallFacts DEF IInv, CallInv
  <1> QED
    BY <1>1, <1>2 DEF IInv, MemInv, Using

(* ptr follows mem: it is set when the object is born, outlives it only    *)
(* from the free to the assignment of nil, and nobody else uses the object *)
(* in between.                                                             *)
LEMMA MemStep ==
    ASSUME IInv, [Next]_vars
    PROVE  MemInv'
  <1>1. ASSUME NEW g \in Goroutines, NEW c \in Calls, Invoke(g, c)
        PROVE  MemInv'
    <2>1. pc[g] = "idle" /\ pc'[g] = "enter" /\ \A p \in Procs \ {g} : pc'[p] = pc[p]
      BY <1>1, GotoEffect DEF Invoke, IInv, Procs
    <2>2. \A p \in Procs \ {g} : call'[p] = call[p]
      BY <1>1 DEF Invoke, IInv, TypeOK
    <2>3. UNCHANGED <<mem, ptr>>
      BY <1>1 DEF Invoke, handle, library
    <2> QED
      BY <2>1, <2>2, <2>3 DEF IInv, MemInv, Using
  <1>2. ASSUME NEW g \in Procs,
                Reject(g) \/ ReadLock(g) \/ WriteLock(g)
        PROVE  MemInv'
    BY <1>2, GotoEffect, MemFrame DEF Reject, ReadLock, WriteLock, IInv, MemInv, Using, frame,
       handle, library
  <1>3. ASSUME NEW g \in Procs, Proceed(g)
        PROVE  MemInv'
    <2>1. pc'[g] \in Using => call[g].h = Nil
      BY <1>3, GotoEffect, CallFacts, LockPolicy DEF Proceed, IInv, TypeOK, Using, M
    <2> QED
      BY <1>3, <2>1, GotoEffect, MemFrame DEF Proceed, IInv, frame, handle, library
  <1>4. ASSUME NEW g \in Procs,
                FindClosed(g) \/ EnterC(g) \/ CSucceed(g)
        PROVE  MemInv'
    BY <1>4, GotoEffect, MemFrame DEF FindClosed, EnterC, CSucceed, IInv, MemInv, Using, frame,
       handle, library
  <1>5. ASSUME NEW g \in Procs, FindOpen(g)
        PROVE  MemInv'
    <2>1. pc[g] = "check" /\ pc'[g] \in {"call", "free"} /\ \A p \in Procs \ {g} : pc'[p] = pc[p]
      BY <1>5, GotoEffect DEF FindOpen, IInv
    <2>2. call[g].h \in Handles
      BY <2>1, CallFacts DEF IInv, CallInv
    <2>3. ASSUME NEW p \in Procs, pc[p] = "detach", call[p].h = call[g].h
          PROVE  FALSE
      <3>1. Holds(p) /\ M(p).lock = "W"
        BY <2>2, <2>3, CallFacts, LockPolicy, CloserPolicy, NilAssumption
        DEF IInv, LockInv, CallInv, M
      <3> QED
        BY <1>5, <2>1, <2>3, <3>1, Exclusion DEF FindOpen
    <2>4. mem[call[g].h] = "live"
      BY <1>5, <2>2, <2>3 DEF FindOpen, IInv, MemInv
    <2> QED
      BY <1>5, <2>1, <2>4, MemFrame DEF FindOpen, IInv, frame, handle, library
  <1>6. ASSUME NEW g \in Procs, CCreate(g)
        PROVE  MemInv'
    <2>1. pc[g] = "inC" /\ pc'[g] = "exit" /\ \A p \in Procs \ {g} : pc'[p] = pc[p]
      BY <1>6, GotoEffect DEF CCreate, IInv
    <2>2. PICK n \in Handles : /\ mem[n] = "unborn"
                               /\ mem' = [mem EXCEPT ![n] = "live"]
                               /\ ptr' = [ptr EXCEPT ![n] = TRUE]
      BY <1>6 DEF CCreate, Makes, Handles
    <2>3. call' = call
      BY <1>6 DEF CCreate, frame
    <2>4. \A p \in Procs : /\ pc[p] \in Using /\ call[p].h # Nil => call[p].h # n
                           /\ pc[p] = "detach" => call[p].h # n
      BY <2>2 DEF IInv, MemInv
    <2>5. \A h \in Handles \ {n} : mem'[h] = mem[h] /\ ptr'[h] = ptr[h]
      BY <2>2 DEF IInv, TypeOK
    <2>6. mem'[n] = "live" /\ ptr'[n] = TRUE
      BY <2>2 DEF IInv, TypeOK
    <2> QED
      BY <2>1, <2>2, <2>3, <2>4, <2>5, <2>6, MemCreate DEF IInv
  <1>7. ASSUME NEW g \in Procs,
                CApply(g) \/ CFail(g) \/ CFailStatic(g)
        PROVE  MemInv'
    BY <1>7, GotoEffect, MemFrame DEF CApply, CFail, CFailStatic, IInv, MemInv, Using, frame,
       handle, library
  <1>8. ASSUME NEW g \in Procs,
                ScanCount(g) \/ ScanAccess(g) \/ ScanFields(g)
        PROVE  MemInv'
    BY <1>8, GotoEffect, MemFrame DEF ScanCount, ScanAccess, ScanFields, IInv, MemInv, Using,
       frame, handle, library, Scanning, Goto
  <1>9. ASSUME NEW g \in Procs, ScanDone(g)
        PROVE  MemInv'
    BY <1>9, GotoEffect, MemFrame DEF ScanDone, IInv, MemInv, Using, frame, handle, library,
       Scanning, Goto
  <1>10. ASSUME NEW g \in Procs, LastError(g)
        PROVE  MemInv'
    <2>1. Goto(g, "failed", "clear") /\ UNCHANGED <<frame, handle, library>>
      BY <1>10 DEF LastError
    <2> QED
      BY <2>1, GotoEffect, MemFrame DEF IInv, MemInv, Using, frame, handle, library
  <1>11. ASSUME NEW g \in Procs, ClearError(g)
        PROVE  MemInv'
    BY <1>11, GotoEffect, MemFrame DEF ClearError, IInv, MemInv, Using, frame, handle, library
  <1>12. ASSUME NEW g \in Procs, Free(g)
        PROVE  MemInv'
    <2> DEFINE k == call[g].h
    <2>1. pc[g] = "free" /\ pc'[g] = "detach" /\ \A p \in Procs \ {g} : pc'[p] = pc[p]
      BY <1>12, GotoEffect DEF Free, IInv
    <2>2. k \in Handles /\ M(g).lock = "W" /\ Holds(g)
      BY <2>1, CallFacts, LockPolicy, CloserPolicy, NilAssumption DEF IInv, CallInv, LockInv, M,
         Using
    <2>3. \A p \in Procs \ {g} : pc[p] \in Using \cup {"detach"} => call[p].h # k
      BY <2>1, <2>2, Exclusion, NilAssumption DEF IInv, LockInv
    <2>4. mem'[k] = "freed" /\ \A h \in Handles \ {k} : mem'[h] = mem[h]
      BY <1>12, <2>2 DEF Free, IInv, TypeOK
    <2>5. ptr' = ptr /\ call' = call
      BY <1>12 DEF Free, frame, handle
    <2>6. \A p \in Procs \ {g} : pc[p] \in Using /\ call[p].h # Nil => mem'[call[p].h] = "live"
      BY <2>3, <2>4, CallFacts DEF IInv, MemInv
    <2>7. \A p \in Procs \ {g} : pc[p] = "detach" => mem'[call[p].h] = "freed"
      BY <2>3, <2>4, CallFacts DEF IInv, MemInv, CallInv
    <2> QED
      BY <2>1, <2>2, <2>4, <2>5, <2>6, <2>7 DEF IInv, MemInv, Using
  <1>13. ASSUME NEW g \in Procs, Detach(g)
        PROVE  MemInv'
    <2> DEFINE k == call[g].h
    <2>1. pc[g] = "detach" /\ pc'[g] = "exit" /\ \A p \in Procs \ {g} : pc'[p] = pc[p]
      BY <1>13, GotoEffect DEF Detach, IInv
    <2>2. mem[k] = "freed" /\ mem' = mem /\ call' = call
      BY <1>13, <2>1 DEF Detach, IInv, MemInv, frame, library
    <2>3. k \in Handles
      BY <2>1, CallFacts DEF IInv, CallInv
    <2>4. ~ptr'[k] /\ \A h \in Handles \ {k} : ptr'[h] = ptr[h]
      BY <1>13, <2>3 DEF Detach, IInv, TypeOK
    <2> QED
      BY <2>1, <2>2, <2>3, <2>4 DEF IInv, MemInv, Using
  <1>14. ASSUME NEW g \in Procs, Exit(g)
        PROVE  MemInv'
    <2>1. pc[g] = "exit" /\ pc'[g] = "idle" /\ \A p \in Procs \ {g} : pc'[p] = pc[p]
      BY <1>14, GotoEffect DEF Exit, IInv
    <2>2. \A p \in Procs \ {g} : call'[p] = call[p]
      BY <1>14 DEF Exit, IInv, TypeOK
    <2>3. UNCHANGED <<mem, ptr>>
      BY <1>14 DEF Exit, library
    <2> QED
      BY <2>1, <2>2, <2>3 DEF IInv, MemInv, Using
  <1>15. ASSUME NEW h \in Handles, Drop(h)
        PROVE  MemInv'
    BY <1>15 DEF IInv, MemInv, frame, handle, library, Drop
  <1>16. ASSUME NEW h \in Handles, Finalize(h)
        PROVE  MemInv'
    <2>1. /\ Collector \in Procs /\ pc[Collector] = "idle" /\ pc'[Collector] = "enter"
          /\ \A p \in Procs \ {Collector} : pc'[p] = pc[p]
      BY <1>16, GotoEffect DEF Finalize, IInv, Procs
    <2>2. \A p \in Procs \ {Collector} : call'[p] = call[p]
      BY <1>16 DEF Finalize, IInv, TypeOK
    <2>3. UNCHANGED <<mem, ptr>>
      BY <1>16 DEF Finalize, library
    <2> QED
      BY <2>1, <2>2, <2>3 DEF IInv, MemInv, Using
  <1>17. CASE UNCHANGED vars
    BY <1>17 DEF IInv, MemInv, frame, handle, library, vars
  <1> QED
    BY <1>1, <1>2, <1>3, <1>4, <1>5, <1>6, <1>7, <1>8, <1>9, <1>10, <1>11, <1>12, <1>13, <1>14,
       <1>15, <1>16, <1>17 DEF Next, Step

(* The Close in progress that an object without finalizer waits for goes   *)
(* on.                                                                     *)
LEMMA LeakFrame ==
    ASSUME IInv, NEW g \in Procs, mem' = mem, finalizer' = finalizer,
           \A p \in Procs \ {g} : pc'[p] = pc[p] /\ call'[p] = call[p],
           /\ pc[g] \in {"enter", "lock", "check", "free"}
           /\ call[g].op \in Closers
           /\ mem[call[g].h] = "live"
           => pc'[g] \in {"enter", "lock", "check", "free"} /\ call'[g] = call[g]
    PROVE  NoLeak'
  BY DEF IInv, NoLeak

(* An object loses its finalizer only to a Close, and that Close frees it. *)
LEMMA LeakStep ==
    ASSUME IInv, [Next]_vars
    PROVE  NoLeak'
  <1>1. ASSUME NEW g \in Goroutines, NEW c \in Calls, Invoke(g, c)
        PROVE  NoLeak'
    <2>1. g \in Procs /\ UNCHANGED <<mem, finalizer>>
      BY <1>1 DEF Invoke, handle, library, Procs
    <2>2. \A p \in Procs \ {g} : call'[p] = call[p]
      BY <1>1 DEF Invoke, IInv, TypeOK
    <2> QED
      BY <1>1, <2>1, <2>2, GotoEffect, LeakFrame DEF Invoke, IInv
  <1>2. ASSUME NEW g \in Procs, Reject(g)
        PROVE  NoLeak'
    <2>1. call[g].op \notin Closers
      BY <1>2, CloserPolicy DEF Reject, ArgumentError
    <2>2. UNCHANGED <<mem, finalizer, call>>
      BY <1>2 DEF Reject, frame, handle, library
    <2> QED
      BY <1>2, <2>1, <2>2, GotoEffect, LeakFrame DEF Reject, IInv
  <1>3. ASSUME NEW g \in Procs, Proceed(g)
        PROVE  NoLeak'
    <2>1. call[g].op \in Closers => M(g).lock # "none"
      BY CloserPolicy, LockPolicy DEF M
    <2>2. UNCHANGED <<mem, finalizer, call>>
      BY <1>3 DEF Proceed, frame, handle, library
    <2> QED
      BY <1>3, <2>1, <2>2, GotoEffect, LeakFrame DEF Proceed, IInv
  <1>4. ASSUME NEW g \in Procs,
                ReadLock(g) \/ WriteLock(g) \/ FindOpen(g) \/ EnterC(g) \/ CSucceed(g) \/ CApply(g)
                \/ CFail(g) \/ CFailStatic(g)
        PROVE  NoLeak'
    <2>1. UNCHANGED <<mem, finalizer, call>>
      BY <1>4 DEF ReadLock, WriteLock, FindOpen, EnterC, CSucceed, CApply, CFail, CFailStatic,
         frame, handle, library
    <2> QED
      BY <1>4, <2>1, GotoEffect, LeakFrame DEF ReadLock, WriteLock, FindOpen, EnterC, CSucceed,
         CApply, CFail, CFailStatic, IInv
  <1>5. ASSUME NEW g \in Procs, FindClosed(g)
        PROVE  NoLeak'
    <2>1. pc[g] = "check" /\ ~ptr[call[g].h] /\ UNCHANGED <<mem, finalizer, call>>
      BY <1>5 DEF FindClosed, Goto, frame, handle, library
    <2>2. call[g].h \in Handles
      BY <2>1, CallFacts DEF IInv, CallInv
    <2>3. mem[call[g].h] # "live"
      BY <2>1, <2>2 DEF IInv, MemInv
    <2> QED
      BY <1>5, <2>1, <2>3, GotoEffect, LeakFrame DEF FindClosed, IInv
  <1>6. ASSUME NEW g \in Procs, CCreate(g)
        PROVE  NoLeak'
    <2>1. PICK n \in Handles : /\ mem' = [mem EXCEPT ![n] = "live"]
                               /\ finalizer' = [finalizer EXCEPT ![n] = TRUE]
      BY <1>6 DEF CCreate, Makes, Handles
    <2>2. finalizer'[n] /\ \A h \in Handles \ {n} : mem'[h] = mem[h] /\ finalizer'[h] = finalizer[h]
      BY <2>1 DEF IInv, TypeOK
    <2>3. \A p \in Procs : /\ call'[p] = call[p]
                           /\ pc[p] \in {"enter", "lock", "check", "free"} => pc'[p] = pc[p]
      BY <1>6, GotoEffect DEF CCreate, frame, IInv
    <2> QED
      BY <2>2, <2>3 DEF IInv, NoLeak
  <1>7. ASSUME NEW g \in Procs,
                ScanCount(g) \/ ScanAccess(g) \/ ScanFields(g) \/ ScanDone(g)
        PROVE  NoLeak'
    BY <1>7, GotoEffect, LeakFrame DEF ScanCount, ScanAccess, ScanFields, ScanDone, IInv, frame,
       handle, library, Scanning, Goto
  <1>8. ASSUME NEW g \in Procs, LastError(g)
        PROVE  NoLeak'
    <2>1. Goto(g, "failed", "clear") /\ UNCHANGED <<mem, finalizer, call>>
      BY <1>8 DEF LastError, frame, handle, library
    <2> QED
      BY <2>1, GotoEffect, LeakFrame DEF IInv
  <1>9. ASSUME NEW g \in Procs, ClearError(g)
        PROVE  NoLeak'
    <2>1. UNCHANGED <<mem, finalizer, call>>
      BY <1>9 DEF ClearError, frame, handle, library
    <2> QED
      BY <1>9, <2>1, GotoEffect, LeakFrame DEF ClearError, IInv
  <1>10. ASSUME NEW g \in Procs, Free(g)
        PROVE  NoLeak'
    <2> DEFINE k == call[g].h
    <2>1. pc[g] = "free" /\ \A p \in Procs \ {g} : pc'[p] = pc[p]
      BY <1>10, GotoEffect DEF Free, IInv
    <2>2. k \in Handles
      BY <2>1, CallFacts DEF IInv, CallInv, Using
    <2>3. mem'[k] = "freed" /\ \A h \in Handles \ {k} : mem'[h] = mem[h]
      BY <1>10, <2>2 DEF Free, IInv, TypeOK
    <2>4. call' = call /\ finalizer' = finalizer
      BY <1>10 DEF Free, frame, handle
    <2> QED
      BY <2>1, <2>3, <2>4 DEF IInv, NoLeak
  <1>11. ASSUME NEW g \in Procs, Detach(g)
        PROVE  NoLeak'
    <2> DEFINE k == call[g].h
    <2>1. pc[g] = "detach" /\ \A p \in Procs \ {g} : pc'[p] = pc[p]
      BY <1>11, GotoEffect DEF Detach, IInv
    <2>2. k \in Handles /\ mem[k] = "freed"
      BY <2>1, CallFacts DEF IInv, CallInv, MemInv
    <2>3. \A h \in Handles \ {k} : finalizer'[h] = finalizer[h]
      BY <1>11, <2>2 DEF Detach, IInv, TypeOK
    <2>4. call' = call /\ mem' = mem
      BY <1>11 DEF Detach, frame, library
    <2> QED
      BY <2>1, <2>2, <2>3, <2>4 DEF IInv, NoLeak
  <1>12. ASSUME NEW g \in Procs, Exit(g)
        PROVE  NoLeak'
    <2>1. UNCHANGED <<mem, finalizer>>
      BY <1>12 DEF Exit, library
    <2>2. \A p \in Procs \ {g} : call'[p] = call[p]
      BY <1>12 DEF Exit, IInv, TypeOK
    <2> QED
      BY <1>12, <2>1, <2>2, GotoEffect, LeakFrame DEF Exit, IInv
  <1>13. ASSUME NEW h \in Handles, Drop(h)
        PROVE  NoLeak'
    BY <1>13 DEF IInv, NoLeak, frame, handle, library, Drop
  <1>14. ASSUME NEW h \in Handles, Finalize(h)
        PROVE  NoLeak'
    <2>1. /\ Collector \in Procs /\ pc[Collector] = "idle" /\ pc'[Collector] = "enter"
          /\ \A p \in Procs \ {Collector} : pc'[p] = pc[p]
      BY <1>14, GotoEffect DEF Finalize, IInv, Procs
    <2>2. call'[Collector] = CloseCall(h) /\ \A p \in Procs \ {Collector} : call'[p] = call[p]
      BY <1>14, <2>1 DEF Finalize, IInv, TypeOK
    <2>3. CloseCall(h).op \in Closers /\ CloseCall(h).h = h
      BY DEF CloseCall, Closers
    <2>4. mem' = mem /\ \A k \in Handles \ {h} : finalizer'[k] = finalizer[k]
      BY <1>14 DEF Finalize, library, IInv, TypeOK
    <2> QED
      BY <2>1, <2>2, <2>3, <2>4 DEF IInv, NoLeak
  <1>15. CASE UNCHANGED vars
    BY <1>15 DEF IInv, NoLeak, frame, handle, library, vars
  <1> QED
    BY <1>1, <1>2, <1>3, <1>4, <1>5, <1>6, <1>7, <1>8, <1>9, <1>10, <1>11, <1>12, <1>13, <1>14,
       <1>15 DEF Next, Step

(* An object in use by a C call has not been applied, nor has an unborn    *)
(* one.                                                                    *)
LEMMA NotYetApplied ==
    ASSUME IInv, NEW h \in Handles,
           \/ mem[h] = "unborn"
           \/ \E g \in Procs : pc[g] \in Using \ {"free"} /\ call[g].h = h
    PROVE  applied[h] = Nil
  <1>1. SUFFICES ASSUME applied[h] # Nil
                 PROVE  FALSE
    OBVIOUS
  <1>2. mem[h] # "freed"
    BY NilAssumption DEF IInv, MemInv
  <1>3. PICK p \in Procs : pc[p] = "free" /\ call[p].h = h
    BY <1>1, <1>2 DEF IInv, AppliedInv
  <1>4. mem[h] = "live" /\ M(p).lock = "W" /\ Holds(p)
    BY <1>3, CallFacts, LockPolicy, CloserPolicy, NilAssumption
    DEF IInv, MemInv, CallInv, LockInv, Using, M
  <1>5. PICK g \in Procs : pc[g] \in Using \ {"free"} /\ call[g].h = h
    BY <1>4
  <1>6. Holds(g)
    BY <1>5, NilAssumption DEF IInv, LockInv
  <1> QED
    BY <1>3, <1>4, <1>5, <1>6, Exclusion

(* AppliedInv survives any step but the free.                              *)
LEMMA AppliedFrame ==
    ASSUME IInv, NEW g \in Procs, UNCHANGED <<applied, mem>>, pc[g] # "free",
           \A p \in Procs \ {g} : pc'[p] = pc[p] /\ call'[p] = call[p]
    PROVE  AppliedInv'
  BY DEF IInv, AppliedInv

(* A set once applied is freed next.                                       *)
LEMMA AppliedStep ==
    ASSUME IInv, [Next]_vars
    PROVE  AppliedInv'
  <1>1. ASSUME NEW g \in Goroutines, NEW c \in Calls, Invoke(g, c)
        PROVE  AppliedInv'
    <2>1. g \in Procs /\ UNCHANGED <<applied, mem>>
      BY <1>1 DEF Invoke, handle, library, Procs
    <2>2. \A p \in Procs \ {g} : call'[p] = call[p]
      BY <1>1 DEF Invoke, IInv, TypeOK
    <2> QED
      BY <1>1, <2>1, <2>2, GotoEffect, AppliedFrame DEF Invoke, IInv
  <1>2. ASSUME NEW g \in Procs,
                Reject(g) \/ Proceed(g) \/ ReadLock(g) \/ WriteLock(g) \/ FindClosed(g) \/
                FindOpen(g) \/ EnterC(g) \/ CSucceed(g)
        PROVE  AppliedInv'
    <2>1. UNCHANGED <<applied, mem, call>>
      BY <1>2 DEF Reject, Proceed, ReadLock, WriteLock, FindClosed, FindOpen, EnterC, CSucceed,
         frame, handle, library
    <2> QED
      BY <1>2, <2>1, GotoEffect, AppliedFrame DEF Reject, Proceed, ReadLock, WriteLock,
         FindClosed, FindOpen, EnterC, CSucceed, IInv
  <1>3. ASSUME NEW g \in Procs, CCreate(g)
        PROVE  AppliedInv'
    <2>1. PICK n \in Handles : mem[n] = "unborn" /\ mem' = [mem EXCEPT ![n] = "live"]
      BY <1>3 DEF CCreate, Makes, Handles
    <2>2. applied[n] = Nil /\ \A h \in Handles \ {n} : mem'[h] = mem[h]
      BY <2>1, NotYetApplied DEF IInv, TypeOK
    <2>3. \A p \in Procs : pc[p] = "free" => pc'[p] = "free"
      BY <1>3, GotoEffect DEF CCreate, IInv
    <2>4. UNCHANGED <<applied, call>>
      BY <1>3 DEF CCreate, frame
    <2> QED
      BY <2>2, <2>3, <2>4 DEF IInv, AppliedInv
  <1>4. ASSUME NEW g \in Procs, CApply(g)
        PROVE  AppliedInv'
    <2>1. pc'[g] = "free" /\ \A p \in Procs \ {g} : pc'[p] = pc[p]
      BY <1>4, GotoEffect DEF CApply, IInv
    <2>2. \A h \in Handles : h # call[g].h => applied'[h] = applied[h]
      BY <1>4 DEF CApply, IInv, TypeOK
    <2>3. UNCHANGED <<mem, call>>
      BY <1>4 DEF CApply, frame
    <2> QED
      BY <2>1, <2>2, <2>3 DEF IInv, AppliedInv
  <1>5. ASSUME NEW g \in Procs,
                CFail(g) \/ CFailStatic(g) \/ ClearError(g)
        PROVE  AppliedInv'
    <2>1. UNCHANGED <<applied, mem, call>>
      BY <1>5 DEF CFail, CFailStatic, ClearError, frame, handle, library
    <2> QED
      BY <1>5, <2>1, GotoEffect, AppliedFrame DEF CFail, CFailStatic, ClearError, IInv
  <1>6. ASSUME NEW g \in Procs,
                ScanCount(g) \/ ScanAccess(g) \/ ScanFields(g) \/ ScanDone(g)
        PROVE  AppliedInv'
    BY <1>6, GotoEffect, AppliedFrame DEF ScanCount, ScanAccess, ScanFields, ScanDone, IInv,
       frame, handle, library, Scanning, Goto
  <1>7. ASSUME NEW g \in Procs, LastError(g)
        PROVE  AppliedInv'
    <2>1. Goto(g, "failed", "clear") /\ UNCHANGED <<applied, mem, call>>
      BY <1>7 DEF LastError, frame, handle, library
    <2> QED
      BY <2>1, GotoEffect, AppliedFrame DEF IInv
  <1>8. ASSUME NEW g \in Procs, Free(g)
        PROVE  AppliedInv'
    <2> DEFINE k == call[g].h
    <2>1. pc[g] = "free" /\ \A p \in Procs \ {g} : pc'[p] = pc[p]
      BY <1>8, GotoEffect DEF Free, IInv
    <2>2. k \in Handles
      BY <2>1, CallFacts DEF IInv, CallInv, Using
    <2>3. mem'[k] = "freed" /\ \A h \in Handles \ {k} : mem'[h] = mem[h]
      BY <1>8, <2>2 DEF Free, IInv, TypeOK
    <2>4. UNCHANGED <<applied, call>>
      BY <1>8 DEF Free, frame
    <2> QED
      BY <2>1, <2>3, <2>4 DEF IInv, AppliedInv
  <1>9. ASSUME NEW g \in Procs, Detach(g)
        PROVE  AppliedInv'
    <2>1. Goto(g, "detach", "exit") /\ UNCHANGED <<applied, mem, call>>
      BY <1>9 DEF Detach, frame, library
    <2> QED
      BY <2>1, GotoEffect, AppliedFrame DEF IInv
  <1>10. ASSUME NEW g \in Procs, Exit(g)
        PROVE  AppliedInv'
    <2>1. g \in Procs /\ UNCHANGED <<applied, mem>>
      BY <1>10 DEF Exit, library
    <2>2. \A p \in Procs \ {g} : call'[p] = call[p]
      BY <1>10 DEF Exit, IInv, TypeOK
    <2> QED
      BY <1>10, <2>1, <2>2, GotoEffect, AppliedFrame DEF Exit, IInv
  <1>11. ASSUME NEW h \in Handles, Drop(h)
        PROVE  AppliedInv'
    BY <1>11 DEF IInv, AppliedInv, frame, handle, library, Drop
  <1>12. ASSUME NEW h \in Handles, Finalize(h)
        PROVE  AppliedInv'
    <2>1. Collector \in Procs /\ UNCHANGED <<applied, mem>>
      BY <1>12 DEF Finalize, library, Procs
    <2>2. \A p \in Procs \ {Collector} : call'[p] = call[p]
      BY <1>12 DEF Finalize, IInv, TypeOK
    <2> QED
      BY <1>12, <2>1, <2>2, GotoEffect, AppliedFrame DEF Finalize, IInv
  <1>13. CASE UNCHANGED vars
    BY <1>13 DEF IInv, AppliedInv, frame, handle, library, vars
  <1> QED
    BY <1>1, <1>2, <1>3, <1>4, <1>5, <1>6, <1>7, <1>8, <1>9, <1>10, <1>11, <1>12, <1>13 DEF Next,
       Step

(* No C call writes to an applied set: nobody else is in its critical      *)
(* section.                                                                *)
LEMMA FinalStep ==
    ASSUME IInv, [Next]_vars
    PROVE  AppliedIsFinal'
  <1>1. ASSUME NEW g \in Goroutines, NEW c \in Calls, Invoke(g, c)
        PROVE  AppliedIsFinal'
    BY <1>1 DEF IInv, AppliedIsFinal, library, Invoke
  <1>2. ASSUME NEW g \in Procs,
                Reject(g) \/ Proceed(g) \/ ReadLock(g) \/ WriteLock(g) \/ FindClosed(g) \/
                FindOpen(g) \/ EnterC(g) \/ CFail(g)
        PROVE  AppliedIsFinal'
    BY <1>2 DEF IInv, AppliedIsFinal, library, Reject, Proceed, ReadLock, WriteLock, FindClosed,
       FindOpen, EnterC, CFail, RLock, Lock
  <1>3. ASSUME NEW g \in Procs, CSucceed(g)
        PROVE  AppliedIsFinal'
    <2>1. pc[g] = "inC" /\ applied' = applied
      BY <1>3 DEF CSucceed, Goto
    <2>2. call[g].h # Nil => call[g].h \in Handles /\ applied[call[g].h] = Nil
      BY <2>1, CallFacts, NotYetApplied DEF IInv, Using
    <2>3. \A h \in Handles : h # call[g].h => heap'[h] = heap[h]
      BY <1>3 DEF CSucceed, IInv, TypeOK
    <2> QED
      BY <2>1, <2>2, <2>3, NilAssumption DEF IInv, AppliedIsFinal
  <1>4. ASSUME NEW g \in Procs, CCreate(g)
        PROVE  AppliedIsFinal'
    <2>1. PICK n \in Handles : mem[n] = "unborn" /\ \E new : heap' = [heap EXCEPT ![n] = new]
      BY <1>4 DEF CCreate, Makes, Handles
    <2>2. applied[n] = Nil /\ \A h \in Handles \ {n} : heap'[h] = heap[h]
      BY <2>1, NotYetApplied DEF IInv, TypeOK
    <2>3. applied' = applied
      BY <1>4 DEF CCreate
    <2> QED
      BY <2>2, <2>3 DEF IInv, AppliedIsFinal
  <1>5. ASSUME NEW g \in Procs, CApply(g)
        PROVE  AppliedIsFinal'
    <2>1. \A h \in Handles : applied'[h] = IF h = call[g].h THEN heap[h] ELSE applied[h]
      BY <1>5 DEF CApply, IInv, TypeOK
    <2>2. heap' = heap
      BY <1>5 DEF CApply
    <2> QED
      BY <2>1, <2>2 DEF IInv, AppliedIsFinal
  <1>6. ASSUME NEW g \in Procs,
                CFailStatic(g) \/ ScanCount(g) \/ ScanAccess(g) \/ ScanFields(g) \/ ScanDone(g) \/
                LastError(g) \/ ClearError(g) \/ Free(g)
        PROVE  AppliedIsFinal'
    BY <1>6 DEF IInv, AppliedIsFinal, library, CFailStatic, ScanCount, ScanAccess, ScanFields,
       ScanDone, LastError, ClearError, Free
  <1>7. ASSUME NEW g \in Procs,
                Detach(g) \/ Exit(g)
        PROVE  AppliedIsFinal'
    BY <1>7 DEF IInv, AppliedIsFinal, library, Detach, Exit, Release, Unlock, RUnlock
  <1>8. ASSUME NEW h \in Handles,
                Drop(h) \/ Finalize(h)
        PROVE  AppliedIsFinal'
    BY <1>8 DEF IInv, AppliedIsFinal, library, Drop, Finalize
  <1>9. CASE UNCHANGED vars
    BY <1>9 DEF IInv, AppliedIsFinal, library, vars
  <1> QED
    BY <1>1, <1>2, <1>3, <1>4, <1>5, <1>6, <1>7, <1>8, <1>9 DEF Next, Step

(* FSCapabilities only reads, under the read lock, and cannot fail.        *)
LEMMA ScanPolicy ==
    LET op == "FSCapabilities" IN
    /\ op \notin Creators \cup Mutators \cup Closers \cup {"Apply"}
    /\ op \in Operations
    /\ Method(op).handle = "receiver" /\ Method(op).lock = "R" /\ ~Method(op).pin
    /\ ErrorCodes(op) = {} /\ SilentFailures(op) = {} /\ Makes(op) = {}
  BY DEF Creators, Mutators, Closers, Operations, Methods, Method, FSCapabilities, Getter, ErrorCodes,
         SilentFailures, Makes

(* The object FSCapabilities reads is not written until it is done.        *)
LEMMA ScanHolds ==
    ASSUME IInv, NEW p \in Procs, Scanning(p)
    PROVE  /\ call[p].h \in Handles /\ mem[call[p].h] = "live"
           /\ \A g \in Procs : pc[g] \in Using /\ M(g).lock = "W" => call[g].h # call[p].h
  <1>1. pc[p] = "inC" /\ call[p].h \in Handles /\ M(p).lock = "R"
    BY CallFacts, ScanPolicy DEF Scanning, IInv, M
  <1>2. Holds(p) /\ mem[call[p].h] = "live"
    BY <1>1, NilAssumption DEF IInv, LockInv, MemInv, Using
  <1>3. ASSUME NEW g \in Procs, pc[g] \in Using, M(g).lock = "W", call[g].h = call[p].h
        PROVE  FALSE
    <2>1. Holds(g)
      BY <1>1, <1>3, NilAssumption DEF IInv, LockInv
    <2> QED
      BY <1>1, <1>2, <1>3, <2>1, Exclusion
  <1> QED
    BY <1>1, <1>2, <1>3

(* ScanInv survives what goes on outside FSCapabilities and leaves the     *)
(* objects being enumerated alone.                                         *)
LEMMA ScanFrame ==
    ASSUME IInv, NEW g \in Procs, scan' = scan, ~Scanning(g),
           \A p \in Procs \ {g} : pc'[p] = pc[p] /\ call'[p] = call[p],
           \A p \in Procs \ {g} : Scanning(p) => heap'[call[p].h] = heap[call[p].h]
    PROVE  ScanInv'
  <1>1. scan[g] = NoScan
    BY DEF IInv, ScanInv
  <1>2. NoScan.count = Nil /\ NoScan.access = Nil
    BY DEF NoScan
  <1>3. \A p \in Procs \ {g} : Scanning(p)' <=> Scanning(p)
    BY DEF Scanning
  <1>4. ~Scanning(g)' => scan'[g] = NoScan
    BY <1>1
  <1> QED
    BY <1>1, <1>2, <1>3 DEF IInv, ScanInv, Scanning

(* The entries stay as FSCapabilities counted them while it holds the read *)
(* lock.                                                                   *)
LEMMA ScanStep ==
    ASSUME IInv, [Next]_vars
    PROVE  ScanInv'
  <1>1. ASSUME NEW g \in Goroutines, NEW c \in Calls, Invoke(g, c)
        PROVE  ScanInv'
    <2>1. g \in Procs /\ UNCHANGED <<heap, scan>>
      BY <1>1 DEF Invoke, handle, library, Procs
    <2>2. \A p \in Procs \ {g} : call'[p] = call[p]
      BY <1>1 DEF Invoke, IInv, TypeOK
    <2> QED
      BY <1>1, <2>1, <2>2, GotoEffect, ScanFrame DEF Invoke, IInv, Scanning
  <1>2. ASSUME NEW g \in Procs,
                Reject(g) \/ Proceed(g) \/ ReadLock(g) \/ WriteLock(g) \/ FindClosed(g) \/
                FindOpen(g) \/ EnterC(g) \/ ClearError(g)
        PROVE  ScanInv'
    <2>1. UNCHANGED <<heap, scan, call>>
      BY <1>2 DEF Reject, Proceed, ReadLock, WriteLock, FindClosed, FindOpen, EnterC, ClearError,
         frame, handle, library
    <2> QED
      BY <1>2, <2>1, GotoEffect, ScanFrame DEF Reject, Proceed, ReadLock, WriteLock, FindClosed,
         FindOpen, EnterC, ClearError, IInv, Scanning
  <1>3. ASSUME NEW g \in Procs, CSucceed(g)
        PROVE  ScanInv'
    <2>1. Goto(g, "inC", "exit") /\ ~Scanning(g) /\ UNCHANGED <<scan, call>>
      BY <1>3 DEF CSucceed, frame, Scanning
    <2>2. ASSUME NEW p \in Procs \ {g}, Scanning(p)
          PROVE  heap'[call[p].h] = heap[call[p].h]
      <3>1. call[p].h \in Handles
        BY <2>2, ScanHolds
      <3>2. CASE call[g].op \in Mutators
        <4>1. call[g].h # call[p].h
          BY <2>1, <2>2, <3>2, ScanHolds, CallFacts, LockPolicy DEF IInv, M, Goto, Using
        <4> QED
          BY <1>3, <3>1, <4>1 DEF CSucceed, IInv, TypeOK
      <3>3. CASE call[g].op \notin Mutators
        BY <1>3, <3>1, <3>3, OutcomePost DEF CSucceed, Given, IInv, TypeOK
      <3> QED
        BY <3>2, <3>3
    <2> QED
      BY <2>1, <2>2, GotoEffect, ScanFrame DEF IInv
  <1>4. ASSUME NEW g \in Procs, CCreate(g)
        PROVE  ScanInv'
    <2>1. Goto(g, "inC", "exit") /\ UNCHANGED <<scan, call>>
      BY <1>4 DEF CCreate, frame
    <2>2. PICK n \in Makes(call[g].op) : mem[n] = "unborn" /\ \E new : heap' = [heap EXCEPT ![n] = new]
      BY <1>4 DEF CCreate
    <2>3. ~Scanning(g) /\ n \in Handles
      BY <2>2, ScanPolicy DEF Scanning, Makes, Handles
    <2>4. \A p \in Procs : Scanning(p) => heap'[call[p].h] = heap[call[p].h]
      BY <2>2, <2>3, ScanHolds DEF IInv, TypeOK
    <2> QED
      BY <2>1, <2>3, <2>4, GotoEffect, ScanFrame DEF IInv
  <1>5. ASSUME NEW g \in Procs, CApply(g)
        PROVE  ScanInv'
    <2>1. Goto(g, "inC", "free") /\ UNCHANGED <<heap, scan, call>>
      BY <1>5 DEF CApply, frame, handle, library
    <2>2. ~Scanning(g)
      BY <1>5, ScanPolicy DEF CApply, Scanning
    <2> QED
      BY <2>1, <2>2, GotoEffect, ScanFrame DEF IInv
  <1>6. ASSUME NEW g \in Procs, CFail(g)
        PROVE  ScanInv'
    <2>1. Goto(g, "inC", "failed") /\ UNCHANGED <<heap, scan, call>>
      BY <1>6 DEF CFail, frame, handle, library
    <2>2. ~Scanning(g)
      BY <1>6, ScanPolicy DEF CFail, Scanning
    <2> QED
      BY <2>1, <2>2, GotoEffect, ScanFrame DEF IInv
  <1>7. ASSUME NEW g \in Procs, CFailStatic(g)
        PROVE  ScanInv'
    <2>1. Goto(g, "inC", "exit") /\ UNCHANGED <<heap, scan, call>>
      BY <1>7 DEF CFailStatic, frame, handle, library
    <2>2. ~Scanning(g)
      BY <1>7, ScanPolicy DEF CFailStatic, Scanning
    <2> QED
      BY <2>1, <2>2, GotoEffect, ScanFrame DEF IInv
  <1>8. ASSUME NEW g \in Procs, ScanCount(g)
        PROVE  ScanInv'
    <2>1. scan'[g] = [scan[g] EXCEPT !.count = Len(Given(g).fs)]
          /\ \A p \in Procs \ {g} : scan'[p] = scan[p]
      BY <1>8 DEF ScanCount, IInv, TypeOK
    <2>2. UNCHANGED <<pc, call, heap>> /\ Scanning(g)
      BY <1>8 DEF ScanCount, library
    <2>3. Given(g) = heap[call[g].h]
      BY <2>2, ScanHolds, NilAssumption DEF Given
    <2>4. /\ DOMAIN scan'[g] = {"count", "i", "access", "caps"}
          /\ scan'[g].count = Len(heap[call[g].h].fs)
          /\ scan'[g].access = Nil
      BY <1>8, <2>1, <2>3 DEF ScanCount, IInv, ScanInv
    <2> QED
      BY <2>1, <2>2, <2>4 DEF IInv, ScanInv, Scanning
  <1>9. ASSUME NEW g \in Procs, ScanAccess(g)
        PROVE  ScanInv'
    <2>1. UNCHANGED <<pc, call, heap>> /\ Scanning(g)
      BY <1>9 DEF ScanAccess
    <2>2. Given(g) = heap[call[g].h] /\ scan[g].i < Len(Given(g).fs)
      BY <1>9, <2>1, ScanHolds, NilAssumption DEF ScanAccess, Given, IInv, ScanInv
    <2>3. PICK a : scan' = [scan EXCEPT ![g].access = a]
      BY <1>9, <2>2 DEF ScanAccess
    <2>4. scan'[g] = [scan[g] EXCEPT !.access = a] /\ \A p \in Procs \ {g} : scan'[p] = scan[p]
      BY <2>3 DEF IInv, TypeOK
    <2>5. /\ DOMAIN scan'[g] = {"count", "i", "access", "caps"}
          /\ scan'[g].count = scan[g].count /\ scan'[g].i = scan[g].i
      BY <2>4 DEF IInv, ScanInv
    <2> QED
      BY <1>9, <2>1, <2>4, <2>5 DEF ScanAccess, IInv, ScanInv, Scanning
  <1>10. ASSUME NEW g \in Procs, ScanFields(g)
        PROVE  ScanInv'
    <2>1. UNCHANGED <<pc, call, heap>> /\ Scanning(g)
      BY <1>10 DEF ScanFields
    <2>2. PICK i, caps : scan' = [scan EXCEPT ![g] =
                                     [scan[g] EXCEPT !.i = i, !.access = Nil, !.caps = caps]]
      BY <1>10 DEF ScanFields
    <2>3. /\ scan'[g] = [scan[g] EXCEPT !.i = i, !.access = Nil, !.caps = caps]
          /\ \A p \in Procs \ {g} : scan'[p] = scan[p]
      BY <2>2 DEF IInv, TypeOK
    <2>4. /\ DOMAIN scan'[g] = {"count", "i", "access", "caps"}
          /\ scan'[g].count = scan[g].count /\ scan'[g].access = Nil
      BY <2>3 DEF IInv, ScanInv
    <2> QED
      BY <2>1, <2>3, <2>4 DEF IInv, ScanInv, Scanning
  <1>11. ASSUME NEW g \in Procs, ScanDone(g)
        PROVE  ScanInv'
    <2>1. Goto(g, "inC", "exit") /\ UNCHANGED <<call, heap>>
      BY <1>11 DEF ScanDone, library
    <2>2. scan'[g] = NoScan /\ \A p \in Procs \ {g} : scan'[p] = scan[p]
      BY <1>11 DEF ScanDone, IInv, TypeOK
    <2>3. pc'[g] = "exit" /\ \A p \in Procs \ {g} : pc'[p] = pc[p]
      BY <2>1, GotoEffect DEF IInv
    <2>4. DOMAIN NoScan = {"count", "i", "access", "caps"} /\ NoScan.count = Nil /\ NoScan.access = Nil
      BY DEF NoScan
    <2> QED
      BY <2>1, <2>2, <2>3, <2>4 DEF IInv, ScanInv, Scanning
  <1>12. ASSUME NEW g \in Procs, LastError(g)
        PROVE  ScanInv'
    <2>1. Goto(g, "failed", "clear") /\ UNCHANGED <<heap, scan, call>>
      BY <1>12 DEF LastError, frame, handle, library
    <2> QED
      BY <2>1, GotoEffect, ScanFrame DEF IInv, Scanning
  <1>13. ASSUME NEW g \in Procs, Free(g)
        PROVE  ScanInv'
    <2>1. Goto(g, "free", "detach") /\ UNCHANGED <<heap, scan, call>>
      BY <1>13 DEF Free, frame, handle, library
    <2> QED
      BY <2>1, GotoEffect, ScanFrame DEF IInv, Scanning
  <1>14. ASSUME NEW g \in Procs, Detach(g)
        PROVE  ScanInv'
    <2>1. Goto(g, "detach", "exit") /\ UNCHANGED <<heap, scan, call>>
      BY <1>14 DEF Detach, frame, handle, library
    <2> QED
      BY <2>1, GotoEffect, ScanFrame DEF IInv, Scanning
  <1>15. ASSUME NEW g \in Procs, Exit(g)
        PROVE  ScanInv'
    <2>1. g \in Procs /\ UNCHANGED <<heap, scan>>
      BY <1>15 DEF Exit, library
    <2>2. \A p \in Procs \ {g} : call'[p] = call[p]
      BY <1>15 DEF Exit, IInv, TypeOK
    <2> QED
      BY <1>15, <2>1, <2>2, GotoEffect, ScanFrame DEF Exit, IInv, Scanning
  <1>16. ASSUME NEW h \in Handles, Drop(h)
        PROVE  ScanInv'
    BY <1>16 DEF IInv, ScanInv, Scanning, frame, handle, library, Drop
  <1>17. ASSUME NEW h \in Handles, Finalize(h)
        PROVE  ScanInv'
    <2>1. Collector \in Procs /\ UNCHANGED <<heap, scan>>
      BY <1>17 DEF Finalize, library, Procs
    <2>2. \A p \in Procs \ {Collector} : call'[p] = call[p]
      BY <1>17 DEF Finalize, IInv, TypeOK
    <2> QED
      BY <1>17, <2>1, <2>2, GotoEffect, ScanFrame DEF Finalize, IInv, Scanning
  <1>18. CASE UNCHANGED vars
    BY <1>18 DEF IInv, ScanInv, Scanning, frame, handle, library, vars
  <1> QED
    BY <1>1, <1>2, <1>3, <1>4, <1>5, <1>6, <1>7, <1>8, <1>9, <1>10, <1>11, <1>12, <1>13, <1>14,
       <1>15, <1>16, <1>17, <1>18 DEF Next, Step

(* A goroutine whose C call failed is locked to the thread it failed on.   *)
LEMMA FailsPinned ==
    ASSUME IInv, NEW g \in Procs, pc[g] = "inC", ErrorCodes(call[g].op) # {}
    PROVE  thread[g] \in Threads /\ RunsOn(g) = {thread[g]}
  <1>1. Method(call[g].op).fails \in {"code", "unknown"}
    BY DEF ErrorCodes
  <1>2. M(g).pin
    BY <1>1, CallFacts, PinPolicy DEF IInv, M
  <1> QED
    BY <1>2 DEF IInv, TypeOK, ThreadInv, RunsOn

(* ThreadInv survives while nobody is locked to or released from a thread. *)
LEMMA ThreadFrame ==
    ASSUME IInv, NEW g \in Procs, thread' = thread, pc'[g] # "inC",
           pc'[g] \in {"failed", "clear"} => thread[g] # Nil,
           \A p \in Procs \ {g} : pc'[p] = pc[p] /\ call'[p] = call[p]
    PROVE  ThreadInv'
  BY DEF IInv, ThreadInv, M

(* What is true of the slots stays true while no slot changes and no       *)
(* goroutine leaves mapError.                                              *)
LEMMA SlotFrame ==
    ASSUME IInv, NEW g \in Procs, UNCHANGED <<thread, lastError>>,
           pc[g] \in {"failed", "clear"} => pc'[g] \in {"failed", "clear"},
           \A p \in Procs \ {g} : pc'[p] = pc[p]
    PROVE  CleanSlots'
  BY DEF IInv, TypeOK, CleanSlots

(* LockOSThread takes a thread nobody is locked to, and lasts until the    *)
(* method returns.                                                         *)
LEMMA ThreadStep ==
    ASSUME IInv, [Next]_vars
    PROVE  ThreadInv'
  <1>1. ASSUME NEW g \in Goroutines, NEW c \in Calls, Invoke(g, c)
        PROVE  ThreadInv'
    <2>1. g \in Procs /\ thread' = thread
      BY <1>1 DEF Invoke, handle, library, Procs
    <2>2. \A p \in Procs \ {g} : call'[p] = call[p]
      BY <1>1 DEF Invoke, IInv, TypeOK
    <2> QED
      BY <1>1, <2>1, <2>2, GotoEffect, ThreadFrame DEF Invoke, IInv
  <1>2. ASSUME NEW g \in Procs,
                Reject(g) \/ Proceed(g) \/ ReadLock(g) \/ WriteLock(g) \/ FindClosed(g) \/
                FindOpen(g)
        PROVE  ThreadInv'
    <2>1. UNCHANGED <<thread, call>>
      BY <1>2 DEF Reject, Proceed, ReadLock, WriteLock, FindClosed, FindOpen, frame, handle, library
    <2> QED
      BY <1>2, <2>1, GotoEffect, ThreadFrame DEF Reject, Proceed, ReadLock, WriteLock,
         FindClosed, FindOpen, IInv
  <1>3. ASSUME NEW g \in Procs, EnterC(g)
        PROVE  ThreadInv'
    <2>1. pc'[g] = "inC" /\ \A p \in Procs \ {g} : pc'[p] = pc[p]
      BY <1>3, GotoEffect DEF EnterC, IInv
    <2>2. PICK t \in IF M(g).pin THEN FreeThreads ELSE {Nil} : thread' = [thread EXCEPT ![g] = t]
      BY <1>3 DEF EnterC
    <2>3. thread'[g] = t /\ \A p \in Procs \ {g} : thread'[p] = thread[p]
      BY <2>2 DEF IInv, TypeOK
    <2>4. t # Nil => \A p \in Procs : thread[p] # t
      BY <2>2 DEF FreeThreads
    <2>5. M(g).pin => t # Nil
      BY <2>2, NilAssumption DEF FreeThreads
    <2>6. call' = call
      BY <1>3 DEF EnterC
    <2> QED
      BY <2>1, <2>3, <2>4, <2>5, <2>6 DEF IInv, ThreadInv, M
  <1>4. ASSUME NEW g \in Procs,
                CSucceed(g) \/ CCreate(g) \/ CFailStatic(g) \/ ScanDone(g)
        PROVE  ThreadInv'
    <2>1. Goto(g, "inC", "exit") /\ UNCHANGED <<thread, call>>
      BY <1>4 DEF CSucceed, CCreate, CFailStatic, ScanDone, frame, handle, library
    <2> QED
      BY <2>1, GotoEffect, ThreadFrame DEF IInv
  <1>5. ASSUME NEW g \in Procs, CApply(g)
        PROVE  ThreadInv'
    <2>1. Goto(g, "inC", "free") /\ UNCHANGED <<thread, call>>
      BY <1>5 DEF CApply, frame, handle, library
    <2> QED
      BY <2>1, GotoEffect, ThreadFrame DEF IInv
  <1>6. ASSUME NEW g \in Procs, CFail(g)
        PROVE  ThreadInv'
    <2>1. Goto(g, "inC", "failed") /\ UNCHANGED <<thread, call>> /\ ErrorCodes(call[g].op) # {}
      BY <1>6 DEF CFail, frame
    <2>2. thread[g] # Nil
      BY <2>1, FailsPinned, NilAssumption DEF Goto
    <2> QED
      BY <2>1, <2>2, GotoEffect, ThreadFrame DEF IInv
  <1>7. ASSUME NEW g \in Procs,
                ScanCount(g) \/ ScanAccess(g) \/ ScanFields(g)
        PROVE  ThreadInv'
    BY <1>7 DEF IInv, ThreadInv, frame, handle, library, M, ScanCount, ScanAccess, ScanFields
  <1>8. ASSUME NEW g \in Procs, LastError(g)
        PROVE  ThreadInv'
    <2>1. Goto(g, "failed", "clear") /\ UNCHANGED <<thread, call>>
      BY <1>8 DEF LastError, frame
    <2> QED
      BY <2>1, GotoEffect, ThreadFrame DEF IInv, ThreadInv
  <1>9. ASSUME NEW g \in Procs, ClearError(g)
        PROVE  ThreadInv'
    <2>1. Goto(g, "clear", "exit") /\ UNCHANGED <<thread, call>>
      BY <1>9 DEF ClearError, frame
    <2> QED
      BY <2>1, GotoEffect, ThreadFrame DEF IInv, ThreadInv
  <1>10. ASSUME NEW g \in Procs, Free(g)
        PROVE  ThreadInv'
    <2>1. Goto(g, "free", "detach") /\ UNCHANGED <<thread, call>>
      BY <1>10 DEF Free, frame, handle, library
    <2> QED
      BY <2>1, GotoEffect, ThreadFrame DEF IInv
  <1>11. ASSUME NEW g \in Procs, Detach(g)
        PROVE  ThreadInv'
    <2>1. Goto(g, "detach", "exit") /\ UNCHANGED <<thread, call>>
      BY <1>11 DEF Detach, frame, handle, library
    <2> QED
      BY <2>1, GotoEffect, ThreadFrame DEF IInv
  <1>12. ASSUME NEW g \in Procs, Exit(g)
        PROVE  ThreadInv'
    <2>1. pc'[g] = "idle" /\ \A p \in Procs \ {g} : pc'[p] = pc[p]
      BY <1>12, GotoEffect DEF Exit, IInv
    <2>2. thread'[g] = Nil /\ \A p \in Procs \ {g} : thread'[p] = thread[p] /\ call'[p] = call[p]
      BY <1>12 DEF Exit, IInv, TypeOK
    <2> QED
      BY <2>1, <2>2 DEF IInv, ThreadInv, M
  <1>13. ASSUME NEW h \in Handles, Drop(h)
        PROVE  ThreadInv'
    BY <1>13 DEF IInv, ThreadInv, frame, handle, library, M, Drop
  <1>14. ASSUME NEW h \in Handles, Finalize(h)
        PROVE  ThreadInv'
    <2>1. Collector \in Procs /\ thread' = thread
      BY <1>14 DEF Finalize, library, Procs
    <2>2. \A p \in Procs \ {Collector} : call'[p] = call[p]
      BY <1>14 DEF Finalize, IInv, TypeOK
    <2> QED
      BY <1>14, <2>1, <2>2, GotoEffect, ThreadFrame DEF Finalize, IInv
  <1>15. CASE UNCHANGED vars
    BY <1>15 DEF IInv, ThreadInv, frame, handle, library, M, vars
  <1> QED
    BY <1>1, <1>2, <1>3, <1>4, <1>5, <1>6, <1>7, <1>8, <1>9, <1>10, <1>11, <1>12, <1>13, <1>14,
       <1>15 DEF Next, Step

(* Only a failed call fills a slot, on its own thread, and mapError        *)
(* empties it.                                                             *)
LEMMA SlotStep ==
    ASSUME IInv, [Next]_vars
    PROVE  CleanSlots'
  <1>1. ASSUME NEW g \in Goroutines, NEW c \in Calls, Invoke(g, c)
        PROVE  CleanSlots'
    <2>1. g \in Procs /\ UNCHANGED <<thread, lastError>>
      BY <1>1 DEF Invoke, handle, library, Procs
    <2>2. \A p \in Procs \ {g} : call'[p] = call[p]
      BY <1>1 DEF Invoke, IInv, TypeOK
    <2> QED
      BY <1>1, <2>1, <2>2, GotoEffect, SlotFrame DEF Invoke, IInv
  <1>2. ASSUME NEW g \in Procs,
                Reject(g) \/ Proceed(g) \/ ReadLock(g) \/ WriteLock(g) \/ FindClosed(g) \/
                FindOpen(g)
        PROVE  CleanSlots'
    <2>1. UNCHANGED <<thread, lastError, call>>
      BY <1>2 DEF Reject, Proceed, ReadLock, WriteLock, FindClosed, FindOpen, frame, handle, library
    <2> QED
      BY <1>2, <2>1, GotoEffect, SlotFrame DEF Reject, Proceed, ReadLock, WriteLock, FindClosed,
         FindOpen, IInv
  <1>3. ASSUME NEW g \in Procs, EnterC(g)
        PROVE  CleanSlots'
    <2>1. pc[g] = "call" /\ \A p \in Procs \ {g} : pc'[p] = pc[p]
      BY <1>3, GotoEffect DEF EnterC, IInv
    <2>2. lastError' = lastError /\ \A p \in Procs \ {g} : thread'[p] = thread[p]
      BY <1>3 DEF EnterC, library, IInv, TypeOK
    <2> QED
      BY <2>1, <2>2 DEF IInv, TypeOK, CleanSlots
  <1>4. ASSUME NEW g \in Procs,
                CSucceed(g) \/ CCreate(g) \/ CFailStatic(g) \/ ScanDone(g)
        PROVE  CleanSlots'
    <2>1. Goto(g, "inC", "exit") /\ UNCHANGED <<thread, lastError, call>>
      BY <1>4 DEF CSucceed, CCreate, CFailStatic, ScanDone, frame, handle, library
    <2> QED
      BY <2>1, GotoEffect, SlotFrame DEF IInv
  <1>5. ASSUME NEW g \in Procs, CApply(g)
        PROVE  CleanSlots'
    <2>1. Goto(g, "inC", "free") /\ UNCHANGED <<thread, lastError, call>>
      BY <1>5 DEF CApply, frame, handle, library
    <2> QED
      BY <2>1, GotoEffect, SlotFrame DEF IInv
  <1>6. ASSUME NEW g \in Procs, CFail(g)
        PROVE  CleanSlots'
    <2>1. pc[g] = "inC" /\ pc'[g] = "failed" /\ \A p \in Procs \ {g} : pc'[p] = pc[p]
      BY <1>6, GotoEffect DEF CFail, IInv
    <2>2. thread[g] \in Threads /\ RunsOn(g) = {thread[g]}
      BY <1>6, <2>1, FailsPinned DEF CFail
    <2>3. lastError'[thread[g]] \in {g, lastError[thread[g]]}
          /\ \A t \in Threads \ {thread[g]} : lastError'[t] = lastError[t]
      BY <1>6, <2>2 DEF CFail, IInv, TypeOK
    <2>4. thread' = thread
      BY <1>6 DEF CFail, frame
    <2> QED
      BY <2>1, <2>2, <2>3, <2>4 DEF IInv, TypeOK, CleanSlots
  <1>7. ASSUME NEW g \in Procs, ScanCount(g)
        PROVE  CleanSlots'
    BY <1>7 DEF IInv, CleanSlots, frame, handle, library, ScanCount
  <1>8. ASSUME NEW g \in Procs,
                ScanAccess(g) \/ ScanFields(g)
        PROVE  CleanSlots'
    <2>1. Scanning(g) /\ scan[g].i < Len(Given(g).fs)
      BY <1>8, ScanHolds, NilAssumption DEF ScanAccess, ScanFields, Given, IInv, ScanInv
    <2>2. UNCHANGED <<pc, thread, lastError>>
      BY <1>8, <2>1 DEF ScanAccess, ScanFields, Complain
    <2> QED
      BY <2>2 DEF IInv, CleanSlots
  <1>9. ASSUME NEW g \in Procs, LastError(g)
        PROVE  CleanSlots'
    <2>1. Goto(g, "failed", "clear") /\ UNCHANGED <<thread, lastError>>
      BY <1>9 DEF LastError, frame, library
    <2> QED
      BY <2>1, GotoEffect, SlotFrame DEF IInv
  <1>10. ASSUME NEW g \in Procs, ClearError(g)
        PROVE  CleanSlots'
    <2>1. pc[g] = "clear" /\ \A p \in Procs \ {g} : pc'[p] = pc[p]
      BY <1>10, GotoEffect DEF ClearError, IInv
    <2>2. RunsOn(g) = {thread[g]} /\ thread[g] \in Threads
      BY <2>1 DEF RunsOn, IInv, TypeOK, ThreadInv
    <2>3. lastError'[thread[g]] = Nil /\ \A t \in Threads \ {thread[g]} : lastError'[t] = lastError[t]
      BY <1>10, <2>2 DEF ClearError, IInv, TypeOK
    <2>4. thread' = thread
      BY <1>10 DEF ClearError, frame
    <2> QED
      BY <2>1, <2>3, <2>4 DEF IInv, TypeOK, CleanSlots
  <1>11. ASSUME NEW g \in Procs, Free(g)
        PROVE  CleanSlots'
    <2>1. Goto(g, "free", "detach") /\ UNCHANGED <<thread, lastError, call>>
      BY <1>11 DEF Free, frame, handle, library
    <2> QED
      BY <2>1, GotoEffect, SlotFrame DEF IInv
  <1>12. ASSUME NEW g \in Procs, Detach(g)
        PROVE  CleanSlots'
    <2>1. Goto(g, "detach", "exit") /\ UNCHANGED <<thread, lastError, call>>
      BY <1>12 DEF Detach, frame, handle, library
    <2> QED
      BY <2>1, GotoEffect, SlotFrame DEF IInv
  <1>13. ASSUME NEW g \in Procs, Exit(g)
        PROVE  CleanSlots'
    <2>1. pc[g] = "exit" /\ \A p \in Procs \ {g} : pc'[p] = pc[p]
      BY <1>13, GotoEffect DEF Exit, IInv
    <2>2. lastError' = lastError /\ \A p \in Procs \ {g} : thread'[p] = thread[p]
      BY <1>13 DEF Exit, library, IInv, TypeOK
    <2> QED
      BY <2>1, <2>2 DEF IInv, TypeOK, CleanSlots
  <1>14. ASSUME NEW h \in Handles, Drop(h)
        PROVE  CleanSlots'
    BY <1>14 DEF IInv, CleanSlots, frame, handle, library, Drop
  <1>15. ASSUME NEW h \in Handles, Finalize(h)
        PROVE  CleanSlots'
    <2>1. Collector \in Procs /\ UNCHANGED <<thread, lastError>>
      BY <1>15 DEF Finalize, library, Procs
    <2>2. \A p \in Procs \ {Collector} : call'[p] = call[p]
      BY <1>15 DEF Finalize, IInv, TypeOK
    <2> QED
      BY <1>15, <2>1, <2>2, GotoEffect, SlotFrame DEF Finalize, IInv
  <1>16. CASE UNCHANGED vars
    BY <1>16 DEF IInv, CleanSlots, frame, handle, library, vars
  <1> QED
    BY <1>1, <1>2, <1>3, <1>4, <1>5, <1>6, <1>7, <1>8, <1>9, <1>10, <1>11, <1>12, <1>13, <1>14,
       <1>15, <1>16 DEF Next, Step

(* ResultInv is about each goroutine's own result.                         *)
LEMMA ResultFrame ==
    ASSUME IInv, NEW g \in Procs,
           \A p \in Procs \ {g} : pc'[p] = pc[p] /\ call'[p] = call[p] /\ result'[p] = result[p],
           pc'[g] \in {"failed", "clear"} => ~isOK(result'[g]),
           pc'[g] = "exit" => Returned(call'[g], result'[g]) \subseteq Handles,
           DOMAIN result'[g] = {"code", "msg", "val"},
           pc'[g] \in {"clear", "exit"} /\ result'[g].msg \in Procs => result'[g].msg = g
    PROVE  ResultInv'
  BY DEF IInv, ResultInv

(* A method is done with a result that refers to no other goroutine's      *)
(* message.                                                                *)
LEMMA ExitFrame ==
    ASSUME IInv, NEW g \in Procs, UNCHANGED call, pc'[g] = "exit",
           \A p \in Procs \ {g} : pc'[p] = pc[p],
           NEW r, result' = [result EXCEPT ![g] = r],
           DOMAIN r = {"code", "msg", "val"}, r.msg \in Messages \cup {Nil},
           Returned(call[g], r) \subseteq Handles
    PROVE  ResultInv'
  <1>1. result'[g] = r /\ \A p \in Procs \ {g} : result'[p] = result[p]
    BY DEF IInv, TypeOK
  <1>2. r.msg \notin Procs
    BY MessageAssumption, NilAssumption
  <1> QED
    BY <1>1, <1>2, ResultFrame

(* A result is a failure's, or the handle a creator made, or a value; its  *)
(* message is the package's own or the call's own.                         *)
LEMMA ResultStep ==
    ASSUME IInv, [Next]_vars
    PROVE  ResultInv'
  <1>1. ASSUME NEW g \in Goroutines, NEW c \in Calls, Invoke(g, c)
        PROVE  ResultInv'
    <2>1. g \in Procs /\ result' = result
      BY <1>1 DEF Invoke, Procs
    <2>2. \A p \in Procs \ {g} : call'[p] = call[p]
      BY <1>1 DEF Invoke, IInv, TypeOK
    <2>3. pc'[g] = "enter" /\ \A p \in Procs \ {g} : pc'[p] = pc[p]
      BY <1>1, <2>1, GotoEffect DEF Invoke, IInv
    <2> QED
      BY <2>1, <2>2, <2>3 DEF IInv, ResultInv
  <1>2. ASSUME NEW g \in Procs, Reject(g)
        PROVE  ResultInv'
    <2> DEFINE r == ArgumentError(call[g])
    <2>1. pc'[g] = "exit" /\ \A p \in Procs \ {g} : pc'[p] = pc[p]
      BY <1>2, GotoEffect DEF Reject, IInv
    <2>2. PICK m : /\ m \in {"nil capability set", "string contains NUL byte"}
                   /\ r = staticError("InvalidArg", m)
      BY <1>2 DEF Reject, ArgumentError, checkNUL, errNilCaps
    <2> HIDE DEF r
    <2>3. DOMAIN r = {"code", "msg", "val"} /\ r.msg \in Messages /\ r.code = "InvalidArg"
      BY <2>2 DEF Messages, staticError
    <2>4. Returned(call[g], r) = {}
      BY <2>3 DEF Returned, isOK
    <2>5. call' = call /\ result' = [result EXCEPT ![g] = r]
      BY <1>2 DEF Reject, frame, r
    <2> QED
      BY <2>1, <2>3, <2>4, <2>5, ExitFrame
  <1>3. ASSUME NEW g \in Procs,
                Proceed(g) \/ ReadLock(g) \/ WriteLock(g) \/ FindOpen(g) \/ EnterC(g)
        PROVE  ResultInv'
    <2>1. UNCHANGED <<result, call>>
      BY <1>3 DEF Proceed, ReadLock, WriteLock, FindOpen, EnterC, frame, handle, library
    <2>2. pc'[g] \notin {"failed", "clear", "exit"} /\ \A p \in Procs \ {g} : pc'[p] = pc[p]
      BY <1>3, GotoEffect DEF Proceed, ReadLock, WriteLock, FindOpen, EnterC, IInv
    <2> QED
      BY <2>1, <2>2, ResultFrame DEF IInv, ResultInv
  <1>4. ASSUME NEW g \in Procs, FindClosed(g)
        PROVE  ResultInv'
    <2> DEFINE r == M(g).closed
    <2>1. pc[g] = "check" /\ pc'[g] = "exit" /\ \A p \in Procs \ {g} : pc'[p] = pc[p]
      BY <1>4, GotoEffect DEF FindClosed, IInv
    <2>2. M(g).lock # "none"
      BY <2>1 DEF IInv, CallInv
    <2>3. DOMAIN r = {"code", "msg", "val"} /\ r.msg \in Messages \cup {Nil}
          /\ (call[g].op \in Creators => ~isOK(r))
      BY <2>2, CallFacts, ClosedPolicy DEF M, IInv
    <2>4. Returned(call[g], r) = {}
      BY <2>3 DEF Returned
    <2>5. call' = call /\ result' = [result EXCEPT ![g] = r]
      BY <1>4 DEF FindClosed, frame
    <2> HIDE DEF r
    <2> QED
      BY <2>1, <2>3, <2>4, <2>5, ExitFrame
  <1>5. ASSUME NEW g \in Procs, CSucceed(g)
        PROVE  ResultInv'
    <2>1. pc'[g] = "exit" /\ \A p \in Procs \ {g} : pc'[p] = pc[p]
      BY <1>5, GotoEffect DEF CSucceed, IInv
    <2>2. PICK v : result' = [result EXCEPT ![g] = Ok(v)]
      BY <1>5 DEF CSucceed
    <2>3. Returned(call[g], Ok(v)) = {} /\ call' = call
      BY <1>5 DEF CSucceed, Returned, frame
    <2> QED
      BY <2>1, <2>2, <2>3, ResultShapes, ExitFrame
  <1>6. ASSUME NEW g \in Procs, CCreate(g)
        PROVE  ResultInv'
    <2>1. pc'[g] = "exit" /\ \A p \in Procs \ {g} : pc'[p] = pc[p]
      BY <1>6, GotoEffect DEF CCreate, IInv
    <2>2. PICK n \in Handles : result' = [result EXCEPT ![g] = Ok(n)]
      BY <1>6 DEF CCreate, Makes, Handles
    <2>3. Ok(n).val = n /\ call' = call
      BY <1>6 DEF CCreate, Ok, frame
    <2>4. Returned(call[g], Ok(n)) \subseteq Handles
      BY <2>3 DEF Returned
    <2> QED
      BY <2>1, <2>2, <2>3, <2>4, ResultShapes, ExitFrame
  <1>7. ASSUME NEW g \in Procs, CApply(g)
        PROVE  ResultInv'
    <2>1. Goto(g, "inC", "free") /\ UNCHANGED <<result, call>>
      BY <1>7 DEF CApply, frame
    <2>2. pc[g] = "inC" /\ pc'[g] = "free" /\ \A p \in Procs \ {g} : pc'[p] = pc[p]
      BY <2>1, GotoEffect DEF IInv
    <2> QED
      BY <2>1, <2>2, ResultFrame DEF IInv, ResultInv
  <1>8. ASSUME NEW g \in Procs, CFail(g)
        PROVE  ResultInv'
    <2>1. pc'[g] = "failed" /\ \A p \in Procs \ {g} : pc'[p] = pc[p]
      BY <1>8, GotoEffect DEF CFail, IInv
    <2>2. PICK code \in ErrorCodes(call[g].op) : result' = [result EXCEPT ![g] = mapped(code, Nil)]
      BY <1>8 DEF CFail
    <2>3. code # "OK"
      BY <2>2, FailCodesAssumption DEF ErrorCodes
    <2>4. /\ result'[g] = mapped(code, Nil) /\ \A p \in Procs \ {g} : result'[p] = result[p]
          /\ call' = call
      BY <1>8, <2>2 DEF CFail, frame, IInv, TypeOK
    <2>5. DOMAIN mapped(code, Nil) = {"code", "msg", "val"} /\ ~isOK(mapped(code, Nil))
      BY <2>3 DEF mapped, isOK
    <2> QED
      BY <2>1, <2>4, <2>5, ResultFrame
  <1>9. ASSUME NEW g \in Procs, CFailStatic(g)
        PROVE  ResultInv'
    <2>1. pc'[g] = "exit" /\ \A p \in Procs \ {g} : pc'[p] = pc[p]
      BY <1>9, GotoEffect DEF CFailStatic, IInv
    <2>2. PICK r \in SilentFailures(call[g].op) : result' = [result EXCEPT ![g] = r]
      BY <1>9 DEF CFailStatic
    <2>3. PICK code \in {"Unknown", "panic"}, m \in Messages : r = staticError(code, m)
      BY <2>2 DEF SilentFailures, Messages
    <2>4. DOMAIN r = {"code", "msg", "val"} /\ r.msg \in Messages /\ r.code # "OK"
      BY <2>3 DEF staticError
    <2>5. Returned(call[g], r) = {}
      BY <2>4 DEF Returned, isOK
    <2>6. call' = call
      BY <1>9 DEF CFailStatic, frame
    <2> QED
      BY <2>1, <2>2, <2>4, <2>5, <2>6, ExitFrame
  <1>10. ASSUME NEW g \in Procs,
                ScanCount(g) \/ ScanAccess(g) \/ ScanFields(g)
        PROVE  ResultInv'
    BY <1>10 DEF IInv, ResultInv, frame, ScanCount, ScanAccess, ScanFields
  <1>11. ASSUME NEW g \in Procs, ScanDone(g)
        PROVE  ResultInv'
    <2>1. pc'[g] = "exit" /\ \A p \in Procs \ {g} : pc'[p] = pc[p]
      BY <1>11, GotoEffect DEF ScanDone, IInv
    <2>2. PICK v : result' = [result EXCEPT ![g] = Ok(v)]
      BY <1>11 DEF ScanDone
    <2>3. Returned(call[g], Ok(v)) = {} /\ call' = call
      BY <1>11, ScanPolicy DEF ScanDone, Scanning, Returned
    <2> QED
      BY <2>1, <2>2, <2>3, ResultShapes, ExitFrame
  <1>12. ASSUME NEW g \in Procs, LastError(g)
        PROVE  ResultInv'
    <2>1. Goto(g, "failed", "clear") /\ call' = call
      BY <1>12 DEF LastError, frame
    <2>2. pc[g] = "failed" /\ pc'[g] = "clear" /\ \A p \in Procs \ {g} : pc'[p] = pc[p]
      BY <2>1, GotoEffect DEF IInv
    <2>3. RunsOn(g) = {thread[g]} /\ thread[g] \in Threads
      BY <2>2 DEF RunsOn, IInv, TypeOK, ThreadInv
    <2>4. PICK m : /\ result' = [result EXCEPT ![g].msg = m]
                   /\ m = IF lastError[thread[g]] = Nil THEN "unknown error" ELSE lastError[thread[g]]
      BY <1>12, <2>3 DEF LastError
    <2>5. m \in Procs => m = g
      <3>1. "unknown error" \notin Procs
        BY MessageAssumption DEF Messages
      <3>2. ASSUME lastError[thread[g]] # Nil
            PROVE  lastError[thread[g]] = g
        BY <2>2, <2>3, <3>2 DEF IInv, TypeOK, CleanSlots, ThreadInv
      <3> QED
        BY <2>4, <3>1, <3>2
    <2>6. /\ result'[g] = [result[g] EXCEPT !.msg = m]
          /\ \A p \in Procs \ {g} : result'[p] = result[p]
      BY <2>4 DEF IInv, TypeOK
    <2>7. /\ DOMAIN result'[g] = {"code", "msg", "val"}
          /\ result'[g].msg = m /\ result'[g].code = result[g].code
      BY <2>6 DEF IInv, ResultInv
    <2>8. ~isOK(result'[g])
      BY <2>2, <2>7 DEF IInv, ResultInv, isOK
    <2> QED
      BY <2>1, <2>2, <2>5, <2>6, <2>7, <2>8, ResultFrame
  <1>13. ASSUME NEW g \in Procs, ClearError(g)
        PROVE  ResultInv'
    <2>1. Goto(g, "clear", "exit") /\ UNCHANGED <<result, call>>
      BY <1>13 DEF ClearError, frame
    <2>2. pc[g] = "clear" /\ pc'[g] = "exit" /\ \A p \in Procs \ {g} : pc'[p] = pc[p]
      BY <2>1, GotoEffect DEF IInv
    <2> QED
      BY <2>1, <2>2, ResultFrame DEF IInv, ResultInv, Returned
  <1>14. ASSUME NEW g \in Procs, Free(g)
        PROVE  ResultInv'
    <2>1. Goto(g, "free", "detach") /\ UNCHANGED <<result, call>>
      BY <1>14 DEF Free, frame
    <2>2. pc[g] = "free" /\ pc'[g] = "detach" /\ \A p \in Procs \ {g} : pc'[p] = pc[p]
      BY <2>1, GotoEffect DEF IInv
    <2> QED
      BY <2>1, <2>2, ResultFrame DEF IInv, ResultInv
  <1>15. ASSUME NEW g \in Procs, Detach(g)
        PROVE  ResultInv'
    <2>1. pc[g] = "detach" /\ pc'[g] = "exit" /\ \A p \in Procs \ {g} : pc'[p] = pc[p]
      BY <1>15, GotoEffect DEF Detach, IInv
    <2>2. Returned(call[g], Ok(Nil)) = {}
      BY <2>1, CloserPolicy, ApplyIsNoCloser DEF IInv, CallInv, Returned
    <2>3. call' = call /\ result' = [result EXCEPT ![g] = Ok(Nil)]
      BY <1>15 DEF Detach, frame
    <2> QED
      BY <2>1, <2>2, <2>3, ResultShapes, ExitFrame
  <1>16. ASSUME NEW g \in Procs, Exit(g)
        PROVE  ResultInv'
    <2>1. pc'[g] = "idle" /\ \A p \in Procs \ {g} : pc'[p] = pc[p]
      BY <1>16, GotoEffect DEF Exit, IInv
    <2>2. /\ result'[g] = NoResult
          /\ \A p \in Procs \ {g} : result'[p] = result[p] /\ call'[p] = call[p]
      BY <1>16 DEF Exit, IInv, TypeOK
    <2> QED
      BY <2>1, <2>2, ResultShapes, ResultFrame
  <1>17. ASSUME NEW h \in Handles, Drop(h)
        PROVE  ResultInv'
    BY <1>17 DEF IInv, ResultInv, frame, Drop
  <1>18. ASSUME NEW h \in Handles, Finalize(h)
        PROVE  ResultInv'
    <2>1. Collector \in Procs /\ result' = result
      BY <1>18 DEF Finalize, Procs
    <2>2. \A p \in Procs \ {Collector} : call'[p] = call[p]
      BY <1>18 DEF Finalize, IInv, TypeOK
    <2>3. pc'[Collector] = "enter" /\ \A p \in Procs \ {Collector} : pc'[p] = pc[p]
      BY <1>18, <2>1, GotoEffect DEF Finalize, IInv
    <2> QED
      BY <2>1, <2>2, <2>3 DEF IInv, ResultInv
  <1>19. CASE UNCHANGED vars
    BY <1>19 DEF IInv, ResultInv, frame, vars
  <1> QED
    BY <1>1, <1>2, <1>3, <1>4, <1>5, <1>6, <1>7, <1>8, <1>9, <1>10, <1>11, <1>12, <1>13, <1>14,
       <1>15, <1>16, <1>17, <1>18, <1>19 DEF Next, Step

-----------------------------------------------------------------------------
(* The invariant.                                                          *)

(* Before the first call every handle is unborn and every goroutine idle.  *)
LEMMA InitIInv == Init => IInv
  <1> SUFFICES ASSUME Init
               PROVE  IInv
    OBVIOUS
  <1>1. NoCall.h = Nil /\ NoCall.op \notin Creators
    BY DEF NoCall, Creators
  <1>2. TypeOK
    BY NilAssumption DEF Init, TypeOK, ControlPoints, RWMutexes, Unlocked
  <1>3. CallInv
    BY DEF Init, CallInv, Using
  <1>4. LockInv
    BY NilAssumption DEF Init, LockInv, Unlocked, Using
  <1>5. WaitInv /\ MemInv /\ NoLeak
    BY DEF Init, WaitInv, MemInv, NoLeak, Using
  <1>6. AppliedInv /\ AppliedIsFinal
    BY DEF Init, AppliedInv, AppliedIsFinal
  <1>7. ScanInv
    BY DEF Init, ScanInv, NoScan, Scanning
  <1>8. ThreadInv /\ CleanSlots
    BY DEF Init, ThreadInv, CleanSlots
  <1>9. ResultInv
    BY ResultShapes DEF Init, ResultInv
  <1> QED
    BY <1>2, <1>3, <1>4, <1>5, <1>6, <1>7, <1>8, <1>9 DEF IInv

(* IInv holds of every state the program can reach: it holds at first, and *)
(* each of its parts survives every step from a state in which all hold.   *)
THEOREM Invariance == Spec => []IInv
  <1>1. Init => IInv
    BY InitIInv
  <1>2. IInv /\ [Next]_vars => IInv'
    BY TypeStep, CallStep, LockStep, WaitStep, MemStep, LeakStep, AppliedStep, FinalStep, ScanStep,
       ThreadStep, SlotStep, ResultStep DEF IInv
  <1> QED
    BY <1>1, <1>2, PTL DEF Spec

(* A step of g is g's alone, and only its return changes its call.         *)
LEMMA OthersStay ==
    ASSUME IInv, NEW g \in Procs, Step(g)
    PROVE  /\ pc[g] # "idle"
           /\ \A p \in Procs \ {g} : pc'[p] = pc[p] /\ call'[p] = call[p] /\ result'[p] = result[p]
           /\ pc'[g] # "idle" => call' = call
  <1>1. CASE Reject(g) \/ Proceed(g) \/ ReadLock(g) \/ WriteLock(g) \/ FindClosed(g) \/ FindOpen(g)
             \/ EnterC(g) \/ CSucceed(g) \/ CCreate(g) \/ CApply(g) \/ CFail(g) \/ CFailStatic(g)
    BY <1>1 DEF Reject, Proceed, ReadLock, WriteLock, FindClosed, FindOpen, EnterC, CSucceed,
       CCreate, CApply, CFail, CFailStatic, Goto, frame, IInv, TypeOK
  <1>2. CASE ScanCount(g) \/ ScanAccess(g) \/ ScanFields(g) \/ ScanDone(g) \/ LastError(g)
             \/ ClearError(g) \/ Free(g) \/ Detach(g) \/ Exit(g)
    BY <1>2 DEF ScanCount, ScanAccess, ScanFields, ScanDone, Scanning, LastError, ClearError, Free,
       Detach, Exit, Goto, frame, IInv, TypeOK
  <1> QED
    BY <1>1, <1>2 DEF Step
=============================================================================
