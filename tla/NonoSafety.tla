----------------------------- MODULE NonoSafety -----------------------------
(***************************************************************************)
(* The safety properties of NonoCalls, proved from the invariant of        *)
(* NonoProofs for every value of the constants.                            *)
(***************************************************************************)
EXTENDS NonoProofs

(* Every variable keeps its type, whatever the goroutines do.              *)
THEOREM TypeCorrectness == Spec => []TypeOK
  <1>1. IInv => TypeOK
    BY DEF IInv
  <1> QED
    BY <1>1, Invariance, PTL

(* No C function gets a freed object: the nil check of ptr and the C call  *)
(* are in one critical section of mu (capability_set.go:66-75), and so are *)
(* the free and the assignment of nil (capability_set.go:45-57).           *)
THEOREM MemorySafety == Spec => []NoUseAfterFree
  <1>1. IInv => NoUseAfterFree
    BY NilAssumption DEF IInv, MemInv, Using, NoUseAfterFree, Touches
  <1> QED
    BY <1>1, Invariance, PTL

(* A C function that writes or frees an object has it to itself: such a    *)
(* function is called with mu locked for writing, any other with mu locked *)
(* at least for reading (capability_set.go:64-65, query.go:67-68).         *)
THEOREM SafeForConcurrentUse == Spec => []ExclusiveAccess
  <1>1. ASSUME IInv, NEW h \in Handles, NEW g1 \in Procs, NEW g2 \in Procs,
               Touches(g1, h), Touches(g2, h), g1 # g2
        PROVE  pc[g1] = "inC" /\ call[g1].op \notin Mutators
    <2>1. Holds(g1) /\ Holds(g2) /\ call[g1].h = call[g2].h
      BY <1>1, NilAssumption DEF Touches, IInv, LockInv, Using
    <2>2. M(g1).lock # "W"
      BY <1>1, <2>1, Exclusion
    <2>3. call[g1].op \notin Mutators \cup {"Apply"} \cup Closers
      BY <1>1, <2>2, CallFacts, LockPolicy, CloserPolicy DEF IInv, M
    <2> QED
      BY <1>1, <2>3 DEF Touches, IInv, CallInv
  <1>2. IInv => ExclusiveAccess
    BY <1>1 DEF ExclusiveAccess
  <1> QED
    BY <1>2, Invariance, PTL

(* mapError reports the message of its own call: LockOSThread keeps every  *)
(* other goroutine off the thread from before the C call until mapError    *)
(* has read the slot (nono.go:144-152, errors.go:102-117).                 *)
THEOREM ErrorsAreAttributed == Spec => []ErrorAttribution
  <1>1. IInv => ErrorAttribution
    BY DEF IInv, ResultInv, ErrorAttribution
  <1> QED
    BY <1>1, Invariance, PTL

(* The slots are empty whenever no failure is being reported               *)
(* (nono_clear_error in errors.go:115).                                    *)
THEOREM SlotsAreCleared == Spec => []CleanSlots
  <1>1. IInv => CleanSlots
    BY DEF IInv
  <1> QED
    BY <1>1, Invariance, PTL

(* No object is lost: the finalizer New sets goes only when a Close has    *)
(* started or the object is freed (capability_set.go:38, 45-57).           *)
THEOREM ObjectsHaveOwners == Spec => []NoLeak
  <1>1. IInv => NoLeak
    BY DEF IInv
  <1> QED
    BY <1>1, Invariance, PTL

(* Apply consumes the set in the critical section in which it applied it,  *)
(* so no later call can change it (nono.go:173-184).                       *)
THEOREM AppliedSetsAreFrozen == Spec => []AppliedIsFinal
  <1>1. IInv => AppliedIsFinal
    BY DEF IInv
  <1> QED
    BY <1>1, Invariance, PTL

(***************************************************************************)
(* No message is lost.                                                     *)
(***************************************************************************)
(* A goroutine past nono_last_error has copied the message in its slot.    *)
ReportInv ==
    \A t \in Threads : lastError[t] # Nil /\ pc[lastError[t]] = "clear"
                       => result[lastError[t]].msg = lastError[t]

(* A slot is filled by a failing call that found it empty and emptied by   *)
(* the same goroutine.                                                     *)
LEMMA SlotsChange ==
    ASSUME IInv, NEW g \in Procs, Step(g), NEW t \in Threads, lastError'[t] # lastError[t]
    PROVE  \/ CFail(g) /\ lastError[t] = Nil /\ lastError'[t] = g
           \/ ClearError(g) /\ lastError[t] = g /\ lastError'[t] = Nil
  <1>1. ASSUME RunsOn(g) = {thread[g]}, t = thread[g], lastError[t] # Nil
        PROVE  lastError[t] = g /\ pc[g] \in {"failed", "clear"}
    <2>1. lastError[t] \in Procs /\ thread[lastError[t]] = t /\ t # Nil
      BY <1>1, NilAssumption DEF IInv, TypeOK, CleanSlots
    <2> QED
      BY <1>1, <2>1 DEF IInv, ThreadInv, CleanSlots
  <1>2. CASE CFail(g)
    <2>1. pc[g] = "inC" /\ RunsOn(g) = {thread[g]}
      BY <1>2, FailsPinned DEF CFail, Goto
    <2>2. t = thread[g] /\ lastError'[t] = g
      BY <1>2, <2>1 DEF CFail, IInv, TypeOK
    <2> QED
      BY <1>1, <1>2, <2>1, <2>2
  <1>3. CASE ClearError(g)
    <2>1. RunsOn(g) = {thread[g]}
      BY <1>3 DEF ClearError, Goto, RunsOn, IInv, ThreadInv
    <2>2. t = thread[g] /\ lastError'[t] = Nil
      BY <1>3, <2>1 DEF ClearError, IInv, TypeOK
    <2> QED
      BY <1>1, <1>3, <2>1, <2>2
  <1>4. CASE ScanAccess(g) \/ ScanFields(g)
    <2>1. Scanning(g) /\ scan[g].i < Len(Given(g).fs)
      BY <1>4, ScanHolds, NilAssumption DEF ScanAccess, ScanFields, Given, IInv, ScanInv
    <2> QED
      BY <1>4, <2>1 DEF ScanAccess, ScanFields, Complain
  <1>5. CASE ~(CFail(g) \/ ClearError(g) \/ ScanAccess(g) \/ ScanFields(g))
    BY <1>5 DEF Step, Reject, Proceed, ReadLock, WriteLock, FindClosed, FindOpen, EnterC, CSucceed,
       CCreate, CApply, CFailStatic, ScanCount, ScanDone, LastError, Free, Detach, Exit, library
  <1> QED
    BY <1>2, <1>3, <1>4, <1>5

LEMMA ReportStep == IInv /\ ReportInv /\ [Next]_vars => ReportInv'
  <1> SUFFICES ASSUME IInv, ReportInv, [Next]_vars, NEW t \in Threads,
                      lastError'[t] # Nil, pc'[lastError'[t]] = "clear"
               PROVE  result'[lastError'[t]].msg = lastError'[t]
    BY DEF ReportInv
  <1> DEFINE owner == lastError[t]
  <1>1. ASSUME NEW g \in Procs, Step(g)
        PROVE  result'[lastError'[t]].msg = lastError'[t]
    <2>1. lastError'[t] = owner
      BY <1>1, SlotsChange, GotoEffect DEF CFail, IInv
    <2>2. owner \in Procs /\ thread[owner] = t
      BY <2>1 DEF IInv, TypeOK, CleanSlots
    <2>3. CASE owner # g
      BY <1>1, <2>1, <2>2, <2>3, OthersStay DEF ReportInv
    <2>4. CASE owner = g
      <3>1. LastError(g)
        BY <1>1, <2>1, <2>4 DEF Step, Reject, Proceed, ReadLock, WriteLock, FindClosed, FindOpen,
           EnterC, CSucceed, CCreate, CApply, CFail, CFailStatic, ScanCount, ScanAccess, ScanFields,
           ScanDone, Scanning, ClearError, Free, Detach, Exit, Goto, IInv, TypeOK
      <3>2. RunsOn(g) = {t}
        BY <2>2, <2>4, NilAssumption DEF RunsOn
      <3>3. result' = [result EXCEPT ![g].msg = g]
        BY <2>1, <2>4, <3>1, <3>2 DEF LastError
      <3>4. result'[g] = [result[g] EXCEPT !.msg = g] /\ DOMAIN result[g] = {"code", "msg", "val"}
        BY <3>3 DEF IInv, TypeOK, ResultInv
      <3> QED
        BY <2>1, <2>4, <3>4
    <2> QED
      BY <2>3, <2>4
  <1>2. ASSUME NEW g \in Procs, Goto(g, "idle", "enter"), UNCHANGED <<lastError, result>>
        PROVE  result'[lastError'[t]].msg = lastError'[t]
    BY <1>2, GotoEffect DEF ReportInv, IInv, TypeOK
  <1>3. ASSUME NEW g \in Goroutines, NEW c \in Calls, Invoke(g, c)
        PROVE  result'[lastError'[t]].msg = lastError'[t]
    BY <1>2, <1>3 DEF Invoke, library, Procs
  <1>4. ASSUME NEW h \in Handles, Finalize(h)
        PROVE  result'[lastError'[t]].msg = lastError'[t]
    BY <1>2, <1>4 DEF Finalize, library, Procs
  <1>5. CASE UNCHANGED vars \/ \E h \in Handles : Drop(h)
    BY <1>5 DEF Drop, library, vars, ReportInv
  <1> QED
    BY <1>1, <1>3, <1>4, <1>5 DEF Next

(* The message a failed C call left on its thread reaches that call's      *)
(* error: no other goroutine overwrites or clears it first, and mapError   *)
(* clears the slot only after it has copied it (errors.go:107-115).        *)
THEOREM MessagesAreRead == Spec => NoMessageLost
  <1>1. Init => ReportInv
    BY DEF Init, ReportInv
  <1>2. ASSUME IInv, ReportInv, [Next]_vars, NEW t \in Threads, lastError[t] # Nil,
               lastError'[t] # lastError[t]
        PROVE  LET g == lastError[t] IN pc[g] = "clear" /\ pc'[g] = "exit" /\ result[g].msg = g
    <2>1. PICK g \in Procs : Step(g)
      BY <1>2 DEF Next, Invoke, Drop, Finalize, library, vars
    <2>2. ClearError(g) /\ lastError[t] = g
      BY <1>2, <2>1, SlotsChange
    <2>3. pc[g] = "clear" /\ pc'[g] = "exit"
      BY <1>2, <2>2, GotoEffect DEF ClearError, IInv
    <2> QED
      BY <1>2, <2>2, <2>3 DEF ReportInv
  <1>3. IInv /\ ReportInv /\ [Next]_vars =>
          [\A t \in Threads : lastError[t] # Nil /\ lastError'[t] # lastError[t] =>
              LET g == lastError[t] IN pc[g] = "clear" /\ pc'[g] = "exit" /\ result[g].msg = g]_vars
    BY <1>2
  <1> QED
    BY <1>1, <1>3, Invariance, ReportStep, PTL DEF Spec, NoMessageLost
=============================================================================
