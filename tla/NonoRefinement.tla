--------------------------- MODULE NonoRefinement ---------------------------
(***************************************************************************)
(* The calls are linearizable: NonoCalls implements NonoAPI.  A call takes *)
(* effect when its C function returns, when it finds its handle closed or  *)
(* its arguments wrong, and for Close when the object is freed; every      *)
(* other step (locking, pinning, each read of an enumeration, mapError,    *)
(* detaching the handle) is one its callers cannot see.                    *)
(***************************************************************************)
EXTENDS NonoAbstraction

(* NonoAPI speaks of the same methods, contents and results.               *)

LEMMA SameMethod == \A op : API!Method(op) = Method(op)
  BY DEF Method, Methods, New, Version, IsSupported, SupportInfo, StateFromJSON, Apply,
         NewQueryContext, StateFromCaps, AllowPath, AllowFile, SetNetworkBlocked, SetNetworkMode,
         SetProxyPort, AllowCommand, BlockCommand, AddPlatformRule, Deduplicate, NetworkMode,
         ProxyPort, PathCovered, IsNetworkBlocked, Summary, FSCapabilities, QueryPath,
         QueryNetwork, JSON, Caps, CloseCaps, CloseQuery, CloseState, Mutation, Getter, Reader,
         Snapshot, Global, Closer, errCapSetClosed, errSandboxStateClosed, errQueryContextClosed,
         NoResult, Ok, staticError, API!Method, API!Methods, API!New, API!Version,
         API!IsSupported, API!SupportInfo, API!StateFromJSON, API!Apply, API!NewQueryContext,
         API!StateFromCaps, API!AllowPath, API!AllowFile, API!SetNetworkBlocked,
         API!SetNetworkMode, API!SetProxyPort, API!AllowCommand, API!BlockCommand,
         API!AddPlatformRule, API!Deduplicate, API!NetworkMode, API!ProxyPort, API!PathCovered,
         API!IsNetworkBlocked, API!Summary, API!FSCapabilities, API!QueryPath, API!QueryNetwork,
         API!JSON, API!Caps, API!CloseCaps, API!CloseQuery, API!CloseState, API!Mutation,
         API!Getter, API!Reader, API!Snapshot, API!Global, API!Closer, API!errCapSetClosed,
         API!errSandboxStateClosed, API!errQueryContextClosed, API!NoResult, API!Ok,
         API!staticError

LEMMA SameResults ==
    /\ API!NoResult = NoResult
    /\ \A v : API!Ok(v) = Ok(v)
    /\ \A code, msg : API!mapped(code, msg) = mapped(code, msg)
    /\ \A code, msg : API!staticError(code, msg) = staticError(code, msg)
    /\ \A r : API!isOK(r) = isOK(r)
    /\ \A op, v : API!GoValue(op, v) = GoValue(op, v)
  BY DEF NoResult, Ok, mapped, staticError, isOK, GoValue, extractQueryResult, API!NoResult,
         API!Ok, API!mapped, API!staticError, API!isOK, API!GoValue, API!extractQueryResult

(* The methods answer on a closed handle as NonoAPI says they do.          *)
LEMMA ClosedAnswers ==
    ASSUME NEW op \in Operations, Method(op).handle # "none"
    PROVE  API!ClosedAnswer(op) = Method(op).closed
  <1> DEFINE Others == {"AllowPath", "AllowFile", "SetNetworkBlocked", "SetNetworkMode",
                        "SetProxyPort", "AllowCommand", "BlockCommand", "AddPlatformRule",
                        "Deduplicate", "Apply", "NewQueryContext", "StateFromCaps"}
  <1>1. CASE op \in {"CloseCaps", "CloseQuery", "CloseState"}
    <2>1. Method(op).closed = Ok(Nil)
      BY <1>1 DEF Method, Methods, CloseCaps, CloseQuery, CloseState, Closer
    <2>2. API!ClosedAnswer(op) = API!Ok(Nil)
      BY <1>1 DEF API!ClosedAnswer, API!Closers
    <2> QED
      BY <2>1, <2>2, SameResults
  <1>2. CASE op = "NetworkMode"
    BY <1>2, SameResults DEF Method, Methods, NetworkMode, Getter, API!ClosedAnswer, API!Closers
  <1>3. CASE op = "ProxyPort"
    BY <1>3, SameResults DEF Method, Methods, ProxyPort, Getter, API!ClosedAnswer, API!Closers
  <1>4. CASE op \in {"PathCovered", "IsNetworkBlocked"}
    <2>1. Method(op) \in {PathCovered, IsNetworkBlocked}
      BY <1>4 DEF Method, Methods
    <2>2. \A string, zero : Getter(string, zero).closed = Ok(zero)
      BY DEF Getter
    <2>3. PathCovered.closed = Ok(FALSE) /\ IsNetworkBlocked.closed = Ok(FALSE)
      BY <2>2, Zenon DEF PathCovered, IsNetworkBlocked
    <2>4. API!ClosedAnswer(op) = API!Ok(FALSE)
      BY <1>4 DEF API!ClosedAnswer, API!Closers
    <2> QED
      BY <2>1, <2>3, <2>4, SameResults
  <1>5. CASE op \in {"Summary", "FSCapabilities"}
    <2>1. Method(op).closed = Ok(Nil)
      BY <1>5 DEF Method, Methods, Summary, FSCapabilities, Getter
    <2>2. API!ClosedAnswer(op) = API!Ok(Nil)
      BY <1>5 DEF API!ClosedAnswer, API!Closers
    <2> QED
      BY <2>1, <2>2, SameResults
  <1>6. CASE op \in {"QueryPath", "QueryNetwork"}
    <2>1. Method(op).closed = errQueryContextClosed
      BY <1>6 DEF Method, Methods, QueryPath, QueryNetwork, Reader
    <2>2. API!ClosedAnswer(op) = API!staticError("InvalidArg", "query context is closed")
      BY <1>6 DEF API!ClosedAnswer, API!Closers
    <2> QED
      BY <2>1, <2>2, SameResults DEF errQueryContextClosed
  <1>7. CASE op \in {"JSON", "Caps"}
    <2>1. Method(op).closed = errSandboxStateClosed
      BY <1>7 DEF Method, Methods, JSON, Caps, Reader
    <2>2. API!ClosedAnswer(op) = API!staticError("InvalidArg", "sandbox state is closed")
      BY <1>7 DEF API!ClosedAnswer, API!Closers
    <2> QED
      BY <2>1, <2>2, SameResults DEF errSandboxStateClosed
  <1>8. CASE op \in Others
    <2>1. Method(op).closed = errCapSetClosed
      BY <1>8 DEF Method, Methods, AllowPath, AllowFile, SetNetworkBlocked, SetNetworkMode,
         SetProxyPort, AllowCommand, BlockCommand, AddPlatformRule, Deduplicate, Apply,
         NewQueryContext, StateFromCaps, Mutation, Snapshot
    <2>2. API!ClosedAnswer(op) = API!staticError("InvalidArg", "capability set is closed")
      BY <1>8 DEF API!ClosedAnswer, API!Closers
    <2> QED
      BY <2>1, <2>2, SameResults DEF errCapSetClosed
  <1>9. CASE op \in {"New", "Version", "IsSupported", "SupportInfo", "StateFromJSON"}
    BY <1>9 DEF Method, Methods, New, Version, IsSupported, SupportInfo, StateFromJSON, Global
  <1> QED
    BY <1>1, <1>2, <1>3, <1>4, <1>5, <1>6, <1>7, <1>8, <1>9 DEF Operations, Methods

LEMMA SameCalls ==
    /\ API!Procs = Procs
    /\ API!Handles = Handles
    /\ API!Creators = Creators
    /\ API!Closers = Closers
    /\ API!NoCall = NoCall
    /\ \A h : API!CloseCall(h) = CloseCall(h)
    /\ \A op : API!Makes(op) = Makes(op)
  BY DEF Procs, Handles, Creators, Closers, NoCall, CloseCall, Makes, API!Procs, API!Handles,
         API!Creators, API!Closers, API!NoCall, API!CloseCall, API!Makes

LEMMA SameErrors ==
    /\ \A c : API!ArgumentError(c) = ArgumentError(c)
    /\ \A op : API!ErrorCodes(op) = ErrorCodes(op)
    /\ \A op : API!SilentFailures(op) = SilentFailures(op)
    /\ \A c, r : API!Returned(c, r) = Returned(c, r)
  BY SameMethod, SameResults, SameCalls DEF ArgumentError, checkNUL, errNilCaps, ErrorCodes,
         SilentFailures, Returned, API!ArgumentError, API!checkNUL, API!errNilCaps,
         API!ErrorCodes, API!SilentFailures, API!Returned

LEMMA SameEntry ==
    \A path, access, isFile : API!Entry(path, access, isFile) = Entry(path, access, isFile)
  BY DEF Entry, API!Entry

LEMMA SameAnswer ==
    \A status, reason, path, access, granted, requested :
       API!CResult(status, reason, path, access, granted, requested)
       = CResult(status, reason, path, access, granted, requested)
  BY DEF CResult, API!CResult

LEMMA SameMutations ==
    /\ \A c, e : API!AddEntry(c, e) = AddEntry(c, e)
    /\ \A c, mode : API!SetMode(c, mode) = SetMode(c, mode)
    /\ \A c, port : API!SetPort(c, port) = SetPort(c, port)
  BY DEF AddEntry, SetMode, SetPort, API!AddEntry, API!SetMode, API!SetPort

LEMMA SameDeduplicated == \A c : API!Deduplicated(c) = Deduplicated(c)
  BY DEF Deduplicated, Redundant, Range, API!Deduplicated, API!Redundant, API!Range

LEMMA SameCovering == \A c, path : API!Covering(c, path) = Covering(c, path)
  BY DEF Covering, API!Covering

LEMMA SamePathResults ==
    \A c, path, mode : API!QueryPathResults(c, path, mode) = QueryPathResults(c, path, mode)
  BY SameCovering, SameAnswer DEF QueryPathResults, API!QueryPathResults

LEMMA SameNetworkResults == \A c : API!QueryNetworkResults(c) = QueryNetworkResults(c)
  BY SameAnswer DEF QueryNetworkResults, API!QueryNetworkResults

LEMMA SameMutated ==
    \A op, c, str, val : API!Mutated(op, c, str, val) = Mutated(op, c, str, val)
  BY SameEntry, SameMutations, SameDeduplicated DEF Mutated, API!Mutated

LEMMA SameAnswers ==
    \A op, c, str, val : API!Answers(op, c, str, val) = Answers(op, c, str, val)
  BY SameCovering, SamePathResults, SameNetworkResults DEF Answers, ToJSON, API!Answers,
         API!ToJSON

LEMMA SameOutcomes ==
    \A op, c, str, val : API!Outcomes(op, c, str, val) = Outcomes(op, c, str, val)
  BY SameMutated, SameAnswers DEF Outcomes, Mutators, API!Outcomes, API!Mutators

LEMMA SameContents ==
    /\ API!EmptyContent = EmptyContent
    /\ \A op, c, str : API!Produced(op, c, str) = Produced(op, c, str)
  BY DEF EmptyContent, Produced, FromJSON, API!EmptyContent, API!Produced, API!FromJSON

-----------------------------------------------------------------------------
(* The mapping.                                                            *)

\* Only g moved.
Alone(g) == \A p \in Procs \ {g} : pc'[p] = pc[p] /\ call'[p] = call[p] /\ result'[p] = result[p]

(* Messages that do not come from the library.                             *)
LEMMA NotReported ==
    ASSUME NEW g \in Procs, NEW m \in (Messages \ {"unknown error"}) \cup {Nil}
    PROVE  m \notin {g, "unknown error"}
  <1>1. Nil # g /\ g \notin Messages
    BY NilAssumption, MessageAssumption
  <1>2. Nil # "unknown error"
    BY NilMessageAssumption DEF Messages
  <1> QED
    BY <1>1, <1>2

(* What the callers see of a goroutine depends on that goroutine alone.    *)
LEMMA StageMoves ==
    ASSUME NEW g \in Procs, Alone(g)
    PROVE  Stage' = [Stage EXCEPT ![g] = Stage'[g]]
  <1>1. ASSUME NEW p \in Procs \ {g}
        PROVE  Stage'[p] = Stage[p]
    BY DEF Stage, HasActed, Alone
  <1> QED
    BY <1>1 DEF Stage

LEMMA ReportMoves ==
    ASSUME NEW g \in Procs, Alone(g)
    PROVE  Reported' = [Reported EXCEPT ![g] = Reported'[g]]
  <1>1. ASSUME NEW p \in Procs \ {g}
        PROVE  Reported'[p] = Reported[p]
    <2>1. pc'[p] = pc[p] /\ call'[p] = call[p] /\ result'[p] = result[p]
      BY DEF Alone
    <2>2. HasActed(p)' = HasActed(p)
      BY <2>1 DEF HasActed
    <2> QED
      BY <2>1, <2>2 DEF Reported
  <1>2. Reported = [p \in Procs |-> Reported[p]] /\ Reported' = [p \in Procs |-> Reported'[p]]
    BY DEF Reported
  <1> QED
    BY <1>1, <1>2

LEMMA ReportStays ==
    ASSUME NEW g \in Procs, Alone(g), Reported'[g] = Reported[g]
    PROVE  Reported' = Reported
  <1>1. Reported' = [Reported EXCEPT ![g] = Reported[g]]
    BY ReportMoves
  <1>2. Reported = [p \in Procs |-> Reported[p]]
    BY DEF Reported
  <1> QED
    BY <1>1, <1>2

(* A handle changes its status with its object, or when Apply takes it.    *)
LEMMA StatusStays ==
    ASSUME NEW g \in Procs, Alone(g), mem' = mem,
           ~(pc[g] = "free" /\ call[g].op = "Apply"), ~(pc'[g] = "free" /\ call'[g].op = "Apply")
    PROVE  Status' = Status
  <1>1. ASSUME NEW h \in Handles
        PROVE  Consumed(h)' = Consumed(h)
    BY DEF Consumed, Alone
  <1> QED
    BY <1>1 DEF Status

(* A method that uses an object has found its handle open, and nobody can  *)
(* close it meanwhile.                                                     *)
LEMMA OpenInUse ==
    ASSUME IInv, NEW g \in Procs, call[g].h # Nil,
           pc[g] \in {"call", "inC"} \/ (pc[g] = "free" /\ call[g].op \in Closers)
    PROVE  call[g].h \in Handles /\ mem[call[g].h] = "live" /\ ~Consumed(call[g].h)
  <1>1. call[g].h \in Handles /\ mem[call[g].h] = "live" /\ Holds(g)
    BY CallFacts DEF IInv, MemInv, LockInv, Using
  <1>2. ASSUME Consumed(call[g].h)
        PROVE  FALSE
    <2>1. PICK p \in Procs : pc[p] = "free" /\ call[p].op = "Apply" /\ call[p].h = call[g].h
      BY <1>2 DEF Consumed
    <2>2. Holds(p) /\ M(p).lock = "W"
      BY <2>1, CallFacts, LockPolicy DEF IInv, LockInv, Using, M
    <2>3. p = g
      BY <1>1, <2>1, <2>2, Exclusion
    <2> QED
      BY <2>1, <2>3, ApplyIsNoCloser
  <1> QED
    BY <1>1, <1>2

LEMMA EffectiveNow ==
    ASSUME IInv, VettedInv, NEW g \in Procs,
           pc[g] \in {"call", "inC"} \/ (pc[g] = "free" /\ call[g].op \in Closers)
    PROVE  API!Effective(g)
  <1>1. Stage[g] = "invoked"
    BY ApplyIsNoCloser DEF Stage, HasActed
  <1>2. ArgumentError(call[g]) = NoResult
    BY DEF VettedInv, Using
  <1>3. call[g].h # Nil => Status[call[g].h] = "open"
    BY OpenInUse DEF Status
  <1> QED
    BY <1>1, <1>2, <1>3, SameErrors, SameResults DEF API!Effective

(* A step at which the call of g takes effect.                             *)
LEMMA FinishNow ==
    ASSUME NEW g \in Procs, Alone(g), UNCHANGED <<call, roots>>,
           pc'[g] # "idle", HasActed(g)', NEW r, Reported'[g] = r
    PROVE  API!Finish(g, r)
  <1>1. Stage'[g] = "done"
    BY DEF Stage
  <1> QED
    BY <1>1, StageMoves, ReportMoves DEF API!Finish

(* The package's own results are what the caller gets.                     *)
LEMMA OwnReport ==
    ASSUME NEW g \in Procs, pc'[g] = "exit",
           result'[g].msg \in (Messages \ {"unknown error"}) \cup {Nil}
    PROVE  Reported'[g] = result'[g]
  <1>1. result'[g].msg \notin {g, "unknown error"}
    BY NotReported
  <1> QED
    BY <1>1 DEF Reported

LEMMA OkReport ==
    ASSUME NEW g \in Procs, pc'[g] = "exit", NEW v, result'[g] = Ok(v)
    PROVE  Reported'[g] = Ok(v)
  BY OwnReport, ResultShapes

(* A step at which nothing happens for the callers.                        *)
LEMMA Unseen ==
    ASSUME NEW g \in Procs, Alone(g), UNCHANGED <<call, roots, heap, applied>>,
           Stage'[g] = Stage[g], Reported'[g] = Reported[g], Status' = Status
    PROVE  UNCHANGED API!vars
  <1>1. Stage' = Stage
    BY StageMoves DEF Stage
  <1>2. Reported' = Reported
    BY ReportStays
  <1> QED
    BY <1>1, <1>2 DEF API!vars

LEMMA MappedCode == \A code, msg : mapped(code, msg).code = code
  BY DEF mapped

(* What a call returns, mapped or not.                                     *)
LEMMA SameReturned ==
    ASSUME IInv, OutcomeInv, NEW g \in Procs
    PROVE  Returned(call[g], Reported[g]) = Returned(call[g], result[g])
  <1>1. CASE pc[g] \in {"free", "detach"} /\ HasActed(g)
    <2>1. call[g].op \notin Creators
      BY <1>1, CloserPolicy, ApplyIsNoCloser DEF IInv, CallInv
    <2> QED
      BY <2>1, NothingReturned
  <1>2. CASE /\ ~(pc[g] \in {"free", "detach"} /\ HasActed(g))
             /\ (pc[g] = "failed" \/ result[g].msg \in {g, "unknown error"})
    <2>1. ~isOK(result[g])
      BY <1>2, NilAssumption, NilMessageAssumption DEF IInv, ResultInv, OutcomeInv, Messages
    <2>2. Reported[g] = mapped(result[g].code, "from the library")
      BY <1>2 DEF Reported
    <2>3. ~isOK(Reported[g])
      BY <2>1, <2>2, MappedCode DEF isOK
    <2> QED
      BY <2>1, <2>3, NothingReturned
  <1>3. CASE /\ ~(pc[g] \in {"free", "detach"} /\ HasActed(g))
             /\ ~(pc[g] = "failed" \/ result[g].msg \in {g, "unknown error"})
    BY <1>3 DEF Reported
  <1> QED
    BY <1>1, <1>2, <1>3

-----------------------------------------------------------------------------
(* The steps the callers do not see.                                       *)

(* Before the call takes effect.                                           *)
LEMMA UnseenBefore ==
    ASSUME IInv, NEW g \in Procs, Step(g),
           \/ Proceed(g) \/ ReadLock(g) \/ WriteLock(g) \/ FindOpen(g) \/ EnterC(g)
           \/ ScanCount(g) \/ ScanAccess(g) \/ ScanFields(g)
    PROVE  UNCHANGED API!vars
  <1>1. Alone(g)
    BY OthersStay DEF Alone
  <1>2. UNCHANGED <<call, result, roots, mem, heap, applied>>
    BY DEF Proceed, ReadLock, WriteLock, FindOpen, EnterC, ScanCount, ScanAccess, ScanFields,
       frame, handle, library
  <1>3. pc[g] \in {"enter", "lock", "check", "call", "inC"}
    BY DEF Proceed, ReadLock, WriteLock, FindOpen, EnterC, ScanCount, ScanAccess, ScanFields, Scanning,
       Goto
  <1>4. \/ pc'[g] \in {"lock", "check", "call", "inC"}
        \/ pc'[g] = "free" /\ call[g].op \in Closers
    BY DEF Proceed, ReadLock, WriteLock, FindOpen, EnterC, ScanCount, ScanAccess, ScanFields, Scanning,
       Goto, IInv, TypeOK
  <1>5. ~HasActed(g) /\ ~HasActed(g)'
    BY <1>2, <1>3, <1>4, ApplyIsNoCloser DEF HasActed
  <1>6. Stage'[g] = Stage[g]
    BY <1>3, <1>4, <1>5 DEF Stage
  <1>7. Reported'[g] = Reported[g]
    BY <1>2, <1>3, <1>4, <1>5 DEF Reported
  <1>8. Status' = Status
    BY <1>1, <1>2, <1>3, <1>4, ApplyIsNoCloser, StatusStays
  <1> QED
    BY <1>1, <1>2, <1>6, <1>7, <1>8, Unseen

(* mapError copies the message of this call or makes one up.               *)
LEMMA UnseenLastError ==
    ASSUME IInv, [Next]_vars, NEW g \in Procs, LastError(g)
    PROVE  UNCHANGED API!vars
  <1>1. Alone(g)
    BY OthersStay DEF Step, Alone
  <1>2. UNCHANGED <<call, roots, mem, heap, applied>> /\ pc[g] = "failed" /\ pc'[g] = "clear"
    BY GotoEffect DEF LastError, frame, handle, library, IInv
  <1>3. HasActed(g) /\ HasActed(g)'
    BY <1>2 DEF HasActed
  <1>4. DOMAIN result = Procs /\ DOMAIN result[g] = {"code", "msg", "val"}
    BY DEF IInv, TypeOK, ResultInv
  <1>5. PICK t \in RunsOn(g) :
           result' = [result EXCEPT ![g].msg = IF lastError[t] = Nil THEN "unknown error" ELSE lastError[t]]
    BY DEF LastError
  <1>6. result'[g] = [result[g] EXCEPT !.msg = IF lastError[t] = Nil THEN "unknown error" ELSE lastError[t]]
    BY <1>4, <1>5
  <1>7. /\ result'[g].code = result[g].code
        /\ result'[g].msg = IF lastError[t] = Nil THEN "unknown error" ELSE lastError[t]
    BY <1>4, <1>6
  <1>8. lastError[t] \in Procs \cup {Nil}
    <2>1. t \in Threads
      BY DEF RunsOn, FreeThreads, IInv, TypeOK
    <2> QED
      BY <2>1 DEF IInv, TypeOK
  <1>9. result'[g].msg \in Procs => result'[g].msg = g
    BY <1>2, ResultStep DEF ResultInv
  <1>10. result'[g].msg \in {g, "unknown error"}
    BY <1>7, <1>8, <1>9
  <1>11. Reported[g] = mapped(result[g].code, "from the library")
    BY <1>2 DEF Reported
  <1>12. Reported'[g] = mapped(result'[g].code, "from the library")
    BY <1>2, <1>10 DEF Reported
  <1>13. Stage'[g] = Stage[g]
    BY <1>2, <1>3 DEF Stage
  <1>14. Status' = Status
    BY <1>1, <1>2, StatusStays
  <1> QED
    BY <1>1, <1>2, <1>7, <1>11, <1>12, <1>13, <1>14, Unseen

(* The rest of mapError.                                                   *)
LEMMA UnseenClearError ==
    ASSUME IInv, NEW g \in Procs, ClearError(g)
    PROVE  UNCHANGED API!vars
  <1>1. Alone(g)
    BY OthersStay DEF Step, Alone
  <1>2. UNCHANGED <<call, result, roots, mem, heap, applied>> /\ pc[g] = "clear" /\ pc'[g] = "exit"
    BY GotoEffect DEF ClearError, frame, handle, IInv
  <1>3. Stage'[g] = Stage[g]
    BY <1>2 DEF Stage, HasActed
  <1>4. Reported'[g] = Reported[g]
    BY <1>2 DEF Reported
  <1>5. Status' = Status
    BY <1>1, <1>2, StatusStays
  <1> QED
    BY <1>1, <1>2, <1>3, <1>4, <1>5, Unseen

(* An applied set is freed.                                                *)
LEMMA UnseenFree ==
    ASSUME IInv, NEW g \in Procs, Free(g), call[g].op = "Apply"
    PROVE  UNCHANGED API!vars
  <1>1. Alone(g)
    BY OthersStay DEF Step, Alone
  <1>2. UNCHANGED <<call, result, roots, heap, applied>> /\ pc[g] = "free" /\ pc'[g] = "detach"
    BY GotoEffect DEF Free, frame, handle, IInv
  <1>3. HasActed(g) /\ HasActed(g)'
    BY <1>2 DEF HasActed
  <1>4. Stage'[g] = Stage[g]
    BY <1>2, <1>3 DEF Stage
  <1>5. Reported'[g] = Reported[g]
    BY <1>2, <1>3 DEF Reported
  <1>6. mem' = [mem EXCEPT ![call[g].h] = "freed"] /\ DOMAIN mem = Handles
    BY DEF Free, IInv, TypeOK
  <1>7. mem[call[g].h] = "live" /\ Consumed(call[g].h)
    BY <1>2, CallFacts, LockPolicy DEF Consumed, IInv, CallInv, MemInv, Using, M
  <1>8. \A h \in Handles \ {call[g].h} : Consumed(h)' = Consumed(h)
    BY <1>1, <1>2 DEF Consumed, Alone
  <1>9. Status' = Status
    BY <1>6, <1>7, <1>8 DEF Status
  <1> QED
    BY <1>1, <1>2, <1>4, <1>5, <1>9, Unseen

(* The handle lets go of its object.                                       *)
LEMMA UnseenDetach ==
    ASSUME IInv, NEW g \in Procs, Detach(g)
    PROVE  UNCHANGED API!vars
  <1>1. Alone(g)
    BY OthersStay DEF Step, Alone
  <1>2. UNCHANGED <<call, roots, mem, heap, applied>> /\ pc[g] = "detach" /\ pc'[g] = "exit"
    BY GotoEffect DEF Detach, frame, library, IInv
  <1>3. Stage'[g] = Stage[g]
    BY <1>2 DEF Stage, HasActed
  <1>4. result'[g] = Ok(Nil)
    BY DEF Detach, IInv, TypeOK
  <1>5. Reported[g] = Ok(Nil)
    BY <1>2 DEF Reported, HasActed
  <1>6. Reported'[g] = Ok(Nil)
    BY <1>2, <1>4, OkReport
  <1>7. Status' = Status
    BY <1>1, <1>2, StatusStays
  <1> QED
    BY <1>1, <1>2, <1>3, <1>5, <1>6, <1>7, Unseen

-----------------------------------------------------------------------------
(* The steps at which a call begins, takes effect and ends.                *)

LEMMA InvokeStep ==
    ASSUME IInv, NEW g \in Goroutines, NEW c \in Calls, Invoke(g, c)
    PROVE  API!Invoke(g, c)
  <1>1. g \in Procs /\ pc[g] = "idle" /\ pc'[g] = "enter" /\ \A p \in Procs \ {g} : pc'[p] = pc[p]
    BY GotoEffect DEF Invoke, IInv, Procs
  <1>2. UNCHANGED <<result, roots, mem, heap, applied>> /\ call' = [call EXCEPT ![g] = c]
    BY DEF Invoke, handle, library
  <1>3. Alone(g)
    BY <1>1, <1>2 DEF Alone, IInv, TypeOK
  <1>4. Stage[g] = "idle" /\ Stage' = [Stage EXCEPT ![g] = "invoked"]
    <2>1. Stage[g] = "idle" /\ Stage'[g] = "invoked"
      BY <1>1 DEF Stage, HasActed
    <2> QED
      BY <1>1, <1>3, <2>1, StageMoves
  <1>5. Reported' = Reported
    <2>1. Reported'[g] = Reported[g]
      BY <1>1, <1>2 DEF Reported
    <2> QED
      BY <1>1, <1>3, <2>1, ReportStays
  <1>6. Status' = Status
    BY <1>1, <1>2, <1>3, StatusStays
  <1> QED
    BY <1>2, <1>4, <1>5, <1>6 DEF Invoke, API!Invoke

LEMMA RejectStep ==
    ASSUME IInv, NEW g \in Procs, Reject(g)
    PROVE  API!Reject(g)
  <1>1. Alone(g)
    BY OthersStay DEF Step, Alone
  <1>2. UNCHANGED <<call, roots, mem, heap, applied>> /\ pc[g] = "enter" /\ pc'[g] = "exit"
    BY GotoEffect DEF Reject, frame, handle, library, IInv
  <1>3. ArgumentError(call[g]) # NoResult /\ result'[g] = ArgumentError(call[g])
    BY DEF Reject, IInv, TypeOK
  <1>4. Reported'[g] = ArgumentError(call[g])
    BY <1>2, <1>3, OwnMessages, OwnReport
  <1>5. API!Finish(g, ArgumentError(call[g]))
    BY <1>1, <1>2, <1>4, FinishNow DEF HasActed
  <1>6. Stage[g] = "invoked"
    BY <1>2 DEF Stage, HasActed
  <1>7. Status' = Status
    BY <1>1, <1>2, StatusStays
  <1> QED
    BY <1>2, <1>3, <1>5, <1>6, <1>7, SameErrors, SameResults DEF API!Reject

(* ptr is nil: the object has been freed.                                  *)
LEMMA FindClosedStep ==
    ASSUME IInv, VettedInv, BornInv, NEW g \in Procs, FindClosed(g)
    PROVE  API!FindClosed(g)
  <1>1. Alone(g)
    BY OthersStay DEF Step, Alone
  <1>2. UNCHANGED <<call, roots, mem, heap, applied>> /\ pc[g] = "check" /\ pc'[g] = "exit"
    BY GotoEffect DEF FindClosed, frame, handle, library, IInv
  <1>3. result'[g] = M(g).closed /\ ~ptr[call[g].h]
    BY DEF FindClosed, IInv, TypeOK
  <1>4. Reported'[g] = Method(call[g].op).closed
    BY <1>2, <1>3, OwnMessages, OwnReport, CallFacts DEF M, IInv
  <1>5. API!ClosedAnswer(call[g].op) = Method(call[g].op).closed
    <2>1. M(g).lock # "none" /\ call[g].op \in Operations
      BY <1>2, CallFacts DEF IInv, CallInv
    <2> QED
      BY <2>1, ClosedAnswers, LockPolicy DEF M
  <1>6. API!Finish(g, Method(call[g].op).closed)
    BY <1>1, <1>2, <1>4, FinishNow DEF HasActed
  <1>7. Stage[g] = "invoked"
    BY <1>2 DEF Stage, HasActed
  <1>8. ArgumentError(call[g]) = NoResult
    BY <1>2 DEF VettedInv
  <1>9. call[g].h # Nil /\ call[g].h \in Handles
    BY <1>2, CallFacts DEF IInv, CallInv
  <1>10. mem[call[g].h] \notin {"unborn", "live"}
    BY <1>2, <1>3, <1>9 DEF BornInv, IInv, MemInv
  <1>11. Status[call[g].h] = "closed"
    BY <1>9, <1>10 DEF Status
  <1>12. Status' = Status
    BY <1>1, <1>2, StatusStays
  <1> QED
    BY <1>2, <1>5, <1>6, <1>7, <1>8, <1>9, <1>11, <1>12, SameErrors, SameResults
    DEF API!FindClosed

LEMMA WorkStep ==
    ASSUME IInv, VettedInv, RouteInv, NEW g \in Procs, CSucceed(g)
    PROVE  API!Work(g)
  <1>1. Alone(g)
    BY OthersStay DEF Step, Alone
  <1>2. UNCHANGED <<call, roots, mem, applied>> /\ pc[g] = "inC" /\ pc'[g] = "exit"
    BY GotoEffect DEF CSucceed, frame, handle, IInv
  <1>3. API!Effective(g)
    BY <1>2, EffectiveNow
  <1>4. call[g].op \notin Creators \cup Closers \cup {"Apply", "FSCapabilities"}
    BY <1>2 DEF CSucceed, RouteInv
  <1>5. PICK o \in Outcomes(call[g].op, Given(g), call[g].str, call[g].val) :
           /\ heap' = IF call[g].h = Nil THEN heap ELSE [heap EXCEPT ![call[g].h] = o.post]
           /\ result'[g] = Ok(GoValue(call[g].op, o.val))
    BY DEF CSucceed, IInv, TypeOK
  <1>6. API!Finish(g, Ok(GoValue(call[g].op, o.val)))
    BY <1>1, <1>2, <1>5, OkReport, FinishNow DEF HasActed
  <1>7. Status' = Status
    BY <1>1, <1>2, StatusStays
  <1> QED
    BY <1>2, <1>3, <1>4, <1>5, <1>6, <1>7, SameCalls, SameResults, SameContents, SameOutcomes
    DEF API!Work, Given

LEMMA ListStep ==
    ASSUME IInv, VettedInv, CopyInv, NEW g \in Procs, ScanDone(g)
    PROVE  API!List(g)
  <1>1. Alone(g)
    BY OthersStay DEF Step, Alone
  <1>2. /\ UNCHANGED <<call, roots, mem, heap, applied>> /\ pc[g] = "inC" /\ pc'[g] = "exit"
        /\ call[g].op = "FSCapabilities"
    BY GotoEffect DEF ScanDone, Scanning, handle, library, IInv
  <1>3. API!Effective(g)
    BY <1>2, EffectiveNow
  <1>4. result'[g] = Ok(scan[g].caps)
    BY DEF ScanDone, IInv, TypeOK
  <1>5. scan[g].caps = heap[call[g].h].fs
    <2> DEFINE fs == heap[call[g].h].fs
    <2>1. Scanning(g) /\ call[g].h \in Handles
      BY <1>2, ScanHolds DEF Scanning
    <2>2. Copied(scan[g], fs) /\ fs \in Seq(Range(fs))
      BY <2>1 DEF CopyInv, IsContent
    <2>3. Len(fs) \in Nat /\ scan[g].i \in Nat
      BY <2>2, LenProperties DEF Copied
    <2>4. scan[g].i = Len(fs)
      BY <2>2, <2>3 DEF ScanDone, Copied, IInv, ScanInv
    <2>5. Len(scan[g].caps) = Len(fs) /\ \A k \in 1..Len(fs) : scan[g].caps[k] = fs[k]
      BY <2>2, <2>4 DEF Copied
    <2> QED
      BY <2>2, <2>5, SeqEqual DEF Copied
  <1>6. API!Finish(g, Ok(heap[call[g].h].fs))
    BY <1>1, <1>2, <1>4, <1>5, OkReport, FinishNow DEF HasActed
  <1>7. Status' = Status
    BY <1>1, <1>2, StatusStays
  <1> QED
    BY <1>2, <1>3, <1>6, <1>7, SameResults DEF API!List

LEMMA CreateStep ==
    ASSUME IInv, VettedInv, NEW g \in Procs, CCreate(g)
    PROVE  API!Create(g)
  <1>1. Alone(g)
    BY OthersStay DEF Step, Alone
  <1>2. UNCHANGED <<call, roots, applied>> /\ pc[g] = "inC" /\ pc'[g] = "exit"
    BY GotoEffect DEF CCreate, frame, IInv
  <1>3. API!Effective(g)
    BY <1>2, EffectiveNow
  <1>4. PICK n \in {h \in Makes(call[g].op) : mem[h] = "unborn"},
             new \in Produced(call[g].op, Given(g), call[g].str) :
           /\ mem' = [mem EXCEPT ![n] = "live"]
           /\ heap' = [heap EXCEPT ![n] = new]
           /\ result'[g] = Ok(n)
    BY DEF CCreate, IInv, TypeOK
  <1>5. n \in Handles
    BY DEF Makes, Handles
  <1>6. API!Finish(g, Ok(n))
    BY <1>1, <1>2, <1>4, OkReport, FinishNow DEF HasActed
  <1>7. Status[n] = "unborn" /\ Status' = [Status EXCEPT ![n] = "open"]
    <2>1. \A h \in Handles : Consumed(h)' = Consumed(h)
      BY <1>1, <1>2 DEF Consumed, Alone
    <2>2. ~Consumed(n)
      BY <1>4, <1>5, NilAssumption DEF Consumed, IInv, MemInv, Using
    <2>3. \A h \in Handles \ {n} : mem'[h] = mem[h]
      BY <1>4
    <2>4. mem'[n] = "live"
      BY <1>4, <1>5 DEF IInv, TypeOK
    <2>5. \A h \in Handles \ {n} : Status'[h] = Status[h]
      BY <2>1, <2>3 DEF Status
    <2>6. Status[n] = "unborn" /\ Status'[n] = "open"
      BY <1>4, <1>5, <2>1, <2>2, <2>4 DEF Status
    <2> QED
      BY <1>5, <2>5, <2>6 DEF Status
  <1> QED
    BY <1>2, <1>3, <1>4, <1>6, <1>7, SameCalls, SameResults, SameContents DEF API!Create, Given

(* Apply takes the set when the policy is in force, not when it frees it.  *)
LEMMA ActivateStep ==
    ASSUME IInv, VettedInv, NEW g \in Procs, CApply(g)
    PROVE  API!Activate(g)
  <1>1. Alone(g)
    BY OthersStay DEF Step, Alone
  <1>2. /\ UNCHANGED <<call, roots, mem, heap>> /\ pc[g] = "inC" /\ pc'[g] = "free"
        /\ call[g].op = "Apply" /\ applied' = [applied EXCEPT ![call[g].h] = heap[call[g].h]]
    BY GotoEffect DEF CApply, frame, handle, IInv
  <1>3. API!Effective(g)
    BY <1>2, EffectiveNow
  <1>4. HasActed(g)' /\ Reported'[g] = Ok(Nil)
    BY <1>2 DEF HasActed, Reported
  <1>5. API!Finish(g, Ok(Nil))
    BY <1>1, <1>2, <1>4, FinishNow
  <1>6. call[g].h \in Handles
    BY <1>2, CallFacts, LockPolicy DEF IInv, CallInv, Using, M
  <1>7. mem[call[g].h] = "live"
    BY <1>2, <1>6, OpenInUse, NilAssumption
  <1>8. Status' = [Status EXCEPT ![call[g].h] = "closed"]
    <2>1. Consumed(call[g].h)'
      BY <1>2 DEF Consumed
    <2>2. \A h \in Handles \ {call[g].h} : Consumed(h)' = Consumed(h)
      BY <1>1, <1>2 DEF Consumed, Alone
    <2> QED
      BY <1>2, <1>7, <2>1, <2>2 DEF Status
  <1> QED
    BY <1>2, <1>3, <1>5, <1>8, SameResults DEF API!Activate

LEMMA CloseStep ==
    ASSUME IInv, VettedInv, NEW g \in Procs, Free(g), call[g].op # "Apply"
    PROVE  API!Close(g)
  <1>1. Alone(g)
    BY OthersStay DEF Step, Alone
  <1>2. UNCHANGED <<call, roots, heap, applied>> /\ pc[g] = "free" /\ pc'[g] = "detach"
    BY GotoEffect DEF Free, frame, handle, IInv
  <1>3. call[g].op \in Closers
    BY <1>2 DEF IInv, CallInv
  <1>4. API!Effective(g)
    BY <1>2, <1>3, EffectiveNow
  <1>5. HasActed(g)' /\ Reported'[g] = Ok(Nil)
    BY <1>2 DEF HasActed, Reported
  <1>6. API!Finish(g, Ok(Nil))
    BY <1>1, <1>2, <1>5, FinishNow
  <1>7. mem' = [mem EXCEPT ![call[g].h] = "freed"] /\ DOMAIN mem = Handles
    BY DEF Free, IInv, TypeOK
  <1>8. Status' = [Status EXCEPT ![call[g].h] = "closed"]
    <2>1. \A h \in Handles : Consumed(h)' = Consumed(h)
      BY <1>1, <1>2 DEF Consumed, Alone
    <2>2. \A h \in Handles \ {call[g].h} : Status'[h] = Status[h]
      BY <1>7, <2>1 DEF Status
    <2>3. call[g].h \in Handles => Status'[call[g].h] = "closed"
      BY <1>7 DEF Status
    <2> QED
      BY <2>2, <2>3 DEF Status
  <1> QED
    BY <1>2, <1>3, <1>4, <1>6, <1>8, SameCalls, SameResults DEF API!Close

LEMMA FailStep ==
    ASSUME IInv, VettedInv, NEW g \in Procs, CFail(g) \/ CFailStatic(g)
    PROVE  API!Fail(g)
  <1>1. Alone(g)
    BY OthersStay DEF Step, Alone
  <1>2. UNCHANGED <<call, roots, mem, heap, applied>> /\ pc[g] = "inC" /\ pc'[g] \in {"failed", "exit"}
    BY GotoEffect DEF CFail, CFailStatic, frame, handle, library, IInv
  <1>3. API!Effective(g)
    BY <1>2, EffectiveNow
  <1>4. \E r \in {mapped(code, "from the library") : code \in ErrorCodes(call[g].op)}
                   \cup SilentFailures(call[g].op) : Reported'[g] = r
    <2>1. CASE CFail(g)
      <3>1. PICK code \in ErrorCodes(call[g].op) : result'[g] = mapped(code, Nil)
        BY <2>1 DEF CFail, IInv, TypeOK
      <3>2. pc'[g] = "failed"
        BY <2>1, GotoEffect DEF CFail, IInv
      <3>3. Reported'[g] = mapped(code, "from the library")
        BY <3>1, <3>2, MappedCode DEF Reported
      <3> QED
        BY <3>3
    <2>2. CASE CFailStatic(g)
      <3>1. PICK r \in SilentFailures(call[g].op) : result'[g] = r
        BY <2>2 DEF CFailStatic, IInv, TypeOK
      <3>2. pc'[g] = "exit"
        BY <2>2, GotoEffect DEF CFailStatic, IInv
      <3>3. Reported'[g] = r
        BY <3>1, <3>2, OwnMessages, OwnReport
      <3> QED
        BY <3>3
    <2> QED
      BY <2>1, <2>2
  <1>5. API!Finish(g, Reported'[g])
    BY <1>1, <1>2, FinishNow DEF HasActed
  <1>6. Status' = Status
    BY <1>1, <1>2, StatusStays
  <1> QED
    BY <1>2, <1>3, <1>4, <1>5, <1>6, SameErrors, SameResults DEF API!Fail, API!FromLibrary

LEMMA ExitStep ==
    ASSUME IInv, OutcomeInv, NEW g \in Procs, Exit(g)
    PROVE  API!Return(g)
  <1>1. Alone(g)
    BY OthersStay DEF Step, Alone
  <1>2. UNCHANGED <<mem, heap, applied>> /\ pc[g] = "exit" /\ pc'[g] = "idle"
    BY GotoEffect DEF Exit, library, IInv
  <1>3. /\ call' = [call EXCEPT ![g] = NoCall] /\ result'[g] = NoResult
        /\ roots' = roots \cup Returned(call[g], result[g])
    BY DEF Exit, IInv, TypeOK
  <1>4. Stage[g] = "done" /\ Stage' = [Stage EXCEPT ![g] = "idle"]
    <2>1. Stage[g] = "done" /\ Stage'[g] = "idle"
      BY <1>2 DEF Stage, HasActed
    <2> QED
      BY <1>1, <2>1, StageMoves
  <1>5. Reported' = [Reported EXCEPT ![g] = NoResult]
    <2>1. result'[g].msg \notin {g, "unknown error"}
      BY <1>3, NotReported, ResultShapes
    <2>2. Reported'[g] = NoResult
      BY <1>2, <1>3, <2>1 DEF Reported
    <2> QED
      BY <1>1, <2>2, ReportMoves
  <1>6. Status' = Status
    BY <1>1, <1>2, StatusStays
  <1> QED
    BY <1>2, <1>3, <1>4, <1>5, <1>6, SameCalls, SameResults, SameErrors, SameReturned DEF API!Return

LEMMA DropStep ==
    ASSUME NEW h \in Handles, Drop(h)
    PROVE  API!Drop(h)
  <1>1. UNCHANGED <<pc, call, result, mem, heap, applied>>
    BY DEF Drop, frame, library
  <1>2. \A g \in Procs : HasActed(g)' = HasActed(g)
    BY <1>1 DEF HasActed
  <1>3. Stage' = Stage /\ Reported' = Reported
    BY <1>1, <1>2 DEF Stage, Reported
  <1>4. Status' = Status
    BY <1>1 DEF Status, Consumed
  <1> QED
    BY <1>1, <1>3, <1>4 DEF Drop, API!Drop

(* The finalizer runs for a handle that is open and out of reach.          *)
LEMMA CollectStep ==
    ASSUME IInv, BornInv, OutcomeInv, NEW h \in Handles, Finalize(h)
    PROVE  API!Collect(h)
  <1>1. /\ Collector \in Procs /\ pc[Collector] = "idle" /\ pc'[Collector] = "enter"
        /\ \A p \in Procs \ {Collector} : pc'[p] = pc[p]
    BY CollectorIsApart, GotoEffect DEF Finalize, IInv
  <1>2. UNCHANGED <<result, roots, mem, heap, applied>> /\ call' = [call EXCEPT ![Collector] = CloseCall(h)]
    BY DEF Finalize, library
  <1>3. Alone(Collector)
    BY <1>1, <1>2 DEF Alone, IInv, TypeOK
  <1>4. Stage[Collector] = "idle" /\ Stage' = [Stage EXCEPT ![Collector] = "invoked"]
    <2>1. Stage[Collector] = "idle" /\ Stage'[Collector] = "invoked"
      BY <1>1 DEF Stage, HasActed
    <2> QED
      BY <1>1, <1>3, <2>1, StageMoves
  <1>5. Reported' = Reported
    <2>1. Reported'[Collector] = Reported[Collector]
      BY <1>1, <1>2 DEF Reported
    <2> QED
      BY <1>1, <1>3, <2>1, ReportStays
  <1>6. Status' = Status
    BY <1>1, <1>2, <1>3, StatusStays
  <1>7. h \notin roots
    BY DEF Finalize, Reachable
  <1>8. ASSUME NEW g \in Procs, pc[g] # "idle"
        PROVE  /\ h \notin Returned(call[g], result[g])
               /\ pc[g] \in Using \cup {"enter", "lock", "check", "detach"} => call[g].h # h
    <2>1. /\ pc[g] \in {"enter", "lock"} => call[g].h # h
          /\ ~InMutex(g, mu[h])
          /\ h \notin Returned(call[g], result[g])
      BY <1>8 DEF Finalize, Reachable, Refers
    <2>2. pc[g] \in Using \cup {"check", "detach"} => call[g].h # h
      BY <2>1, InMutexInside
    <2> QED
      BY <2>1, <2>2
  <1>9. Status[h] = "open"
    <2>1. ptr[h]
      BY DEF Finalize, BornInv
    <2>2. mem[h] = "live"
      BY <1>8, <2>1 DEF IInv, MemInv
    <2>3. ~Consumed(h)
      BY <1>8 DEF Consumed, Using
    <2> QED
      BY <2>2, <2>3 DEF Status
  <1>10. ASSUME NEW g \in Procs
         PROVE  /\ Stage[g] = "invoked" => call[g].h # h
                /\ Stage[g] # "idle" => h \notin Returned(call[g], Reported[g])
    <2>1. Stage[g] = "invoked" => pc[g] \in Using \cup {"enter", "lock", "check", "detach"}
      BY DEF Stage, HasActed, IInv, TypeOK, ControlPoints, Using
    <2>2. Stage[g] # "idle" => pc[g] # "idle"
      BY DEF Stage
    <2>3. Stage[g] = "invoked" => pc[g] # "idle"
      BY <2>2
    <2> QED
      BY <1>8, <2>1, <2>2, <2>3, SameReturned
  <1>11. ~API!Reachable(h)
    BY <1>7, <1>10, SameCalls, SameErrors DEF API!Reachable
  <1> QED
    BY <1>2, <1>4, <1>5, <1>6, <1>9, <1>11, SameCalls DEF API!Collect

-----------------------------------------------------------------------------
(* The refinement.                                                         *)

LEMMA InitRefines == Init => API!Init
  <1> SUFFICES ASSUME Init PROVE API!Init
    OBVIOUS
  <1>1. Status = [h \in Handles |-> "unborn"]
    BY DEF Init, Status
  <1>2. Stage = [g \in Procs |-> "idle"]
    BY DEF Init, Stage
  <1>3. \A g \in Procs : Reported[g] = NoResult
    <2>1. ASSUME NEW g \in Procs
          PROVE  Reported[g] = NoResult
      <3>1. pc[g] = "idle" /\ result[g] = NoResult
        BY DEF Init
      <3>2. result[g].msg \notin {g, "unknown error"}
        BY <3>1, NotReported, ResultShapes
      <3> QED
        BY <3>1, <3>2 DEF Reported
    <2> QED
      BY <2>1
  <1>4. Reported = [g \in Procs |-> NoResult]
    BY <1>3 DEF Reported
  <1> QED
    BY <1>1, <1>2, <1>4, SameCalls, SameContents, SameResults DEF Init, API!Init

(* A step of a goroutine.                                                  *)
LEMMA StepRefines ==
    ASSUME IInv, ResultsInv, AbstractionInv, NEW g \in Procs, Step(g)
    PROVE  API!Perform(g) \/ UNCHANGED API!vars
  <1>1. VettedInv /\ BornInv /\ RouteInv /\ OutcomeInv /\ CopyInv /\ [Next]_vars
    BY DEF ResultsInv, AbstractionInv, Next
  <1>2. CASE Proceed(g) \/ ReadLock(g) \/ WriteLock(g) \/ FindOpen(g) \/ EnterC(g)
             \/ ScanCount(g) \/ ScanAccess(g) \/ ScanFields(g)
    BY <1>2, UnseenBefore
  <1>3. CASE LastError(g) \/ ClearError(g) \/ Detach(g)
    BY <1>1, <1>3, UnseenLastError, UnseenClearError, UnseenDetach
  <1>4. CASE Reject(g)
    BY <1>4, RejectStep DEF API!Perform
  <1>5. CASE FindClosed(g)
    BY <1>1, <1>5, FindClosedStep DEF API!Perform
  <1>6. CASE CSucceed(g)
    BY <1>1, <1>6, WorkStep DEF API!Perform
  <1>7. CASE CCreate(g)
    BY <1>1, <1>7, CreateStep DEF API!Perform
  <1>8. CASE CApply(g)
    BY <1>1, <1>8, ActivateStep DEF API!Perform
  <1>9. CASE CFail(g) \/ CFailStatic(g)
    BY <1>1, <1>9, FailStep DEF API!Perform
  <1>10. CASE ScanDone(g)
    BY <1>1, <1>10, ListStep DEF API!Perform
  <1>11. CASE Free(g)
    BY <1>1, <1>11, UnseenFree, CloseStep DEF API!Perform
  <1>12. CASE Exit(g)
    BY <1>1, <1>12, ExitStep DEF API!Perform
  <1> QED
    BY <1>2, <1>3, <1>4, <1>5, <1>6, <1>7, <1>8, <1>9, <1>10, <1>11, <1>12 DEF Step

LEMMA NextRefines ==
    ASSUME IInv, ResultsInv, AbstractionInv, [Next]_vars
    PROVE  [API!Next]_API!vars
  <1>1. ASSUME NEW g \in Goroutines, NEW c \in Calls, Invoke(g, c)
        PROVE  API!Next
    BY <1>1, InvokeStep DEF API!Next
  <1>2. ASSUME NEW g \in Procs, Step(g)
        PROVE  [API!Next]_API!vars
    BY <1>2, StepRefines, SameCalls DEF API!Next
  <1>3. ASSUME NEW h \in Handles, Drop(h)
        PROVE  API!Next
    BY <1>3, DropStep, SameCalls DEF API!Next
  <1>4. ASSUME NEW h \in Handles, Finalize(h)
        PROVE  API!Next
    BY <1>4, CollectStep, SameCalls DEF API!Next, AbstractionInv
  <1>5. CASE UNCHANGED vars
    <2>1. UNCHANGED <<pc, call, result, mem, heap, roots, applied>>
      BY <1>5 DEF vars, handle, library
    <2>2. \A g \in Procs : HasActed(g)' = HasActed(g)
      BY <2>1 DEF HasActed
    <2>3. Stage' = Stage /\ Reported' = Reported
      BY <2>1, <2>2 DEF Stage, Reported
    <2>4. Status' = Status
      BY <2>1 DEF Status, Consumed
    <2> QED
      BY <2>1, <2>3, <2>4 DEF API!vars
  <1> QED
    BY <1>1, <1>2, <1>3, <1>4, <1>5 DEF Next

(* Calls are linearizable: "safe for concurrent use"                       *)
(* (capability_set.go:19, query.go:18, state.go:17).  Whatever    *)
(* the other goroutines, the collector and the OS threads do, every        *)
(* behaviour of the package is one of NonoAPI, in which each call takes    *)
(* effect in one step between its invocation and its return.               *)
THEOREM Refinement == Spec => Linearizable
  <1>1. Init => API!Init
    BY InitRefines
  <1>2. IInv /\ ResultsInv /\ AbstractionInv /\ [Next]_vars => [API!Next]_API!vars
    BY NextRefines
  <1> QED
    BY <1>1, <1>2, Invariance, ResultsInvariance, AbstractionInvariance, PTL
    DEF Spec, Linearizable, API!Spec
=============================================================================
