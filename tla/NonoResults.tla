----------------------------- MODULE NonoResults -----------------------------
(***************************************************************************)
(* What crosses the border between Go and C: no string with a NUL byte     *)
(* goes in, and what QueryPath brings back is about the path and the mode  *)
(* it was asked for.                                                       *)
(***************************************************************************)
EXTENDS NonoProofs

(* A method that got past its beginning found nothing wrong with its       *)
(* arguments.                                                              *)
VettedInv ==
    \A g \in Procs : pc[g] \in Using \cup {"lock", "check"} => ArgumentError(call[g]) = NoResult

ResultsInv == VettedInv /\ QueryAnswersCall

(* The methods whose C function has a string argument check it.            *)
LEMMA StringPolicy ==
    ASSUME NEW op \in StringFunctions
    PROVE  Method(op).string
  BY DEF StringFunctions, Method, Methods, AllowPath, AllowFile, AllowCommand, BlockCommand,
         AddPlatformRule, PathCovered, QueryPath, StateFromJSON, Mutation, Getter, Reader, Global

(* checkNUL finds every NUL byte.                                          *)
LEMMA CheckFinds ==
    ASSUME NEW s \in NulStrings
    PROVE  checkNUL(s) # NoResult
  <1>1. checkNUL(s).msg = "string contains NUL byte" /\ NoResult.msg = Nil
    BY DEF checkNUL, staticError, NoResult
  <1>2. checkNUL(s).code = "InvalidArg" /\ NoResult.code = Nil
    BY DEF checkNUL, staticError, NoResult
  <1>3. CASE checkNUL(s) = NoResult
    <2>1. Nil = "InvalidArg" /\ Nil = "string contains NUL byte"
      BY <1>1, <1>2, <1>3
    <2> QED
      BY <2>1
  <1> QED
    BY <1>3

(* A method in C was given a string without NUL bytes, if any.             *)
LEMMA VettedString ==
    ASSUME VettedInv, NEW g \in Procs, pc[g] = "inC", call[g].op \in StringFunctions
    PROVE  call[g].str \notin NulStrings
  <1>1. ArgumentError(call[g]) = checkNUL(call[g].str)
    BY StringPolicy DEF ArgumentError
  <1> QED
    BY <1>1, CheckFinds DEF VettedInv, Using

(* The entry that covers a path lies above it.                             *)
LEMMA CoveringEntry ==
    ASSUME NEW content, NEW path, <<path, path>> \in Under,
           NEW e \in Covering(content, path)
    PROVE  <<e.path, path>> \in Under
  BY DEF Covering

(* Each answer of nono_query_context_query_path, converted.                *)
LEMMA ConvertedAnswer ==
    ASSUME NEW content, NEW c, <<c.str, c.str>> \in Under,
           NEW r \in QueryPathResults(content, c.str, c.val)
    PROVE  AnswersCall(extractQueryResult(r), c)
  <1> DEFINE covering == Covering(content, c.str)
             granting == {e \in covering : c.val \subseteq e.access}
  <1>1. CASE granting # {}
    <2>1. PICK e \in granting : r = CResult("Allowed", "GrantedPath", e.path, e.access, Nil, Nil)
      BY <1>1 DEF QueryPathResults
    <2>2. <<e.path, c.str>> \in Under
      BY CoveringEntry
    <2> QED
      BY <2>1, <2>2 DEF AnswersCall, extractQueryResult, CResult
  <1>2. CASE granting = {} /\ covering # {}
    <2>1. PICK e \in covering :
             r = CResult("Denied", "InsufficientAccess", Nil, Nil, e.access, c.val)
      BY <1>2 DEF QueryPathResults
    <2>2. ~(c.val \subseteq e.access)
      BY <1>2
    <2> QED
      BY <2>1, <2>2 DEF AnswersCall, extractQueryResult, CResult
  <1>3. CASE granting = {} /\ covering = {}
    <2>1. r = CResult("Denied", "PathNotGranted", Nil, Nil, Nil, Nil)
      BY <1>3 DEF QueryPathResults
    <2> QED
      BY <2>1 DEF AnswersCall, extractQueryResult, CResult
  <1> QED
    BY <1>1, <1>2, <1>3

(* QueryPath as an operation.                                              *)
LEMMA QueryPathPolicy ==
    /\ "QueryPath" \notin Creators \cup Mutators \cup Closers \cup {"Apply", "FSCapabilities"}
    /\ "QueryPath" \in StringFunctions
    /\ ~isOK(Method("QueryPath").closed)
  <1>1. Method("QueryPath").closed = errQueryContextClosed
    BY DEF Method, Methods, QueryPath, Reader
  <1> QED
    BY <1>1, ResultShapes DEF Creators, Mutators, Closers, StringFunctions

(* The step that ends the C call gives the answer.                         *)
LEMMA AnswerStep ==
    ASSUME IInv, VettedInv, NEW g \in Procs, CSucceed(g), call[g].op = "QueryPath"
    PROVE  AnswersCall(result'[g].val, call[g])
  <1>1. pc[g] = "inC" /\ DOMAIN result = Procs
    BY DEF CSucceed, Goto, IInv, TypeOK
  <1>2. call[g] \in Calls
    BY QueryPathPolicy DEF IInv, TypeOK, NoCall, CloseCall, Closers
  <1>3. <<call[g].str, call[g].str>> \in Under
    BY <1>1, <1>2, VettedString, QueryPathPolicy, UnderAssumption
  <1>4. PICK o \in Outcomes("QueryPath", Given(g), call[g].str, call[g].val) :
           result'[g] = Ok(GoValue("QueryPath", o.val))
    BY <1>1 DEF CSucceed
  <1>5. o.val \in Answers("QueryPath", Given(g), call[g].str, call[g].val)
    BY <1>4, QueryPathPolicy DEF Outcomes
  <1>6. o.val \in QueryPathResults(Given(g), call[g].str, call[g].val)
    BY <1>5 DEF Answers
  <1>7. result'[g].val = extractQueryResult(o.val)
    BY <1>4 DEF GoValue, Ok
  <1> QED
    BY <1>3, <1>6, <1>7, ConvertedAnswer

(* Any other way to return from QueryPath is with an error.                *)
LEMMA OtherwiseFails ==
    ASSUME IInv, NEW g \in Procs, call[g].op = "QueryPath",
           \/ Reject(g) \/ FindClosed(g) \/ CCreate(g) \/ CFailStatic(g) \/ ScanDone(g)
           \/ ClearError(g) \/ Detach(g)
    PROVE  ~isOK(result'[g])
  <1>1. DOMAIN result = Procs
    BY DEF IInv, TypeOK
  <1>2. CASE Reject(g)
    <2>1. result'[g] = ArgumentError(call[g]) /\ ArgumentError(call[g]) # NoResult
      BY <1>1, <1>2 DEF Reject
    <2>2. ArgumentError(call[g]).code = "InvalidArg"
      BY <2>1 DEF ArgumentError, checkNUL, errNilCaps, staticError
    <2> QED
      BY <2>1, <2>2 DEF isOK
  <1>3. CASE FindClosed(g)
    BY <1>1, <1>3, QueryPathPolicy DEF FindClosed, M
  <1>4. CASE CCreate(g)
    <2>1. call[g].op \in Creators
      BY <1>4 DEF CCreate, Makes, Creators
    <2> QED
      BY <2>1, QueryPathPolicy
  <1>5. CASE CFailStatic(g)
    BY <1>5 DEF CFailStatic, SilentFailures
  <1>6. CASE ScanDone(g)
    BY <1>6 DEF ScanDone, Scanning
  <1>7. CASE ClearError(g)
    BY <1>7 DEF ClearError, Goto, IInv, ResultInv
  <1>8. CASE Detach(g)
    BY <1>8, QueryPathPolicy DEF Detach, Goto, IInv, CallInv
  <1> QED
    BY <1>2, <1>3, <1>4, <1>5, <1>6, <1>7, <1>8

(* Past the beginning a method comes only through Proceed.                 *)
LEMMA PastTheCheck ==
    ASSUME IInv, VettedInv, NEW g \in Procs, Step(g), pc'[g] \in Using \cup {"lock", "check"}
    PROVE  ArgumentError(call[g]) = NoResult
  <1>1. CASE Proceed(g)
    BY <1>1 DEF Proceed
  <1>2. CASE ReadLock(g) \/ WriteLock(g) \/ FindOpen(g) \/ EnterC(g) \/ CApply(g) \/ CFail(g)
             \/ ScanCount(g) \/ ScanAccess(g) \/ ScanFields(g) \/ LastError(g)
    <2>1. pc[g] \in Using \cup {"lock", "check"}
      BY <1>2 DEF ReadLock, WriteLock, FindOpen, EnterC, CApply, CFail, ScanCount, ScanAccess,
         ScanFields, Scanning, LastError, Goto, Using
    <2> QED
      BY <2>1 DEF VettedInv
  <1>3. CASE \/ Reject(g) \/ FindClosed(g) \/ CSucceed(g) \/ CCreate(g) \/ CFailStatic(g)
             \/ ScanDone(g) \/ ClearError(g) \/ Free(g) \/ Detach(g) \/ Exit(g)
    <2>1. pc'[g] \in {"exit", "detach", "idle"}
      BY <1>3 DEF Reject, FindClosed, CSucceed, CCreate, CFailStatic, ScanDone, ClearError, Free,
         Detach, Exit, Goto, IInv, TypeOK
    <2> QED
      BY <2>1 DEF Using
  <1> QED
    BY <1>1, <1>2, <1>3 DEF Step

(* What a step of g that ends its call with success has put in the result. *)
LEMMA ReturnStep ==
    ASSUME IInv, VettedInv, NEW g \in Procs, Step(g), pc'[g] = "exit",
           call[g].op = "QueryPath", isOK(result'[g])
    PROVE  AnswersCall(result'[g].val, call[g])
  <1>1. CASE CSucceed(g)
    BY <1>1, AnswerStep
  <1>2. CASE \/ Reject(g) \/ FindClosed(g) \/ CCreate(g) \/ CFailStatic(g) \/ ScanDone(g)
             \/ ClearError(g) \/ Detach(g)
    BY <1>2, OtherwiseFails
  <1>3. CASE \/ Proceed(g) \/ ReadLock(g) \/ WriteLock(g) \/ FindOpen(g) \/ EnterC(g) \/ CApply(g)
             \/ CFail(g) \/ ScanCount(g) \/ ScanAccess(g) \/ ScanFields(g) \/ LastError(g)
             \/ Free(g) \/ Exit(g)
    <2>1. pc'[g] # "exit"
      BY <1>3 DEF Proceed, ReadLock, WriteLock, FindOpen, EnterC, CApply, CFail, ScanCount,
         ScanAccess, ScanFields, Scanning, LastError, Free, Exit, Goto, IInv, TypeOK
    <2> QED
      BY <2>1
  <1> QED
    BY <1>1, <1>2, <1>3 DEF Step

(* Every step keeps both parts.                                            *)
LEMMA ResultsStep == IInv /\ ResultsInv /\ [Next]_vars => ResultsInv'
  <1> SUFFICES ASSUME IInv, ResultsInv, [Next]_vars PROVE ResultsInv'
    OBVIOUS
  <1> DEFINE Right(g) == pc[g] = "exit" /\ call[g].op = "QueryPath" /\ isOK(result[g])
                         => AnswersCall(result[g].val, call[g])
  <1>1. \A g \in Procs : Right(g)
    BY DEF ResultsInv, QueryAnswersCall
  <1>2. ASSUME NEW g \in Procs, Step(g)
        PROVE  ResultsInv'
    <2>1. \A p \in Procs \ {g} : pc'[p] = pc[p] /\ call'[p] = call[p] /\ result'[p] = result[p]
      BY <1>2, OthersStay
    <2>2. pc'[g] \in Using \cup {"lock", "check"} => ArgumentError(call'[g]) = NoResult
      BY <1>2, OthersStay, PastTheCheck DEF ResultsInv, Using
    <2>3. Right(g)'
      BY <1>2, OthersStay, ReturnStep DEF ResultsInv, isOK, AnswersCall
    <2>4. VettedInv'
      BY <2>1, <2>2 DEF ResultsInv, VettedInv
    <2>5. \A p \in Procs \ {g} : Right(p)'
      BY <1>1, <2>1 DEF isOK, AnswersCall
    <2>6. QueryAnswersCall'
      BY <2>3, <2>5 DEF QueryAnswersCall
    <2> QED
      BY <2>4, <2>6 DEF ResultsInv
  <1>3. ASSUME NEW g \in Procs, NEW c, pc'[g] = "enter", call'[g] = c, result' = result,
               \A p \in Procs \ {g} : pc'[p] = pc[p] /\ call'[p] = call[p]
        PROVE  ResultsInv'
    <2>1. VettedInv'
      BY <1>3 DEF ResultsInv, VettedInv, Using
    <2>2. \A p \in Procs : Right(p)'
      BY <1>1, <1>3 DEF isOK, AnswersCall
    <2> QED
      BY <2>1, <2>2 DEF ResultsInv, QueryAnswersCall
  <1>4. ASSUME NEW g \in Goroutines, NEW c \in Calls, Invoke(g, c)
        PROVE  ResultsInv'
    BY <1>3, <1>4 DEF Invoke, Goto, IInv, TypeOK, Procs
  <1>5. ASSUME NEW h \in Handles, Finalize(h)
        PROVE  ResultsInv'
    BY <1>3, <1>5 DEF Finalize, Goto, IInv, TypeOK, Procs
  <1>6. ASSUME UNCHANGED <<pc, call, result>>
        PROVE  ResultsInv'
    BY <1>6 DEF ResultsInv, VettedInv, QueryAnswersCall, isOK
  <1>7. ASSUME NEW h \in Handles, Drop(h)
        PROVE  ResultsInv'
    BY <1>6, <1>7 DEF Drop, frame
  <1>8. CASE UNCHANGED vars
    BY <1>6, <1>8 DEF vars
  <1> QED
    BY <1>2, <1>4, <1>5, <1>7, <1>8 DEF Next

(* Both parts hold in every state.                                         *)
LEMMA ResultsInvariance == Spec => []ResultsInv
  <1>1. Init => ResultsInv
    BY DEF Init, ResultsInv, VettedInv, QueryAnswersCall, Using
  <1> QED
    BY <1>1, ResultsStep, Invariance, PTL DEF Spec

(* No string with a NUL byte reaches C: checkNUL is the first thing in     *)
(* every method whose C function takes a string (nono.go:134-142).         *)
THEOREM StringsArriveWhole == Spec => []NoTruncatedString
  <1>1. ResultsInv => NoTruncatedString
    BY VettedString DEF ResultsInv, NoTruncatedString
  <1> QED
    BY <1>1, ResultsInvariance, PTL

(* A QueryPath that succeeds answers the question it was asked, with each  *)
(* field of the C result in its Go field (query.go:108-132).               *)
THEOREM QueriesAreAnswered == Spec => []QueryAnswersCall
  <1>1. ResultsInv => QueryAnswersCall
    BY DEF ResultsInv
  <1> QED
    BY <1>1, ResultsInvariance, PTL
=============================================================================
