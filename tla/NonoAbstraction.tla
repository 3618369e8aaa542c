--------------------------- MODULE NonoAbstraction ---------------------------
(***************************************************************************)
(* What the refinement of NonoAPI needs besides the invariant of           *)
(* NonoProofs: handles in use have been made, Close makes no C call but    *)
(* the free, a success has no message, and an enumeration has copied the   *)
(* entries it is past.                                                     *)
(***************************************************************************)
EXTENDS NonoResults, NonoFinalizer, SequenceTheorems

-----------------------------------------------------------------------------
(* The contents of the library.                                            *)

LEMMA EntryFields ==
    ASSUME NEW path, NEW access, NEW file
    PROVE  LET e == Entry(path, access, file) IN
           e.path = path /\ e.access = access /\ e.file = file
  BY DEF Entry

(* A new set is empty.                                                     *)
LEMMA EmptyIsContent == IsContent(EmptyContent)
  <1>1. EmptyContent.fs = <<>> /\ DOMAIN EmptyContent = {"fs", "net", "port", "rules"}
    BY DEF EmptyContent
  <1>2. <<>> \in Seq(Range(<<>>)) /\ Range(<<>>) = {}
    BY EmptySeq DEF Range
  <1> QED
    BY <1>1, <1>2 DEF IsContent

(* Entries added at the end and entries picked by position are entries.    *)
LEMMA AppendedContent ==
    ASSUME NEW c, IsContent(c), NEW e, e = Entry(e.path, e.access, e.file), e.file \in BOOLEAN
    PROVE  IsContent([c EXCEPT !.fs = Append(c.fs, e)])
  <1> DEFINE S == Range(c.fs) \cup {e}
             fs == Append(c.fs, e)
  <1>1. c.fs \in Seq(S)
    BY SeqMonotonic DEF IsContent
  <1>2. fs \in Seq(S)
    BY <1>1, AppendProperties
  <1>3. fs \in Seq(Range(fs)) /\ Range(fs) \subseteq S
    BY <1>2, SeqOfRange, RangeOfSeq
  <1>4. [c EXCEPT !.fs = fs].fs = fs /\ DOMAIN [c EXCEPT !.fs = fs] = DOMAIN c
    BY DEF IsContent
  <1> QED
    BY <1>3, <1>4 DEF IsContent

LEMMA PickedContent ==
    ASSUME NEW c, IsContent(c), NEW n \in Nat, NEW f \in [1..n -> DOMAIN c.fs]
    PROVE  IsContent([c EXCEPT !.fs = [k \in DOMAIN f |-> c.fs[f[k]]]])
  <1> DEFINE fs == [k \in DOMAIN f |-> c.fs[f[k]]]
             S == Range(c.fs)
  <1>1. \A k \in 1..n : c.fs[f[k]] \in S
    BY DEF Range
  <1>2. fs = [k \in 1..n |-> c.fs[f[k]]]
    OBVIOUS
  <1>3. fs \in [1..n -> S]
    BY <1>1, <1>2
  <1>4. fs \in Seq(S)
    BY <1>3, SeqDef
  <1>5. fs \in Seq(Range(fs)) /\ Range(fs) \subseteq S
    BY <1>4, SeqOfRange, RangeOfSeq
  <1>6. [c EXCEPT !.fs = fs].fs = fs /\ DOMAIN [c EXCEPT !.fs = fs] = DOMAIN c
    BY DEF IsContent
  <1> QED
    BY <1>5, <1>6 DEF IsContent

(* A content with other settings.                                          *)
LEMMA SameEntries ==
    ASSUME NEW c, IsContent(c), NEW d, DOMAIN d = DOMAIN c, d.fs = c.fs
    PROVE  IsContent(d)
  BY DEF IsContent

(* Mutators leave a content.                                               *)
LEMMA MutatedContent ==
    ASSUME NEW op, NEW c, IsContent(c), NEW str, NEW val, NEW d \in Mutated(op, c, str, val)
    PROVE  IsContent(d)
  <1>1. ASSUME NEW file \in BOOLEAN, d \in AddEntry(c, Entry(str, val, file))
        PROVE  IsContent(d)
    <2>1. d = [c EXCEPT !.fs = Append(c.fs, Entry(str, val, file))]
      BY <1>1 DEF AddEntry
    <2> QED
      BY <1>1, <2>1, EntryFields, AppendedContent
  <1>2. ASSUME NEW mode, d \in SetMode(c, mode)
        PROVE  IsContent(d)
    <2>1. PICK p : d = [c EXCEPT !.net = mode, !.port = p]
      BY <1>2 DEF SetMode
    <2>2. DOMAIN d = DOMAIN c /\ d.fs = c.fs
      BY <2>1 DEF IsContent
    <2> QED
      BY <2>2, SameEntries
  <1>3. ASSUME d \in SetPort(c, val)
        PROVE  IsContent(d)
    <2>1. PICK p : d = [c EXCEPT !.port = p]
      BY <1>3 DEF SetPort
    <2>2. DOMAIN d = DOMAIN c /\ d.fs = c.fs
      BY <2>1 DEF IsContent
    <2> QED
      BY <2>2, SameEntries
  <1>4. ASSUME d \in Deduplicated(c)
        PROVE  IsContent(d)
    <2> DEFINE kept == {i \in DOMAIN c.fs : ~Redundant(c.fs, i)}
    <2>1. PICK f \in UNION {[1..n -> kept] : n \in 0..Len(c.fs)} :
             d = [c EXCEPT !.fs = [k \in DOMAIN f |-> c.fs[f[k]]]]
      BY <1>4 DEF Deduplicated
    <2>2. Len(c.fs) \in Nat
      BY LenProperties DEF IsContent
    <2>3. PICK n \in Nat : f \in [1..n -> DOMAIN c.fs]
      BY <2>1, <2>2
    <2> QED
      BY <2>1, <2>3, PickedContent
  <1>5. ASSUME d = [c EXCEPT !.rules = @ \cup {<<op, str>>}]
        PROVE  IsContent(d)
    <2>1. DOMAIN d = DOMAIN c /\ d.fs = c.fs
      BY <1>5 DEF IsContent
    <2> QED
      BY <2>1, SameEntries
  <1>6. \/ \E file \in BOOLEAN : d \in AddEntry(c, Entry(str, val, file))
        \/ \E mode : d \in SetMode(c, mode)
        \/ d \in SetPort(c, val)
        \/ d \in Deduplicated(c)
        \/ d = [c EXCEPT !.rules = @ \cup {<<op, str>>}]
    BY DEF Mutated
  <1> QED
    BY <1>1, <1>2, <1>3, <1>4, <1>5, <1>6

(* What a C function is given is a content.                                *)
LEMMA GivenContent ==
    ASSUME TypeOK, CopyInv, NEW g \in Procs
    PROVE  IsContent(Given(g))
  BY CallFacts, EmptyIsContent DEF Given, CopyInv

(* A document that reaches the C function and parses is of a content.      *)
LEMMA RestoredContent ==
    ASSUME TypeOK, VettedInv, NEW g \in Procs, pc[g] = "inC", call[g].op = "StateFromJSON",
           NEW d \in FromJSON(call[g].str)
    PROVE  IsContent(d)
  <1>1. call[g] \in Calls
    BY DEF TypeOK, NoCall, CloseCall
  <1>2. call[g].str \notin NulStrings
    BY VettedString DEF StringFunctions
  <1>3. call[g].str \notin Malformed /\ d = call[g].str.json
    BY DEF FromJSON
  <1> QED
    BY <1>1, <1>2, <1>3, DocumentsAssumption

LEMMA ProducedContent ==
    ASSUME TypeOK, CopyInv, VettedInv, NEW g \in Procs, pc[g] = "inC",
           NEW d \in Produced(call[g].op, Given(g), call[g].str)
    PROVE  IsContent(d)
  BY EmptyIsContent, GivenContent, RestoredContent DEF Produced

(* Every object keeps a content.                                           *)
LEMMA ContentStep ==
    ASSUME IInv, CopyInv, VettedInv, [Next]_vars, NEW h \in Handles
    PROVE  IsContent(heap'[h])
  <1>1. IsContent(heap[h]) /\ TypeOK
    BY DEF CopyInv, IInv
  <1>2. ASSUME NEW g \in Procs, CSucceed(g)
        PROVE  IsContent(heap'[h])
    <2>1. PICK o \in Outcomes(call[g].op, Given(g), call[g].str, call[g].val) :
             heap' = IF call[g].h = Nil THEN heap ELSE [heap EXCEPT ![call[g].h] = o.post]
      BY <1>2 DEF CSucceed
    <2>2. IsContent(Given(g))
      BY <1>1, GivenContent
    <2>3. IsContent(o.post)
      <3>1. CASE call[g].op \in Mutators
        <4>1. o.post \in Mutated(call[g].op, Given(g), call[g].str, call[g].val)
          BY <3>1 DEF Outcomes
        <4> QED
          BY <2>2, <4>1, MutatedContent
      <3>2. CASE call[g].op \notin Mutators
        BY <2>2, <3>2, OutcomePost
      <3> QED
        BY <3>1, <3>2
    <2> QED
      BY <1>1, <2>1, <2>3 DEF TypeOK
  <1>3. ASSUME NEW g \in Procs, CCreate(g)
        PROVE  IsContent(heap'[h])
    <2>1. PICK n \in Makes(call[g].op), new \in Produced(call[g].op, Given(g), call[g].str) :
             heap' = [heap EXCEPT ![n] = new]
      BY <1>3 DEF CCreate
    <2>2. IsContent(new)
      BY <1>1, <1>3, ProducedContent DEF CCreate, Goto
    <2> QED
      BY <1>1, <2>1, <2>2 DEF TypeOK
  <1>4. ASSUME NEW g \in Procs, Step(g), ~CSucceed(g), ~CCreate(g)
        PROVE  heap' = heap
    BY <1>4 DEF Step, Reject, Proceed, ReadLock, WriteLock, FindClosed, FindOpen, EnterC, CApply,
       CFail, CFailStatic, ScanCount, ScanAccess, ScanFields, ScanDone, LastError, ClearError, Free,
       Detach, Exit, library
  <1>5. CASE \/ \E g \in Goroutines, c \in Calls : Invoke(g, c)
             \/ \E k \in Handles : Drop(k) \/ Finalize(k)
             \/ UNCHANGED vars
    BY <1>1, <1>5 DEF Invoke, Drop, Finalize, library, vars
  <1> QED
    BY <1>1, <1>2, <1>3, <1>4, <1>5 DEF Next

(* While one goroutine enumerates, no step of another changes the list.    *)
LEMMA ListStays ==
    ASSUME IInv, NEW g \in Procs, Step(g), NEW p \in Procs \ {g}, Scanning(p)
    PROVE  heap'[call[p].h] = heap[call[p].h]
  <1>1. call[p].h \in Handles
    BY ScanHolds
  <1>2. CASE CSucceed(g)
    <2>1. pc[g] = "inC"
      BY <1>2 DEF CSucceed, Goto
    <2>2. CASE call[g].op \in Mutators
      <3>1. call[g].h # call[p].h
        BY <2>1, <2>2, ScanHolds, CallFacts, LockPolicy DEF IInv, M, Using
      <3> QED
        BY <1>1, <1>2, <3>1 DEF CSucceed, IInv, TypeOK
    <2>3. CASE call[g].op \notin Mutators
      BY <1>1, <1>2, <2>3, OutcomePost DEF CSucceed, Given, IInv, TypeOK
    <2> QED
      BY <2>2, <2>3
  <1>3. CASE CCreate(g)
    <2>1. PICK n \in Makes(call[g].op) : mem[n] = "unborn" /\ \E new : heap' = [heap EXCEPT ![n] = new]
      BY <1>3 DEF CCreate
    <2> QED
      BY <2>1, ScanHolds DEF IInv, TypeOK
  <1>4. CASE ~CSucceed(g) /\ ~CCreate(g)
    BY <1>4 DEF Step, Reject, Proceed, ReadLock, WriteLock, FindClosed, FindOpen, EnterC, CApply,
       CFail, CFailStatic, ScanCount, ScanAccess, ScanFields, ScanDone, LastError, ClearError, Free,
       Detach, Exit, library
  <1> QED
    BY <1>2, <1>3, <1>4

(* Nobody else's step changes an enumeration.                              *)
LEMMA ScanIsLocal ==
    ASSUME IInv, NEW g \in Procs, Step(g), NEW p \in Procs \ {g}
    PROVE  scan'[p] = scan[p]
  <1>1. CASE ScanCount(g) \/ ScanAccess(g) \/ ScanFields(g) \/ ScanDone(g)
    BY <1>1 DEF ScanCount, ScanAccess, ScanFields, ScanDone, IInv, TypeOK
  <1>2. CASE ~(ScanCount(g) \/ ScanAccess(g) \/ ScanFields(g) \/ ScanDone(g))
    BY <1>2 DEF Step, Reject, Proceed, ReadLock, WriteLock, FindClosed, FindOpen, EnterC, CSucceed,
       CCreate, CApply, CFail, CFailStatic, LastError, ClearError, Free, Detach, Exit, frame
  <1> QED
    BY <1>1, <1>2

(* Before its first entry an enumeration has copied nothing.               *)
LEMMA NothingCopied ==
    ASSUME NEW c, IsContent(c)
    PROVE  Copied(NoScan, c.fs)
  <1>1. NoScan.i = 0 /\ NoScan.caps = <<>> /\ NoScan.access = Nil
    BY DEF NoScan
  <1>2. Len(c.fs) \in Nat
    BY LenProperties DEF IsContent
  <1> QED
    BY <1>1, <1>2, EmptySeq DEF Copied

(* The next entry, read field by field, is the one in the list.            *)
LEMMA NextEntry ==
    ASSUME NEW c, IsContent(c), NEW s, Copied(s, c.fs), s.i < Len(c.fs), s.access # Nil,
           NEW e, e = Entry(c.fs[s.i + 1].path, s.access, c.fs[s.i + 1].file),
           NEW t, t.i = s.i + 1, t.access = Nil, t.caps = Append(s.caps, e)
    PROVE  Copied(t, c.fs)
  <1>1. Len(c.fs) \in Nat /\ DOMAIN c.fs = 1..Len(c.fs)
    BY LenProperties DEF IsContent
  <1>2. s.i \in Nat /\ s.i + 1 \in 1..Len(c.fs)
    BY <1>1 DEF Copied
  <1>3. c.fs[s.i + 1] \in Range(c.fs)
    BY <1>1, <1>2 DEF Range
  <1>4. e = c.fs[s.i + 1]
    BY <1>3 DEF Copied, IsContent
  <1>5. /\ t.caps \in Seq(Range(c.fs)) /\ Len(t.caps) = s.i + 1
        /\ \A k \in 1..s.i : t.caps[k] = s.caps[k]
        /\ t.caps[s.i + 1] = e
    BY <1>3, <1>4, AppendProperties DEF Copied
  <1>6. \A k \in 1..t.i : t.caps[k] = c.fs[k]
    BY <1>2, <1>4, <1>5 DEF Copied
  <1> QED
    BY <1>1, <1>2, <1>5, <1>6 DEF Copied

(* A step of an enumeration.                                               *)
LEMMA EnumerationStep ==
    ASSUME IInv, CopyInv, NEW g \in Procs, Step(g), Scanning(g)'
    PROVE  Copied(scan'[g], heap[call[g].h].fs) /\ call' = call /\ heap' = heap
  <1>1. pc'[g] = "inC" /\ call' = call /\ call[g].op = "FSCapabilities"
    BY OthersStay DEF Scanning
  <1>2. CASE EnterC(g)
    <2>1. pc[g] = "call" /\ scan' = scan /\ heap' = heap /\ ~Scanning(g)
      BY <1>2 DEF EnterC, Goto, library, Scanning
    <2>2. scan'[g] = NoScan
      BY <2>1 DEF IInv, ScanInv
    <2>3. call[g].h \in Handles
      BY <1>1, CallFacts, ScanPolicy DEF IInv, M
    <2> QED
      BY <1>1, <2>1, <2>2, <2>3, NothingCopied DEF CopyInv
  <1>3. ASSUME ScanCount(g) \/ ScanAccess(g) \/ ScanFields(g)
        PROVE  /\ heap' = heap /\ Scanning(g) /\ call[g].h \in Handles
               /\ Given(g) = heap[call[g].h]
               /\ Copied(scan[g], Given(g).fs) /\ IsContent(Given(g))
    <2>1. heap' = heap /\ Scanning(g)
      BY <1>3 DEF ScanCount, ScanAccess, ScanFields, library
    <2> QED
      BY <2>1, ScanHolds, NilAssumption DEF Given, CopyInv
  <1>4. DOMAIN scan[g] = {"count", "i", "access", "caps"} /\ DOMAIN scan = Procs
    BY DEF IInv, ScanInv, TypeOK
  <1>5. CASE ScanCount(g)
    <2>1. scan'[g] = [scan[g] EXCEPT !.count = Len(Given(g).fs)]
      BY <1>4, <1>5 DEF ScanCount
    <2>2. scan'[g].i = scan[g].i /\ scan'[g].access = scan[g].access /\ scan'[g].caps = scan[g].caps
      BY <1>4, <2>1
    <2> QED
      BY <1>1, <1>3, <1>5, <2>2 DEF Copied
  <1>6. CASE ScanAccess(g)
    <2>1. scan[g].i < Len(Given(g).fs)
      BY <1>3, <1>6 DEF ScanAccess, IInv, ScanInv
    <2>2. scan'[g] = [scan[g] EXCEPT !.access = Given(g).fs[scan[g].i + 1].access]
      BY <1>4, <1>6, <2>1 DEF ScanAccess
    <2>3. /\ scan'[g].i = scan[g].i /\ scan'[g].caps = scan[g].caps
          /\ scan'[g].access = Given(g).fs[scan[g].i + 1].access
      BY <1>4, <2>2
    <2> QED
      BY <1>1, <1>3, <1>6, <2>3 DEF Copied
  <1>7. CASE ScanFields(g)
    <2> DEFINE e == Entry(Given(g).fs[scan[g].i + 1].path, scan[g].access,
                          Given(g).fs[scan[g].i + 1].file)
    <2>1. scan[g].i < Len(Given(g).fs) /\ scan[g].access # Nil
      BY <1>3, <1>7 DEF ScanFields, IInv, ScanInv
    <2>2. Given(g).fs[scan[g].i + 1].file \in BOOLEAN
      <3>1. Len(Given(g).fs) \in Nat /\ DOMAIN Given(g).fs = 1..Len(Given(g).fs)
        BY <1>3, <1>7, LenProperties DEF IsContent
      <3>2. Given(g).fs[scan[g].i + 1] \in Range(Given(g).fs)
        BY <1>3, <1>7, <2>1, <3>1 DEF Copied, Range
      <3> QED
        BY <1>3, <1>7, <3>2 DEF IsContent
    <2>3. scan' = [scan EXCEPT ![g] = [scan[g] EXCEPT !.i = @ + 1, !.access = Nil, !.caps = Append(@, e)]]
      BY <1>7, <2>1, <2>2 DEF ScanFields
    <2>4. scan'[g].i = scan[g].i + 1 /\ scan'[g].access = Nil /\ scan'[g].caps = Append(scan[g].caps, e)
      BY <1>4, <2>3
    <2> QED
      BY <1>1, <1>3, <1>7, <2>1, <2>4, NextEntry
  <1>8. CASE ~(EnterC(g) \/ ScanCount(g) \/ ScanAccess(g) \/ ScanFields(g))
    <2>1. pc'[g] # "inC"
      BY <1>8 DEF Step, Reject, Proceed, ReadLock, WriteLock, FindClosed, FindOpen, CSucceed, CCreate,
         CApply, CFail, CFailStatic, ScanDone, LastError, ClearError, Free, Detach, Exit, Goto, IInv,
         TypeOK
    <2> QED
      BY <1>1, <2>1
  <1> QED
    BY <1>1, <1>2, <1>3, <1>5, <1>6, <1>7, <1>8

LEMMA CopyStep == IInv /\ VettedInv /\ CopyInv /\ [Next]_vars => CopyInv'
  <1> SUFFICES ASSUME IInv, VettedInv, CopyInv, [Next]_vars,
                      \A h \in Handles : IsContent(heap'[h]),
                      NEW p \in Procs, Scanning(p)'
               PROVE  Copied(scan'[p], heap'[call'[p].h].fs)
    BY ContentStep DEF CopyInv
  <1>1. ASSUME NEW g \in Procs, Step(g)
        PROVE  Copied(scan'[p], heap'[call'[p].h].fs)
    <2>1. CASE p = g
      BY <1>1, <2>1, EnumerationStep
    <2>2. CASE p # g
      <3>1. Scanning(p) /\ call'[p] = call[p]
        BY <1>1, <2>2, OthersStay DEF Scanning
      <3> QED
        BY <1>1, <2>2, <3>1, ScanIsLocal, ListStays DEF CopyInv
    <2> QED
      BY <2>1, <2>2
  <1>2. ASSUME NEW g \in Procs, Goto(g, "idle", "enter"), NEW c, call' = [call EXCEPT ![g] = c],
               UNCHANGED <<scan, heap>>
        PROVE  Copied(scan'[p], heap'[call'[p].h].fs)
    <2>1. p # g
      BY <1>2, GotoEffect DEF Scanning, IInv
    <2>2. Scanning(p) /\ call'[p] = call[p]
      BY <1>2, <2>1, GotoEffect DEF Scanning, IInv, TypeOK
    <2> QED
      BY <1>2, <2>2 DEF CopyInv
  <1>3. ASSUME NEW g \in Goroutines, NEW c \in Calls, Invoke(g, c)
        PROVE  Copied(scan'[p], heap'[call'[p].h].fs)
    BY <1>2, <1>3 DEF Invoke, library, Procs
  <1>4. ASSUME NEW h \in Handles, Finalize(h)
        PROVE  Copied(scan'[p], heap'[call'[p].h].fs)
    BY <1>2, <1>4 DEF Finalize, library, Procs
  <1>5. CASE UNCHANGED vars \/ \E h \in Handles : Drop(h)
    BY <1>5 DEF Drop, vars, frame, library, CopyInv, Scanning
  <1> QED
    BY <1>1, <1>3, <1>4, <1>5 DEF Next

(* A method of a handle is past the nil check only through FindOpen, which *)
(* sends Close to the free.                                                *)
LEMMA RouteStep == IInv /\ RouteInv /\ [Next]_vars => RouteInv'
  <1> SUFFICES ASSUME IInv, RouteInv, [Next]_vars PROVE RouteInv'
    OBVIOUS
  <1> DEFINE OnTheWay == {"call", "inC", "failed", "clear"}
  <1>1. ASSUME NEW g \in Procs, Step(g), pc'[g] \in OnTheWay
        PROVE  call[g].op \notin Closers
    <2>1. CASE pc[g] \in OnTheWay
      BY <2>1 DEF RouteInv
    <2>2. CASE Proceed(g)
      BY <1>1, <2>2, CloserPolicy, CallFacts, LockPolicy DEF Proceed, Goto, M, IInv, TypeOK
    <2>3. CASE FindOpen(g)
      BY <1>1, <2>3 DEF FindOpen, Goto, IInv, TypeOK
    <2>4. CASE pc[g] \notin OnTheWay /\ ~Proceed(g) /\ ~FindOpen(g)
      BY <1>1, <2>4 DEF Step, Reject, ReadLock, WriteLock, FindClosed, EnterC, CSucceed, CCreate,
         CApply, CFail, CFailStatic, ScanCount, ScanAccess, ScanFields, ScanDone, Scanning, LastError,
         ClearError, Free, Detach, Exit, Goto, IInv, TypeOK
    <2> QED
      BY <2>1, <2>2, <2>3, <2>4
  <1>2. ASSUME NEW g \in Procs, Step(g)
        PROVE  RouteInv'
    BY <1>1, <1>2, OthersStay DEF RouteInv
  <1>3. ASSUME NEW g \in Procs, Goto(g, "idle", "enter"), NEW c, call' = [call EXCEPT ![g] = c]
        PROVE  RouteInv'
    BY <1>3, GotoEffect DEF RouteInv, IInv, TypeOK
  <1>4. ASSUME NEW g \in Goroutines, NEW c \in Calls, Invoke(g, c)
        PROVE  RouteInv'
    BY <1>3, <1>4 DEF Invoke, Procs
  <1>5. ASSUME NEW h \in Handles, Finalize(h)
        PROVE  RouteInv'
    BY <1>3, <1>5 DEF Finalize, Procs
  <1>6. CASE UNCHANGED vars \/ \E h \in Handles : Drop(h)
    BY <1>6 DEF Drop, vars, frame, RouteInv
  <1> QED
    BY <1>2, <1>4, <1>5, <1>6 DEF Next

LEMMA StaticCode == \A code, msg : staticError(code, msg).code = code
  BY DEF staticError

LEMMA StaticMessage == \A code, msg : staticError(code, msg).msg = msg
  BY DEF staticError

(* The package's own failures have messages that are not the library's.    *)
LEMMA OwnMessages ==
    /\ \A op : \A r \in SilentFailures(op) : r.msg \in Messages \ {"unknown error"} /\ ~isOK(r)
    /\ \A c : ArgumentError(c) # NoResult =>
                 ArgumentError(c).msg \in Messages \ {"unknown error"} /\ ~isOK(ArgumentError(c))
    /\ \A op \in Operations : /\ Method(op).closed.msg \in (Messages \ {"unknown error"}) \cup {Nil}
                              /\ isOK(Method(op).closed) => Method(op).closed.msg = Nil
  <1>1. ASSUME NEW op, NEW r \in SilentFailures(op)
        PROVE  r.msg \in Messages \ {"unknown error"} /\ ~isOK(r)
    <2>1. \/ r = staticError("Unknown", "failed to create query context")
          \/ r = staticError("Unknown", "failed to create sandbox state")
          \/ r = staticError("panic", "nono_capability_set_new returned nil")
      BY <1>1 DEF SilentFailures
    <2>2. r.msg \in {"failed to create query context", "failed to create sandbox state",
                     "nono_capability_set_new returned nil"}
      BY <2>1, StaticMessage
    <2>3. r.msg \in Messages \ {"unknown error"}
      BY <2>2 DEF Messages
    <2> QED
      BY <1>1, <2>3, SilentFailuresFail
  <1>2. ASSUME NEW c, ArgumentError(c) # NoResult
        PROVE  ArgumentError(c).msg \in Messages \ {"unknown error"} /\ ~isOK(ArgumentError(c))
    <2>1. \/ ArgumentError(c) = staticError("InvalidArg", "string contains NUL byte")
          \/ ArgumentError(c) = staticError("InvalidArg", "nil capability set")
      BY <1>2 DEF ArgumentError, checkNUL, errNilCaps
    <2>2. ArgumentError(c).msg \in {"string contains NUL byte", "nil capability set"}
      BY <2>1, StaticMessage
    <2>3. ArgumentError(c).code = "InvalidArg"
      BY <2>1, StaticCode
    <2>4. ArgumentError(c).msg \in Messages \ {"unknown error"}
      BY <2>2 DEF Messages
    <2> QED
      BY <2>3, <2>4 DEF isOK
  <1>3. ASSUME NEW op \in Operations
        PROVE  /\ Method(op).closed.msg \in (Messages \ {"unknown error"}) \cup {Nil}
               /\ isOK(Method(op).closed) => Method(op).closed.msg = Nil
    <2> DEFINE Getters == {"NetworkMode", "ProxyPort", "PathCovered", "IsNetworkBlocked", "Summary",
                           "FSCapabilities"}
    <2>1. ASSUME op \in Getters
          PROVE  Method(op).closed.msg = Nil
      BY <2>1 DEF Method, Methods, NetworkMode, ProxyPort, PathCovered, IsNetworkBlocked, Summary,
                  FSCapabilities, Getter, Ok
    <2>2. op \notin Getters =>
             Method(op).closed \in {errCapSetClosed, errSandboxStateClosed, errQueryContextClosed,
                                    NoResult, Ok(Nil)}
      BY DEF Operations, Method, Methods, New, Version, IsSupported, SupportInfo, StateFromJSON, Apply,
             NewQueryContext, StateFromCaps, AllowPath, AllowFile, SetNetworkBlocked, SetNetworkMode,
             SetProxyPort, AllowCommand, BlockCommand, AddPlatformRule, Deduplicate, QueryPath,
             QueryNetwork, JSON, Caps, CloseCaps, CloseQuery, CloseState, Mutation, Reader, Snapshot,
             Global, Closer
    <2>3. NoResult.msg = Nil /\ Ok(Nil).msg = Nil
      BY DEF NoResult, Ok
    <2>4. CASE Method(op).closed \in {errCapSetClosed, errSandboxStateClosed, errQueryContextClosed}
      <3>1. \E m \in {"capability set is closed", "sandbox state is closed",
                      "query context is closed"} : Method(op).closed = staticError("InvalidArg", m)
        BY <2>4 DEF errCapSetClosed, errSandboxStateClosed, errQueryContextClosed
      <3>2. Method(op).closed.msg \in {"capability set is closed", "sandbox state is closed",
                                       "query context is closed"}
        BY <3>1, StaticMessage
      <3>3. Method(op).closed.code = "InvalidArg"
        BY <3>1, StaticCode
      <3>4. Method(op).closed.msg \in Messages \ {"unknown error"}
        BY <3>2 DEF Messages
      <3> QED
        BY <3>3, <3>4 DEF isOK
    <2> QED
      BY <2>1, <2>2, <2>3, <2>4
  <1> QED
    BY <1>1, <1>2, <1>3

(* Only mapError and staticError put a message into a result.              *)
LEMMA OutcomeStep == IInv /\ OutcomeInv /\ [Next]_vars => OutcomeInv'
  <1> SUFFICES ASSUME IInv, OutcomeInv, [Next]_vars PROVE OutcomeInv'
    OBVIOUS
  <1> DEFINE Fine(r) == isOK(r) => r.msg = Nil
  <1>1. \A v : Fine(Ok(v))
    BY DEF Ok, isOK
  <1>2. \A code : Fine(mapped(code, Nil))
    BY DEF mapped, isOK
  <1>3. ASSUME NEW g \in Procs, Step(g)
        PROVE  Fine(result'[g])
    <2>1. DOMAIN result = Procs
      BY DEF IInv, TypeOK
    <2>2. CASE Reject(g)
      BY <2>1, <2>2, OwnMessages DEF Reject
    <2>3. CASE FindClosed(g)
      BY <2>1, <2>3, OwnMessages, CallFacts DEF FindClosed, M, IInv
    <2>4. CASE CSucceed(g) \/ CCreate(g) \/ ScanDone(g) \/ Detach(g)
      <3>1. \E v : result'[g] = Ok(v)
        BY <2>1, <2>4 DEF CSucceed, CCreate, ScanDone, Detach
      <3> QED
        BY <1>1, <3>1
    <2>5. CASE CFail(g)
      <3>1. \E code : result'[g] = mapped(code, Nil)
        BY <2>1, <2>5 DEF CFail
      <3> QED
        BY <1>2, <3>1
    <2>6. CASE CFailStatic(g)
      BY <2>1, <2>6, OwnMessages DEF CFailStatic
    <2>7. CASE LastError(g)
      <3>1. ~isOK(result[g]) /\ DOMAIN result[g] = {"code", "msg", "val"}
        BY <2>7 DEF LastError, Goto, IInv, ResultInv
      <3>2. PICK m : result' = [result EXCEPT ![g].msg = m]
        BY <2>7 DEF LastError
      <3>3. result'[g] = [result[g] EXCEPT !.msg = m]
        BY <2>1, <3>2
      <3>4. result'[g].code = result[g].code
        BY <3>1, <3>3
      <3> QED
        BY <3>1, <3>4 DEF isOK
    <2>8. CASE Exit(g)
      <3>1. result'[g] = NoResult
        BY <2>1, <2>8 DEF Exit
      <3> QED
        BY <3>1 DEF NoResult
    <2>9. CASE ~(\/ Reject(g) \/ FindClosed(g) \/ CSucceed(g) \/ CCreate(g) \/ ScanDone(g)
                 \/ Detach(g) \/ CFail(g) \/ CFailStatic(g) \/ LastError(g) \/ Exit(g))
      <3>1. result' = result
        BY <1>3, <2>9 DEF Step, Proceed, ReadLock, WriteLock, FindOpen, EnterC, CApply, ScanCount,
           ScanAccess, ScanFields, ClearError, Free
      <3> QED
        BY <3>1 DEF OutcomeInv
    <2> QED
      BY <2>2, <2>3, <2>4, <2>5, <2>6, <2>7, <2>8, <2>9
  <1>4. ASSUME NEW g \in Procs, Step(g)
        PROVE  OutcomeInv'
    BY <1>3, <1>4, OthersStay DEF OutcomeInv, isOK
  <1>5. ASSUME result' = result
        PROVE  OutcomeInv'
    BY <1>5 DEF OutcomeInv, isOK
  <1> QED
    BY <1>4, <1>5 DEF Next, Invoke, Drop, Finalize, vars

(* An object is made once and never unmade.                                *)
LEMMA BornStays ==
    ASSUME IInv, [Next]_vars, NEW h \in Handles, mem[h] # "unborn"
    PROVE  mem'[h] # "unborn"
  <1>1. ASSUME NEW g \in Procs, CCreate(g)
        PROVE  mem'[h] # "unborn"
    BY <1>1 DEF CCreate, IInv, TypeOK
  <1>2. ASSUME NEW g \in Procs, Free(g)
        PROVE  mem'[h] # "unborn"
    BY <1>2 DEF Free, IInv, TypeOK
  <1>3. ASSUME NEW g \in Procs, Step(g), ~CCreate(g), ~Free(g)
        PROVE  mem' = mem
    BY <1>3 DEF Step, Reject, Proceed, ReadLock, WriteLock, FindClosed, FindOpen, EnterC, CSucceed,
       CApply, CFail, CFailStatic, ScanCount, ScanAccess, ScanFields, ScanDone, LastError, ClearError,
       Detach, Exit, library
  <1>4. CASE \/ \E g \in Goroutines, c \in Calls : Invoke(g, c)
             \/ \E k \in Handles : Drop(k) \/ Finalize(k)
             \/ UNCHANGED vars
    BY <1>4 DEF Invoke, Drop, Finalize, library, vars
  <1> QED
    BY <1>1, <1>2, <1>3, <1>4 DEF Next

(* SetFinalizer and ptr are set together and cleared together.             *)
LEMMA FinalizerStaysValid ==
    ASSUME IInv, BornInv, [Next]_vars, NEW h \in Handles, finalizer'[h]
    PROVE  ptr'[h]
  <1>1. ASSUME NEW g \in Procs, CCreate(g)
        PROVE  ptr'[h]
    BY <1>1 DEF CCreate, IInv, TypeOK, BornInv
  <1>2. ASSUME NEW g \in Procs, Detach(g)
        PROVE  ptr'[h]
    BY <1>2 DEF Detach, IInv, TypeOK, BornInv
  <1>3. ASSUME NEW g \in Procs, Step(g), ~CCreate(g), ~Detach(g)
        PROVE  UNCHANGED <<ptr, finalizer>>
    BY <1>3 DEF Step, Reject, Proceed, ReadLock, WriteLock, FindClosed, FindOpen, EnterC, CSucceed,
       CApply, CFail, CFailStatic, ScanCount, ScanAccess, ScanFields, ScanDone, LastError, ClearError,
       Free, Exit, handle
  <1>4. ASSUME NEW k \in Handles, Finalize(k)
        PROVE  ptr'[h]
    BY <1>4 DEF Finalize, IInv, TypeOK, BornInv
  <1>5. CASE \/ \E g \in Goroutines, c \in Calls : Invoke(g, c)
             \/ \E k \in Handles : Drop(k)
             \/ UNCHANGED vars
    BY <1>5 DEF Invoke, Drop, handle, vars, BornInv
  <1> QED
    BY <1>1, <1>2, <1>3, <1>4, <1>5 DEF Next, BornInv

\* The handles g is using or about to return.
Born(g) ==
    /\ pc[g] # "idle" /\ call[g].h # Nil => mem[call[g].h] # "unborn"
    /\ pc[g] = "exit" => \A h \in Returned(call[g], result[g]) : mem[h] # "unborn"

(* A step of g leaves g with handles that exist, and so the roots.         *)
LEMMA BornLocally ==
    ASSUME IInv, BornInv, NEW g \in Procs, Step(g)
    PROVE  Born(g)' /\ \A h \in roots' : mem'[h] # "unborn"
  <1>1. \A h \in Handles : mem[h] # "unborn" => mem'[h] # "unborn"
    BY BornStays DEF Next
  <1>2. pc[g] # "idle" /\ call[g].h \in Handles \cup {Nil} /\ roots \subseteq Handles
    BY OthersStay, CallFacts DEF IInv, TypeOK
  <1>3. pc'[g] # "idle" /\ call'[g].h # Nil => mem'[call'[g].h] # "unborn"
    BY <1>1, <1>2, OthersStay DEF BornInv
  <1>4. CASE Reject(g) \/ FindClosed(g) \/ CSucceed(g) \/ CFailStatic(g) \/ ScanDone(g)
             \/ ClearError(g) \/ Detach(g)
    <2>1. Returned(call'[g], result'[g]) = {}
      BY <1>4, RejectionsReturnNothing
    <2>2. roots' = roots
      BY <1>4 DEF Reject, FindClosed, CSucceed, CFailStatic, ScanDone, ClearError, Detach, handle
    <2> QED
      BY <1>1, <1>2, <1>3, <2>1, <2>2 DEF Born, BornInv
  <1>5. CASE Exit(g)
    <2>1. pc[g] = "exit" /\ pc'[g] = "idle" /\ roots' = roots \cup Returned(call[g], result[g])
      BY <1>5 DEF Exit, Goto, IInv, TypeOK
    <2>2. Returned(call[g], result[g]) \subseteq Handles
      BY <2>1 DEF IInv, ResultInv
    <2> QED
      BY <1>1, <1>2, <2>1, <2>2 DEF Born, BornInv
  <1>6. CASE CCreate(g)
    <2>1. PICK n \in Makes(call[g].op) :
             /\ mem' = [mem EXCEPT ![n] = "live"]
             /\ result' = [result EXCEPT ![g] = Ok(n)]
      BY <1>6 DEF CCreate
    <2>2. n \in Handles
      BY DEF Makes, Handles
    <2>3. mem'[n] = "live" /\ call' = call /\ roots' = roots
      BY <1>6, <2>1, <2>2 DEF CCreate, frame, IInv, TypeOK
    <2>4. Returned(call'[g], result'[g]) \subseteq {n}
      BY <2>1, <2>3 DEF Returned, Ok, IInv, TypeOK
    <2> QED
      BY <1>1, <1>2, <1>3, <2>3, <2>4 DEF Born, BornInv
  <1>7. CASE \/ Proceed(g) \/ ReadLock(g) \/ WriteLock(g) \/ FindOpen(g) \/ EnterC(g) \/ CApply(g)
             \/ CFail(g) \/ ScanCount(g) \/ ScanAccess(g) \/ ScanFields(g) \/ LastError(g) \/ Free(g)
    <2>1. pc'[g] # "exit" /\ roots' = roots
      BY <1>7 DEF Proceed, ReadLock, WriteLock, FindOpen, EnterC, CApply, CFail, ScanCount, ScanAccess,
         ScanFields, Scanning, LastError, Free, Goto, handle, IInv, TypeOK
    <2> QED
      BY <1>1, <1>2, <1>3, <2>1 DEF Born, BornInv
  <1> QED
    BY <1>4, <1>5, <1>6, <1>7 DEF Step

LEMMA BornStep == IInv /\ BornInv /\ [Next]_vars => BornInv'
  <1> SUFFICES ASSUME IInv, BornInv, [Next]_vars PROVE BornInv'
    OBVIOUS
  <1>1. \A h \in Handles : mem[h] # "unborn" => mem'[h] # "unborn"
    BY BornStays
  <1>2. \A h \in Handles : finalizer'[h] => ptr'[h]
    BY FinalizerStaysValid
  <1>3. \A g \in Procs : call[g].h \in Handles \cup {Nil}
    BY CallFacts DEF IInv
  <1>4. \A g \in Procs : pc[g] = "exit" => Returned(call[g], result[g]) \subseteq Handles
    BY DEF IInv, ResultInv
  <1>5. ASSUME NEW g \in Procs, Step(g)
        PROVE  BornInv'
    <2>1. Born(g)' /\ \A h \in roots' : mem'[h] # "unborn"
      BY <1>5, BornLocally
    <2>2. ASSUME NEW p \in Procs \ {g}
          PROVE  Born(p)'
      <3>1. pc'[p] = pc[p] /\ call'[p] = call[p] /\ result'[p] = result[p]
        BY <1>5, OthersStay
      <3> QED
        BY <1>1, <1>3, <1>4, <3>1 DEF BornInv, Born
    <2> QED
      BY <1>2, <2>1, <2>2 DEF BornInv, Born
  <1>6. ASSUME NEW g \in Procs, Goto(g, "idle", "enter"), NEW c, call' = [call EXCEPT ![g] = c],
               c.h # Nil => c.h \in Handles /\ mem[c.h] # "unborn", UNCHANGED <<result, roots>>
        PROVE  BornInv'
    <2>1. pc'[g] = "enter" /\ call'[g] = c
      BY <1>6, GotoEffect DEF IInv, TypeOK
    <2>2. \A p \in Procs \ {g} : pc'[p] = pc[p] /\ call'[p] = call[p]
      BY <1>6, GotoEffect DEF IInv, TypeOK
    <2>3. \A p \in Procs : Born(p)'
      BY <1>1, <1>3, <1>4, <1>6, <2>1, <2>2 DEF BornInv, Born
    <2>4. \A h \in roots' : mem'[h] # "unborn"
      BY <1>1, <1>6 DEF BornInv, IInv, TypeOK
    <2> QED
      BY <1>2, <2>3, <2>4 DEF BornInv, Born
  <1>7. ASSUME NEW g \in Goroutines, NEW c \in Calls, Invoke(g, c)
        PROVE  BornInv'
    BY <1>6, <1>7 DEF Invoke, handle, Procs, BornInv, IInv, TypeOK
  <1>8. ASSUME NEW h \in Handles, Finalize(h)
        PROVE  BornInv'
    <2>1. mem[h] # "unborn"
      BY <1>8 DEF Finalize, BornInv, IInv, MemInv
    <2>2. CloseCall(h).h = h
      BY DEF CloseCall
    <2> QED
      BY <1>6, <1>8, <2>1, <2>2 DEF Finalize, Procs
  <1>9. ASSUME NEW h \in Handles, Drop(h)
        PROVE  BornInv'
    BY <1>2, <1>9 DEF Drop, frame, library, BornInv
  <1>10. CASE UNCHANGED vars
    BY <1>10 DEF vars, frame, handle, library, BornInv
  <1> QED
    BY <1>5, <1>7, <1>8, <1>9, <1>10 DEF Next

LEMMA InitAbstraction == Init => AbstractionInv
  <1> SUFFICES ASSUME Init PROVE AbstractionInv
    OBVIOUS
  <1>1. BornInv /\ RouteInv
    BY DEF Init, BornInv, RouteInv
  <1>2. OutcomeInv
    BY DEF Init, OutcomeInv, NoResult
  <1>3. CopyInv
    BY EmptyIsContent DEF Init, CopyInv, Scanning
  <1> QED
    BY <1>1, <1>2, <1>3 DEF AbstractionInv

(* Handles in use exist, Close makes no C call but the free, successes     *)
(* have no message and an enumeration is a copy of the list so far: in     *)
(* every state.                                                            *)
THEOREM AbstractionInvariance == Spec => []AbstractionInv
  <1>1. IInv /\ ResultsInv /\ AbstractionInv /\ [Next]_vars => AbstractionInv'
    BY BornStep, RouteStep, OutcomeStep, CopyStep DEF AbstractionInv, ResultsInv
  <1> QED
    BY <1>1, InitAbstraction, Invariance, ResultsInvariance, PTL DEF Spec
=============================================================================
