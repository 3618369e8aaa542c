-------------------------- MODULE NonoStringsProofs --------------------------
(***************************************************************************)
(* Every C string is freed exactly once, for any number of goroutines and  *)
(* any memory.  A pointer says which string it was made for (heap[p] is    *)
(* <<g, i>>), so two calls can never owe the free of one address: the      *)
(* proof is that the owed pointers and the occupied addresses stay the     *)
(* same set.                                                               *)
(***************************************************************************)
EXTENDS NonoStrings, TLAPS

LEMMA FreeIsNoString == \A g \in Goroutines, i \in 0..4 : <<g, i>> # Free
  BY NilAssumption DEF Free

LEMMA InitStrings == Init => StringInv
  BY NilAssumption
  DEF Init, StringInv, TypeOK, ArgumentInv, CopiedInv, NoDanglingString, NoStringLeak,
      FaithfulStrings, Owes, Free, Fields, NoPointers

(* Owing what was owed before, with the same memory.                       *)
LEMMA Undisturbed ==
    ASSUME NoDanglingString, NoStringLeak, heap' = heap,
           \A g \in Goroutines, i \in 0..4, p \in Addresses : Owes(g, i, p)' <=> Owes(g, i, p)
    PROVE  NoDanglingString' /\ NoStringLeak'
  BY DEF NoDanglingString, NoStringLeak

(* Steps that move pc and left alone, between points that owe the same.    *)
LEMMA ControlSteps ==
    ASSUME StringInv, NEW g \in Goroutines,
           \/ \E c \in Calls : Invoke(g, c)
           \/ EarlyReturn(g) \/ CallC(g) \/ CFail(g) \/ StaticError(g)
           \/ NextString(g) \/ Finish(g)
    PROVE  StringInv'
  <1> USE DEF StringInv
  <1>1. /\ carg' = carg /\ cresult' = cresult /\ next' = next /\ got' = got /\ heap' = heap
        /\ \E q \in {"enter", "return", "inC", "failed", "call"} : pc' = [pc EXCEPT ![g] = q]
        /\ pc'[g] = "enter" => pc[g] = "idle"
        /\ pc[g] \in {"convert", "free"} => pc[g] = "convert" /\ next[g] \notin Fields
    BY DEF Invoke, EarlyReturn, CallC, CFail, StaticError, NextString, Finish, Goto, frame, TypeOK
  <1>2. call' \in [Goroutines -> Calls \cup {NoCall}] /\ left' \in [Goroutines -> Nat]
    BY DEF Invoke, EarlyReturn, CallC, CFail, StaticError, NextString, Finish, frame, TypeOK
  <1>3. TypeOK'
    BY <1>1, <1>2 DEF TypeOK
  <1>4. ArgumentInv' /\ CopiedInv' /\ FaithfulStrings'
    BY <1>1 DEF ArgumentInv, CopiedInv, FaithfulStrings, Field, TypeOK
  <1>5. \A h \in Goroutines, i \in 0..4, p \in Addresses : Owes(h, i, p)' <=> Owes(h, i, p)
    BY <1>1 DEF Owes, TypeOK, Fields
  <1> QED
    BY <1>1, <1>3, <1>4, <1>5, Undisturbed

(* C.CString takes a free address for the one argument of the call.        *)
LEMMA CStringStep ==
    ASSUME StringInv, NEW g \in Goroutines, CString(g)
    PROVE  StringInv'
  <1> USE DEF StringInv
  <1>1. pc[g] = "enter" /\ carg[g] = Nil /\ pc' = [pc EXCEPT ![g] = "call"]
    BY DEF CString, Goto, ArgumentInv
  <1>2. UNCHANGED <<call, cresult, next, got>> /\ left' \in [Goroutines -> Nat]
    BY MaxEntriesAssumption DEF CString, StringCalls, TypeOK
  <1>3. CASE carg' = carg /\ heap' = heap
    <2>1. \A h \in Goroutines, i \in 0..4, p \in Addresses : Owes(h, i, p)' <=> Owes(h, i, p)
      BY <1>1, <1>2, <1>3 DEF Owes, TypeOK
    <2>2. TypeOK' /\ ArgumentInv' /\ CopiedInv' /\ FaithfulStrings'
      BY <1>1, <1>2, <1>3 DEF TypeOK, ArgumentInv, CopiedInv, FaithfulStrings, Field
    <2> QED
      BY <1>3, <2>1, <2>2, Undisturbed
  <1>4. ASSUME NEW q \in FreeAddresses, carg' = [carg EXCEPT ![g] = q],
               heap' = [heap EXCEPT ![q] = <<g, 0>>]
        PROVE  StringInv'
    <2>1. q \in Addresses /\ heap[q] = Free
      BY <1>4 DEF FreeAddresses
    <2>2. TypeOK' /\ ArgumentInv' /\ CopiedInv' /\ FaithfulStrings'
      BY <1>1, <1>2, <1>4, <2>1 DEF TypeOK, ArgumentInv, CopiedInv, FaithfulStrings, Field
    <2>3. \A h \in Goroutines, i \in 0..4, p \in Addresses :
             Owes(h, i, p)' <=> Owes(h, i, p) \/ (h = g /\ i = 0 /\ p = q)
      BY <1>1, <1>2, <1>4, <2>1, NilAssumption DEF Owes, TypeOK
    <2>4. ASSUME NEW h \in Goroutines, NEW i \in 0..4, NEW p \in Addresses, Owes(h, i, p)
          PROVE  p # q
      BY <2>1, <2>4, FreeIsNoString DEF NoDanglingString
    <2>5. heap'[q] = <<g, 0>> /\ \A p \in Addresses : p # q => heap'[p] = heap[p]
      BY <1>4, <2>1 DEF TypeOK
    <2>6. NoDanglingString'
      BY <2>3, <2>4, <2>5 DEF NoDanglingString
    <2>7. NoStringLeak'
      <3> SUFFICES ASSUME NEW p \in Addresses, heap'[p] # Free
                   PROVE  \E h \in Goroutines, i \in 0..4 : heap'[p] = <<h, i>> /\ Owes(h, i, p)'
        BY DEF NoStringLeak, Free
      <3>1. CASE p = q
        BY <3>1, <2>3, <2>5
      <3>2. CASE p # q
        BY <3>2, <2>3, <2>5 DEF NoStringLeak
      <3> QED
        BY <3>1, <3>2
    <2> QED
      BY <2>2, <2>6, <2>7
  <1> QED
    BY <1>3, <1>4 DEF CString

(* The library returns, or mapError gets the message.                      *)
LEMMA FillStep ==
    ASSUME StringInv, NEW g \in Goroutines, NEW F \in SUBSET Fields, Fill(g, F), UNCHANGED frame,
           pc[g] \in {"inC", "failed"}, pc' = [pc EXCEPT ![g] = "convert"]
    PROVE  StringInv'
  <1> USE DEF StringInv
  <1>1. PICK at \in [F -> FreeAddresses] :
          /\ \A i, j \in F : at[i] = at[j] => i = j
          /\ cresult' = [cresult EXCEPT ![g] = [i \in Fields |-> IF i \in F THEN at[i] ELSE Nil]]
          /\ heap' = [p \in Addresses |->
                         IF \E i \in F : at[i] = p THEN <<g, CHOOSE i \in F : at[i] = p>> ELSE heap[p]]
          /\ next' = [next EXCEPT ![g] = 1]
          /\ got' = [got EXCEPT ![g] = NoPointers]
    BY DEF Fill
  <1>2. \A i \in F : at[i] \in Addresses /\ heap[at[i]] = Free /\ i \in 1..4
    BY <1>1 DEF FreeAddresses, Fields
  <1>3. \A i \in F : heap'[at[i]] = <<g, i>>
    BY <1>1, <1>2
  <1>4. \A p \in Addresses : (\A i \in F : at[i] # p) => heap'[p] = heap[p]
    BY <1>1
  <1>5. TypeOK'
    <2>1. cresult' \in [Goroutines -> [Fields -> Addresses \cup {Nil}]]
      BY <1>1, <1>2 DEF TypeOK
    <2>2. heap' \in [Addresses -> {Free} \cup (Goroutines \X (0..4))]
      <3> SUFFICES ASSUME NEW p \in Addresses
                   PROVE  heap'[p] \in {Free} \cup (Goroutines \X (0..4))
        BY <1>1
      <3>1. CASE \E i \in F : at[i] = p
        BY <3>1, <1>2, <1>3
      <3>2. CASE \A i \in F : at[i] # p
        BY <3>2, <1>4 DEF TypeOK
      <3> QED
        BY <3>1, <3>2
    <2> QED
      BY <1>1, <2>1, <2>2 DEF TypeOK, frame, NoPointers
  <1>6. ArgumentInv' /\ CopiedInv' /\ FaithfulStrings'
    BY <1>1 DEF TypeOK, ArgumentInv, CopiedInv, FaithfulStrings, Field, frame, Fields
  <1>7. \A h \in Goroutines, i \in 0..4, p \in Addresses :
           Owes(h, i, p)' <=> Owes(h, i, p) \/ (h = g /\ i \in F /\ at[i] = p)
    BY <1>1, <1>2, NilAssumption DEF Owes, TypeOK, frame, Fields
  <1>8. ASSUME NEW h \in Goroutines, NEW i \in 0..4, NEW p \in Addresses, Owes(h, i, p)
        PROVE  heap[p] = <<h, i>> /\ heap'[p] = heap[p]
    BY <1>2, <1>4, <1>8, FreeIsNoString DEF NoDanglingString
  <1>9. NoDanglingString'
    BY <1>3, <1>7, <1>8 DEF NoDanglingString
  <1>10. NoStringLeak'
    <2> SUFFICES ASSUME NEW p \in Addresses, heap'[p] # Free
                 PROVE  \E h \in Goroutines, i \in 0..4 : heap'[p] = <<h, i>> /\ Owes(h, i, p)'
      BY DEF NoStringLeak, Free
    <2>1. CASE \E i \in F : at[i] = p
      BY <2>1, <1>2, <1>3, <1>7
    <2>2. CASE \A i \in F : at[i] # p
      BY <2>2, <1>4, <1>7 DEF NoStringLeak
    <2> QED
      BY <2>1, <2>2
  <1> QED
    BY <1>5, <1>6, <1>9, <1>10

(* goString: a NULL field is passed over, another one copied and freed.    *)
LEMMA SkipNullStep ==
    ASSUME StringInv, NEW g \in Goroutines, SkipNull(g)
    PROVE  StringInv'
  <1> USE DEF StringInv
  <1>1. /\ pc[g] = "convert" /\ next[g] \in Fields /\ cresult[g][next[g]] = Nil
        /\ got' = [got EXCEPT ![g][next[g]] = Nil]
        /\ next' = [next EXCEPT ![g] = @ + 1]
        /\ UNCHANGED <<pc, call, carg, left, cresult, heap>>
    BY DEF SkipNull, Converting, Field, frame
  <1>2. TypeOK' /\ ArgumentInv' /\ CopiedInv'
    BY <1>1 DEF TypeOK, ArgumentInv, CopiedInv, Field, Fields
  <1>3. FaithfulStrings'
    <2> SUFFICES ASSUME NEW h \in Goroutines, NEW i \in Fields, i < next'[h]
                 PROVE  got'[h][i] = IF cresult[h][i] = Nil THEN Nil ELSE <<h, i>>
      BY <1>1 DEF FaithfulStrings
    <2>1. CASE i < next[h]
      <3>1. got'[h][i] = got[h][i]
        BY <1>1, <2>1 DEF TypeOK, Fields
      <3> QED
        BY <2>1, <3>1 DEF FaithfulStrings
    <2>2. CASE h = g /\ i = next[g]
      BY <1>1, <2>2 DEF TypeOK, Fields
    <2> QED
      BY <1>1, <2>1, <2>2 DEF TypeOK, Fields
  <1>4. \A h \in Goroutines, i \in 0..4, p \in Addresses : Owes(h, i, p)' <=> Owes(h, i, p)
    BY <1>1, NilAssumption DEF Owes, TypeOK, Fields
  <1> QED
    BY <1>1, <1>2, <1>3, <1>4, Undisturbed

LEMMA GoStringStep ==
    ASSUME StringInv, NEW g \in Goroutines, GoString(g)
    PROVE  StringInv'
  <1> USE DEF StringInv
  <1>1. /\ pc[g] = "convert" /\ next[g] \in 1..4 /\ cresult[g][next[g]] \in Addresses
        /\ pc' = [pc EXCEPT ![g] = "free"]
        /\ got' = [got EXCEPT ![g][next[g]] = heap[cresult[g][next[g]]]]
        /\ UNCHANGED <<call, carg, left, cresult, next, heap>>
    BY DEF GoString, Converting, Goto, Field, frame, TypeOK, Fields
  <1>2. heap[cresult[g][next[g]]] = <<g, next[g]>>
    <2>1. Owes(g, next[g], cresult[g][next[g]])
      BY <1>1 DEF Owes
    <2> QED
      BY <1>1, <2>1 DEF NoDanglingString
  <1>3. TypeOK' /\ ArgumentInv'
    BY <1>1 DEF TypeOK, ArgumentInv
  <1>4. CopiedInv'
    BY <1>1, <1>2, NilAssumption DEF CopiedInv, TypeOK, Field, Fields
  <1>5. FaithfulStrings'
    <2> SUFFICES ASSUME NEW h \in Goroutines, NEW i \in Fields, i < next[h]
                 PROVE  got'[h][i] = IF cresult[h][i] = Nil THEN Nil ELSE <<h, i>>
      BY <1>1 DEF FaithfulStrings
    <2>1. got'[h][i] = got[h][i]
      BY <1>1 DEF TypeOK, Fields
    <2> QED
      BY <2>1 DEF FaithfulStrings
  <1>6. \A h \in Goroutines, i \in 0..4, p \in Addresses : Owes(h, i, p)' <=> Owes(h, i, p)
    BY <1>1 DEF Owes, TypeOK
  <1> QED
    BY <1>1, <1>3, <1>4, <1>5, <1>6, Undisturbed

(* A step after which g no longer owes string k, and nothing else changes. *)
Settles(g, k) ==
    \A h \in Goroutines, i \in 0..4, p \in Addresses :
        Owes(h, i, p)' <=> Owes(h, i, p) /\ ~(h = g /\ i = k)

(* A string is owed at one address.                                        *)
LEMMA OwedOnce ==
    ASSUME TypeOK, NEW g \in Goroutines, NEW k \in 0..4, NEW p \in Addresses, NEW q \in Addresses,
           Owes(g, k, p), Owes(g, k, q)
    PROVE  p = q
  <1>1. next[g] \in 1..5
    BY DEF TypeOK
  <1>2. k = 0 => carg[g] = p /\ carg[g] = q
    BY <1>1 DEF Owes
  <1>3. k # 0 => cresult[g][k] = p /\ cresult[g][k] = q
    BY DEF Owes
  <1> QED
    BY <1>2, <1>3

(* A free: goroutine g stops owing string k at address q, and that alone.  *)
LEMMA Freed ==
    ASSUME NoDanglingString, NoStringLeak, TypeOK,
           NEW g \in Goroutines, NEW k \in 0..4, NEW q \in Addresses,
           Owes(g, k, q), heap' = [heap EXCEPT ![q] = Free], Settles(g, k)
    PROVE  NoDanglingString' /\ NoStringLeak'
  <1>1. heap[q] = <<g, k>>
    BY DEF NoDanglingString
  <1>2. ASSUME NEW h \in Goroutines, NEW i \in 0..4, NEW p \in Addresses, Owes(h, i, p)'
        PROVE  p # q /\ heap'[p] = <<h, i>>
    BY <1>1, <1>2 DEF NoDanglingString, TypeOK, Settles
  <1>3. ASSUME NEW p \in Addresses, heap'[p] # Free
        PROVE  \E h \in Goroutines, i \in 0..4 : heap'[p] = <<h, i>> /\ Owes(h, i, p)'
    <2>1. p # q /\ heap'[p] = heap[p]
      BY <1>3 DEF TypeOK
    <2>2. PICK h \in Goroutines, i \in 0..4 : heap[p] = <<h, i>> /\ Owes(h, i, p)
      BY <1>3, <2>1 DEF NoStringLeak
    <2>3. ~(h = g /\ i = k)
      BY <2>1, <2>2, OwedOnce
    <2> QED
      BY <2>1, <2>2, <2>3 DEF Settles
  <1> QED
    BY <1>2, <1>3 DEF NoDanglingString, NoStringLeak, Free

LEMMA StringFreeStep ==
    ASSUME StringInv, NEW g \in Goroutines, StringFree(g)
    PROVE  StringInv'
  <1> USE DEF StringInv
  <1>1. /\ pc[g] = "free" /\ next[g] \in 1..4 /\ Field(g) \in Addresses
        /\ got[g][next[g]] = <<g, next[g]>>
        /\ pc' = [pc EXCEPT ![g] = "convert"]
        /\ next' = [next EXCEPT ![g] = @ + 1]
        /\ heap' = [heap EXCEPT ![Field(g)] = Free]
        /\ UNCHANGED <<call, carg, left, cresult, got>>
    BY DEF StringFree, Goto, CopiedInv, Field, frame, TypeOK, Fields
  <1>2. TypeOK' /\ ArgumentInv' /\ CopiedInv'
    BY <1>1 DEF TypeOK, ArgumentInv, CopiedInv, Field, Fields
  <1>3. FaithfulStrings'
    <2> SUFFICES ASSUME NEW h \in Goroutines, NEW i \in Fields, i < next'[h]
                 PROVE  got[h][i] = IF cresult[h][i] = Nil THEN Nil ELSE <<h, i>>
      BY <1>1 DEF FaithfulStrings
    <2>1. CASE i < next[h]
      BY <2>1 DEF FaithfulStrings
    <2>2. CASE h = g /\ i = next[g]
      BY <1>1, <2>2, NilAssumption DEF Field
    <2> QED
      BY <1>1, <2>1, <2>2 DEF TypeOK, Fields
  <1>4. Owes(g, next[g], Field(g))
    BY <1>1 DEF Owes, Field
  <1>5. Settles(g, next[g]) /\ next[g] \in 0..4
    BY <1>1 DEF Settles, Owes, TypeOK
  <1>6. NoDanglingString' /\ NoStringLeak'
    BY <1>1, <1>4, <1>5, Freed
  <1> QED
    BY <1>2, <1>3, <1>6

(* The deferred C.free.                                                    *)
LEMMA ReturnStep ==
    ASSUME StringInv, NEW g \in Goroutines, Return(g)
    PROVE  StringInv'
  <1> USE DEF StringInv
  <1>1. /\ pc[g] = "return" /\ pc' = [pc EXCEPT ![g] = "idle"]
        /\ heap' = IF carg[g] = Nil THEN heap ELSE [heap EXCEPT ![carg[g]] = Free]
        /\ call' = [call EXCEPT ![g] = NoCall]
        /\ carg' = [carg EXCEPT ![g] = Nil]
        /\ cresult' = [cresult EXCEPT ![g] = NoPointers]
        /\ next' = [next EXCEPT ![g] = 1]
        /\ got' = [got EXCEPT ![g] = NoPointers]
        /\ left' = left
    BY DEF Return, Goto
  <1>2. TypeOK'
    BY <1>1 DEF TypeOK, NoPointers, Fields
  <1>3. ArgumentInv' /\ CopiedInv' /\ FaithfulStrings'
    BY <1>1 DEF ArgumentInv, CopiedInv, FaithfulStrings, Field, TypeOK, Fields
  <1>4. Settles(g, 0)
    BY <1>1, NilAssumption DEF Settles, Owes, TypeOK
  <1>5. CASE carg[g] = Nil
    <2>1. \A h \in Goroutines, i \in 0..4, p \in Addresses : Owes(h, i, p)' <=> Owes(h, i, p)
      BY <1>1, <1>4, <1>5, NilAssumption DEF Owes, Settles, TypeOK
    <2> QED
      BY <1>1, <1>2, <1>3, <1>5, <2>1, Undisturbed
  <1>6. CASE carg[g] # Nil
    <2>1. carg[g] \in Addresses /\ Owes(g, 0, carg[g]) /\ 0 \in 0..4
      BY <1>6 DEF Owes, TypeOK
    <2>2. NoDanglingString' /\ NoStringLeak'
      BY <1>1, <1>4, <1>6, <2>1, Freed
    <2> QED
      BY <1>2, <1>3, <2>2
  <1> QED
    BY <1>5, <1>6

-----------------------------------------------------------------------------
(***************************************************************************)
(* The theorems.                                                           *)
(***************************************************************************)
(* StringInv is inductive.                                                 *)
LEMMA NextStrings == StringInv /\ [Next]_vars => StringInv'
  <1> SUFFICES ASSUME StringInv, [Next]_vars PROVE StringInv'
    OBVIOUS
  <1>1. ASSUME NEW g \in Goroutines, CReturn(g) \/ MapError(g)
        PROVE  StringInv'
    <2>1. PICK F \in SUBSET Fields : Fill(g, F)
      BY <1>1 DEF CReturn, MapError, Filled, Fields
    <2>2. /\ UNCHANGED frame
          /\ pc[g] \in {"inC", "failed"} /\ pc' = [pc EXCEPT ![g] = "convert"]
      BY <1>1 DEF CReturn, MapError, Goto
    <2> QED
      BY <2>1, <2>2, FillStep
  <1>2. ASSUME NEW g \in Goroutines, Step(g) \/ \E c \in Calls : Invoke(g, c)
        PROVE  StringInv'
    <2>1. CASE \/ \E c \in Calls : Invoke(g, c)
               \/ EarlyReturn(g) \/ CallC(g) \/ CFail(g) \/ StaticError(g)
               \/ NextString(g) \/ Finish(g)
      BY <2>1, ControlSteps
    <2>2. CASE CString(g)
      BY <2>2, CStringStep
    <2>3. CASE SkipNull(g)
      BY <2>3, SkipNullStep
    <2>4. CASE GoString(g)
      BY <2>4, GoStringStep
    <2>5. CASE StringFree(g)
      BY <2>5, StringFreeStep
    <2>6. CASE Return(g)
      BY <2>6, ReturnStep
    <2> QED
      BY <1>1, <1>2, <2>1, <2>2, <2>3, <2>4, <2>5, <2>6 DEF Step
  <1>3. CASE UNCHANGED vars
    <2>1. UNCHANGED <<pc, call, carg, left, cresult, next, got, heap>>
      BY <1>3 DEF vars, frame
    <2>2. TypeOK' /\ ArgumentInv' /\ CopiedInv' /\ FaithfulStrings'
      BY <2>1 DEF StringInv, TypeOK, ArgumentInv, CopiedInv, FaithfulStrings, Field
    <2>3. \A h \in Goroutines, i \in 0..4, p \in Addresses : Owes(h, i, p)' <=> Owes(h, i, p)
      BY <2>1 DEF Owes
    <2> QED
      BY <2>1, <2>2, <2>3, Undisturbed DEF StringInv
  <1>4. CASE Next
    <2>1. PICK g \in Goroutines : Step(g) \/ \E c \in Calls : Invoke(g, c)
      BY <1>4 DEF Next
    <2> QED
      BY <1>2, <2>1
  <1> QED
    BY <1>3, <1>4

(* The string invariant holds in every reachable state.                    *)
THEOREM StringInvariance == Spec => []StringInv
  BY InitStrings, NextStrings, PTL DEF Spec

(* No C string is freed twice, read after its free or freed under C.       *)
THEOREM NoStringDangles == Spec => []NoDanglingString
  BY StringInvariance, PTL DEF StringInv

(* Every C string is freed, on every path out of a method.                 *)
THEOREM NoStringLeaks == Spec => []NoStringLeak
  BY StringInvariance, PTL DEF StringInv

(* The Go strings are copies of the C strings of the same call and field.  *)
THEOREM StringsAreFaithful == Spec => []FaithfulStrings
  BY StringInvariance, PTL DEF StringInv
=============================================================================
