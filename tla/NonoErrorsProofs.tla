-------------------------- MODULE NonoErrorsProofs --------------------------
(***************************************************************************)
(* The sentinels of NonoErrors: as long as the program writes to no        *)
(* sentinel itself, nothing it does to other errors changes one, however   *)
(* many errors it makes and whatever codes the library returns.            *)
(***************************************************************************)
EXTENDS NonoErrors, TLAPS

(* No two of the header's codes are equal.                                 *)
LEMMA CodesDiffer ==
    \A s, t \in Names : ErrorCodes[s] = ErrorCodes[t] => s = t
  BY DEF Names, ErrorCodes

LEMMA InitErrors == Init => ErrorInv
  BY SlotsAssumption DEF Init, ErrorInv, TypeOK, MadeInv, SentinelsStable, Pointers

LEMMA AllocateStep ==
    ASSUME ErrorInv, NEW p, NEW code \in {ErrorCodes[s] : s \in Names} \cup Unlisted,
           NEW message, message # "", Allocate(p, Error(code, message))
    PROVE  ErrorInv'
  BY SlotsAssumption DEF ErrorInv, Allocate, Error, TypeOK, MadeInv, SentinelsStable, Pointers

LEMMA OverwriteStep ==
    ASSUME ~SentinelsInReach, ErrorInv, NEW p, Overwrite(p)
    PROVE  ErrorInv'
  BY SlotsAssumption
  DEF ErrorInv, Overwrite, Writable, TypeOK, MadeInv, SentinelsStable, Pointers

LEMMA ForgetStep ==
    ASSUME ErrorInv, NEW p, Forget(p)
    PROVE  ErrorInv'
  BY SlotsAssumption DEF ErrorInv, Forget, TypeOK, MadeInv, SentinelsStable, Pointers

LEMMA NextErrors == ~SentinelsInReach /\ ErrorInv /\ [Next]_vars => ErrorInv'
  <1> SUFFICES ASSUME ~SentinelsInReach, ErrorInv, [Next]_vars PROVE ErrorInv'
    OBVIOUS
  <1>1. ASSUME NEW p, mapError(p)
        PROVE  ErrorInv'
    <2>1. PICK code \in {ErrorCodes[s] : s \in Names} \cup Unlisted, report \in Reports :
             Allocate(p, Error(code, Message(report)))
      BY <1>1 DEF mapError
    <2>2. Message(report) # ""
      BY DEF Message
    <2> QED
      BY <2>1, <2>2, AllocateStep
  <1>2. ASSUME NEW p, staticError(p)
        PROVE  ErrorInv'
    <2>1. PICK s \in {"InvalidArg", "Unknown"},
               message \in {"string contains NUL byte", "failed to create query context"} :
             Allocate(p, Error(ErrorCodes[s], message))
      BY <1>2 DEF staticError
    <2>2. s \in Names /\ message # ""
      BY DEF Names, ErrorCodes
    <2> QED
      BY <2>1, <2>2, AllocateStep
  <1>3. CASE UNCHANGED vars
    BY <1>3 DEF vars, ErrorInv, TypeOK, MadeInv, SentinelsStable
  <1> QED
    BY <1>1, <1>2, <1>3, OverwriteStep, ForgetStep DEF Next

(* The program can write only to errors the package allocated for it       *)
(* (mapError and staticError, errors.go:106-124); the sentinels keep their *)
(* codes, and an error it has not written to keeps its code and a text.    *)
THEOREM ErrorInvariance == ~SentinelsInReach => (Spec => []ErrorInv)
  <1> SUFFICES ASSUME ~SentinelsInReach PROVE Spec => []ErrorInv
    OBVIOUS
  <1>1. ErrorInv /\ [Next]_vars => ErrorInv'
    BY NextErrors
  <1> QED
    BY <1>1, InitErrors, PTL DEF Spec

(* The sentinels never change: errors.go:39-41, for a program that assigns *)
(* only through pointers to the errors its calls returned.                 *)
THEOREM SentinelsAreStable == ~SentinelsInReach => (Spec => []SentinelsStable)
  BY ErrorInvariance, PTL DEF ErrorInv

(* An error nobody wrote to matches exactly the sentinel of its code.      *)
THEOREM ErrorsMatchTheirSentinel == ~SentinelsInReach => (Spec => []MatchesItsSentinel)
  <1>1. ASSUME ErrorInv, NEW p \in Slots, NEW s \in Names, made[p] # Nil
        PROVE  Matches(p, s) <=> made[p] = ErrorCodes[s]
    <2>1. object[p].code = made[p]
      BY <1>1 DEF ErrorInv, MadeInv
    <2>2. object[s] = [code |-> ErrorCodes[s], message |-> Descriptions[s]]
      BY <1>1 DEF ErrorInv, SentinelsStable, Sentinel, Error
    <2>3. object[s].code = ErrorCodes[s]
      BY <2>2
    <2>4. p # s
      BY SlotsAssumption
    <2> QED
      BY <2>1, <2>3, <2>4 DEF Matches
  <1>2. ErrorInv => MatchesItsSentinel
    BY <1>1, CodesDiffer DEF MatchesItsSentinel
  <1> QED
    BY <1>2, ErrorInvariance, PTL

(* No error shows the fallback text unless the program wrote to it.        *)
THEOREM ErrorsHaveText == ~SentinelsInReach => (Spec => []NoFallbackText)
  <1>1. ErrorInv => NoFallbackText
    BY DEF ErrorInv, MadeInv, NoFallbackText, FallsBack
  <1> QED
    BY <1>1, ErrorInvariance, PTL
=============================================================================
