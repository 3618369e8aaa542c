------------------------------ MODULE RWMutex ------------------------------
(***************************************************************************)
(* Go's sync.RWMutex, the lock every handle of the package carries in its  *)
(* field mu, as operators on one record.                                   *)
(*                                                                         *)
(* A writer first announces itself (Lock): from then on new readers park.  *)
(* It holds the lock once the readers that were there before it are gone.  *)
(* Unlock admits every parked reader before the next writer can announce   *)
(* itself, so neither side can starve the other.                           *)
(***************************************************************************)

CONSTANT Nil    \* no process, no object, a null pointer

Unlocked == [writer |-> Nil, readers |-> {}, parked |-> {}]

RWMutexes(Procs) ==
    [writer : Procs \cup {Nil}, readers : SUBSET Procs, parked : SUBSET Procs]

RLock(m, p) ==
    IF m.writer = Nil
      THEN [m EXCEPT !.readers = @ \cup {p}]
      ELSE [m EXCEPT !.parked = @ \cup {p}]

CanAnnounce(m) == m.writer = Nil

Lock(m, p) == [m EXCEPT !.writer = p]

HoldsRead(m, p) == p \in m.readers

HoldsWrite(m, p) == m.writer = p /\ m.readers = {}

InMutex(p, m) == p \in {m.writer} \cup m.readers \cup m.parked

RUnlock(m, p) == [m EXCEPT !.readers = @ \ {p}]

Unlock(m) == [m EXCEPT !.writer = Nil, !.readers = @ \cup m.parked, !.parked = {}]
=============================================================================
