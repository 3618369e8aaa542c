---------------------------- MODULE NonoInvariant ----------------------------
(***************************************************************************)
(* The inductive invariant of NonoCalls: what is true between any two      *)
(* steps and implies the safety properties.  TLC checks it on the same     *)
(* runs as the properties; NonoProofs proves it.                           *)
(***************************************************************************)
EXTENDS NonoCalls

\* Between the nil check of ptr and the last use of the object.
Using == {"call", "inC", "failed", "clear", "free"}

\* A method that got past its argument checks has the handle its lock is in.
CallInv ==
    \A g \in Procs :
        /\ pc[g] \in {"lock", "check", "free", "detach"} => M(g).lock # "none"
        /\ pc[g] \in {"free", "detach"} => call[g].op \in Closers \cup {"Apply"}
        /\ pc[g] \in Using \cup {"lock", "check", "detach"} =>
              (M(g).lock = "none" <=> call[g].h = Nil)

\* A mutex names the goroutines inside its critical section or waiting, and no other.
LockInv ==
    /\ \A h \in Handles : mu[h].readers \cap mu[h].parked = {}
    /\ \A g \in Procs :
          /\ pc[g] \in Using \cup {"detach"} /\ call[g].h # Nil => Holds(g)
          /\ \A h \in Handles :
                /\ g \in mu[h].parked => pc[g] = "check" /\ call[g].h = h /\ M(g).lock = "R"
                /\ g \in mu[h].readers => pc[g] \in Using \cup {"check", "exit"}
                                          /\ call[g].h = h /\ M(g).lock = "R"
                /\ mu[h].writer = g => pc[g] \in Using \cup {"check", "detach", "exit"}
                                       /\ call[g].h = h /\ M(g).lock = "W"

\* A goroutine that called Lock or RLock is in the mutex until it has checked ptr.
WaitInv == \A g \in Procs : pc[g] = "check" => InMutex(g, mu[call[g].h])

\* ptr is nil or points to a live object, except at the end of Close and Apply.
MemInv ==
    /\ \A h \in Handles :
          /\ mem[h] = "live" => ptr[h]
          /\ ptr[h] => \/ mem[h] = "live"
                       \/ \E g \in Procs : pc[g] = "detach" /\ call[g].h = h
    /\ \A g \in Procs :
          /\ pc[g] \in Using /\ call[g].h # Nil => mem[call[g].h] = "live"
          /\ pc[g] = "detach" => mem[call[g].h] = "freed"

\* An applied set is freed, or about to be by the Apply that still holds its mutex.
AppliedInv ==
    \A h \in Handles : applied[h] # Nil =>
        \/ mem[h] = "freed"
        \/ \E g \in Procs : pc[g] = "free" /\ call[g].h = h

\* FSCapabilities finds the number of entries it counted.
ScanInv ==
    \A g \in Procs :
        /\ DOMAIN scan[g] = {"count", "i", "access", "caps"}
        /\ ~Scanning(g) => scan[g] = NoScan
        /\ scan[g].count # Nil => scan[g].count = Len(heap[call[g].h].fs)
        /\ scan[g].access # Nil => scan[g].count # Nil /\ scan[g].i < scan[g].count

\* A goroutine that may read the error slot is alone on its thread.
ThreadInv ==
    /\ \A g1, g2 \in Procs : thread[g1] # Nil /\ thread[g1] = thread[g2] => g1 = g2
    /\ \A g \in Procs :
          /\ pc[g] = "inC" /\ M(g).pin => thread[g] # Nil
          /\ pc[g] \in {"failed", "clear"} => thread[g] # Nil

\* A result is a failure's from the failed C call on; its message is the call's own.
ResultInv ==
    \A g \in Procs :
        /\ pc[g] \in {"failed", "clear"} => ~isOK(result[g])
        /\ pc[g] = "exit" => Returned(call[g], result[g]) \subseteq Handles
        /\ DOMAIN result[g] = {"code", "msg", "val"}
        /\ pc[g] \in {"clear", "exit"} /\ result[g].msg \in Procs => result[g].msg = g

(* Everything at once; it implies each of the safety properties.           *)
IInv ==
    /\ TypeOK
    /\ CallInv
    /\ LockInv
    /\ WaitInv
    /\ MemInv
    /\ NoLeak
    /\ AppliedInv
    /\ AppliedIsFinal
    /\ ScanInv
    /\ ThreadInv
    /\ CleanSlots
    /\ ResultInv

(***************************************************************************)
(* What the refinement of NonoAPI needs besides, and the safety            *)
(* properties do not.                                                      *)
(***************************************************************************)
\* A handle somebody can use or finalize has been made.
BornInv ==
    /\ \A h \in roots : mem[h] # "unborn"
    /\ \A h \in Handles : finalizer[h] => ptr[h]
    /\ \A g \in Procs :
          /\ pc[g] # "idle" /\ call[g].h # Nil => mem[call[g].h] # "unborn"
          /\ pc[g] = "exit" => \A h \in Returned(call[g], result[g]) : mem[h] # "unborn"

\* Close makes no C call but nono_*_free.
RouteInv ==
    \A g \in Procs : pc[g] \in {"call", "inC", "failed", "clear"} => call[g].op \notin Closers

\* A success has no message.
OutcomeInv == \A g \in Procs : isOK(result[g]) => result[g].msg = Nil

\* The enumeration s has a copy of the entries of fs before the one it is at.
Copied(s, fs) ==
    /\ s.i \in 0..Len(fs)
    /\ s.caps \in Seq(Range(fs))
    /\ Len(s.caps) = s.i
    /\ \A k \in 1..s.i : s.caps[k] = fs[k]
    /\ s.access # Nil => s.access = fs[s.i + 1].access

CopyInv ==
    /\ \A h \in Handles : IsContent(heap[h])
    /\ \A g \in Procs : Scanning(g) => Copied(scan[g], heap[call[g].h].fs)

AbstractionInv == BornInv /\ RouteInv /\ OutcomeInv /\ CopyInv
=============================================================================
