------------------------------ MODULE NonoAPI ------------------------------
(***************************************************************************)
(* What the package promises its callers: the types are "safe for          *)
(* concurrent use", so a call takes effect at one instant between its      *)
(* invocation and its return, whatever the other goroutines, the garbage   *)
(* collector and the OS threads do meanwhile.  NonoCalls, which has the    *)
(* locks, the C pointers and the C calls, implements this module.          *)
(***************************************************************************)
EXTENDS NonoMethods

CONSTANTS
    Goroutines,  \* the goroutines of the program
    Collector,   \* the runtime's goroutine that runs finalizers
    Calls        \* the calls the program makes

VARIABLES
    status,   \* of each handle: "unborn", "open" or "closed"
    content,  \* of the C object behind each handle
    st,       \* of each goroutine: "idle", "invoked" or "done"
    call,     \* its call in progress
    result,   \* what that call is going to return
    roots,    \* the handles the program still refers to
    applied   \* the content each handle was applied with, or Nil

vars == <<status, content, st, call, result, roots, applied>>

Procs == Goroutines \cup {Collector}

\* The message of an error the library reported for this very call.
FromLibrary == "from the library"

Init ==
    /\ status = [h \in Handles |-> "unborn"]
    /\ content = [h \in Handles |-> EmptyContent]
    /\ st = [g \in Procs |-> "idle"]
    /\ call = [g \in Procs |-> NoCall]
    /\ result = [g \in Procs |-> NoResult]
    /\ roots = {}
    /\ applied = [h \in Handles |-> Nil]

Finish(g, r) ==
    /\ st' = [st EXCEPT ![g] = "done"]
    /\ result' = [result EXCEPT ![g] = r]
    /\ UNCHANGED <<call, roots>>

\* The call got past its argument checks and has an open handle, or needs none.
Effective(g) ==
    /\ st[g] = "invoked"
    /\ ArgumentError(call[g]) = NoResult
    /\ call[g].h # Nil => status[call[g].h] = "open"

Invoke(g, c) ==
    /\ st[g] = "idle"
    /\ c.h \in roots \cup {Nil}
    /\ st' = [st EXCEPT ![g] = "invoked"]
    /\ call' = [call EXCEPT ![g] = c]
    /\ UNCHANGED <<status, content, result, roots, applied>>

Reject(g) ==
    /\ st[g] = "invoked"
    /\ ArgumentError(call[g]) # NoResult
    /\ Finish(g, ArgumentError(call[g]))
    /\ UNCHANGED <<status, content, applied>>

\* What the doc comments promise for a closed handle.
ClosedAnswer(op) ==
    CASE op \in Closers                             -> Ok(Nil)
      [] op = "NetworkMode"                         -> Ok("Blocked")
      [] op = "ProxyPort"                           -> Ok(0)
      [] op \in {"PathCovered", "IsNetworkBlocked"} -> Ok(FALSE)
      [] op \in {"Summary", "FSCapabilities"}       -> Ok(Nil)
      [] op \in {"QueryPath", "QueryNetwork"}       -> staticError("InvalidArg", "query context is closed")
      [] op \in {"JSON", "Caps"}                    -> staticError("InvalidArg", "sandbox state is closed")
      [] OTHER                                      -> staticError("InvalidArg", "capability set is closed")

FindClosed(g) ==
    /\ st[g] = "invoked"
    /\ ArgumentError(call[g]) = NoResult
    /\ call[g].h # Nil
    /\ status[call[g].h] = "closed"
    /\ Finish(g, ClosedAnswer(call[g].op))
    /\ UNCHANGED <<status, content, applied>>

\* A getter, a query or a mutation; without a handle, a constant of the library.
Work(g) ==
    LET c == call[g] IN
    /\ Effective(g)
    /\ c.op \notin Creators \cup Closers \cup {"Apply", "FSCapabilities"}
    /\ \E o \in Outcomes(c.op, IF c.h = Nil THEN EmptyContent ELSE content[c.h], c.str, c.val) :
          /\ content' = IF c.h = Nil THEN content ELSE [content EXCEPT ![c.h] = o.post]
          /\ Finish(g, Ok(GoValue(c.op, o.val)))
    /\ UNCHANGED <<status, applied>>

List(g) ==
    /\ Effective(g)
    /\ call[g].op = "FSCapabilities"
    /\ Finish(g, Ok(content[call[g].h].fs))
    /\ UNCHANGED <<status, content, applied>>

Create(g) ==
    LET c == call[g] IN
    /\ Effective(g)
    /\ \E n \in {h \in Makes(c.op) : status[h] = "unborn"} :
       \E new \in Produced(c.op, IF c.h = Nil THEN EmptyContent ELSE content[c.h], c.str) :
          /\ status' = [status EXCEPT ![n] = "open"]
          /\ content' = [content EXCEPT ![n] = new]
          /\ Finish(g, Ok(n))
    /\ UNCHANGED applied

\* The policy is in force and the set consumed, in one step.
Activate(g) ==
    /\ Effective(g)
    /\ call[g].op = "Apply"
    /\ status' = [status EXCEPT ![call[g].h] = "closed"]
    /\ applied' = [applied EXCEPT ![call[g].h] = content[call[g].h]]
    /\ Finish(g, Ok(Nil))
    /\ UNCHANGED content

Close(g) ==
    /\ Effective(g)
    /\ call[g].op \in Closers
    /\ status' = [status EXCEPT ![call[g].h] = "closed"]
    /\ Finish(g, Ok(Nil))
    /\ UNCHANGED <<content, applied>>

Fail(g) ==
    /\ Effective(g)
    /\ \E r \in {mapped(code, FromLibrary) : code \in ErrorCodes(call[g].op)}
                  \cup SilentFailures(call[g].op) : Finish(g, r)
    /\ UNCHANGED <<status, content, applied>>

Return(g) ==
    /\ st[g] = "done"
    /\ st' = [st EXCEPT ![g] = "idle"]
    /\ call' = [call EXCEPT ![g] = NoCall]
    /\ result' = [result EXCEPT ![g] = NoResult]
    /\ roots' = roots \cup Returned(call[g], result[g])
    /\ UNCHANGED <<status, content, applied>>

\* The program forgets h.
Drop(h) ==
    /\ h \in roots
    /\ roots' = roots \ {h}
    /\ UNCHANGED <<status, content, st, call, result, applied>>

\* A call that has still to take effect keeps its handle open.
Reachable(h) ==
    \/ h \in roots
    \/ \E g \in Procs : \/ st[g] = "invoked" /\ call[g].h = h
                        \/ st[g] # "idle" /\ h \in Returned(call[g], result[g])

\* The finalizer of an unreachable, unclosed handle starts.
Collect(h) ==
    /\ status[h] = "open"
    /\ ~Reachable(h)
    /\ st[Collector] = "idle"
    /\ st' = [st EXCEPT ![Collector] = "invoked"]
    /\ call' = [call EXCEPT ![Collector] = CloseCall(h)]
    /\ UNCHANGED <<status, content, result, roots, applied>>

Perform(g) ==
    \/ Reject(g) \/ FindClosed(g) \/ Work(g) \/ List(g) \/ Create(g)
    \/ Activate(g) \/ Close(g) \/ Fail(g) \/ Return(g)

Next ==
    \/ \E g \in Goroutines, c \in Calls : Invoke(g, c)
    \/ \E g \in Procs : Perform(g)
    \/ \E h \in Handles : Drop(h) \/ Collect(h)

Spec == Init /\ [][Next]_vars
=============================================================================
