# Verification of nono-go

`nono-go` is a Go package around a C library (`internal/clib/nono.h`) that
restricts what a process may access. The package has little logic of its own;
what it adds, and what can go wrong in it, is the life of C objects behind Go
handles that are "safe for concurrent use": locks, finalizers, thread-local
error slots, and calls that turn a failed C call into a Go error. This
directory models that, checks it with TLC on small instances and proves its
safety properties with TLAPS for all instances.

Source references are relative to the repository root.

## The system

| component | state | operations | what makes it correct |
|---|---|---|---|
| `CapabilitySet` (`capability_set.go`) | `mu`, `ptr`, a finalizer; the C set behind `ptr` | `New`, `Close`, eight fallible mutators, `Deduplicate`, six readers | `ptr` is never used after the free; writers are alone on the C object; an enumeration shows one version of the set |
| `QueryContext` (`query.go`) | `mu`, `ptr`, a finalizer; a clone of a set | `NewQueryContext`, `QueryPath`, `QueryNetwork`, `Close` | a snapshot of one version; concurrent queries do not mix up their errors; result fields mean what their names say |
| `SandboxState` (`state.go`) | `mu`, `ptr`, a finalizer; a clone of a set | `StateFromCaps`, `StateFromJSON`, `JSON`, `Caps`, `Close` | the same; a restored set is an object of its own |
| `Apply`, package functions (`nono.go`) | none; `Apply` consumes its argument | `Apply`, `IsSupported`, `SupportInfo`, `Version`, helpers | what is in force is what the program last saw in the set; the set is freed once |
| errors (`errors.go`) | the error objects, fourteen sentinels; one message slot per OS thread in C | `mapError`, `staticError`, `Error.Is`, sentinels | a message is that of the call that failed; a slot is left clean; an error matches the sentinel of its code, whatever the program does to other errors |
| C strings (`nono.go`, `query.go`) | C allocations | `goString`, `C.CString` + `C.free` | each freed exactly once, none read after that, each in its own Go field; no string with a NUL byte goes to C |
| C library | the objects and the slots | `nono.h` | a contract the bindings rely on |
| Go runtime | goroutines, threads, reachability | `sync.RWMutex`, `LockOSThread`, finalizers | the same |
| formatting (`format.go`), build files | none | wording; linker flags, build constraints | not modelled |

The components interact through shared memory only. `Apply`, `NewQueryContext`
and `StateFromCaps` take the lock of the set they are given; everything else
uses the lock of its receiver. A goroutine holds at most one lock at a time, so
there is no lock order to get wrong. All of them share the threads' error slots,
and the runtime calls every `Close` a second time, as a finalizer.

The hard parts are the interleavings of method calls with `Close`, `Apply` and
finalizers; the moves of goroutines between OS threads; enumeration in many C
calls; partial failure after a lock, a thread and C memory are taken; error
objects shared by the whole process. Nothing is
persisted and nothing is sent, so there are no crashes or messages to model; no
method has a timeout or retries. `PROJECT.json` lists the hazards line by line.

## Modules

| module | models |
|---|---|
| `RWMutex` | Go's `sync.RWMutex` on one record: announced writer, current readers, parked readers. External. |
| `NonoFFI` | the C functions: what each does to its object and may answer. External; where the header leaves a result open, every answer is allowed. |
| `NonoMethods` | the table of the 30 exported functions and methods (lock, string check, pinning, result on a closed handle, way of failing), results, errors and conversions |
| `NonoAPI` | abstract specification: every call takes effect in one step between its invocation and its return |
| `NonoCalls` | the code: goroutines stepping through their methods, interleaved with each other, the collector and the scheduler; their properties |
| `NonoStrings` | the C strings of the same methods: an allocator that reuses addresses, `C.CString`, `goString`, the deferred frees |
| `NonoErrors` | the error values as objects: sentinels, the errors of the package, and a program that overwrites what it was given |
| `NonoInvariant` | the inductive invariant, in named parts |
| `NonoProofs` | the invariant's proof |
| `NonoSafety` | the safety properties as theorems |
| `NonoResults` | theorems about what goes into C and comes out of `QueryPath` |
| `NonoFinalizer` | the theorem that a finalizer finds its mutex free |
| `NonoAbstraction` | the invariants the refinement needs besides `IInv` |
| `NonoRefinement` | the theorem that `NonoCalls` implements `NonoAPI` |
| `NonoStringsProofs`, `NonoErrorsProofs` | the theorems about `NonoStrings` and `NonoErrors` |
| `MCNono`, `MCStrings`, `MCErrors` | instances for TLC: the calls of each run, symmetry sets |

`NonoMethods` is read by both `NonoAPI` and `NonoCalls`. This is deliberate:
the abstract specification shares what a method is *asked* to do (its argument
checks, its error codes, the C function's outcomes) and has nothing of *how*
(locks, pointers, threads, slots, finalizers, the steps of an enumeration). What a
method answers on a closed handle it states for itself, as the doc comments do
(`ClosedAnswer`): a wrong entry in the table's `closed` column is a violation of
`Linearizable`, not a change of both sides.

`NonoStrings` is a module of its own, not more variables of `NonoCalls`, because
the two share no state: a C string belongs to one call from its allocation to
its free, and no lock has a part in it. It reads the same table of methods.
`NonoErrors` has no calls: two goroutines that each make an error are two
allocations.

### How `NonoCalls` corresponds to the code

Every method has one shape, and `pc` is where a goroutine is in it:

| step of the code | action | `pc` |
|---|---|---|
| `checkNUL`, `caps == nil` | `Reject` / `Proceed` | enter → exit / lock or call |
| `mu.RLock()`, `mu.Lock()` | `ReadLock` / `WriteLock`, then waiting in `check` until `Holds` | lock → check |
| `if ptr == nil` | `FindClosed` / `FindOpen` | check → exit / call or free |
| `LockOSThread`, jump to C | `EnterC` | call → inC |
| the C call | `CSucceed`, `CCreate` (with `&T{ptr: ptr}` and `SetFinalizer`), `CApply`, `CFail`, `CFailStatic` | inC → exit, free, failed |
| the loop of `FSCapabilities` | `ScanCount`, `ScanAccess`, `ScanFields`, `ScanDone` | inC |
| `mapError` | `LastError`, `ClearError` | failed → clear → exit |
| `nono_*_free`; `ptr = nil`, `SetFinalizer(x, nil)` | `Free`, `Detach` | free → detach → exit |
| the deferred calls and the return | `Exit` | exit → idle |
| the caller, the collector | `Invoke`, `Drop`, `Finalize` | |

State of a handle: `mu`, `ptr` (is it non-nil), `finalizer` (is it set), and
`roots`, the handles the program still refers to. State of the library: `mem`
(the object is unborn, live or freed), `heap` (its content) and `lastError`
(whose message is in a thread's slot). `applied` is a history variable: the
content a set had when `nono_sandbox_apply` accepted it.

### How `NonoStrings` corresponds to the code

An address holds nothing or `<<g, i>>`, string `i` of goroutine `g`'s call; 0 is
its argument, 1 to 4 the string fields of what C returned, in the order in which
the code converts them.

| step of the code | action | `pc` |
|---|---|---|
| `checkNUL`, `caps == nil`, `ptr == nil` | `EarlyReturn` | enter → return |
| `C.CString` | `CString` | enter → call |
| the C call; its answer with new strings; its failure | `CallC`; `CReturn`; `CFail` | call → inC → convert or failed |
| `C.nono_last_error()` in `mapError`; `staticError` | `MapError`; `StaticError` | failed → convert; → return |
| `goString(NULL)` | `SkipNull` | convert |
| `C.GoString(s)`, then the deferred `nono_string_free(s)` | `GoString`, `StringFree` | convert → free → convert |
| the next accessor call of `FSCapabilities` | `NextString` | convert → call |
| the deferred `C.free` and the return | `Finish`, `Return` | → return → idle |

`FSCapabilities` makes three calls that return a string per entry; the lock keeps
their number fixed (`Linearizable`, `ScanInv`), so it is chosen at the beginning.
A call that finds all addresses taken waits for one: C memory does not run out in
the code, where `C.CString` aborts the process instead.

### How `NonoErrors` corresponds to the code

`object` is what a `*Error` points to: the sentinels under their names, the errors
`mapError` and `staticError` allocate in `Slots`. `made` remembers the code each
was made with, until the program writes to it. The program may assign a whole
struct through every pointer it was returned (`Overwrite`): `Error` is exported,
so `*p = nono.Error{}` and `*p = *q` are legal Go although the fields are not.
`SentinelsInReach` says whether it also does so through `errors.As` of a sentinel.
`Matches` is `errors.Is` on an error that is not wrapped, `FallsBack` the branch of
`Error()` for an empty message. The numbers in `ErrorCodes` are those of the enum
in `internal/clib/nono.h`; `Unlisted` stands for codes a newer library may add.

### Choices a reader should know of

- **Data.** A path, a command or a document is a model value; a string either
  has a NUL byte or not. An access mode is a set of letters. A query context and
  a state hold a content of the same shape as a set's. `rules` stands for the
  command lists and platform rules, which nothing but `Summary` shows. A JSON
  document is the content it encodes, or malformed. Source tags and group names
  of an entry are left out.
- **Long C calls.** A goroutine stays in `inC` or `free` for as long as the C
  code works on the object. The effect is the step that leaves it; that it could
  be any instant in between is harmless exactly because of `ExclusiveAccess`.
- **Threads.** A pinned goroutine takes a thread at `EnterC` and keeps it until
  `Exit`. An unpinned one may be on another thread at every C call. While it is
  in a C call the model does not reserve that thread for it, which allows more
  interleavings than the runtime has.
- **Errors.** A failing C call may or may not leave a message. `NewQueryContext`
  and `StateFromCaps` report a NULL with `staticError`; as the comment at
  `errors.go:119-121` says, no message is left then. The header is silent.
- **Unreachable branches are kept**, the skip of an invalid access mode in
  `FSCapabilities` for one: they become reachable under the mutants.
- **`New`'s panic** on a nil pointer is the result code `"panic"`.
- **The deferred calls** (`C.free`, `UnlockOSThread`, `Unlock`) and the return
  are one step: no other goroutine can tell the moment between them, since each
  only gives something up.
- **Finalizers** run on handles the collector cannot reach (`Reachable`): no
  variable of the program refers to it, no call is about to lock it, none is in
  its mutex and none is about to return it (`Refers`). The code has no
  `runtime.KeepAlive`. While C works on the object the goroutine has the bare
  pointer only, and what keeps the handle alive is the pending `mu.Unlock`; that
  is modelled by membership of the mutex (`InMutex`), so a method that unlocked
  before it called C could have its object finalized under it. The mutant
  `FindOpenUnlocks` does that.
- **An enumeration** asks for the count, and per entry for the access mode and then
  for the other five fields. These five C calls are one step (`ScanFields`), and
  the original and the resolved path are one path: with the read lock held
  throughout nothing happens between them that they could show. In `NonoStrings`
  the three strings of an entry all come as field 1 of a call of their own, so a
  swap among these three would not be seen; the four fields of a query result are
  told apart.
- **A failing query fills nothing.** `query.go:83-85` frees no field of the result
  when `nono_query_context_query_path` fails, and `CFail` of `NonoStrings` has it
  allocate none. The header (`nono.h:563-569`) does not say so: the code relies on it.
- **An object has the name of its handle**, so that two handles on one C object
  cannot be expressed. That each clone is a new object is what `nono.h` promises;
  the properties say who frees it, not that the library keeps that promise.
- **Handles are not reused.** `CapsHandles`, `QueryHandles` and `StateHandles`
  bound how many a run can make: with all of them made, a creating call can only
  fail, which a real call may do too. `New` can then only panic.

## Runs

`Strings` is a run of `MCStrings`, `Sentinels` and `Overwritten` are of `MCErrors`, the
others of `MCNono`. Deadlock is checked in each.

| run | instance | question |
|---|---|---|
| `Caps` | 3 goroutines, 3 threads, 1 set, at most 2 entries | Do enumeration, mutation, `Apply`, `Close` and the finalizer on one set ever touch a freed or busy object, or change an applied set? Are the calls linearizable? `IInv`, whose parts on `Apply` and on enumeration `Errors` does not reach, and `AbstractionInv` are checked here before they are proved. |
| `Errors` | 3 goroutines, 3 threads, a set, a query context, a state | C calls fail under the write lock, a shared read lock and no lock. Does every error carry its own message, is any message lost, and is every slot cleaned? `IInv` is checked here before it is proved. |
| `Life` | 2 goroutines, 2 sets, 1 state | Do making, changing, cloning, restoring, dropping and closing leave an object without an owner? Is a clone taken of a set another goroutine is changing one version of it? Does a finalizer ever wait for a mutex, or close a handle under a call? |
| `Methods` | 1 goroutine and the collector; every method of `CapabilitySet`, good and bad arguments | Does each do what the atomic specification says, before and after `Close` and `Apply`? Does C ever get a string with a NUL byte? |
| `Snapshots` | the same for every other function and method | Are contexts and states snapshots? Do the fields of a query result mean what they say? Does `QueryPath` or `StateFromJSON` ever give C a string with a NUL byte? |
| `Live` | 3 goroutines, 1 thread, 1 set, fair; enumerations, a mutation, `Close` | Does every call return, and is every dropped object freed? |
| `Strings` | 2 goroutines, 5 addresses; a call of every kind that has strings | Is every C string freed once, never read after that, and converted into the right field? |
| `Sentinels` | 2 errors at a time, a program that overwrites them | Do the sentinels and the other errors stay what they were? Does an error match the sentinel of its code only? |
| `Closed` | as `Methods` | Expected violation, see below. |
| `FromJSON` | as `Snapshots` | Expected violation, see below. |
| `Overwritten` | as `Sentinels`, but the program also assigns through sentinels | Expected violation, see below. |

*Why these bounds.* A hazard needs the goroutine it hits and the one that
causes it; the third goroutine shares a read lock with the first, waits behind
the second, or reuses its thread. The collector is one process more in every run.
A handle's lock, pointer and object are independent of other handles', so one
handle of a kind is enough for races on it; `Life` has two sets because
`Caps` makes a second from the first's clone. Two entries are the least an
enumeration can be torn or a deduplication can shorten. Goroutines and
threads are interchangeable, and symmetry is used except in `Live`. Bounds are
the constants `CapsHandles`, `QueryHandles`, `StateHandles` and `MaxEntries`
(the library refuses more entries, which it may do anyway); no step is
otherwise limited. In `Strings` five addresses are what the largest call owns at
once, an argument and four fields; with two goroutines a freed address then has
to be reused by the other. `MaxEntries = 1` gives `FSCapabilities` three strings
or none. In `Sentinels` two slots let one error be copied over another; the
memory of a forgotten error is used again, so a run makes any number of them.

*What the properties say.*

- `NoUseAfterFree`, `ExclusiveAccess`, `AppliedIsFinal`: memory safety of the C
  side, and no lost mutation between apply and free.
- `ErrorAttribution`, `CleanSlots`: the error slots. The second is what
  `state.go:73-76` argues to leave out a `nono_clear_error` on success.
- `NoMessageLost`: a message leaves its slot only when its own call has copied it.
  `ErrorAttribution` alone would accept "unknown error" in place of a message that
  another call overwrote or that `mapError` cleared too early.
- `NoLeak`: a live object has a finalizer or a `Close` in progress.
- `NoTruncatedString`, `QueryAnswersCall`: arguments in, results out.
- `FinalizerUncontended`: the runtime runs all finalizers in one goroutine, so one
  that waited for a mutex would hold up all the others. None does: a handle gets a
  finalizer before anybody else sees it and is finalized when nobody does any more.
- `NoDanglingString`, `NoStringLeak`, `FaithfulStrings`: each pointer a call is
  still going to read or free holds the string it was made for; each string in
  memory has a call that still owes its free; each Go string is the copy of its own
  C string. The first two say together that the strings in memory are exactly those
  owed, which is what "freed exactly once on every way out" means.
- `SentinelsStable`, `MatchesItsSentinel`, `NoFallbackText`: the error values. No
  pointer the package returns is a sentinel's, so a program that spoils its own
  errors spoils nobody's `errors.Is`.
- `Linearizable`: `NonoCalls` implements `NonoAPI` (`API!Spec` under the
  refinement mapping at the end of `NonoCalls`). A call takes effect when its C
  call ends, `Close` when its free does, an enumeration when its last entry is
  read, a rejected call when it is rejected.
- `IInv`, `AbstractionInv`, `StringInv`, `ErrorInv`: the invariants of the proofs below.
- `CallsReturn`, `Reclaimed`: liveness. `CallsReturn` answers the warning at
  `capability_set.go:310-315`: a long enumeration delays writers but cannot
  starve them, since `RWMutex` parks readers that arrive after a writer.

Each property of a passing run has a mutant in `PROJECT.json`: a plausible bug
in one definition of the code (a pin dropped, a lock weakened, a finalizer not
set, fields swapped) that makes TLC find the property violated. The mutants are
definitions marked `Mutant:` beside the ones they change and are used nowhere.

### Fairness

`FairSpec` assumes, for every goroutine, weak fairness of its steps (the
scheduler runs every runnable goroutine, C calls return) and strong fairness of
`WriteLock`. The latter is the inner `sync.Mutex` of `RWMutex`, which is handed
to a waiter after a millisecond of starvation: several writers may take it over
and over, but none is passed over for ever. Readers need nothing of the kind.
Weak fairness of `Finalize` says that garbage collections keep happening while
something is unreachable. Nothing obliges the program to make a call, to drop a
handle or to close one.

### Disagreement with the documentation

`Closed` checks the sentence of the type's doc that "subsequent calls on a
closed set return an error" (`capability_set.go:20`) for the methods that have
an error result. `PathCovered` returns `(false, nil)` (`capability_set.go:271`),
as its own comment and `nono_test.go:978` say; the doc of the type is wrong
about it.

`FromJSON` checks "The error code is always ErrCodeUnknown" in the doc of
`StateFromJSON` (`state.go:47`). A document with a NUL byte is rejected by
`checkNUL` with `ErrCodeInvalidArg` (`state.go:54`), and `nono_test.go:936-942`
expects that. The sentence is true of failures of the C function only.

`Overwritten` checks the comment on the sentinels (`errors.go:39-41`): "Both fields
of [Error] are unexported, so callers cannot mutate sentinel values through an
errors.As pointer — the error codes are stable for the lifetime of the process".
`errors.As` gives the caller the sentinel's own pointer, as `nono_test.go:758-766`
tests, and Go allows an assignment to the whole struct. The run shows `*p = *q` with
`p` at `ErrPathNotFound` and `q` at `ErrUnknown`: from then on `ErrPathNotFound` has
the code of `ErrUnknown`, and `errors.Is` finds no `ErrPathNotFound`. Under `SentinelsInReach =
FALSE`, with programs that do not do this, the codes are stable: that is what
`Sentinels` checks and `NonoErrorsProofs` proves.

Seen on the way, without a run: on a closed set `NetworkMode` answers
`NetworkBlocked` and `IsNetworkBlocked` answers false (`capability_set.go:150`,
`:290`), both as documented; the repository's `README.md` calls `state.ToJSON`,
`restored.ToCaps` and sentinels as functions (lines 129, 141, 154-159), where
the code has `JSON`, `Caps` and variables.

## Proofs

`NonoProofs` proves `Invariance == Spec => []IInv`. `NonoSafety` derives properties
from it; `NonoResults`, `NonoFinalizer` and `NonoAbstraction` extend it by
invariants of their own, and `NonoRefinement` uses all of these:

| theorem | property |
|---|---|
| `TypeCorrectness` | `TypeOK` |
| `MemorySafety` | `NoUseAfterFree` |
| `SafeForConcurrentUse` | `ExclusiveAccess` |
| `ErrorsAreAttributed` | `ErrorAttribution` |
| `SlotsAreCleared` | `CleanSlots` |
| `ObjectsHaveOwners` | `NoLeak` |
| `AppliedSetsAreFrozen` | `AppliedIsFinal` |
| `MessagesAreRead` | `NoMessageLost` |
| `StringsArriveWhole` (`NonoResults`) | `NoTruncatedString` |
| `QueriesAreAnswered` (`NonoResults`) | `QueryAnswersCall` |
| `FinalizerDoesNotWait` (`NonoFinalizer`) | `FinalizerUncontended` |
| `AbstractionInvariance` (`NonoAbstraction`) | `AbstractionInv` |
| `Refinement` (`NonoRefinement`) | `Linearizable` |

They hold for any sets of goroutines, threads, handles and calls, any C
contents and any failures, under the assumptions `NonoCalls` names: `Nil` is no
process, thread or handle; the collector is not one of the program's
goroutines; messages of the package are not names of processes (a message of
the library is represented by the goroutine whose call failed), and `Nil`, which
stands for no message, is none of them; `"OK"` is no
error code; a document that parses describes a content; a call names an operation of the table, and has a handle if the
operation has a receiver; a path lies under itself (`UnderAssumption`, used for
an entry that is a file).

The safety properties are not inductive. `NoUseAfterFree` needs that whoever
is between the nil check and the end of its C call still holds the lock
(`LockInv`) and that a non-nil `ptr` points to a live object except in the hands
of the goroutine about to clear it (`MemInv`). Locks in turn need that a mutex
names no goroutine but those in its critical section or queue (`LockInv`) and all
of those waiting in it (`WaitInv`), that readers and
parked readers are disjoint (else `RUnlock` and `Unlock` could let one goroutine
in twice), and that a method which got past its argument checks has a handle if
and only if it has a lock (`CallInv`). `AppliedIsFinal` needs that an applied
set is freed or held by the `Apply` about to free it (`AppliedInv`). The
enumeration needs that its count is still the length of the list (`ScanInv`);
otherwise an index out of bounds would leave a message in some thread's slot, and
`CleanSlots` would fall. `ErrorAttribution` needs that a goroutine that may fail
is alone on its thread (`ThreadInv`) and that a message once copied is the
call's own (`ResultInv`).

The proof has one lemma per part of the invariant and group of actions; the
lemmas about the mutex (`Exclusion`: a writer that holds it excludes everybody)
and about the table of methods (`LockPolicy`, `CloserPolicy`: what is in
`Mutators` takes the write lock) carry the argument, the rest is bookkeeping.

`NonoResults` adds that a method past its first step found its arguments good
(`VettedInv`). `QueryAnswersCall` then needs no further strengthening: a
successful `QueryPath` comes from `CSucceed` only, and there each answer of the
library's contract, converted by `extractQueryResult`, is about the call's own path
and mode.

`NonoFinalizer` needs to know why nobody wants the mutex. `FinalizerInv` says that
the handle being finalized is not in `roots`, has been made, and that no goroutine
works on it, is in its mutex or is about to return it (`Away`). At the start of the
finalizer this comes from the collector's view, which knows of mutexes only: a
goroutine between its lock and its unlock is in the mutex (`InMutexInside`, from
`LockInv` and `WaitInv`), so one that is not has nothing to do with the handle. It
stays so because a call is made on a handle of `roots` only, `roots` grows only by
a handle a creator has just made, and this one exists already (`AwayStep`).

`NoMessageLost` needs besides `IInv` that a goroutine which has passed
`nono_last_error` holds the copy of what is in its slot (`ReportInv`). `SlotsChange`
carries the proof: a slot is filled only by a failing call that found it empty and
emptied only by the `ClearError` of the same goroutine, since that goroutine is
pinned and alone on its thread from the call to `nono_clear_error`.

### The refinement

`Refinement == Spec => Linearizable` says that every behaviour of `NonoCalls` is,
seen through the mapping at the end of that module, one of `NonoAPI`: a handle is
*open* as long as its object is live and no `Apply` has consumed it (`Status`), a
call is *done* once it has acted (`Stage`), and its result is what `mapError` is
going to make of it (`Reported`).

| step of `NonoCalls` | step of `NonoAPI` |
|---|---|
| `Invoke`, `Drop`, `Finalize`, `Exit` | `Invoke`, `Drop`, `Collect`, `Return` |
| `Reject`, `FindClosed` | `Reject`, `FindClosed` |
| `CSucceed`; `CCreate`; `CApply`; `ScanDone` | `Work`; `Create`; `Activate`; `List` |
| `CFail`, `CFailStatic` | `Fail` |
| `Free` of a `Close` | `Close` |
| every other | none |

"None" covers all of the locking, pinning, the reads of an enumeration, both
steps of `mapError`, the free after an `Apply` and the detaching of a handle: no
caller can see them. That the abstract step is *enabled* where the table puts it is
the content of the proof:

- A call that works on its object must find its handle open. Whoever is in the
  call holds the lock (`LockInv`), its object is live (`MemInv`), and an `Apply`
  that has consumed the set would exclude it (`Exclusion`): lemma `OpenInUse`.
- A call that finds `ptr` nil must find its handle closed, so the handle must have
  been made at some time: `BornInv`. The same invariant says that a handle with a
  finalizer has its pointer, so that `Collect` finds it open. Its answer must be the
  one `NonoAPI` states: lemma `ClosedAnswers`.
- `Collect` is allowed only when no call in progress has yet to act on the handle,
  while `Finalize` asks who is in the mutex: again `InMutexInside`.
- `CSucceed` and the failures must not be steps of a `Close`, which makes no C call
  but the free: `RouteInv`.
- An enumeration must return the whole list of one instant, though it was read
  in many C calls: it has copied the entries it is past, from the list that is
  still there because the read lock keeps writers out. This is `CopyInv`, on top of
  `ScanInv`; that a list of entries remains one under every mutation
  (`IsContent`, lemma `MutatedContent`) belongs to it.
- `Reported` must show a failure the same before, between and after the steps of
  `mapError`, and must leave a success alone: `ErrorAttribution` with `OutcomeInv`,
  by which a success has no message.

Since `NonoAPI` shares the table of methods, an instance of it defines every
operator of `NonoMethods` and `NonoFFI` a second time under `API!`. The lemmas whose
names begin with `Same` say that these are equal; after them one lemma per step of the table
remains, and five that the other steps change nothing visible.

### Strings and errors

`NonoStringsProofs` proves for any number of goroutines and addresses:

| theorem | property |
|---|---|
| `StringInvariance` | `StringInv` |
| `NoStringDangles` | `NoDanglingString` |
| `NoStringLeaks` | `NoStringLeak` |
| `StringsAreFaithful` | `FaithfulStrings` |

The two properties about the heap are inductive only together: what keeps a freed
address from being read is that no second pointer is owed it, and that follows
from each owed address holding the name of its owner. To this `StringInv` adds
that the argument is copied once (`ArgumentInv`) and that the field being freed
has been copied (`CopiedInv`). Assumed is that `Nil` is neither an address nor a
goroutine and that `MaxEntries` is a number.

`NonoErrorsProofs` proves `ErrorInvariance` (of `ErrorInv`), `SentinelsAreStable`,
`ErrorsMatchTheirSentinel` and `ErrorsHaveText`, each for any number of errors and any texts, under
`~SentinelsInReach`; `Overwritten` shows that they need it. The invariant is that what
the program can write to was allocated by the package (`returned \subseteq Slots`),
and that an error it has not written to keeps its code and a text. The assumptions
are that a slot is not a sentinel and that unlisted codes are none of the enum's.

### Only model-checked

- `CallsReturn` and `Reclaimed`: reasoning about fairness and `ENABLED` is out of
  TLAPS's reach. `Linearizable` as proved is a safety property for the same
  reason: `API!Spec` has no fairness, and that calls take effect at all is
  `CallsReturn`.
- Absence of deadlock, which is a statement about `ENABLED` as well.
- What can be said only by induction over data, such as that `Deduplicated` always
  has an answer. The proofs do not need it: where it had none, there would be no
  step. No module uses `RECURSIVE`.

## Not modelled

- the wording of errors and of the `String` methods in `format.go`;
- `errors.Is` and `errors.As` on an error the program has wrapped, and a program
  that assigns to the exported variables `Err*` themselves;
- whether C functions that cannot fail by their signature still leave a message:
  `capability_set.go:273-274` says that `PathCovered` sets none, and the model takes
  that for all of them, with indices in bounds;
- numbers: modes, ports and indices are passed through unchanged, and the one
  conversion with a width (`uint16` port to `C.uint16_t`) cannot lose anything;
- calls on a nil receiver, which panic at `mu`;
- a panic in the middle of a method: none of the methods can, `New` excepted,
  which holds nothing then;
- the kernel's side of `Apply`, and the library's internals;
- build constraints, linker flags, scripts, CI.

## Plan

Done: everything above. Open: a proof that `RWMutex` excludes by itself,
independent of the methods that use it, and an abstract lock it implements. What
`IInv` says of the mutex (`LockInv`, lemma `Exclusion`) is at present proved for the
goroutines of `NonoCalls` only.
