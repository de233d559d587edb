# A specification of cygcd

cygcd wraps libdispatch (Grand Central Dispatch) for Python in one Cython file,
`src/src/cygcd/_core.pyx`. Every class of it has the same shape: a method checks
its arguments under the interpreter lock, takes references on the Python objects
it hands over, gives the lock up (`with nogil`) for one libdispatch call, and a
*trampoline* later takes the lock on a libdispatch thread, runs the Python callable
and gives a reference back. What is hard about it is what happens between those
steps, in which any other thread may run. These modules model that.

Line numbers without a file name refer to `_core.pyx`.

## The system

| component (lines) | state | operations | other components | what makes it correct |
|---|---|---|---|---|
| `Queue` (592-869) | native queue: items, suspension count, activation, target; wrapper: `_owned`, `_inactive` | `run_async`, `run_sync`, `barrier_async`, `barrier_sync`, `after`, `suspend`, `resume`, `activate`, `set_target_queue`, `__dealloc__` | hands callables to `_python_callback` | a callable is alive until it has run and is freed after; order and exclusion of tasks; blocking calls return; dropped work is done |
| global and main queues (671-705) | none of their own | `global_queue`, `main_queue` | not owned: never released | barriers have no effect on a global queue |
| trampolines (542-589) | none | `_python_callback`, `_python_timer_callback`, `_python_timer_cancel_callback`, `_python_apply_callback` | called by libdispatch | one reference given back per reference taken, also when the callable raises |
| `Timer`, `SignalSource`, `ReadSource`, `WriteSource`, `ProcessSource` (1284-1885) | `_started`, `_cancelled`, `_handler`; native source: suspended, cancelled, event pending | constructor, `start`, `cancel`, `set_timer`, `__dealloc__` | deliver on a `Queue` | resumed exactly once, never released suspended; handler given back once; events handled |
| `Once` (1201-1233) | native predicate | `__call__` | `_python_callback` | one callable runs; calls wait for it; no self-deadlock |
| queue context (468-514, 875-917) | `_context_id`, `_has_context`, registry `_object_contexts`, native context pointer | `set_context`, `get_context`, native finalizer | runs at disposal of a `Queue` | every finalizer called exactly once |
| queue-specific data (519-538, 919-995) | `_queue_specific_data`, `_queue_specific_keys`, native table | `set_specific`, `get_specific` | reads the current queue | a value is alive while it can be read; ids are not reused |
| `apply` (999-1027) | none | `apply` | `_python_apply_callback` | the borrowed callable outlives the blocking call |
| `Group` (1028-1130) | native count and notifications | `run_async`, `enter`, `leave`, `wait`, `notify` | `Queue` | notify and wait see every task that entered |
| `Semaphore` (1131-1200) | native value | `wait`, `signal` | used by `Workloop.run_sync` | no signal lost, also when a wait times out |
| `Workloop` (2210-2366) | `_inactive`; native queue | `run_async`, `run_sync`, `activate`, `set_autorelease_frequency` | `Semaphore` | `run_sync` returns after the callable and raises what it raised |
| `IOChannel` and callback registry (371-455, 2367-2655) | `_closed`, `_cleanup_handler`, `_iochannel_callbacks` | `read`, `write`, `barrier`, `close`, water marks, `__dealloc__` | callbacks on a `Queue` | a callback is registered until its last delivery and removed by it |
| `Data` (1888-2109) | immutable native buffer | `concat`, `subrange`, `copy_region`, `apply` | none | agrees with operations on byte strings |
| `read_async`, `write_async` (2136-2207) | none | both | `Queue.run_async` | handler called once |
| `time_from_now`, `walltime` (1236-1281) | none | both | `dispatch_time` | exact in 64 bits |

Python code runs only under the interpreter lock, so it is atomic between two
points where the lock may be lost: a `with nogil`, a call of a Python callable,
and the interpreter's own switching while ordinary Python code runs. libdispatch
is not part of the repository. What the code relies on it to do is modelled in
actions whose name mostly begins with `Native` or `Invoke`, and those are marked external in
`PROJECT.json`; their reference is the documentation in `src/docs/headers/dispatch`.

## The modules

| module | models |
|---|---|
| `QueueContract` | what a queue promises, abstractly |
| `DispatchQueue` | `Queue` and `_python_callback` over libdispatch |
| `DispatchSource` | the five source classes and their two trampolines |
| `OnceToken` | `Once` |
| `QueueContext` | `set_context` and the finalizer registry |
| `QueueSpecific` | `set_specific`, both forms of `get_specific`, the destructor |
| `Semaphore` | `Semaphore`: operations for the modules that use one |
| `GroupWork` | `Group`, with tasks on a bounded pool that use `Semaphore`s |
| `Workloop` | `Workloop`, whose `run_sync` uses a `Semaphore` |
| `IOChannel` | `IOChannel`, the callback registry and its three trampolines |
| `..._proofs` | theorems about the module of that name |
| `MC...` | the instances of each module that TLC checks, one `.cfg` per run |

`GroupWork` and `Workloop` compose with `Semaphore` (`Sem == INSTANCE Semaphore`): the
semaphore's variables are theirs, and their actions say who waits and signals when.
`DispatchQueue` implements `QueueContract`.
The definitions that `PROJECT.json` maps stand for 1104 of the 2159 lines of `_core.pyx`
that are not blank; the rest is what *Not modelled* lists, the docstrings, and declarations.

A definition whose name ends in `Wrong` is a faulty variant of the definition that
follows it. No specification uses it: it shows which mistake a property is there for.

### DispatchQueue

`Ctx` are the contexts that may hold the interpreter lock `gil`: threads of the
program and callables being run. A submitting method is `Submit` (everything up to
`with nogil`: the reference, the pointer handed over, the lock given up), then
`NativeEnqueue` (the libdispatch call), and for the blocking ones `SyncReturn`. An
item goes through the phases *held* (reference taken, call being made), *delayed*
(`after`), *queued*, *invoked* (on a libdispatch thread, waiting for the lock in
`with gil`), *running* and *done*. `TrampolineEnd` is the `finally` clause: it is the
same step whether the callable returned or raised. `suspend`, `resume`, `activate` and
`set_target_queue` are two steps each for the same reason, and `ActivateReturn` is what
`activate` still has to do when it holds the lock again (clear `_inactive`). An item that
was taken off the queue when `suspend` is called still runs, although its callable may
begin only after `suspend` has returned. `DropRef` is the program losing its last reference to a
callable, `DropWrapper` is `__dealloc__`.

libdispatch's own rules: `NativeInvoke` takes an item whose queue and whose targets
are all active and not suspended (`Open`), after the items `ahead` it conflicts with,
and beside no executing item that `Excludes` it through a shared target. `ahead` is
what was unfinished on the queue when the item was enqueued.

The program is assumed to follow the documentation where it says that the result is
otherwise undefined: calls of `resume` balance calls of `suspend`, a queue is
retargeted, or given back its default target by `set_target_queue(None)`, before it is
given tasks (724-726), blocking calls are nested along `SyncFrom`
only, which the runs keep acyclic (the warning at 760), and a suspended queue is not
released.

`before[t]` is a history variable: the tasks already enqueued on t's queue when t's
method was called. Order is claimed with respect to it, since a caller cannot know more.

### DispatchSource

The five classes repeat the same code. They differ in the events that arrive, and only a `Timer`
has `set_timer` (`timers` are those made as one); each constructor is an action. A source is
born suspended with two references on its handler: one for libdispatch, one in `_handler`.
`Cancel` and `Start` set their flag under the lock and then give it up; `CancelAgain` is the
early return. `Dealloc` is one step, as `__dealloc__` keeps the lock. `EventBegin`/`EventEnd`
are `_python_timer_callback`, which keeps the reference, `Farewell` is
`_python_timer_cancel_callback`, which gives it back. libdispatch merges events that arrive
while one is pending, delivers none once the source is cancelled, and calls the cancel handler
once, after the last event handler and only on a source that is not suspended.

### OnceToken

The predicate is `zero`, `running` or `done`; the code only asks whether it is zero.
A call is made by a thread or from inside a callable (`Inside`). The lock is not a
variable here: no call blocks while holding it, and each action is one stretch under
the lock or one libdispatch step.

### QueueContext

`set_context` is cut at the two points where others run: the old finalizer's call, and
the native call. A finalizer that itself calls `set_context` is, for the state modelled,
another thread that runs at the first. The context number given to libdispatch is
modelled by what the cast does: number 0 is the NULL pointer.

### QueueSpecific

A value has references from three sides: `_queue_specific_data`, libdispatch's own table,
and calls on their way there. Two calls may reach dictionary and table in different order,
after which the two hold different values; the count of each must still be right. Keys
and queues are named by `id()`: `Address` may map two keys to one address, of which only
one exists at a time, and `Reuse` makes a new queue at the address of one that is gone.
`get_specific` reads a plain pointer (`NativeGet`) and takes its reference one step later
(`GetReturn`). `Queue.get_specific` holds its queue's wrapper meanwhile; the function
`get_specific` holds none, so that `Dealloc` may come in between, but code that a queue runs
keeps the native queue. Which queue of the hierarchy answers is libdispatch's affair (`Found`).
The history variable `intact` is the place the pointer was read from, until that is written or
its queue disposed of; the value may be freed already after that.

### Semaphore and GroupWork

`Semaphore` is the value, the sleepers and the two ways out of a wait, `Signal` and
`TimeOut`, which cannot both have the same sleeper. `GroupWork` is a group with members of
both kinds: tasks (`run_async`) and marks (`enter`/`leave`). Tasks run on `Pool` threads
and hold their thread while they sleep. Those in `Throttled` pass through a semaphore that
lets `Capacity` in, and may give up waiting for it; those in `Awaiting` then wait for one in
`Providing` to signal another semaphore. These are the uses that the package's guides show.
The assumption on `Awaiting` leaves one thread to those that are waited for: without it the
pool is exhausted, which is a mistake of the program and not of this code. Only one thread is in
`wait()` at a time, as `group.h` demands.

### Workloop

The flag `_inactive` is tested under the lock, the libdispatch call is made without it, and
`activate` clears the flag when it has the lock again. `terminated` is libdispatch ending the
process because of a call it forbids. `run_sync` tests the flag, makes a semaphore, and calls
`run_async`, which tests it again; the model tests once, since a flag that is clear stays clear.
`refs` counts what libdispatch is given to call: the callable of `run_async`, with the reference
that method takes, or the `wrapper` that `run_sync` makes, with one more that the frame of
`run_sync` holds until it is over. The callables that the workloop runs call its methods as the
threads do. One that calls `run_sync` waits for ever, as the workloop takes up nothing else
before it ends; the code does nothing against it, and the package's README warns of it for
serial queues only. `End` is the end of the callable inside the `wrapper` of `run_sync`, with
each of the three ways a Python callable ends; `SignalDone` is the `finally` clause.

### IOChannel

A block given to libdispatch holds a number, under which the trampoline finds the callback
in `_iochannel_callbacks`. A method tests `_closed`, registers the callback and makes the
block in one step (`Submit`), although the lock may be lost between the test and the
registration (a `Data` object or the default queue is made there): nobody else can see the
difference, since what another thread does in between it may as well do between the registration
and the libdispatch call. `NativeAccept` and `NativeRefuse` are that call. `close` sets `_closed`
when it has the lock again (`CloseReturn`), so that a second `close`, or a submission, may
still find the flag clear on a channel that is closed. `NativeStart`, `NativePart` and
`NativeFinish` are what libdispatch does with an operation, `NativeCleanup` is when it gives the
descriptor up. The trampolines are `TrampolineBegin` and `TrampolineEnd`, one call at a
time for one block. A trampoline that finds no callback under its number returns at once, and
the call is lost (401, 432, 447). `refs` counts the references on a callback: the dictionary's
own, the one `_register_io_callback` takes, and that of `_cleanup_handler` (2434) as long as the
wrapper has it (`held`). `blocks` counts those on a block: the one it is made with, and
libdispatch's.

libdispatch starts an operation when every earlier barrier is through, and a barrier when every
earlier operation is *complete*: the handler of such an operation may still have its last call
to come, so a barrier's callback may run before it. That is what `io.h` says of
`dispatch_io_barrier`. This order is the library's and no property of cygcd is made of it.

## The runs

All runs switch off the deadlock check: the program may stop making calls, and
has then nothing to do. Real blocking is what the liveness properties are about.

| run | instance | checks |
|---|---|---|
| `QueueSafety` | one thread and 3 tasks, plain and barrier; a concurrent queue that may be retargeted to a serial one, which may be suspended and dropped, and back to its default target | the inductive invariant `HierarchyInv`, which includes `QueueInv`; reference counts (`RefAccounting`, `CallableAlive`); no overlap through the shared target (`HierarchyExclusion`); barriers alone and in order (`BarrierExclusive`, `StartsInOrder`); the interpreter lock with somebody who can give it up (`LockUsable`); refinement of `QueueContract` |
| `QueueLive` | one thread and 2 tasks, `run_sync` and `after`, nested calls; an inactive queue that may be dropped, and an active one | `DroppedDrains`, `CallsReturn` |
| `SourceCalls` | 2 threads and the handler, one source of any class, 2 events | `HandlerRefs`, `HandlerAlive`, `ResumedOnce`, `HandlerGivenBack`, `EventHandled` |
| `OnceCalls` | 3 threads, 2 calls from inside a callable, 2 callables | `RunsOnce`, `OnceRefs`, `CallReturns` |
| `ContextRace` | 2 threads, 2 queues, 4 contexts | `FinalizedOnce`, `CurrentRegistered`, `QuietFinalized` |
| `SpecificRace` | 2 threads, a queue and its target, 2 keys at one address, 2 values, 3 calls of `set_specific` | `SpecificRefs`, `GetAlive`, `KeysNotConfused` |
| `GroupCalls` | 2 threads, one mark, one notification, 2 tasks on 2 pool threads that compete for a semaphore of capacity 1, one of which then waits for the other | `WaitTrue`, `NotifyAfter`, `GateHolds`, `CountsKept`, `WaitsReturn` |
| `WorkloopCalls` | 2 threads, 3 callables, which call methods too, active or inactive at first | `OnlyRacesTerminate`, `CallableRefs`, `SyncOutcome`, `SemDisposable`, `SyncReturns` |
| `ChannelCalls` | 2 threads, a read with one partial result, a write, a barrier, with or without cleanup handler | `RegistryTrue`, `BlockRefs`, `Answered`, `ClosedDrains` |

Each module's type invariant is the first conjunct of one of its properties (`HierarchyInv`,
`HandlerRefs`, `OnceRefs`, `CurrentRegistered`, `SpecificRefs`, `CountsKept`, `SyncOutcome`,
`RegistryTrue`), so every passing run checks it but `QueueLive`, whose
module another run checks.

Why these bounds. Three tasks are one that waits, one it waits for and one that slips in
between. A running task is a context like a thread: it submits, suspends, drops and loses the
lock in the middle of a call, so the one thread and the tasks of `QueueSafety` are up to four
contexts that contend for the lock. A chain of two queues has every relation (same, target,
shared target) that a longer one has between neighbours; order and barriers compare items of one
queue. What the numbers might hide in counting and order is proved for every number (below). Two
events tell delivering again from delivering once. `SourceCalls` has one source: that sources
may share a handler is covered by the theorem `SourceHandlerRefs`, which is about any number of
them. Four contexts let each of two threads set and replace. Three calls of `set_specific` are
two that race and one whose value is read meanwhile; two values, of which one replaces the
other; a queue and one target are a place that is asked first and one that is found through it.
A capacity of one and two tasks make one sleep, and time out while it is signalled; two pool
threads are just enough for one that waits and one that it waits for. A notification, a wait and
a mark beside two tasks let the group become empty and fill again while someone waits. Three
callables of a workloop are one that runs and two that wait, of which one may be synchronous
from each thread, and each may call a method itself. A read, a write and a barrier have every
order of operations before and after a barrier; one partial result tells a call that is not the
last from the last. Symmetry is used in
two runs, of safety properties only: tasks of one callable in `QueueSafety`; threads, values and
the keys at one address in `SpecificRace`.

### Fairness

libdispatch calls, timers and the delivery of items make progress when nothing holds
them back (weak fairness). The interpreter switches threads: a context with nothing
else to do gives the lock up (weak, `DropGIL`), and one that asks again and again gets
it in the end (strong: `TakeGIL`, `TrampolineBegin`). Since
the lock comes and goes, steps that need it and are enabled again and again are taken
(strong: the end of a callable, the return of `activate`, `suspend` and `cancel`). The steps of
libdispatch's deliveries of a source follow each other and have one strong fairness condition
(`Delivery`). That a callable ends is an assumption about the program. No fairness is
put on the program's calls: nobody is bound to submit, resume, start, cancel or drop.
`DroppedDrains` and `CallsReturn` therefore assume that the queues the program still
has end up active and not suspended (`StaysOpen`).

In `GroupWork`, `Workloop` and `IOChannel` no call is made to libdispatch with the lock held,
so the lock is not a variable, and weak fairness of each call under way, each task and each
trampoline stands for threads that get the lock when they ask for it. A task or notification
of `GroupWork` needs a free thread of the pool, which comes and goes: `Begin` and `NoteBegin`
are strongly fair, which says that the pool forgets nobody. Deadlines pass (`WaitTimeOut`,
`AskTimeOut` are steps of the weakly fair calls and tasks). Reads end (`NativeFinish`), for one
at the end of the file: on a descriptor that never has data, an operation is answered
only once the channel is stopped. `WaitsReturn` makes an exception for members that stay
(`Stays`): an `enter` without its `leave`, and a task that waits for one never submitted.
`SyncReturns` makes one for a process that has been terminated, and for a callable of the
workloop that calls `run_sync` (`WaitsForItself`).

## Where documentation and code part

Three have a run that TLC ends with a counterexample.

| run | what is said | what happens |
|---|---|---|
| `OnceAllWait` | 1206: "all will wait for completion" | a call that sees the predicate not zero returns while the callable runs |
| `ContextFirst` | 884-885: finalizer "called when the queue is deallocated or context is replaced" | not for the first context of the process: its number 0 is the NULL pointer |
| `ChannelBlocks` | 2500: "Block is retained by GCD, will be released when done" | libdispatch releases the reference it takes itself; the one the block is made with (326) is released on the constructor's failure path (2445) and nowhere else: a block leaks with each operation |

The modules also define these, which no run checks. Each can be tried by naming it
in the `.cfg` of the run of its module.

| definition | what is said | what happens |
|---|---|---|
| `DispatchQueue!BarrierExclusiveEverywhere` | 777-779: barrier tasks on a concurrent queue "execute exclusively" | not on a queue from `global_queue()`, which `queue.h` 1324-1326 says treats barriers as plain tasks |
| `DispatchSource!NoFireAfterCancel` | 1390: "After cancellation, the timer will not fire again."; `tests/test_cygcd.py` 533-534 | the handler of an invocation under way begins after `cancel()` returned |
| `DispatchSource!CancelledWhenTold` | 1391: "safe to call from any thread"; `tests/test_cygcd.py` 529-535 | the second of two `cancel()` calls returns before the source is cancelled |
| `QueueContext!AllFinalized` | 884-885: "... or context is replaced" | two racing replacements: one of the new contexts is never finalized |
| `QueueSpecific!ReturnsStored` | "Returns: The stored value, or None if not set" | the value was replaced, and freed, between the read of its pointer and the reference on it |
| `Workloop!NeverTerminates` | 2304: "RuntimeError: If the workloop has already been activated" | an `activate` after the test of the flag: libdispatch terminates the process |

One claim is not the documentation's, but any reader of `run_sync` would make it.
`Workloop!RaisedAgain` says that a call returns normally only if its callable did. The wrapper
catches `Exception` alone (2355), so a `KeyboardInterrupt` or `SystemExit` is printed by the
trampoline and `run_sync` returns as after success. No docstring or test speaks of exceptions of
`run_sync`, so no run claims it; `SyncOutcome` says nothing of that case.

One property states as the code has it what it surely was not meant to do. `OnceRefs`: a thread
that loses the race after the test has taken a reference on its callable that nobody gives back.

## What is proved

For every value of the constants that the named ASSUMEs of a module allow: any set
of threads, any finite set of tasks, queues, sources, calls or contexts, any sharing of
callables. The assumptions say that the sets are of the expected kind, that contexts, queues
and tasks are told apart, and that what is counted is finite.

### DispatchQueue_proofs

| theorem | says |
|---|---|
| `QueueInvariant` | `QueueInv` holds always |
| `QueueTypes` | types; no reference count below zero |
| `QueueRefAccounting` | references = the program's own + unfinished submissions |
| `QueueCallableAlive` | a callable in flight is referenced |
| `QueueBarrierExclusive` | a barrier runs alone |
| `QueueStartsInOrder` | conflicting tasks run in order of submission |
| `QueueHierarchyInvariant` | `HierarchyInv` holds always |
| `QueueHierarchyExclusion` | callables whose queues share a serial queue in their hierarchies do not run at once |
| `QueueLockUsable` | who holds the interpreter lock can give it up |
| `UpUnfolds` | the hierarchy of a queue is the queue and the hierarchy of its target |
| `QueueImplementsContract` | `DispatchQueue` implements `QueueContract` |
| `ContractPromises` | whatever keeps `QueueContract` has exclusion and order (`Exclusive`, `Ordered`) |

The argument. `RefAccounting` alone is not inductive: that `TrampolineEnd` takes the
count down by one for a task that was counted needs the type of `Func`, and that a
count stays natural (`TypeOK`) needs `RefAccounting` in turn; so the two are proved
together. Order needs to know that what came before is not forgotten between the
method call and the invocation. `OrderKept` says that a task of `before[t]` is in
`ahead[t]` or done while t is queued, and done, if the two conflict, once t is invoked.
For that `NativeEnqueue` must find t *held* (`CallsNamed`) and be the only call that
enqueues it (`EnqueuedByOne`), and a task that was given to a queue must keep queue and method
(`Addressed`). `NoConflictExecutes` says that no two conflicting items execute; that
`NativeInvoke` keeps it follows from the hierarchy rule, since a queue belongs to its own hierarchy
(`ConflictExcludes`). Each conjunct has one lemma with one step per action; the
refinement maps *held* and *delayed* to requested, *queued* and *invoked* to accepted,
and each action to one abstract step or a stutter (`ContractStep`).

`HierarchyInv` adds what `HierarchyExclusion` needs, for a hierarchy is made of targets, and
targets change. `RetargetsAway` says that a call of `set_target_queue` under way is on a queue
outside the hierarchies of all tasks: `SetTarget` finds it so, and `Submit` keeps it so, since the
program gives no task to a queue that is being retargeted, or whose targets are. The queue is then
outside of some set closed under targets, and that set is closed under the new targets too
(`UpStays`); so the hierarchy of a task is the same until its end, and `SerialApart`, that two
executing tasks share no serial queue, is disturbed by `NativeInvoke` alone, which tests it.
Without this discipline of the program, which follows the docstring of `set_target_queue`, two
queues whose tasks run side by side could be joined, and the property is false.
`Up` is an intersection of closed sets, which no recursion computes; `UpUnfolds` shows that it is
what one expects, also of targets that form a cycle.

`LockUsable` is inductive beside `QueueInv`: a callable gets the lock when it is invoked, and has
no call under way then, because whoever is inside a call has begun and not ended.

### DispatchSource_proofs

`SourceInvariant` proves `SourceInv`, and from it follow `SourceHandlerRefs`,
`SourceHandlerAlive` and `SourceResumedOnce`. That a source is resumed once needs to know what
the flag promises: a source that is started and still suspended has a call of `start` on its
way to libdispatch (`Life`), and that call is the only one (`CallsNamed`). So `__dealloc__`,
which meets no call on its source, finds it resumed if and only if the flag is set.
The handler's count needs the same: a cancel handler runs only on a source that is not
suspended any more and whose event handler has returned, so that a source that may still call a
trampoline is one that still owes a reference (`Owed`). The counts are cardinalities of
sets of sources; a step moves one source into or out of one of them.

### OnceToken_proofs

`OnceInvariant` proves `OnceInv`: the predicate tells how many calls are running the callable or
have, and a call waits only for one that is. `TokenRunsOnce` and `TokenRefs` follow.

### QueueContext_proofs

`ContextInvariant` proves `ContextInv`, with these parts: context numbers are given
out once (`Numbers`), a context belongs to one queue (`Owned`), what a queue, a call or the
native pointer names is known to the registry or finalized (`Known`), and where no two
calls overlap the native pointer and `_context_id` agree (`Quiet`). `ContextFinalizedOnce`,
`ContextCurrentRegistered` and `ContextQuietFinalized` follow. The last is why `raced` is
in the model: without it the claim is false.

### IOChannel_proofs

`ChannelInvariant` proves `IOInv`, whose parts are: the types (`Shape`); what each count is: of
references on a callback in terms of registry and wrapper (`RefCount`), of those on a block in
terms of what may still be called and of whether the block was ever made (`BlockCount`); what is
registered, and that every call finds it (`Registered`); which calls are under way on which
operation, and only on a living wrapper (`Callers`); that there is a native channel when the
constructor has succeeded, and operations only then (`Birth`); and the calls of each block in
order: partial results only of an operation that has started, the last call only of one that is
complete, nothing after it (`Deliveries`). `Registered` needs the last: a trampoline removes the
callback when it has made the last call, and that this was the last is what libdispatch's order
says, not the code. `ChannelRegistryTrue` and `ChannelBlockRefs` follow. `BlockCount` also shows
how exact the leak of `ChannelBlocks` is: one reference per block, and never more.

### Workloop_proofs

`WorkloopInvariant` proves `WorkInv`. `Flag` says that `_inactive` is never clear while the
workloop is inactive, and is behind it only while an `activate` is about to clear it; and
that a call of `set_autorelease_frequency` meets an active workloop only if the two overlap,
which is `WorkloopOnlyRaces`. `CallsNamed` says that a submission has one caller, `Endings`
what is known of how a callable ended, and `Value` gives the value of the semaphore of each
`run_sync` from who waits for it and who has signalled it: -1, 1 or 0. That a signal wakes the
one sleeper or finds none is a lemma about `Semaphore` (`SignalEffect`).
`CallableRefs` is part of the invariant. `WorkloopRefs`, `WorkloopSyncOutcome` and
`WorkloopSemDisposable` follow; the last needs the count, for it says when the semaphore is
freed: once neither frame nor wrapper is left to hold it.

### GroupWork_proofs

`GroupInvariant` proves `GroupInv`, and from it follow `GroupCountsKept`, `GroupWaitTrue`,
`GroupNotifyAfter` and `GroupGateHolds`. `CountsKept` is part of it: what is counted by `count`,
by `refs` and by the semaphores. It needs to know that a submission has one caller, which finds
its task still *given* (`CallsNamed`), that marks are not tasks (`Kinds`), and that a task is in
`wait()` of a semaphore exactly while it is *asking* (`Waits`). `Expecting` is what `WaitTrue` and
`NotifyAfter` rest on: whom a wait or a notification is for has entered when it is made, so that a
count of zero, now or later, means that all of these have left, and a member that has left stays
so; who enters in between does not matter. `GateAccount` says that value, callables inside and
sleepers of the gate add up to its capacity, where a value below zero is the number of sleepers;
that a time-out gives back just what its sleeper took is the case that matters. The counts are
cardinalities of sets that a step changes by one element; the semaphore's own steps are
lemmas about `Semaphore`.

### QueueSpecific_proofs

`SpecificInvariant` proves `SpecificInv`, and from it follow `SpecificReferences`,
`SpecificAlive` and `SpecificKeys`. `RefsRight` counts the references on a value in three sets,
of dictionary slots, of table slots and of calls, and in the destructors to come; a step that
writes a slot takes one element out of a set of one value and puts one into that of another
(`OneChange`), except that disposing of a queue clears all its slots at once (`TableCleared`).
`ReadHeld` says that what a thread has read is in the place it was read from as long as that
place is `intact`; with `RefsRight` its count is not zero. `KeysApart` says that a key whose
address is in use in the table is kept, so that no key is born at that address: the reason why
`set_specific` keeps the key object.

### Only model-checked

The liveness properties: `DroppedDrains`, `CallsReturn`, `HandlerGivenBack`, `EventHandled`,
`CallReturns`, `WaitsReturn`, `SyncReturns`, `Answered`, `ClosedDrains`. The prover does not
reason about fairness and ENABLED, so these hold of the instances TLC explores. Every invariant
and the refinement that the passing runs check are proved. What stands against the documentation
(`AllWait`, `AllFinalized`, `BlocksReleased`) is refuted by TLC.

## The plan

Written so far: queue, contract and proofs; sources; once; contexts; specific data;
groups with semaphores; workloops; the channel; proofs of the safety properties
of each. Next:

1. a contract of `GroupWork`, as `QueueContract` is one of `DispatchQueue`, and the proof that
   it is kept;
2. `read_async` and `write_async`: the bytes that a handler is told were not written are
   those that were not, unless it raises `OSError` itself, for which it is called twice;
3. `Data` as operators on sequences, with the two forms of an empty object;
4. a source and its queue together, so that suspension of the queue delays events.

None of the modules uses RECURSIVE, so that they can be proved about.

## Not modelled

Labels, quality of service, leeway and intervals, water marks (they set the size and rhythm
of partial results, which come at any time here), the examples, the constants and stubs
of the package: no behaviour modelled here depends on them. The failure of
`dispatch_source_create` and of memory allocation. Cyclic garbage collection and
interpreter shutdown. The main queue, which drains only under a run loop of the program.
`apply`, whose trampoline keeps nothing between iterations. `Data`, each method of which
is one libdispatch call on an immutable object. `read_async` and `write_async`, which are
blocking system calls in a callable of `run_async`. `time_from_now` and `walltime`, which
convert a floating-point number. A `Semaphore` created with a negative value, for which
libdispatch returns NULL, untested. Two threads in one `Group.wait`, which `group.h` leaves
undefined. The read-only properties of sources.
