# PWRS in TLA+

PWRS (PoWerRuSt) makes PowerShell binary modules out of Rust crates. A module is
a native library, a generated C# shell and two shared pieces: the Rust crate
`pwrs`, linked into the library, and the C# assembly `Pwrs.Runtime`, which the
engine loads. Every hard part lies where the two meet. PowerShell calls from
several runspaces, stops commands from other threads, runs event handlers and
finalizers when it likes and reloads a rebuilt library under objects of the old
one; the Rust side lends out `&mut` references, owns memory through raw pointers
and must see each context freed once and never under a call.

This directory models those protocols, checks them with TLC and proves their
safety with TLAPS. Paths below are relative to `src/`; `Runtime/` is
`crates/cargo-pwrs/dotnet/Pwrs.Runtime/`.

## Running it

    tlc -workers 2 -config MCGate.cfg MCGate     # a model check
    tlapm GateProofs.tla                         # a proof

`PROJECT.json` lists every run with its module, its .cfg and its properties, the
source lines each definition stands for, for each property a mutation of the
model that breaks it, the hazards, the findings and the theorems.

## The system

| part | source | its state | operations | who it meets |
|---|---|---|---|---|
| Gate | `Runtime/Gate.cs` | owner id, depth, exclusive flag, waiter count, event | Enter, Leave | every thread that calls a proxy object or runs a module hook |
| Proxy objects | `Runtime/ProxyCore.cs`, `crates/pwrs/src/proxy.rs` | the Rust pointer, its generation, pending release, queued raises, memory pressure | Get, Call, CallWith, borrow, Release, finalizer | native code that calls back, event handlers, the collector, a reload |
| Event subscriptions | `Runtime/ObjectEvents.cs`, `ComEvents.cs`, `crates/pwrs/src/events.rs` | call count, removed and released flags, context | Called, Remove, Release | threads that raise, threads that unsubscribe, the callback itself |
| Stop wakers | `crates/pwrs/src/stop.rs` | stop flag, one slot | on_stop, the guard's drop, stop | the pipeline's or job's thread, the thread that stops it |
| Jobs | `Runtime/Jobs.cs`, `crates/pwrs/src/job.rs` | job state, context, stop flag, finished event, channel | JobNew, Begin, records, Finish, StopJob | the cmdlet, the job's thread, Stop-Job callers |
| Tasks | `Runtime/TaskSource.cs`, `crates/pwrs/src/task.rs`, the code `generate.rs` writes | settled flag, outcome, the token's byte | set value, set fault, cancel, discard | the generated method, a worker, the token's owner |
| Module lifecycle | `Runtime/NativeModule.cs` | imports by runspace, loaded flag, bindings, the file's write time | Imported, Removed, Closed, ReloadIfChanged | runspaces, the pool, module hooks, whoever rebuilds the file |
| Cmdlet phases | `Runtime/RustCmdlet.cs`, `crates/pwrs/src/cmdlet.rs`, `runtime.rs`, `pipeline.rs` | instance, pending error, stopped flag, the phases known to be empty | Begin, Process, End, Stop, Dispose | the engine's pipeline and stop threads |
| Background work | `crates/pwrs/src/worker.rs` | cursor, halt flag, channel, pending results | workers, parallel map, streams | a pool of threads and the cmdlet's thread |
| Bootstrap loader | `Pwrs.Bootstrap/Loader.cs` | copy-on-write maps, a Flight for each entry | Load, ContextFor, PutBack, StageRoot | importing threads, a rebuild |
| Staging | `Runtime/NativeModule.cs` | files under a staging root | Stage, StageHelper, Place, RemoveSuperseded | other threads and other processes |
| Toolchain | `crates/pwrs-build/src/toolchain.rs` | `toolchain.lock`, a folder for each package | fetch, publish, record | other tools on the machine |
| Transactions | `Runtime/Transactions.cs`, `crates/pwrs/src/transaction.rs` | the enlisted context | Prepare, Commit, Rollback, InDoubt | System.Transactions, a timer |
| Native memory views | `Runtime/RustMemoryManager.cs`, `crates/pwrs/src/pinned.rs` | released and refused flags, the list of what a thread has pinned | read, release, pin | consumers on any thread |
| Wrappers, steppable pipelines | `Runtime/Wrapped.cs`, `crates/pwrs/src/wrapper.rs`, `steppable.rs` | an inner pipeline | Begin, Step, End, Close | the wrapped command |

The rest keeps no state between calls or is no concurrent program: the host
table and conversions (a synchronous call each), the binding helpers, providers,
SIMD kernels and processor tiers (pure functions), macros, the build tool,
signing (file formats and I/O), the test host and the examples. `PROJECT.json` lists each with the reason.

What makes each part correct:

- the gate: one thread inside, an exclusive entry nested in nothing, nobody
  parked for ever;
- a proxy: a value lent exclusively has one user, is freed once and never under
  a call, hears its raises outside its gate, and two threads never wait on each
  other for two objects;
- a subscription: its context is freed once, after the last call and the
  removal, whichever comes second, and is freed eventually;
- a waker: it runs at most once, and does run when a stop finds its guard alive;
- a job: it ends as it was asked to, Stop-Job always returns, its context
  outlives every stop callback, `end_job` follows the last record;
- a task: it ends whatever the module does, its byte is freed once and touched
  by nobody after that;
- a module's life: removal hooks match imports, load and unload hooks alternate
  on one copy, a rebuilt file is loaded once and the copy in use is the file the
  module takes it for;
- a cmdlet: a stop that finds its instance ends it, its wakers run once and on a
  live instance, and the instance is freed once;
- parallel work: it writes each result once and in the order asked for, reports
  no success for work it lost, has nothing running when it returns, and returns;
- the loader: a load gets a context that exists and was made for its shell, two
  shells never share a folder, and no load waits for ever;
- a transaction's resources: all commit or none does, and each is given back once;
- a view: its memory is freed once, and no GetSpan that comes after reads it;
- the toolchain: tools that fetch one package agree on its bytes, and none fails
  because another raced it or died;
- a staged helper: a copy's name stands for its bytes, and processes of one build
  never break each other's start.

## Modules

| module | role |
|---|---|
| `GateLock` | abstract: a lock with nested shared entries and an exclusive entry that is alone |
| `Gate` | `Gate.cs` access by access; implements `GateLock` |
| `GateProofs` | TLAPS: the gate's invariant, its safety and the refinement |
| `ProxyCore` | proxy objects, each behind a `GateLock` lock, called by threads with stacks of frames |
| `ProxyCoreProofs` | TLAPS: its invariant, as a relation between frames and gates, and its five safety properties |
| `Subscription` | one event subscription, its constructor and its place in a COM module's hooks |
| `StopWaker` | the stop flag and slot |
| `CmdletRun` | a cmdlet's instance, phases and end; EXTENDS `StopWaker`, whose steps are its registrations and stops |
| `CmdletRunProofs` | TLAPS: the slot's safety, alone and in a cmdlet's run, and the run's own |
| `RustJob` | a job; EXTENDS `StopWaker`, as its waker's steps are that module's |
| `RustJobProofs` | TLAPS: that a job's steps are `StopWaker`'s or leave the slot alone, and the job's own safety; stands on `CmdletRunProofs` |
| `TaskSource` | a task, with the generated method around the call |
| `Lifecycle`, `LifecycleProofs` | imports, removals, closes and reloads of one module, and their proofs |
| `ParallelMap` | abstract: what a parallel helper promises, whatever carries it out |
| `Worker`, `WorkerProofs` | par_map and par_for_each over the pool; the proof that they implement `ParallelMap` |
| `Loader`, `LoaderProofs` | the bootstrap loader's root, claims and contexts, and their proofs |
| `Transactions` | enlistments, with the transaction manager as the code meets it |
| `MemoryView` | a revocable view, its readers and the ends of its manager |
| `Toolchain` | tools that fetch one package side by side |
| `HelperStaging` | processes that stage one helper, with rebuilds |
| `MCHandovers` | composes `Subscription`, `TaskSource`, `Transactions`, `MemoryView`, `Toolchain` and `HelperStaging` for one run; they share no state, so each behaviour is one module's |
| `HandoversProofs` | TLAPS: an invariant and the safety of each of the six, in the composition |
| `MCStopping` | composes `CmdletRun` and `RustJob`, which share `StopWaker`: each behaviour is one of the two (`kind`) |
| `MCProxyCore` | `ProxyCore` in two shapes: two objects whose calls do not nest, or one object with nested calls, bytes and a reload |
| `MC...` | the instances TLC checks |

What each step is: in `Gate`, `Subscription`, `StopWaker`, `Loader`,
`Worker` and `MemoryView` one access to a field other threads use, with what only
the accessing thread sees folded in; in `CmdletRun` the same, or one thing a
phase's body does; in `Toolchain` and `HelperStaging` one access to the file
system, between any two of which the process may die; in `Transactions` one call
between the manager, the managed half and the native half; in
`ProxyCore` one entry or leave of a gate or what a method does between two such
points; in `RustJob` and `TaskSource` one access to shared state, one lock held
region, or one run of module code; in `Lifecycle`, where everything happens
inside one gate entered exclusively, one hook or the code between two hooks.

How state and actions correspond to the code:

- **Gate.** `owner`, `depth`, `exclusive`, `waiters`, `parker` are the fields of
  the same names; `signaled` is the AutoResetEvent. `pc` names the line a thread
  is about to run in Enter, Wait, Parker or Leave. `Enter` and `Nest` are the two
  outcomes of a call to Enter, `CompareExchange` and `Spin` the fast path and the
  spinning, `WaitParker` and `WaitPublish` the lazy making of the event,
  `Count`, `Attempt`, `Park`, `Uncount` the waiting loop, `Interrupt` a WaitOne
  that throws, `LeaveInner`, `LeaveOuter`, `OpenGate`, `ReadWaiters`, `SetParker`
  and `Set` the leave. `sharedIn` and `exclIn` count what callers were given.
- **ProxyCore.** `stack[t]` is what thread `t` is doing: a frame for each Get,
  Call, CallWith, borrow or ReleaseInstance it is in, with the entries it has
  made and those it has yet to make. `made` and `generation` are the two sides
  of RequireCurrentGeneration. A handler and a running method may start further
  frames; the value's own `Drop` is one step, which may only queue raises. The
  objects' gates are `GateLock`'s lock, which `GateProofs` shows `Gate` to be.
- **Subscription.** `calls`, `removed`, `released` are the fields; `call[t]` and
  `remove[t]` the line a thread is at in Called and Remove. `attached` is the
  event's own handler list, which the event source keeps. `making` is the
  constructor's place: a source that refuses the handler leaves the context to
  the caller, and a COM object's handler is recorded (`hooked`) in a step of its
  own after the source has it. `sweep` is ComHooks.DetachAll.
- **StopWaker.** `stopping` and `slot` are the two atomics, `guards` the live
  StopWaker guards. A guard is `Send` and may be dropped on any thread.
- **RustJob.** `work` is the job thread's place from the first phase to the end
  of Finish, `maker` the cmdlet thread's, `stopJob[s]` a Stop-Job caller's.
  `lock` is RustJob's `_gate`, held over the stop callback. A phase's guards drop
  on any of its threads, while it registers or is blocked too (`JobUnregister`).
  `asks` tells work that asks `stopping` before it blocks from work that does not.
- **TaskSource.** `settling[h]` is each half's place in Settle: the exchange,
  setting the outcome, disposing the token's registration (which waits for a
  callback that is running) and freeing the byte.
- **Lifecycle.** `pc` and `holder` say which thread is inside the gate and at
  which hook; `imports`, `total`, `loaded` are the fields, `copy`, `stamp` and
  `generation` the bindings. A version of the file stands for its write time and
  its bytes alike. `owed` and `live` are history: what hooks have run.
- **CmdletRun.** `pointer` is `_instance`, `instance` the memory behind it, so a
  pointer that outlives the memory would show. `needs` is `_phases`: the mask a
  cmdlet's type has learned is any that has process. `signals` is what a write
  leaves behind (`_stopped`, `_passedThrough`), which `Outcome` reads in the order
  Invoke does. `told[s]` is a StopProcessing between its call and its read of
  the instance; from there on it is StopWaker's `stop`. A body registers wakers,
  drops guards on any thread, blocks on a waker after asking `stopping`, as the
  loop in on_stop's documentation does, and goes on when the waker has run or
  something of its own ends the wait.
- **Worker.** `chan` and `rxOpen` are the channel, `coord` the thread that owns
  the pool: "dropped" once its senders are gone, "finished" once `is_finished`
  says so, two steps the drain can fall between. `main` is the place in drain,
  write_sent and the end of par_map_in. `stray` is a clone of the handle that
  another thread keeps: it may send for as long as the stop flag is not set, and
  outlive the work. Under the refinement `started` is what the cursor has given
  out, `running` what is in f, `failed` an `Err` of the drain.
- **Loader.** `map` is `s_contexts` with an identity for the reference a
  CompareExchange compares, `claim[l]` the `Loaded` a load made, `flight` the
  `_landed` and `_landing` of each. `Root`'s Flight is the one in `s_fresh`.
- **Transactions.** `maker`, `manager` and `reply` are the places of an enlist
  call, of the manager with an enlistment, and of its Prepare. `resource` is the
  boxed Rust value; End's exchange makes a second end a no-op. The manager is
  .NET's: the order of its calls is taken from the code's comments and from the
  stand-in `testing.rs` has for it, with a timeout's rollback on another thread.
- **MemoryView.** `flag` is the refusal byte, which the PsRevocation's clones and
  the view share; `disposed` is `_released`; `reading[t]` a reader's place in
  ThrowIfUnusable and in the use of the span after it. The finalizer waits for
  threads in a method of the manager and for nothing else: a span or a pin is a
  raw pointer and keeps nothing alive. `touched` are the readers that have read
  freed memory, `overtaken` those the dispose found past their check.
- **Toolchain.** `lock` is the lines about one package, first line first; an
  append adds a line whole or, on a full disk, a piece (`cut`) that the next
  append runs into. `folder` is the package's folder, complete with some bytes or
  with no marker. Removing an unmarked one may succeed, fail with the folder as it
  was, or fail with part of it gone; a tool whose removal fails has failed.
- **HelperStaging.** `shipped` is the file in the module folder, `copies[b]` the
  folder named for build `b`'s mark, with what its copy holds, `pending[p]` the
  `.partial` of a process. `Sweep` removes any part of the other builds' folders and
  of what is in them, for Windows keeps files in use.

## Runs

| run | instance | question |
|---|---|---|
| `gate` | 3 threads, nesting 2 | does the gate keep its promises, wake every waiter and implement the lock |
| `proxy` | 2 threads; 2 objects and 1 frame each with what it nests by itself, or 1 object, 2 frames, 1 byte and 1 reload | exclusive use, releases and raises under nested calls; two-object methods: no cross wait, calls end |
| `proxy_stale_call` | 2 threads, 1 object, 1 frame, 1 reload | finding 1 |
| `subscription_overlap` | 2 raisers, 1 remover | finding 2 |
| `stopping` | 2 stopping threads, 2 wakers; a cmdlet with 2 records, or a job fed 2 | stops against the instance or context, the wakers and the end of what is stopped |
| `cmdlet_stop_lost` | 1 stop, 1 waker, 1 record | finding 3 |
| `lifecycle` | 2 runspaces and a thread with none, 2 imports each, 3 versions of the file | hooks, counts, reloads |
| `worker` | 2 threads, 2 items, every order, a kept handle with 1 record waiting at a time | does the pool implement `ParallelMap`, and does the call return |
| `worker_kept_handle` | 1 thread, 1 item, the same | finding 4 |
| `loader` | 3 loads, 2 shells, 1 rebuild | claims, contexts that fail, and waiting |
| `handovers` | 3 raisers, one of which may unsubscribe from its callback, 1 other remover and a sweep; a task, a worker and a token; 3 resources; 2 readers; 3 tools and 2 contents; 3 processes and 2 rebuilds | what one side hands to another arrives whole, is given back once and is not taken from under its user |
| `view_byte_freed` | 2 readers | finding 5 |

Why the bounds are enough. Three threads are one inside the gate, one on its way
to parking and one that overtakes it, which is what a lost wakeup needs; nesting
two deep tells inner entries from outer ones. Two objects and two threads make
the only cycle there is of two waits. One object and two frames have a release
under a call and a raise under a nested call; a second generation is one reload
in between. Two overlapping raises and two removals are
both orders of the last call and the removal; a raiser that is also a remover is
the callback itself, and the sweep comes as one more.
Two wakers are one that the stop takes or a drop frees, and one registered after
it or refused; two stopping threads are one that takes the slot and one that finds
it empty. Two records are one in the channel while the other is worked on. Two
imports make the difference between Removed, which takes one, and Closed, which
takes all; three versions are a load, a reload and a rebuild within the reload.
Two items on two threads finish in both orders, and a stop or a panic may leave one
unclaimed; a kept handle with one record waiting can have one waiting for ever.
Three loads are one that makes a context and fails,
one that has taken the next generation meanwhile, and one that waits; two shells
and one rebuild make their names differ. Three resources are one that refuses,
one prepared before it and one not asked yet. Three tools are one that dies or
is cut short, one that races it and one that comes after; two contents are all
it takes to disagree. Three processes and two rebuilds have every pair of builds
sweep each other with a third process starting.

`CHECK_DEADLOCK FALSE` stands where the system really stops: a job or
a cmdlet that has ended, a call that has returned, loads that are done, a task
that is over, a module whose runspaces are all closed.

### Fairness

Every fairness condition is weak and on a thread's own next step: an operating
system's scheduler runs a thread that can run. Beyond that:

- `Gate`: a thread inside leaves. It is what every caller does in a finally
  block. A spinning or parked thread is not promised the gate: `EveryWaiterEnters`
  holds once new calls stop, and only then, for the gate lets a newcomer pass
  waiters.
- `ProxyCore`, `Subscription`: native methods, callbacks and handlers return.
  The liveness properties are conditional on no new calls or raises (`NoNewCalls`,
  `NoMoreRaises`), as nobody's code keeps raising for ever on purpose, but
  overlapping raises could keep a context for ever.
- `RustJob`: a phase that is not blocked returns, its guards dropped with it; one
  that is blocked on something only its waker ends is not assumed to return, which
  is what `StopsEnd` is about. A waker returns (pipeline.rs:149 asks it to be
  short).
- `TaskSource`: a module finishes or drops each task it holds. A leaked task
  would never end.
- `Lifecycle`: hooks return and the thread pool runs what is queued.
- `CmdletRun`: the engine runs the phases and disposes of the cmdlet, a body that
  does not block returns, and a StopProcessing that has begun reads the instance.
  A blocked body is not promised the event of its own it waits for, so
  `HeardStopEnds` rests on the waker.
- `Worker`: an item's f ends and a write comes back. Nobody is assumed to keep a
  handle, to drop one, or to stop the pipeline. A kept handle that sends for ever
  is finding 4: `CallReturns` is of a call that is stopped or whose kept handle
  sends no more from some point on.
- `Loader`: a load that has begun goes on; making a context returns or throws.
- `Transactions`: an enlist call and a Prepare return and the manager sends what
  it owes; nobody is assumed to complete the transaction.
- `MCHandovers` states the fairness of `Subscription`, `TaskSource` and
  `Transactions` again, each condition guarded by whose behaviour it is. The other
  three have safety properties only. `MCStopping` does so for `CmdletRun` and
  `RustJob`.

## Findings

Each is a run in which TLC violates what the code's own comments say.

1. **A reload between the generation check and the call**
   (`proxy_stale_call`, ProxyCore.cs:117). Enter compares the generations; Get and
   Call then read the module's bindings again for the export, and a reload takes
   no object's gate. An old value's pointer goes to the new load. The finalizer
   (ProxyCore.cs:419) and the drop have the same two reads.
2. **A subscription's context freed under a call**
   (`subscription_overlap`, ObjectEvents.cs:391). Called decrements `_calls` and
   then reads `_removed`; a raise that starts and a removal between the two leave
   the first call to free the context the second is using.
   `SerialCallsKeepContext` shows overlapping raises to be necessary.
3. **A stop before the first phase is lost**
   (`cmdlet_stop_lost`, RustCmdlet.cs:270). StopProcessing does nothing while there
   is no instance. The first phase then makes one whose stop flag is false, and a
   waker that phase registers never runs, where pipeline.rs:147-149 says it runs
   "here at once when the stop has already come". `HeardStopEnds` shows that a
   stop which finds the instance is not lost.
4. **A kept handle keeps the call from returning**
   (`worker_kept_handle`, worker.rs:631). The drain asks whether the work has
   finished only when nothing has come for STOP_POLL (line 634). A clone that sends
   within every 50 ms keeps it from asking, and sends are refused only after the
   drain (line 587), where worker.rs:97-98 says "a clone that lives on after the
   work returns does not make the call wait".
5. **A refusal byte read after it is freed**
   (`view_byte_freed`, RustMemoryManager.cs:56). ThrowIfUnusable reads `_released`
   and then the byte; a Dispose in between frees the owner, and with it the byte
   when the module keeps no clone of the PsRevocation. Lines 49-52 say it "is read
   only while the manager is unreleased". `OwnerOutlivesUse` shows that a GetSpan
   which begins after the Dispose reads nothing freed.

Limits that the conditions of a property state rather than a run:

- A guard of `on_stop` dropped on another thread frees whatever waker the slot
  holds, a later registration's too (stop.rs:75). `EveryGuardWoken` holds where
  no drop has done so (`strayed`), and so does `StopsEnd` of work that blocks on
  such a waker without asking `stopping` first.
- After a stop has taken the slot a second registration is accepted while the
  first guard lives (stop.rs:44), where pipeline.rs:150-151 says it is refused; the
  second waker runs at once, so no property is broken.
- `_order` makes an order for CallWith alone (ProxyCore.cs:255). A borrow of one
  object inside a call to another has none, and two threads can wait on each
  other for good: in the two-object shape of run `proxy`, which finds no deadlock,
  calls do not nest.
- What a freed value's own Drop raises is queued by ReleaseInstance's entry
  (ProxyCore.cs:393), which delivers nothing: `RaisesTaken` excepts freed values.
- A job for which a stop was asked ends Stopped even when its work failed
  (Jobs.cs:83-99).
- A rebuild between a reload's two reads of the file has the same copy loaded
  twice, under two generations: `EachCopyOnce` excepts it (`torn`).
- The constructor of NativeModule stages the library and then reads its write
  time (NativeModule.cs:236); a rebuild in between is taken for loaded until the
  next build. Reload reads them in the other order, and `UpToDateOnceReloaded`
  holds from the first reload on.
- A method that moves its PsTask to a worker and then throws has the generated
  catch discard the task and free the byte that `is_cancelled` reads
  (generate.rs:1216-1218, against task.rs:56-57): `ByteLivesWithCall` excepts a
  method that has thrown.
- A COM handler the source has and the hooks do not have yet (ObjectEvents.cs:
  352-353) is missed by a sweep that comes between: `SweepRemoves` speaks of
  handlers made before it. The detach at process exit covers it.
- PutBack restores the entry a failed claim replaced, and that entry's own making
  may have failed too (Loader.cs:371-373). A load of its shell then finds an
  entry that has landed and has no context, and repeats without end: `LoadsEnd`
  excepts `DeadEntry`.
- A load that found an old shell name before a rebuild and publishes after the
  rebuilt one gets a new generation and a second context for its name, where the
  comment above ContextFor (Loader.cs:317-326) has the same name reuse its context.
- A clear of the staging root that fails leaves files of a dead process
  (Loader.cs:276-283), and a staged name that is there is not copied again
  (line 162). `staged` is what this process has put there: `StagedStays` is of that.
- A span or a pin keeps nothing alive (RustMemoryManager.cs:34-44): a Dispose or
  the finalizer under a reader that uses one frees what it reads, as pinned.rs:419-421
  warns. `OwnerOutlivesUse` excepts the readers past their check of `_released`
  when the manager is disposed of or collected (`overtaken`).
- A folder with no marker, which no fetch leaves, is judged and then removed, and
  another tool may have put a complete one in its place (toolchain.rs:474-476). Of
  two tools that remove one such folder, one may fail there (474-480). A record
  cut short makes later fetches fail as malformed or unrecorded.
  `FetchesAgree` and `FailsForCause` name both.
- A helper's mark is read before its bytes are copied (NativeModule.cs:377-384): a
  rebuild in between leaves new bytes under the old name (`torn`). A process of an
  older build sweeps what one of a newer build is staging or about to start, where
  line 639-640 says a removal never breaks a later start: `OneBuildStarts` and
  the second half of `NameHoldsBytes` speak of processes of one build.

## Proofs

Every safety property, every action property and both refinements that the
passing runs check are theorems too: a run shows them on its instance, the
theorem for every value of the constants. `PROJECT.json` pairs them. Each proof
module gives an inductive invariant, shows that the initial states have it and
that each action keeps it, one named part at a time, and derives the properties.
TLC has checked each invariant on a run's instance before it was proved.

What a theorem assumes are the ASSUMEs of its modules, which TLC evaluates on every
run: bounds are natural numbers; null values (`Open`, `NoEvent`, `Empty`, `Free`,
`NoRunspace`, `None`, `Root`, `Gone`) are no member of the sets they stand beside;
`Gate` has finitely many threads; objects of `ProxyCore` have an order; `Worker`'s
pool has a thread, which `NonZeroUsize` and the least of its length and the number
of items give. Threads, stops, wakers, objects, runspaces, loads, shells,
enlistments, readers, tools and processes are otherwise arbitrary sets, and frames,
records, imports, rebuilds and items any number.

- **GateProofs.** `IInv` joins to the types and properties two facts about the
  owner: it is the thread that is admitted, inside or leaving (`OwnerInv`), and
  the depth and flag are those of its entries (`DepthInv`). Mutual exclusion is
  not inductive without the first, nor the exclusive entry without the second.
  The wakeup argument is `NoLostWakeup`: over an open gate with a thread parked,
  the event is set or some thread is between opening the gate and setting it, or
  about to try the gate; counting before trying (`WaitersCounted`) and one event
  for all (`OneEvent`) are what it rests on. `Refinement` maps each step to an
  entry, a leave or a stutter of `GateLock`; it states `ImplementsLock`, which
  mutual exclusion and the exclusive entry follow from and which run `gate` checks.
- **ProxyCoreProofs.** `Counted` is what everything rests on: a gate's depth is the
  number of its owner's frames inside the object, and no other thread has one.
  `Nested` says what a frame has left to do at each place and that only a thread's
  innermost frame is outside user code, so a step touches that frame alone;
  `Step` lists what a step may do to it and to the objects, `NextSteps` shows that
  every action does one of these, and each part of the invariant is then kept by
  the few kinds rather than by each action. `Exclusively` and `Alone` give one
  exclusive user. `LiveHeld` and `Releases` (a release entered from outside, so it
  is alone) give no free under a call. `Reports` says the pressure is what the
  value owns, or that an entry that may have changed it is still to leave;
  `Outside` that a frame's raises are of objects nothing under it is inside.
- **CmdletRunProofs.** `Owed`: a live guard's waker is in the slot or has run.
  `Settled`: once a stop has nothing left to take, the slot holds nothing but what
  the owner is about to take itself. Together they give `EveryGuardWoken`, of the
  slot alone and of a cmdlet's run, whose one other step on the slot, the release
  that frees what it holds, comes where no guard is alive (`PhaseOver`) and no stop
  has the instance (`OnLive`).
- **RustJobProofs.** `WakerRefinement`: every step of the job is a step of
  StopWaker or leaves it alone, so what `CmdletRunProofs` proves of the slot holds
  in a job (`JobWakers`).
  `Ending` orders the end of the job (released, then settled as what it read,
  then final), `Holding` ties a running stop callback to the lock and the lock to
  a live context, `Draining` the end of input to an empty, closed channel.
- **WorkerProofs.** A claimed item is in one place (`Spread`) and there once
  (`OneEach`): in f, panicked, in the channel, in the drain's batch, waiting its
  turn, about to be written, or written. `Moves` lists the ways from one to the
  next, and every step is one. So nothing is written twice, and while the drain
  runs nothing is lost (`NoneLost`). When the drain ends well, the threads have
  ended and the channel and the batch are empty: all is written (`Complete`).
  `InTurn` and `Flushed` are the input order, `OneLate` the one write a stop lets
  through. `Implements` is the refinement, action by action.
- **LifecycleProofs.** `Alone` follows the gate, its holder's place and its locals.
  `HooksLag`: hooks that have run lag the counts by the one that is running, which
  is what makes removals match imports inductive. `OneLive`: one copy is loaded
  while something imports it or its unload hook is due; `TotalCounts`, the total is
  the sum over all callers, here the cardinality of a set, is what decides either.
  `Versions` orders a write time and the copies across a reload; `FirstLoad` is the
  state before any.
- **LoaderProofs.** `SameShell`, `Entries` and `ContextMade` have a load and the
  claim it waits for agree. `Chain` is the hard one: the entry, what it replaced,
  and so on down, have generations that are all different and lie below the next,
  and every context that is made or may be is among them, although `PutBack`
  takes failed claims out of the middle. It gives one shell for a folder.
  `RootFirst` has one load clear the root before any other is past it, so nothing
  staged is removed (`StagedStays`).
- **HandoversProofs.** Each of the six modules of the composition has an invariant,
  and a step of one leaves the others' variables alone.
  Subscriptions: while no two raises overlap one call at most is under way and
  `_calls` says so (`Serial`), and none is in the callback, or enters it, once
  somebody is to release (`Quiet`); a handler made is in the hooks until somebody
  removes it (`InHooks`). Tasks: one half at most is past the exchange and has the
  byte to itself (`OneSettles`), and the Rust half settles last unless the method
  has thrown (`SettlesLast`, `ReadLive`). Transactions: an enlistment the manager
  may still call has its resource live (`Alive`), until the manager takes it the
  enlist call has it alone (`Offered`), and commits are sent only where every
  enlistment is prepared or committed (`Decided`), which ties the resources to a
  decision that is the manager's. Views: one has the release, the borrow's caller
  or the first Dispose (`OneReleaser`), and who is past its check of a manager that is
  disposed of was so when it was (`ReadersHeld`). Toolchain: a tool goes on with
  what agrees with the earlier record and the lock's first (`Checked`), what has
  the package's name has what the records say (`Published`), and a failure leads
  back to a line cut short, another's record (`CutByShort`, `RefusedByRecord`) or an
  unmarked folder. Helpers: what a name has, or is about to get, is its build until one lands
  between a mark and its copy (`Named`); processes that have read one mark find
  what they made, or what another made for them (`Kept`), and a folder is there
  only for a process that has read its mark (`Founded`).

Only model-checked: the liveness properties (`EveryWaiterEnters`, `CallsEnd`,
`RemovedIsFreed`, `TaskEnds`, `EachEndsOnce`, `StopsEnd`, `HeardStopEnds`,
`ClosedIsRemoved`, `CallReturns`, `LoadsEnd`), which rest on fairness and are beyond
the prover.

## Not modelled, and what comes next

Left out inside modelled parts:

- messages, conversions of arguments and results, COM type information, a job's
  record streams and StopJobAsync, `-AsJob`'s link from a cmdlet to its job;
- hooks that change another module (it has a gate of its own, and two modules
  whose hooks import each other can wait on each other);
- in `ProxyCore` a value's `Drop` that calls into objects;
- in `Worker` the pool of the `parallel` feature, Flynnel (another library's),
  scoped thread streams, and progress records of more than one activity;
- in `Loader` the .NET Framework load, which makes no contexts, the sweep of other
  processes' folders, and what a clear that fails leaves; in staging, helpers inside
  app bundles;
- `InDoubt`, which a transaction with only volatile enlistments never gets;
- pins and the copies .NET Framework makes of native memory;
- which packages a target needs and how PowerShell is run to fetch them.

Not modelled at all, with the reasons in `PROJECT.json`: parts that keep nothing
between calls (host table, conversions, binding helpers, providers, output
streams), pure functions (SIMD kernels, processor tiers), programs over files with
nothing concurrent (build tool, signing), compile-time generation and tests.

In order of what they would tell:

1. Wrapper cmdlets and steppable pipelines over `CmdletRun`: an inner pipeline's
   begin, steps and close inside the phases, and a stop of both.
2. Threads that belong to a resource (`thread.rs`), beside `Worker`.
3. Proofs: what the invariants give and no run asks, such as a job's context freed
   once and after its thread's last use of it, or a load's generation newer than
   every one made before it.

Findings 1 to 5 are kept as runs so that a fix shows: the run then passes, and
its property joins the passing run of its component.
