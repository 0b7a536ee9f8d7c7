# idle: TLA+ models, checks and proofs

idle is an asynchronous component framework for C++. A program is a tree of
*services* below one *context*; services declare dependencies on each other, and
the framework decides when each of them is started, stopped, reloaded and
destroyed. All decisions are taken on one event loop thread; other threads post
work to it, use services and hold references to them. This directory models
that machinery in TLA+, checks it with TLC and proves part of it with TLAPS.

Paths below are relative to the repository root.

## 1. Inventory

| Component | State | Operations | Talks to | What is hard | What makes it correct |
|---|---|---|---|---|---|
| Event loop (`event_loop_executor_impl.cpp`) | `state_`, `queue_`, the condition variable | `queue`, `run_ev`, `dispatch_all`, `set_stopping` | everyone posts to it | enqueue, notify and wait without a common lock; the end of the loop | work is called once, never lost, and the loop returns |
| Context (`context_impl.cpp`) | root service, guid recycler, listeners | `run`, `stop`, lookup, listener calls | drives event loop and scheduler | stop racing the start of the root | `run` returns once stopped |
| Scheduler (`scheduler.cpp`) | `up_`, `down_`, `processing_`, `processing_dispatched_` | start, stop and restart requests, `iterate`, `process`, `stop_root`, `update` | calls `ServiceImpl`, is called by it | requests between any two hooks, cycles through weak usages | every request is answered, nothing is left behind |
| Service life cycle (`service_impl.cpp`, `service.cpp`) | `phase_`, `uses_`, `inner_deps_missing_`, per cluster `running_`, `outer_deps_missing_`, `pushes_`, `pulls_`, marks, `target_`, `promise_` | lock, start, stop, unlock of clusters; connect and disconnect of usages; `try_use`, `dec_use` | scheduler, parts, registry | seven counters kept by increments and decrements in some thirty handlers; `uses_` from any thread | dependencies outlive their users, counters are exact |
| Dependency graph (`graph.cpp`, `node.cpp`) | derived from the parts | in and out edges, cluster graph | scheduler | implicit edges to the root | - |
| Reference counts, garbage collector, deleter (`ref_base.hpp`, `garbage_collector.cpp`, `service_deleter.cpp`) | `strong_`, `weak_` | `increase`, `try_increase`, `decrease`, `on_unique`, `on_destruct` | stops and destroys services | callbacks after an atomic decrement; posted deletion | nothing is destructed under an owner, the unreferenced is collected |
| Init and destroy of services | the tree, `guid` | `init`, `destroy`, `on_service_add`, `on_service_del` | all of the above | a graph that changes while services start | counters stay exact |
| Registry (`registry_impl.cpp`), singleton | the published interfaces of an id in order of preference, subscribers, satisfied parts | publish, revoke, callbacks of creation, lock, start, unlock, destruction | life cycle, imports | one missed callback is never repeated | one service of a singleton runs, and one can always run |
| Dependency, DynDependency, DynDependencies | the selected interface, a preferred one and a pending swap, a map of usages and a storage | select, swap, offer, release, acquire | registry, life cycle | an interface comes, goes or stops while its user is locked; a swap applied on another thread | nothing that is gone is referred to, nothing that is offered is missed |
| Thread part (`thread.cpp`) | `state_`, `promise_`, `exception_`, `thread_` | `launch`, `requestStop`, `join_and_reset` | its service | an atomic written with and without the mutex | start and stop resolve, the thread is joined |
| Pollable executor, container, collection | queues, children | poll, cancel, add, clear | services | cancellation while polled | - |
| Timer, IO context, strand | deadline queue, armed timer, pool of threads and work guard | `wait_*`, `deposit`, `ready`, start, stop | asio | a handler posted before the timer was cancelled; threads that leave the pool | each wait resolves, the pool stops |
| File watcher | `changes_`, `promise_`, debounce timer | `watch`, `handleFileAction`, `resolve` | asio, efsw, its clients | debounce racing stop and the next watch | no change is lost |
| Plugin compiler and recompiler | build directory, changes of the sources | `watchAndCompile`, generate, build, install | file watcher, process group | sources that change while a build runs, builds that fail | artifacts are those of the newest sources |
| Plugin loader, plugins, hotswap | `plugins_`, generation, `bundles_`, contexts | load, convert, dispatch, start, stop | file watcher, services, singleton | artifacts that change while plugins of several generations stop and start | one library of a plugin is loaded, the newest one in the end |
| Commands, activities, status notifier | subscribed interfaces | invoke, complete | registry | commands that come and go | - |
| Process group | the group, its strand, a frame per child with promise and pipes | spawn, `on_exit`, reads of lines and buffers, start, stop | IO context, compiler | output, the exit of the child and the stop of the group race | each spawn resolves, pipes are closed |
| Signal set, command line, logger, store, variables, reflection, graph output, tools | - | - | - | mostly I/O or conversion | - |

`PROJECT.json` lists every component with its sources and status, and the
hazards of the code at the lines where they bite.

## 2. Plan

In the order of importance.

1. `EventLoop` - everything else relies on posted work being run. Done, proved.
2. `ServiceGraph`, `ServiceScheduler`, `ServiceLifecycle` - the core: the counters
   and queues (detailed) implement the order of starts and stops (abstract).
   Done; the counters and the refinement are proved for every finite graph.
3. `ThreadPart` - the thread a service owns. Done, proved.
4. `RefCount` - lifetime of one service. Done, proved.
5. `Registry`, `Imports` - what services select from each other. Done, proved.
6. `IOContext`, `Timer`, `ProcessGroup`, `FileWatcher` - the asynchronous services
   below the plugins. Done, proved.
7. `Recompiler`, `Hotswap` - hot reloading, the composition of the rebuild side,
   the loader and the plugins. Done, proved.
8. Left to model: services that are created and destroyed in `ServiceScheduler`
   (`on_service_add`, `on_service_del`), the guid recycler, command processor,
   pollable executor, activities, store and properties.

How the modules depend on each other:

```
ServiceGraph --> ServiceLifecycle <-- (INSTANCE) -- ServiceScheduler
IOContext    --> Timer, ProcessGroup
Registry     --> Imports
Recompiler   --> Hotswap
EventLoop, ThreadPart, RefCount, FileWatcher stand alone
```

## 3. Modules

### EventLoop

Models `EventLoopExecutorImpl` with the two pieces of work `ContextImpl` posts:
the start of the root (`run_impl`) and its stop (`stop_impl`). One process is
`run_ev` (`prepare_ev`, `Dispatch`, `DispatchAllReturns`, `CheckStopping`,
`DestroyServices`, `SetDestroyed`, `SetStopped`, `ReturnFromRun`), the others are
threads inside `queue()`, which is three steps: `is_running`, `enqueue`, `notify`.
The concurrent queue is documented not to keep the order of work, so it is a set.
The condition variable is a waiting state that a notify, or a spurious wakeup,
ends.

### ThreadPart

Two processes: the event loop (`launch`, `requestStop`, `join_and_reset`) and the
launched thread. `state_` is stored to by both, partly outside of `mutex_`, and
each load, store and critical section is a step of its own. `onRun` polls
`isStopRequested()`, as the users of the part do, since the default `onStopRequested`
does nothing: it may end at any time, and has to end only while `state_` says
`stop_requested` (`OnRunStops`). `MaxLaunches` bounds how often the service is started.

### ServiceGraph

Constants: the services, their parents, clusters and usages, with their
assumptions. Operators: the edges of the graphs of `graph.hpp`. A usage inside
of a cluster is excluded because `Usage::connect` panics on it (`NoInnerUsage`).
`RootAssumption`: the root is a cluster of its own and no usage begins or ends in
it, since the only part of `Context` is its `Container`, an Export that is no
interface.

### ServiceScheduler

Models `Scheduler` and `ServiceImpl`. A step is one task of the event loop, or
one iteration of the loop in `process()`, because only other threads can run
inside of them. The handlers call each other deeply (a start increments a use
count, which resolves a requirement, which queues another service, ...), so they
are operators from a state record to a state record with the names of the code;
an action applies one and installs the result. Hooks (`onStart`, `onStop`)
complete at once or later (`Async`). `try_use` and `dec_use` of other threads are
`TryUse` and `DecUse`, and the check `dec_use` posts carries the count it saw.
Weak usages come and go (`AcquireUsage`, `ReleaseUsage`), and an import answers a
release request at once or later. Where the code visits a set in the order of an
address, the fold visits it in an arbitrary order.

Not in this model: a graph that changes, listeners, and hooks that throw (the code
ends the program then).

### ServiceLifecycle

The promise of the scheduler in terms of `phase` alone: a cluster is locked as a
whole when everything it needs runs, members start bottom up and stop top down, a
service stops when nothing that needs it is locked, and the last member that
stops unlocks the cluster. `ServiceScheduler` instantiates it with its own `phase`;
`LifecycleSpec` is the refinement.

### RefCount

The life of one service: `strong_` and `weak_`, threads that copy, lock and drop
references, the callbacks `on_unique` and `on_destruct` as separate steps after
the decrement, and the tasks they post. The scheduler is reduced to what it does
to one service: the queue entry, lock, unlock and the restart check, the stop of
the garbage collector, and destruction by a `Collection`, which owns no reference.
Every producer has its own FIFO queue; queues of different producers are
unordered. The model follows a build with assertions: a failed assertion, or a
read of deallocated memory by `on_unique`, ends the behaviour in `failed`.

### Registry and Imports

`Registry` is one entry: the list of published interfaces in the order of
`UniqueGreaterPred`, the phase of the service of each, and the `Singleton` parts,
which are satisfied and unsatisfied by callbacks only. `Imports` adds services with
one import each, of any of the four kinds (`Dependency`, `DynDependency`, its heir
`Var`, `DynDependencies`), as a record that every callback maps to a record. A
service of an interface is created, locked, started, asked to stop, stopped,
unlocked and destroyed; each of these steps runs the callbacks of all subscribers
and usages, in the code's order where it matters. `RequestStop` is
`on_service_stop_request` for this one edge of the graph, for a service that runs or
is still starting: the locked imports, and weak usages in any case, answer Now,
Later or Never, and whoever refuses is marked for stop. `asked` is the flag
`ReleaseRequested`: who answered Later is not asked again while the usage stays
connected. A service that was asked to stop during its start is not announced when it
runs (`RunService`). The scheduler itself is
reduced to the conditions under which it locks, stops and unlocks. A swap goes
through the posted task, the user's `apply` on the loop or on another thread, and
`finalize`. What the user answers is chosen freely. An assertion that fails, or
a selection left freed, ends a behaviour in the field `failed`.

### IOContext and Timer

`IOContext` is the pool: the work guard, threads inside of `run()`, the counter
`running_` and the join posted by the last thread. asio is external; `Timer` extends
the pool and says what is outstanding. Handlers of the strand are a sequence, the
asio timer is the deadline of its pending wait, and `ready`, which runs outside of
the strand, is a step of its own between the expiry and the task it posts.

A strand that is emplaced again is taken to continue the order of the previous one.

### ProcessGroup

A spawn is where its child is: posted, running, exited (the signal is pending),
reaped (its `on_exit` is posted) or done. Each start of the group has a strand of its
own; frames post to the one that `strand_` holds. Reads complete outside of the
strand: a line is first available and then handled, and the handler posts the next
read. That read checks the pipe (`CheckOpen`) and is started (`StartRead`) in two steps,
which keep their strand busy: after a restart of the group the strand of the other
start may handle the exit, and close the pipe, in between. `onStop` is two steps, since
the pool runs while it waits for the children it terminated. A launch after that ends at an assertion; a post to a strand that was
reset may succeed while the group is allocated, or not. stdout and stderr are one
stream, and a last line without a delimiter is not output.

### FileWatcher

Writes, deletions and renames on the disk, the event they post, the filter (a
rename across the filter is an addition or a removal), the merge into `changes_`,
the debounce timer with its continuation, and one client that watches again and
again. `known` is what the client concludes from the changes it was given.

### Recompiler and Hotswap

`Recompiler` has the sources, the last build and the artifact of each component as
versions; the user edits at any time, and every process may fail between any two
components. `NeedsRegenerate` and `InstallComponents` decide which of the three
builds a set of changes leads to. `Hotswap` adds the artifact directory and its
watcher, the conversion of file events into plugin events (with the weak map
`plugins_`), the batches of the reload loop and the life of plugins. A plugin, its
bundle and the services of the bundle start and stop as one; its `Singleton` behaves
as in `Registry`.

## 4. Runs

| Run | Checks | Bounds |
|---|---|---|
| `event_loop` | work is called once and not lost, the root is stopped before services are destroyed, work of the loop completes and a stopping loop returns | two foreign tasks, two loop tasks, one stop |
| `event_loop_lost_wakeup` | **violated**: a stop that was accepted lets `run` return | same |
| `thread` | launches resolve, a stop that reaches a running or sees a finished thread resolves, the thread is joined and the part reset in the right state | three launches |
| `sched_chain` | all counters are exact, the queue is sound, no stop and no start is left behind, what nobody needs stops | root, `a`, and `b` that uses `a` strongly and over a weak usage that comes and goes; all three can be requested, both hooks asynchronous |
| `sched_cluster` | counters and the life cycle refinement | cluster of `a` and its member `m`; `b` is a child of `m`; all hooks asynchronous |
| `sched_threads` | use counts, and every stop resolves, with uses held by other threads | the chain, one foreign use per service |
| `ref_count` | the strong count is exact, service and control block outlive their owners, one destruction, collection of the unreferenced | two threads and the loop, five new handles or start requests |
| `timer` | the queue is watched, waits resolve, the pool is joined when over and stops | two waits, four instants, three starts of the timer, two of a pool of two threads |
| `file_watcher` | no change is lost, a delivery is under way, the client catches up | two watched and one ignored file, four changes, two starts |
| `imports` | selections, pointers and storages are backed, nothing is missed, swaps keep their assertions, singletons do not starve, stops are served | a default, two interfaces that tie and one preferred to them, two of them singletons; the filter passes one strongly and one weakly, and the user takes one by itself; one user of any kind |
| `process_group` | pipes are closed before their frame goes, spawns are resolved | a streamed and a buffered child of two lines each, two starts of the group, one of the pool |
| `hotswap` | artifacts follow sources, one library is loaded, loader and loop agree, what runs catches up | two components, three edits and deletions, five generations |

Why the bounds are enough for the question asked: two posters and two loop tasks
let one piece of work arrive in each window of `run_ev` while another keeps the
loop busy; a third launch shows that nothing survives two restarts; the scheduler
handlers only look at a service, its cluster and its direct neighbours, and the
topologies contain each kind of edge (strong usage, weak usage, export child,
inner child, implicit edge to the root) with a node on both sides that can be
requested on its own. The state spaces are finite without further bounds. With
five operations two threads can pass a reference around, lock a weak one while
the collector looks, and restart the service. Larger graphs are covered by the
proofs only as far as section 5 says. Two waits and four instants let a wait be
earlier than, equal to and later than the armed one, and already due; two starts of
the pool are the second life the code does not support (so `process_group` has one).
Two lines let a read be posted again before and after the exit of the child. Two visible files are a
rename, the third lets one cross the filter. The four interfaces are the least
with a default, a tie, a better one to swap to, and another that arrives during the
swap; they also let a preferred interface that is still starting be released in favour of
one that ties with the active one. One strong, one weak and two ignored interfaces meet
each branch of DynDependencies; that a user takes an interface its filter ignores is
left to the proofs. Imports never look at each other, so one user at a time is enough. With two
components a build of one alone can leave the other behind; five generations are
enough for what three edits produce, or `ReloadsArtifacts` would fail for a loop that
the bound stops; the threshold of five files is never exceeded, which only turns a
build of one component into a full one.

`CHECK_DEADLOCK FALSE` is used where the system really ends: after `run` returned,
after the last launch, when a service is gone, when the bounded number of waits,
file changes and edits is used up, and where a failed assertion ends the program.

### Fairness

- `EventLoop`: the loop thread and a thread inside `queue()` are scheduled again
  and again. Nobody has to post, and no wakeup has to be spurious.
- `ThreadPart`: the loop and the thread are scheduled, hooks return. `onRun` need
  not end unless it can see the request, that is while `state_` is `stop_requested`.
- `ServiceScheduler`: posted tasks are run and hooks complete (the framework
  cannot make progress otherwise, and says so), imports release usages they
  promised to release, and other threads finally stop using services. The posted
  `process()` is weakly fair, and an iteration that began ends or goes on taking
  steps. Rechecks, hooks and releases are written as "infinitely often not
  waiting", which is what weak fairness of the step means since a waiting task or
  hook stays enabled until it is taken.
- `RefCount`: a thread that decreased a count goes on to its callback, and the
  loop runs its tasks. Nobody has to drop a reference.
- `Timer`: time passes, threads of the pool run handlers and leave `run()`. Nobody
  has to stop the timer.
- `ProcessGroup`: as the timer, and the wait for terminated children returns. A
  child need not exit.
- `FileWatcher`: the loop runs its tasks, an armed timer expires, and the client
  watches again, as the loops of the plugins do.
- `Imports`: the scheduler stops what is marked and unused, and starts what is
  locked, services and users. Nobody has to accept a swap or to release a usage.
- `Hotswap`: processes end, notifications are dispatched, the loop and the
  scheduler go on, and plugin code finally lets go of its context. Builds need not
  succeed.

### What the violated run shows

- *Lost wakeup.* `queue()` enqueues and notifies without `mutex_`, and `run_ev`
  waits without a predicate. A stop posted by another thread after `dispatch_all`
  saw an empty queue and before `wait` stays in the queue while the loop sleeps.

Other disagreements met while modelling, without a run of their own:

- `Singleton::onSubscribedDestroy` satisfies the most preferred part without asking
  whether a sibling is locked (`singleton.cpp:93`), as `onSubscribedCreated` does.
  With a locked service, a preferred one that waits for it and any third one that is
  destroyed, both run, although "only one instance is allowed to be running at the
  same time" (`singleton.hpp:34`). Plugins do not meet it: their bundle is started only
  after the older plugins have stopped (`OneLibraryLoaded`).
- A `Context::stop` that is dispatched before the start of the root resolves
  without effect, although it "lets run return" (`include/idle/core/context.hpp:84`).
- A thread that passed `is_running()` may enqueue after the last `dispatch_all`;
  `run_ev` asserts an empty queue there (`event_loop_executor_impl.cpp:90`).
- `running` is stored after the launch resolved (`thread.cpp:96`) and may overwrite
  `stop_requested`: an `onRun` that polls `isStopRequested()`, as `gameloop.cpp:49` does,
  never ends. The assertion of the default `onStopRequested` (`thread.cpp:190`) fails then,
  and also when the polling thread has ended before the hook is called.
  `RequestedStopResolves` is about stops that take the mutex while `onRun` runs.
- `requestStop` may read `launching`, which it asserts not to
  (`lib/idle/core/parts/thread.cpp:149`): `running` is stored after the launch resolved.
- A service that is used over a weak usage only and finishes its start while its
  locked user is stopped is pushed to the down queue although it is not stoppable
  (`scheduler.cpp:111`, `service_impl.cpp:356`). So is one that another thread takes a use
  of while it starts and is to stop. In the run `sched_chain` the weakly used service is used
  strongly as well, and no other thread holds a use.
- In a cycle through a weak usage, a disconnect can leave a push behind that
  `verifyCluster` would report (`service_impl.cpp:164`).
- `observe()` "resolves on next successful status change" (`service.hpp:500`), but a
  cluster that is started as a dependency has no target and resolves nothing.
- A start request for a half stopped cluster leaves it where it is.
- `epoch_` "is increased after every stop and start", but only stops do.
- `on_unique` reads the service after the decrement; the remaining owner may have
  destructed and deallocated it by then. The model leaves the outcome open.
- `requestStop` of a thread reads the state before it locks `mutex_`
  (`thread.cpp:145`). If `onRun` returns in between, the promise it stores is never
  resolved, although the two calls "sync the state" (`thread.hpp:46`). This window, too,
  is outside of `RequestedStopResolves`; `FinishedNotStale` is the part of it that holds.
- `stop_root` clears the queue and queues heads only (`scheduler.cpp:584`). A member
  whose head is pending already is forgotten, and the root never stops, although
  what is waiting for stop "will be re-queued".
- A stop that reaches a cluster whose member has started while its head is only
  locked (`scheduler.cpp:291`) stops the member; the head never leaves `locked` and
  the stop never resolves. `sched_threads` therefore has no cluster.
- The scheduling queue holds plain pointers (`scheduler.cpp:665`). If the last `Ref`
  is dropped after a start request was queued and before `process()` runs, the
  service is locked with a count of zero, which `increase` asserts not to happen
  (`ref_base.hpp:557`). `RefCount` ends such a behaviour at the assertion.
- `Scheduler::on_service_stop_request` says that a service is "marked for stop
  already" and does not return (`scheduler.cpp:284`).
- `update` repeats for ever while a pushed service fails to start again and again
  (`scheduler.cpp:378`); the reload loop never watches again then.
- The second task of `ready` after an earlier deposit meets an empty queue and an
  assertion (`timer_impl.cpp:158`). `onStop` keeps `queue_`: what is left over is not
  watched after a restart, and keeps later waits from being armed. A deposit or
  `ready` after the stop reads the emptied `timer_` or `strand_`.
- Nothing calls `restart()` on the `io_context`: a restarted pool returns at once and
  the join finds no promise. `hardware_concurrency()` may be zero.
- `on_exit` closes the pipes and resolves the promise whatever is still unread, so
  that `out()` need not be "the completed stdout stream" (`process_group.hpp:91`), and
  reads fill its buffer outside of the strand meanwhile. A setup that fails throws a
  `boost::process::process_error`, not `process_spawn_exception` (`:152`).
- A continuation of the debounce timer that was posted before the timer was armed
  again, or before the next watch, resolves that watch early, maybe with nothing,
  which `watch_impl` of the plugin loader asserts not to happen, or finds no
  promise. A rename followed by an event of the new name loses the old name.
- The preferred interface of a locked `DynDependency` that is destroyed leaves a
  freed one selected (`dyn_dependency.cpp:295`). `finalize` is unreachable code when a
  better interface came during the swap (`:485`). An interface that comes while a
  swap is pending is not considered again at the unlock, although the comment says
  so (`:215`). Without a replacement a release of the active interface is answered
  Later for good; a swap task that finds the user locked but not yet usable is
  dropped, and the swap stays pending until the user stops.
- A stop of a preferred interface that is still starting makes a locked
  `DynDependency` select the first interface before the active one, which may only
  tie with it (`dyn_dependency.cpp:61`, `:342`). The next creation fails the assertion
  that the preferred one is greater than the active one (`:223`). If what was
  selected runs already, no swap to it is offered. `Imports` reaches both; the
  behaviour ends at the assertion, and `SwapAssertionsHold` is about the other ones.
- A service that is asked to stop during its start and that a locked import refuses to
  release becomes running while it is in use, where an assertion expects it to be
  stoppable (`service_impl.cpp:356`). The behaviour of `Imports` ends there.
- `ReleaseRequested` is cleared only when the usage is disconnected or refuses
  (`service.cpp:694`). A usage that answered Later and stays connected until its user
  stops is not asked at the next stop; its user is taken to be releasing it.
- An artifact that the first scan of the directory found and that a late
  notification adds again is loaded twice; the second bundle is never satisfied and
  the reload loop waits for ever (`AddedTwice`).
- An artifact that is deleted before it was copied to the cache, or a plugin whose
  start throws, ends the reload loop for good while rebuilds go on.
- A failed full build consumes its changes. If the next change builds another
  component alone, the first one stays stale (`stale`); `failed_last_` is set and
  never read (`plugin_recompiler_impl.cpp:93`).
- `insert` does not replace an expired entry of `plugins_`
  (`plugin_loader_impl.cpp:220`). A renamed artifact keeps its entry under the old
  name and is reported as a modification between plugins of different ids, which
  `dispatch_op_eager` asserts not to happen (`plugin_hotswap_impl.cpp:223`).
- The command processor inserts a command again when it is told of its destruction
  (`command_processor.cpp:89`).

## 5. Proofs

All theorems are checked by TLAPS for every value of the constants that satisfies
the named assumptions.

- `EventLoopProofs`, for any sets of work (`WorkDistinct`): `TypeCorrect`, and
  `HandlersOnce` (`CompletedOnce`), `NothingLeftInQueue` (`LoopWorkNeverLost`) and
  `RootStopped` (`RootStoppedBeforeDestroy`). The inductive invariant adds where a
  poster is in `queue()` (`PosterInv`): work that is not in the queue yet has not been
  called. Without it "called once" is not inductive, since an enqueue could add a
  completed work. `RootInv` adds the order in which the loop's own work is posted:
  the iteration that stops the root exists only after its start, and stopping only
  after that iteration, so that no order of dispatch destroys a running root.
- `ThreadPartProofs`, for any number of launches: `TypeCorrect`, `JoinSafe`
  (`JoinOnlyStopped`) and `FinishedNotStale`. The invariant says who owes which promise
  in which step of the two threads (`LaunchInv`, `RunInv`, `StopInv`), that `state_`
  follows the thread until a stop is requested, and that `finished` is final
  (`SeenInv`): `requestStop` may use the copy it took before the mutex when it says
  finished, and only then.
- `ServiceSchedulerProofs`, for every finite graph (`GraphAssumption`, `NoInnerUsage`,
  `RootAssumption`, `SchedulerAssumption`): `UsesCorrect` (`UsesExact`), `RequirementsCorrect`
  (`RequirementsExact`, `PullsExact`), `CountersCorrect` (`CountersExact`),
  `QueueCorrect` (`QueueSound`) and `RefinesLifecycle` (`LifecycleSpec`), with what follows from it for the scheduler:
  `DependenciesOutlive` (`NeedsRun`), `ClustersAtomic` (`LockedTogether`) and
  `MembersNested` (`ChildrenRun`).
  The inductive invariant `SInv` has two halves that need each other. `Exact` says what
  each counter of the state counts: `uses_` the locked users, the parent and the
  uses of other threads, `outer_deps_missing_` the strong edges from services that do
  not run, `pulls_` the edges from clusters marked to stop, `pushes_` the edges to
  clusters that are pushed, and so on. `IInv` of `ServiceLifecycle` says what the phases
  of a cluster may be. Exactness makes the guards of the code mean the guards of the
  life cycle (`StartableFacts`, `StoppableFacts`: no missing dependencies means that all
  needed services run, a use count of one means that no user is locked), and the life cycle
  tells which increments a handler may skip (the uses of a cluster that is
  unlocked go to services that run).
  The layout follows the calls of the code: what each increment and decrement
  changes and leaves alone (`...Frame`), that each handler keeps `Exact` although it is
  broken between its calls (`...Exact`; `LockExact` and `UnlockExact` hold the uses
  of a whole cluster, `DisconnectExact` the three counters along a usage), the loops by
  induction over the folds that model them (`FoldGuarded`), and one lemma per action.
  `NewlyPushedFacts` and `NoLongerPushedFacts` are about the recursive hand-over of
  pushes: the clusters reached are the least closed set, so that exactly the edges into
  it are counted.
  `CountersCorrect` has the premise `Acyclic`: clusters have a rank that grows along every
  parent edge and every usage, connected or not. Only `pushes_` need it: inside of a cycle a push
  that is released stops at the ancestor where the release began and is left behind (section 4).
  The graphs of all runs are acyclic; the other theorems but `QueueCorrect` do without.
  `QueueCorrect` has an invariant of its own on top of `SInv`, `QInv`: what is queued to be
  stopped runs, and what is queued to be started is stopped or locked. The root is the
  exception that makes it interesting: `run` starts it past the queue, so that an entry to
  start it may remain while it runs. It is then not queued to be stopped as well, since its
  override pushes it (exact `pushes_`, hence `Acyclic`) until `stop_root` takes the override
  away and clears the queue. Handlers either let the queue grow (`Grows`: new entries fit
  the phases) or move one service that is not queued (`PhaseSound`).
- `RefCountProofs`, for any finite set of threads (`ActorsAssumption`,
  `MaxOpsAssumption`): `CountExact` (`StrongExact`), `Alive` (`AliveWhileReferenced`)
  and `NeverDangles` (`NothingDangles`). The strengthening is `ZeroIsFinal`: once the
  destructor is near (a deleter is posted, a thread is in `on_destruct`) the count is
  zero and stays zero, because every increase has an owner or checks for zero. For the last theorem
  `WeakExact` counts the weak references: one per `WeakRef`, one per posted task that
  owns one, and one for all `Ref`s together until the actor that dropped the last of
  them has released it; hence the block is freed only when nothing is left.
  `DestructInv` says that one actor at most is on its way to the destructor, that
  this excludes a posted deleter and a destructed service, and that what is
  destructed was destroyed, which took it out of the queue.
  Behaviours in which a queued service lost its last reference end at the failed
  assertion, so the theorem says nothing about a build that continues after it.
- `IOServicesProofs`, for a pool of any finite size. The timer, for any set of waits
  (`PoolAssumption`, `TimerAssumption`): `PoolJoined` (`JoinsFinishedThreads`) and
  `QueueAlwaysWatched` (`QueueWatched`). `PoolInv` adds that a thread is inside of
  `run()` or behind it, not both, so that `running_` counts it once. `QueueInv` adds
  that a queued wait is not idle, hence no `waitFor` changes its deadline below the
  one the timer is armed for, and that a service that is up exists, hence its strand
  does not drop a deposit. `DepositStep` and `DrainStep` hold the argument: the timer
  is armed for the least deadline of the new queue, which the library's well-founded
  minimum provides.
  The process group, for any set of spawns, any number of lines and starts:
  `PipesClosed` (`StreamsClosed`) and `GroupPoolJoined`. `FrameInv` says that the
  spawn and the exit handler of a child
  have at most one place in the strands of all starts; `GroupInv` adds that an exit
  handler waits exactly while its child is reaped, and that a pipe is open only
  from the launch of its child until that handler. Without the single place the
  handler of a child could run twice, and close a pipe that is read again.

- `FileWatcherProofs`, for any files, filter and bounds: `TypeCorrect`,
  `AlwaysDebounced` (`DebouncePending`) and `NothingLost` (`NoChangeLost`). The argument
  for the last one goes file by file: where the client's knowledge differs from the
  disk, an event in the queue, a merged change or the initial scan still mentions
  the file. `MergedFacts` is what the merge guarantees (it always leaves a change,
  a removal only for a deletion, and a rename keeps the old name), and the last
  event about a file tells whether it exists.
- `HotswapProofs`, for any set of components and any number of edits and generations:
  `TypeCorrect`, `QuietInstalled` (`QuietMeansInstalled`), `OneLibrary`
  (`OneLibraryLoaded`) and `BundlesOfKnown` (`BundlesKnown`).
  On the rebuild side `BuildInv` follows a change through the stages: it is pending,
  or consumed by the running build, which covers it with its target; what is compiled
  is fresh unless a newer change is pending.
  On the reload side neither property is inductive alone: that a new plugin starts
  only behind its predecessor depends on what the loader believes of the directory.
  `ReloadInv` therefore says that the notices under way tell the history of each
  artifact (`NoticeInv`), that a component without an operation is quiet (the known
  plugin runs and has the bundle, no other does) and which states the three kinds of
  operation allow (`AddedInv`, `ModifiedInv`, `RemovedInv`). An artifact that is
  added twice is a case of its own (`Blocked`): the second plugin is never satisfied
  behind the running one, which is why one library is loaded even then.

- `ImportsProofs`, for any finite set of interfaces with any priorities, any filter and
  any set of users (`RegistryAssumption`, `ImportsAssumption`): `TypeCorrect`,
  `SelectionsCurrent` (`SelectionCurrent`), `PointersUsable` (`PointerUsable`),
  `StorageIsBacked` (`StorageBacked`), `NoneMissed` (`NothingMissed`), `NotStarved`
  (`SingletonNotStarved`) and `SwapsSafe` (`SwapAssertionsHold`). The first lemmas are
  about the list: `insert_sorted` and taking a node out keep it sorted, so that its
  head has the priority (`InsertFacts`, `UnlinkFacts`, `ListFacts`).
  `EntryInv` strengthens "not starved": the most preferred singleton is satisfied
  while it is locked itself as well, since unlocking it wakes the others only.
  `PartInv` is the state of one import: while it is locked, the active interface runs,
  the preferred one is published, a swap is pending only to a preferred interface
  whose service runs, and the pointer is the preferred one exactly between apply and
  finalize (`HeldInv`). That a preferred interface has priority over the active one is
  not part of it: a reselection can pick a tie (`DynReleaseKeeps`), and the behaviour
  that ends at the assertion is a case of `DynCreatedKeeps`. `SwapsSafe` follows from
  what is left: an offer sets the preferred interface or follows its start, neither of
  which can happen while a swap to a running service is pending.
  For DynDependencies `UsesInv` says that the storage is connected while the user is
  locked, and `Idle` that a use of a stopped user is connected unless it is weak and was
  released for a service in `stopping`; the unlock of that service connects it again.
  Each callback of a part has a lemma that it keeps `PartInv`, each action applies them
  to all parts.

Every inductive invariant was checked by TLC on the instance of its run as well.

Only model-checked: every liveness property (fairness and ENABLED are out of the
prover's reach), and `NothingLeftBehind` of the scheduler, which is not true of every
graph and stays with the chain of `sched_chain`: in the cluster of `sched_cluster` the member
that `stop_root` forgets makes it fail (section 4).

## 6. Not modelled

- Memory orders weaker than sequential consistency; exceptions of hooks in the
  scheduler (the program ends); listeners and logging.
- Services that are created and destroyed in `ServiceScheduler`, whose graph is
  fixed. `Imports` creates and destroys services, but knows one entry and no counters.
- In `ServiceScheduler`: `Import::setSatisfied`, which counts an unsatisfied import in
  `outer_deps_missing_` (`service_impl.cpp:472`). `Imports` has the satisfied flag as a
  condition of the lock.
- In `Recompiler`: an empty set of workspaces and changed files outside of every
  workspace, which both lead to a full build (`plugin_recompiler_impl.cpp:172`, `:189`).
- In `Hotswap`: renamed artifacts, sideloading, dependencies between plugins, cached
  files, a restart of the hotswap service (`bundles_` is not cleared), and the end of
  `update`, which is assumed.
- In `ProcessGroup`: `open`, options and environment, which keep no state, and
  children that survive `terminate`.
- The components marked `not_modelled` in `PROJECT.json`: command processor, pollable
  executor, activities and store are planned; conversion,
  formatting, graph output and terminal I/O have no concurrent state.
