# Formal model of the native file watcher and of the stream filter

The repository is a copy of Mozilla's `toolkit/` in which a team replaced one
component: `toolkit/components/filewatcher`, the service `nsINativeFileWatcherService`
that tells JavaScript and C++ clients about changes of directories. The Windows
port came with the tree; the Linux and macOS ports are the project's own work.
This directory holds TLA+ modules of that component, of its three ports, and of
one concurrent component of the tree around it, the stream filter of
`toolkit/components/extensions/webrequest`; TLC configurations that check them on
small instances; and proofs that TLAPS checks for all instances.

File names without a directory are relative to
`src/toolkit/components/filewatcher/`, those of the stream filter
(`StreamFilter*`, `PStreamFilter.ipdl`) to
`src/toolkit/components/extensions/webrequest/`.

## 1. Inventory

### Parts, their state and their operations

| Part | State | Operations | What makes it correct |
|---|---|---|---|
| Service (main thread; one per port, `NativeFileWatcherService`) | `mIOThread`, the task object | `Init`, `AddPath`, `RemovePath`, `Uninit` (from the observer of `xpcom-shutdown-threads`) | every call reaches the IO thread in order; nothing after the shutdown |
| Linux IO task (`NativeFileWatcherLnx.cpp`, `NativeFileWatcherIOTask`) | inotify descriptor, `mInotifyEventQueue`, `mInotifyReadTimeout`, two indexes of watched resources, two callback tables, `mShuttingDown` | `Run`/`RunInternal`, `AddPathRunnableMethod`, `RemovePathRunnableMethod`, `DeactivateRunnableMethod` | indexes, callback tables and kernel watches agree; changes reach the registered callbacks; a removed callback stays quiet |
| SIGIO handler (Linux) | the global counter `mEventWaiting` | `signalHandler`: `++mEventWaiting` | no lost wake-up although `++` and `--` race |
| Notification runnables (all ports) | the callback handle and what it is told | `WatchedChangeEvent`, `WatchedSuccessEvent`, `WatchedErrorEvent`, run on the main thread | delivered in the order in which they were posted |
| Windows IO task (`NativeFileWatcherWin.cpp`) | completion port, per directory an overlapped read, the same four tables | `Run` blocked in `GetQueuedCompletionStatus`, wake-up packets, the three runnables | a queued call always has a wake-up packet behind it; a removed handle is forgotten exactly once |
| macOS IO task (`NativeFileWatcherMac.cpp`, `NativeFileWatcherIOTask.h`, `NativeFileWatcherCommons.h`) | callback queue shared with the FSEvents thread under `callBackLock`, tables, recursive list of directories | `Run`, the three runnables, `getRecursivePaths` | no event lost or dispatched to the wrong path; no lock is left held |
| macOS FSEvents task (`NativeFileWatcherFSETask.h`) | event stream, list of paths, run-loop reference and `runLoopLock` | `AddPath`, `RemovePath`, `Run`, the stream's callback | the two threads never wait for each other |
| Interface (`nsINativeFileWatcher.idl`) | none | its documentation is the specification | the ports implement it |
| Stub (`NativeFileWatcherNotSupported.h`) | none | returns `NS_ERROR_NOT_IMPLEMENTED` | nothing to check |
| Tests (`tests/xpcshell`) | none | seven scripts | read for what they expect |
| Stream filter, parent (`StreamFilterParent`) | `mState`, `mDisconnected`, `mReceivedStop`, `mSentStop`, a buffer, the event queue `mQueue` for the main and the delivery thread, the load group | the listener's `OnStartRequest`, `OnDataAvailable`, `OnStopRequest`; the child's messages; `Broken`, `FinishDisconnect` | the channel's listener gets all data in order and one `OnStopRequest` behind it; the channel is resumed as often as it is suspended |
| Stream filter, child (`StreamFilterChild`, `StreamFilter`) | `mState`, `mNextState`, `mReceivedOnStop`, a buffer, `mStreamFilter` | `suspend`, `resume`, `disconnect`, `close`, `write`; the parent's messages | an answer finds the state that waits for it; nothing is lost or reordered while suspended |
| The rest of `toolkit/` | | | vendored; section 7 |

### Interactions

Clients call the service on the main thread. It wraps the arguments and
dispatches a runnable to the thread "FileWatcher IO", a FIFO queue. `Run` is a
runnable of that same queue which reposts itself when it is done, so calls and
passes of `Run` alternate and the tables need no lock. What the IO thread has to
say it posts to the main thread, whose queue is FIFO as well.

The two sides of a stream filter are actors of `PStreamFilter`, in the extension's
process and in the browser's, and exchange messages in order. In the browser three
threads work on the parent: the channel calls the listener on the main thread and
delivers data on the main thread or, once it is retargeted, in a thread pool; the
actor thread receives messages and alone changes `mState`, which the other two
read; what it has for them goes through `mQueue`, one event at a time.

The three ports differ in how the IO thread learns of changes:

- Linux: the inotify descriptor is non-blocking and has `O_ASYNC`, so every
  queued event raises SIGIO. Any thread may take the signal. Its handler
  increments a global `volatile sig_atomic_t`; `Run` spins on the IO thread, tests that
  counter, decrements it, reads events into its own queue and processes them.
- Windows: `Run` blocks in `GetQueuedCompletionStatus` without a timeout; calls
  post an empty packet to wake it.
- macOS: a second thread runs a `CFRunLoop`; its callback pushes changes to a
  queue that `Run` drains, under a lock. Adding a path stops the run loop and
  restarts it with a new stream.

### Hard behaviours

Races on an unsynchronised counter; events that are still queued when their
watch is removed; loops with an iteration limit; a queue of the kernel that
overflows; a self-rescheduling runnable that a failure takes out of the queue
for ever; entries whose directory is gone; memory used after it is freed; a
shutdown with work queued behind it; (Windows) a handle that is closed in one
step and forgotten in a later one, a thread that blocks without a timeout;
(macOS) a lock taken in one runnable and released in another, a stream that is
rebuilt while events happen; (stream filter) answers that cross with new requests,
a state that is read on one thread while another changes it, data in flight at a
suspension or a disconnect, the death of the extension's process. `PROJECT.json`
lists each of them with its line and the properties that cover it.

## 2. Plan

In this order, the most important behaviour first:

1. **Linux port** - `InotifyKernel`, `LinuxWatcher`, `LinuxClaims`,
   `MCLinuxWatcher`, and the proofs in `LinuxWatcher_proofs` and
   `LinuxService_proofs`. *Done.*
2. **Windows port** - `CompletionPort` (external: overlapped reads, aborted
   completions, wake-up packets), `WinWatcher` (the two-step removal and the
   shutdown among the rest), `MCWinWatcher`, and the proofs in
   `WinWatcher_proofs` and `WinHandles_proofs`. *Done.*
3. **macOS port** - `FSEvents` (external), `FSEventsTask` (run loop, stream, locks)
   and `MacWatcher` (IO task and service) composed over it, `MacClaims`,
   `MCMacWatcher`, and the proofs in `MacWatcher_proofs`. *Done.*
4. **`WatchService`**, the abstract specification of the interface, which the
   Linux and the macOS port refine: checked by TLC, and the step simulation proved
   in `LinuxService_proofs` and `MacService_proofs`. *Done.* The Windows port does
   not refine it (`win_readded_callback`).
5. **Stream filter** - `PStreamFilter`, `StreamFilterChild`, `StreamFilterParent`,
   composed in `StreamFilter`, with `MCStreamFilter`, and the proofs in
   `StreamFilter_proofs` and `StreamOrder_proofs`. *Done.*
6. **Further** - the weaker service that the Windows port does keep.

## 3. The modules

### `InotifyKernel` (external code)

The kernel side, modelled from the system calls the watcher makes. `dir` maps
path names to inodes (two names may lead to one inode), `kwatch` maps an inode
to its live watch descriptor, `kq` is the event queue with its limit
`MaxQueued`, `sigPending` is the one pending SIGIO of the process. The file
system performs `ChangeEntry`, `TouchDirectory`, `DeleteDirectory`,
`CreateDirectory` and `RenameDirectory`; deleting a directory ends its watch and
queues `IN_IGNORED`, renaming it does not end the watch. `Queued` appends an
event, or one overflow event when the queue is full. A `read` fills the buffer
with as many whole events as fit (`InotifyRead`); sizes are counted in units of
16 bytes, the size of a bare `struct inotify_event`. Descriptors are handed out
in order and never reused.

### `LinuxWatcher`

| Model | Code (`NativeFileWatcherLnx.cpp`) |
|---|---|
| `ServiceInit`, `AddPath`, `RemovePath`, `Uninit` | the service's methods, 1094-1387; `ioq` is the IO thread's queue, `mIOThread` becomes FALSE with the swap in `Uninit` |
| `SignalLoad`, `SignalStore` | `signalHandler`, 1086-1092: the load and the store of `++mEventWaiting`; one handler per thread in `SignalThreads` |
| `RunInShutdown`, `RunNothing`, `RunBegin`, `RunLoad`, `RunStore` | the tests and `--mEventWaiting`, 303-321 and 397-401 |
| `ReadNothing`, `ReadEvent`, `ReadCutShort` | the read loop, 328-342 |
| `SkipUnmasked`, `StaleEvent`, `SkipRefused`, `DispatchChange`, `DispatchChangeFails`, `RunEnd` | the process loop and the rescheduling, 346-418, with `MakeResourcePath` and `DispatchChangeCallbacks` |
| `AddMissing`, `AddKnown`, `AddRefused`, `AddWatched` | the return paths of `AddPathRunnableMethod`, 433-543 |
| `RemoveUnwatched`, `RemoveUnregistered`, `RemoveOne`, `RemoveAborted`, `RemoveLast` | those of `RemovePathRunnableMethod`, 564-674 |
| `DeactivateRunnable` | 680-732 |
| `DeliverChange`, `DeliverSuccess`, `DeliverError` | the notification runnables on the main thread, 34-145 |

Grain: the tables belong to the IO thread, and no other actor sees what a
runnable does before it ends, so a runnable that works on tables is one action.
`Run` is cut wherever the kernel, the file system or a handler can get in
between. The decrement of `mEventWaiting` and the handler's increment are a load
and a store each: the variable is a `volatile sig_atomic_t`, of which a single access
is atomic and an increment is not.

Two outcomes of undefined behaviour are choices of the model. An event whose
watch descriptor leads to no entry, or to a freed one, ends the process
(`crash = "stale_event"`). `RemovePathRunnableMethod` reads a descriptor after
the table that owns it freed it, and takes what it reads there for the key to remove
from the second table: `Unindex` removes the entry of the descriptor or none. (A
value that is the descriptor of another entry would remove that one: the model takes
what an allocator writes into freed memory, a fill pattern or a pointer, to be no
descriptor in use.) The name of an event
without a name is whatever the new buffer holds: `MakeResourcePath` may refuse it
(`SkipRefused`) or report a path under that name (`name = "unset"`).
`MakeResourcePath` may refuse the watched path itself as well, for every event: that
of the members of `MayRefuse`, paths that inotify accepts and `nsIFile` does not.

What is abstracted: a change is a pair of a watched path and the callbacks that
are to hear of it, the posts for the callbacks of one event being one element of
`mainq`, delivered one callback at a time; names are present or not; error codes
are not kept. `lastCall`, `quiet`, `runFailed` and `cutShort` are history
variables that no guard reads.

### `LinuxClaims`

Two statements that the code does not meet: of an assertion, refuted by
`linux_stale_event`, and of a comment, refuted by `linux_batched`.

### `MCLinuxWatcher`

The model values, the initial directories and the symmetry set for TLC.
`FirstDir` creates one of two paths, `BothDirs` two directories, `OneDir` all paths on
one inode (that is how two names of one directory are had).

### `LinuxWatcher_proofs`, `LinuxService_proofs`

Section 5.

### `CompletionPort` (external code)

Windows, modelled from the calls of the watcher. `dirs` are the paths that lead
to a directory, `openOn` maps a handle to the path it was opened on, `reads` counts
the overlapped calls of `ReadDirectoryChangesW` that are outstanding on it (`reading`
are the handles with one or more), and `port` is the queue of the completion port. A change completes the read and
queues a packet; while none is outstanding the handle records what changes
(`recorded`), and the next read completes at once with that, or with an overflow
when it did not fit (`Burst`). An overflow comes back in one of two ways: as
success with no bytes, or as `ERROR_NOTIFY_ENUM_DIR`. Closing a handle aborts its
reads, deleting a directory makes them fail (`EndReads`). The value of a closed
handle is free again and `OpenAndRead` takes any free value, as Windows may.

### `WinWatcher`

| Model | Code (`NativeFileWatcherWin.cpp`) |
|---|---|
| `ServiceInit`, `AddPath`, `RemovePath`, `Uninit` | the service's methods; each call is two steps of the main thread, as it dispatches the runnable (`Dispatch`) and then posts the packet (`WakeUpWorkerThread`); `MainThreadFree` keeps the main thread from doing anything in between |
| `RunInShutdown`, `RunWaits` | `Run` up to the blocking call in `RunInternal` |
| `NoBytes`, `Overflowed`, `Aborted`, `UnknownError`, `UnknownResource`, `ChangeUndelivered`, `ChangeDispatched`, `ErrorUndelivered` | what `RunInternal` does with a packet, by its status, by whether its handle leads to an entry, and by what fails; `Reschedule` and `Stop` are the two ends of `Run` |
| `AddKnown`, `AddRefused`, `AddUnreadable`, `AddWatched` | the return paths of `AddPathRunnableMethod` with `AddDirectoryToWatchList` |
| `RemoveUnwatched`, `RemoveUnregistered`, `RemoveOne`, `RemoveLast` | those of `RemovePathRunnableMethod` |
| `Dispose`, `FreeResource` | the two steps of a removal: the handle is closed and set to `INVALID_HANDLE_VALUE` (`InvalidHandle`), and the entry is freed when the aborted read comes out of the port |
| `DeactivateRunnable` | the method of that name |
| `DeliverCallback`, `DeliverSuccess`, `DeliverShutdown`, `ThreadEnds` | the posted runnables on the main thread, the one that joins the IO thread included |

Grain: a change during a runnable is recorded by the handle, so no other actor
sees what a runnable does before it ends: a runnable is one action, and `Run` is
two, the call that blocks and the handling of its packet. A failure of the call
that is no packet's status (`ERROR_ABANDONED_WAIT_0`, `ERROR_INVALID_HANDLE`)
needs a port that was closed while `Run` waited; the port is closed by the same
thread, after which `Run` returns before the call, so the model has no step for
it. `stopped`, `silenced` and `overwritten` are history variables; the last has, per
handle value, the paths whose entry `Put` replaced in the second index (`Enter`,
line 660) because that value was given out again before the entry was freed.

### `MCWinWatcher`

The model values and the symmetry set for TLC.

### `WinWatcher_proofs`, `WinHandles_proofs`

Section 5.

### `FSEvents` (external code)

macOS, modelled from the calls of the FSEvents task. `log` has the changes of
files and directories in their order; an event's id is its place. The one stream
has its paths, a state, the id it goes on behind (`sinceWhen`, at first
`SinceNow`) and its `position` in the log. Nothing else is known of the disk:
`AddPath`'s `stat` may fail at any time (`AddMissing`).

### `FSEventsTask`

| Model | Code (`NativeFileWatcherMac.cpp`) |
|---|---|
| `NewTask`, `NewThread` | the constructor, which makes the first stream and leaves `runLoopLock` locked, and `NS_NewNamedThread` |
| `CFRunLoopStop`, `StopAndDispatch`, `StopWithoutDispatch` | what the IO thread does to the task: it stops the run loop and then dispatches, and the dispatch may fail |
| `FseRun`, `EnterRunLoop`, `LeaveRunLoop` | `Run`: reference, start and unlock; the window before `CFRunLoopRun`, in which a stop is lost; the return of the stopped loop |
| `StreamCallback`, `CallbackLock`, `CallbackPush`, `CallbackUnlock` | `fsevents_callback`, under `callBackLock`, one event at a time |
| `FseAddPath`, `FseAddReleased`, `FseRemovePath`, `FseRemoveLast` | the outcomes of the task's `AddPath` and `RemovePath`; the lock blocks while another stream waits for its `Run` |

### `MacWatcher`

The service and the IO task of `NativeFileWatcherMac.cpp`, over the FSEvents task.

| Model | Code |
|---|---|
| `ServiceInit`, `AddPath`, `RemovePath`, `Uninit` | the service's methods, as on Linux |
| `AddMissing`, `AddKnown`, `AddFirst`, `AddFirstFails`, `AddNext`, `AddDispatchFails`, `AddNoRunLoop` | the outcomes of `AddPathRunnableMethod`; the last is the use of a run-loop reference that is not initialised, the one before it the return of lines 453-455 |
| `RemoveUnwatched`, `RemoveUnregistered`, `RemoveOne`, `RemoveLast`, `RemoveDispatchFails`, `RemoveNoRunLoop` | those of `RemovePathRunnableMethod`, the return of lines 623-625 included, which keeps an entry whose callbacks are gone |
| `DeactivateRunnable` | the tables are cleared, thread and stream stay |
| `RunInShutdown`, `RunNothing`, `RunBegin`, `RunEvent`, `SkipUnwatched`, `DispatchChange`, `DispatchChangeFails`, `RunPop`, `RunEnd` | `Run` and `RunInternal`: the loop over the saved events, whose index grows while the queue shrinks, and in it the loop over `getRecursivePaths` |
| `DeliverChange`, `DeliverSuccess` | the posted runnables |

Grain: a runnable that works on tables is one action. `Run` is cut at every
event and path, because the FSEvents thread may wait for the lock meanwhile. A
path is a sequence of components, so that `getRecursivePaths` can be what it is:
all the prefixes. `runFailed` and `lastHandled` are history variables.

### `MacClaims`, `MCMacWatcher`

The claim that `mac_added_path` refutes; the nested directories, the files below
them and the symmetry set for TLC.

### `WatchService`

The abstract specification of `nsINativeFileWatcherService`: calls are taken
until the service is closed, and executed in the order of their ids; a
change is announced only to callbacks that are registered for the path when it is
announced; an answer is posted with the effect of its call, so nothing posted
before it is posted again behind it; the shutdown comes behind all calls and
registers nobody. A process may die, with its registrations in part gone.
`LinuxWatcher` and `MacWatcher` end with its instance, `Service`:

| `WatchService` | `LinuxWatcher`, `MacWatcher` |
|---|---|
| `service` | `mIOThread`, and whether `Init` has succeeded |
| `requests` | the calls in `ioq` |
| `registered` | `mChangeCallbacksTable`, as pairs |
| `posts` | `mainq` |
| `alive` | `crash = "none"` |

What the ports do with the kernel, signals, streams and locks maps to stuttering.
The Windows port is no instance of it: an entry that is being disposed of takes
new callbacks, and they disappear from its table with no call
(`win_readded_callback`).

### `MacWatcher_proofs`, `MacService_proofs`

Section 5.

### `PStreamFilter`

The two message queues of the actor pair, in order and without loss while both
sides live. The data of a channel is cut into `MaxChunks` chunks, known by their
numbers; a message or an event carries at most one. `ipc` is the parent's view:
open, in error (the child's process died) or closed; what is sent after that is
dropped.

### `StreamFilterChild`

| Model | Code (`StreamFilterChild.cpp`) |
|---|---|
| the record `child` | the actor's fields; its methods (`Disconnect`, `Cleanup`, `SetNextState`, `MaybeStopRequest`, `CheckAlive`) are operators on the record, `out` collects what they send |
| `Suspend`, `Resume`, `CallDisconnect`, `Close`, `Write` | what script calls, in the states in which it does not throw and changes something |
| `RecvStartRequest`, `RecvStopRequest`, `RecvData`, `RecvError`, `RecvAgreement`, `RecvFlushData` | the messages; `RecvAgreement` is the common body of `RecvSuspended`, `RecvResumed` and `RecvClosed` |
| `FlushBufferedData`, `EventEnds` | `EmitData` fires an event at script, which may call the filter from inside it: a handler that emits data is cut there and goes on, with the loop around it, in `EventEnds` |
| `FinishConnect`, `PageGone`, `Collect`, `ChildActorDestroy`, `ChildDies` | binding of the actor; the end of the page, of the filter object, of the actor and of the process |

`ended` (script called `disconnect` or `close`) is a history variable; `kept` are
the chunks that script holds and may write back.

### `StreamFilterParent`

| Model | Code (`StreamFilterParent.cpp`) |
|---|---|
| `ActRedirected` ... `ActError` | closures that run on the actor thread, from its queue `actorq`, and `ActorDestroy`; `Broken` and `EntersAndSends` are `Broken` and `CheckResult` |
| `RecvWrite`, `RecvSuspend`, `RecvResume`, `RecvDisconnect`, `RecvFlushedData`, `RecvClose`, `RecvDestroy`, `RecvIgnored` | the child's messages; a request that comes in the wrong state is ignored |
| `RunWrite`, `RunFlush`, `RunEmitStop`, `RunStopSent`, `RunLeaveGroup`, `RunSuspend`, `RunResume` | the closures put into `mQueue`, for the main thread or for the delivery thread, one at a time |
| `OnStartRequest`, `OnStartRedirected`, `OnDataPassed`, `OnDataAvailable`, `OnStopRequest` | what the channel calls |
| `OnDataBuffered`, `OnDataClosed`, `OnDataDispatched`, `OnStopPassed`, `OnStopDispatched` | the rest of such a call: it read `mDisconnected`, and reads `mState`, or `mDisconnected` again, later, while the actor thread goes on |

`oda` and `onStop` say where the two listener calls stand; the data of a
retargeted channel comes on a thread of its own, otherwise on the main thread.
`output` is what the channel's own listener gets. `grouped` says whether the filter is a
request of the load group. `stopMissed` is a history variable.

### `StreamFilter`, `MCStreamFilter`

Parent and child over the queues, the fairness, and the properties; the instance
for TLC.

### `StreamFilter_proofs`, `StreamOrder_proofs`

Section 5.

## 4. The runs

Passing runs:

- **`linux_registry`** - two paths, two inodes, two clients, three calls, one file
  system operation of any kind but `touch`, failing `inotify_add_watch`, a path that
  `MakeResourcePath` refuses, and either outcome of the read of a freed descriptor.
  Shows that a freed descriptor that can still be reached by handle belongs to a
  watch that is gone (`FreedIsUnwatched`), that every live watch can be looked up
  (`LiveWatchesIndexed`), that an entry without callbacks has no live watch
  (`EmptyEntryIsDead`), that a removed callback is not called once its success
  callback has run (`QuietAfterRemoval`), that the shutdown comes behind every call
  and leaves nothing registered (`ShutdownIsClean`), and that the port implements
  `WatchService` (`ImplementsService`). Three calls are what it takes to add,
  remove and add again, or to add two clients and remove one; symmetric in the
  change callbacks. The second path is missing at first, so that it can be created,
  or the first renamed to it.
- **`linux_liveness`** - one path, two inodes, one client, two calls, two threads
  that take signals, a read limit of three, one failing post, names of any size, under
  `FairSpec`. Shows that the racing counter never leaves events in the kernel with
  nothing that will read them (`NoLostWakeup`), that `Run` is queued exactly once
  (`RunScheduledOnce`), and that the process loop, which has the limit of the read
  loop, leaves nothing behind (`NothingLeftBehind`); that every queued call is
  executed although `Run` reposts itself for ever (`CallsServed`), that the kernel's
  queue is emptied again (`EventsRead`), and that the change at the head of that
  queue reaches each callback its path has (`FirstChangeReaches`). The changes
  behind it reach them only if another read returns them: `linux_batched`. The
  escapes are a dead process, a failed post (after which `Run` is gone: section 6)
  and a read loop that was cut short. Two threads are needed for two increments to
  overlap; two operations queue up to three events, one more than the reads that
  the limit lets through. No symmetry is used.

- **`win_registry`** - two paths, one handle value, two clients, three calls, two file
  system operations of any kind, failing reads, refused names, one failing post. The
  handle value is given out again whenever it was closed, also before the aborted
  packet of its former use is handled. Shows that the indexes agree (`IndexesAgree`:
  an entry has the handle that leads to it, no two handles lead to one entry, and a
  disposed entry is missing from the second index only if the entry of another path
  replaced it there); that the kernel never writes to the buffer of a freed entry, and
  that the port reports on one only under a handle value that was given out too early
  (`BuffersOutliveReads`); that no open handle is lost (`NoHandleLeaked`), that an
  entry without clients is disposed of (`EmptyEntryIsDisposed`), that an open
  watch is being read or will be (`OpenWatchIsRead`, whose escapes are the
  divergences of section 6), and that the shutdown leaves nothing behind
  (`ShutdownIsClean`). One value is the sharpest case of reuse: each new handle
  meets what the last one left. The run has the states in which an entry is
  overwritten, and those in which a handle is read twice at once, as a packet of its
  former use is taken for one of the present.
- **`win_liveness`** - two paths, one handle value, three calls, under
  `FairSpec`: `Run` never blocks on a queued call with no packet to wake it
  (`NoCallStuck`), every call is executed (`CallsServed`), the thread is joined
  after `Uninit` (`ThreadJoined`) and a change reaches every callback of its path
  (`ChangeReachesCallback`).

- **`mac_registry`** - a directory and one below it, two clients, three calls, two
  events in a file, a thread that cannot be made, a post or a dispatch to the FSEvents
  thread that fails, every interleaving of the three threads. Shows that `runLoopLock` is
  held exactly while one `Run` is queued that unlocks it (`LockPaired`), that the
  stream's paths, with what is queued for the FSEvents thread, are the paths that
  have an entry in the IO thread's table (`StreamFollowsTable`), that a path to which
  somebody is registered has an entry and will be in the stream (`CallbacksAreHeard`;
  the converse is false when a dispatch fails: section 6), that
  no event is taken twice or out of order although streams are replaced and `Run`
  leaves half of the events (`EventsInOrder`), and that the port implements
  `WatchService` (`ImplementsService`). With three calls a path is added, another
  is added and one of them removed: each way of replacing a stream happens while
  events are under way. Symmetric in the change callbacks.
- **`mac_liveness`** - the same directories, one client, two calls, two events in
  a file or a directory (the latter is not saved), one failing
  post, under `FairSpec`: every call is executed (`CallsServed`), what a started
  stream has to report is collected once it has reported anything
  (`EventsCollected`), and a saved change reaches each callback of each directory
  above the file (`ChangeReachesCallback`). The escapes name the divergences of
  section 6: an FSEvents thread that is out of its run loop for good, after the failure of the
  dispatch it was stopped for or in the deadlock on `runLoopLock` (`FseStuck`; the
  deadlock needs a third call), the lock a failed post leaves held, a dead process.
- **`stream_filter`** - two chunks, three calls of script besides `write`,
  retargeted or not, redirected or not, under `FairSpec`. Shows that the listener
  gets one stop and nothing behind it (`StopIsLast`), that data keeps its order
  through both buffers (`OrderKept`), that every answer finds the child in the
  state that waits for it (`HandshakesMatch`), that the channel is never suspended
  twice or suspended with nobody to resume it (`ChannelNotStranded`), that a filter
  that only suspends and resumes loses nothing (`SuspendKeepsData`), and that the
  load finishes once the child closes, disconnects or dies (`LoadFinishes`).

Runs that refute a claim (`violation`):

| Run | Claim | What happens |
|---|---|---|
| `linux_stale_event` | the descriptor of an event is never null (749) | an event queued before `inotify_rm_watch` is processed after it |
| `linux_batched` | all available events are read and stored safely (323-327) | two changes are queued before `Run` reads; one read returns both, as they fit in the buffer of 17 units, and the second is dropped, so its path's callback is never told |
| `win_readded_callback` | `removePath` removes the path and its callback (idl 80) | a callback added while its path is being removed stays in the table when the entry is freed; `removePath` then reports success and leaves it there, and it becomes live when another client adds the path |
| `mac_added_path` | `addPath` watches the path (idl 59, 71) | the second addition stops the run loop while the FSEvents thread is between `SetRef` (183) and `CFRunLoopRun` (190): the stop is lost, the thread stays in its loop, and the task that would put the path into the stream is never executed |
| `stream_disconnect` | nothing in transit is thrown away while disconnecting (`StreamFilterParent.h`, `Disconnecting`) | `OnDataAvailable` dispatches a chunk to the actor thread, `RecvDisconnect` comes before it, and `DoSendData` drops it |

### Bounds

| Constant | Stands for | Why it is enough |
|---|---|---|
| `MaxCalls` 2-4 | calls of `AddPath`/`RemovePath` | add, remove, add again; two adds and two removals |
| `MaxFsOps` 1-3 | file system operations | two changes in a row, or a change and the deletion of the directory; an event before and one after a removal; one is enough for a watched directory to disappear, appear or move |
| `MaxWd` 2-3 | descriptors | one more than are alive at once |
| `MaxQueued` 2-4 | `max_queued_events` | a removal behind two changes overflows the queue (2, `linux_liveness`), and never full |
| `ReadLimit` 3-4 | 1000, the limit of both loops | the limit can be hit (3, when each event fills a buffer) and not hit (4) |
| `BufSize` 17, `NameSizes` {2}, {2, 17} | the buffer of the code; names of 1 to 16 units | a named event alone in a read (17) and several in one read (2) |
| `MayRefuse` | paths that `MakeResourcePath` refuses | one path that is refused, one that is not |
| `MaxPostFailures` 0-1 | failures of `NS_DispatchToMainThread` | `Run` is gone after the first |
| `SignalThreads` 1-2 | threads of the process | two overlapping handlers |
| `Handles` 1 (Windows) | handle values | with one value, two uses of it meet in every way they can; more values only allow fewer of these meetings, and the proofs cover any number |
| `Paths`, `Files` (macOS) | directories, and files in them | one directory below the other: an event concerns both |
| `MaxEvents` 1-2 (macOS) | changes | one before and one after a stream is replaced; a pass of `Run` that leaves one of two |
| `MaxChunks` 2 | what `OnDataAvailable` gets | one in flight or buffered when the next comes |
| `MaxCalls` 1, 3 (stream filter) | calls of script besides `write` | suspend, resume and suspend again, before the first is answered; `disconnect` or `close` in the middle of it |
| `MayRetarget`, `MayRedirect` | delivery on another thread; another request starts | both ways are explored |
| `MayFail` (Windows) | calls that fail for reasons of their own | reads and names; a failing open is also had by deleting the directory |

`linux_registry` was also explored once with two file system operations (5.2 million
states), `linux_liveness` with three operations and a queue of one event, in which the
overflow is processed like any other event (600 thousand states), and the
invariants of `stream_filter` with three chunks and four calls (2.1 million
states): the same properties hold.

`CHECK_DEADLOCK FALSE` is set because the program may stop: after a crash, when
`Init` fails, or when all calls and operations of the bounded environment are
spent after the shutdown; a stream filter stops when its load is over.

### Fairness

`FairSpec` assumes weak fairness of the IO thread, of the main thread running
posted callbacks, of the delivery of a pending SIGIO and of each handler's second
half. The operating system's scheduler provides it: these are threads that are
always runnable while they have something to do (`Run` never blocks on Linux; it
polls), and the handler cannot block. On Windows `FairSpec` assumes weak fairness
of the IO thread, whose blocking call is enabled only when the port has a packet,
of the main thread finishing the call it is in (`WakeUpWorkerThread`) and running
what is posted to it, and of the thread ending once it was asked to. On macOS it assumes weak fairness
of the IO thread, of the FSEvents thread and of the main thread running what is
posted; a thread that waits for a lock is not enabled, so no lock is promised to
anybody. Nothing is assumed of clients or of the file system.

The `FairSpec` of the stream filter assumes weak fairness of each thread on its own:
the child's main thread (messages, the end of an event, `FinishConnect`), the
actor thread, the threads that run `mQueue`, and a listener call that has begun.
All of them are event queues that something is in. Script and the channel may
stop at any time.

## 5. The proofs

### Linux

Two proof modules, the second extending the first, prove for every value of the
constants that satisfies `KernelAssumption` and `WatcherAssumption`:

| Theorem | States |
|---|---|
| `TypeCorrect` | `Spec => []TypeOK` |
| `NoWakeupLost` | `Spec => []NoLostWakeup` |
| `EventsProcessed` | `Spec => []NothingLeftBehind` |
| `FreedAreUnwatched` | `Spec => []FreedIsUnwatched` |
| `LiveWatchesAreIndexed` | `Spec => []LiveWatchesIndexed` |
| `EmptyEntriesAreDead` | `Spec => []EmptyEntryIsDead` |
| `ShutdownClean` | `Spec => []ShutdownIsClean` |
| `RunIsScheduledOnce` | `Spec => []RunScheduledOnce` |
| `RemovedStaysQuiet` | `Spec => []QuietAfterRemoval` |
| `LinuxImplementsService` | `Spec => ImplementsService` |

The argument:

- *Types.* `TypeOK` alone is not inductive: `RunStore` subtracts one from the
  value `RunLoad` loaded, and the difference must be a natural number.
  `CounterPositive` adds that between `Run`'s test and its store the counter (then
  the loaded value) is positive. It holds because a handler that stores in
  between stores at least 1. `TypeInv` is the conjunction.
- *Wake-up.* `NoLostWakeup` is inductive with `TypeInv`. Every step that makes
  the kernel's queue longer signals (`NotifyProperties`, `FsNextProperties`,
  `CloseWatchProperties`); a handler turns the signal into a positive counter; a
  decrement that loses an increment is followed by a read loop that ends on an
  empty queue, or at its limit.
- *Loops.* `LoopInv` counts: in the read loop the kept events equal the passes
  spent, so when the process loop starts with the same limit it has more
  passes left than events.
- *Tables.* `RegistryFrame` says which steps touch the tables and the kernel's
  watches. Both index invariants are then inductive as they stand, and neither needs to
  know what a freed descriptor reads as: `RemoveLast` ends the watch in the same
  runnable (`CloseWatch`), and a later `AddWatched` that gets a new descriptor
  writes its place in the index anew.
  `EmptyEntryIsDead` needs `DescriptorsOld` (descriptors in use are below the
  next one), without which a new watch might revive a dead entry.
- *Shutdown.* `ShutdownInv`: while `mIOThread` is set no deactivation is queued,
  and no call is ever queued behind one. The runnables' own tests of
  `mShuttingDown` are therefore never the ones that return early, and the model
  has no step for that outcome.
- *Scheduling.* `RunInv`: `Run` is queued at most once, not while it executes, and
  one of the two as long as the watcher is up and no post failed. Only the steps that
  begin or end `Run` and those that take something from `ioq` have to be looked at;
  that a deactivation is behind everything else is `ShutdownInv`.
- *Removal.* `RemovalInv` has four parts. `CallOrder`: the ids of queued calls
  increase, and an answer under way is older than every queued call; so a pair
  that a call waits for has no answer to its latest call under way
  (`WaitingUnanswered`). `NoOrphans`: an unwatched path has no callbacks, which
  is what makes the early success of `RemoveUnwatched` right. `AnswerOrder`: behind
  the answer to the latest call on a pair, a removal, no post carries the pair,
  and the table does not have it. `QuietInv`: a quiet pair is in no table, no
  queued call and no post. `RemovalFrame` shows once that a step of the IO thread
  keeps all of it, from what the step adds to the table and to the queue.
- *Refinement.* Each action maps to one action of `WatchService` or to a stutter.
  The queue of calls becomes a set with ids, so "the oldest first" needs
  `CallOrder`; that `RemoveUnwatched` unregisters nobody needs `NoOrphans`; that
  `Shutdown` finds no calls left needs `ShutdownInv`; that a service is opened
  once needs `Opened`.

### Windows

Two modules, for every value of the constants that satisfies `PortAssumption` and
the `WatcherAssumption` of `WinWatcher`:

| Theorem | States |
|---|---|
| `TypeCorrect` | `Spec => []TypeOK` |
| `CallsWakeRun` | `Spec => []NoCallStuck` |
| `HandlesHeld` | `Spec => []NoHandleLeaked` |
| `EmptyEntriesAreDisposed` | `Spec => []EmptyEntryIsDisposed` |
| `TablesAgree` | `Spec => []IndexesAgree` |
| `BuffersSafe` | `Spec => []BuffersOutliveReads` |
| `OpenWatchesAreRead` | `Spec => []OpenWatchIsRead` |
| `ShutdownClean` | `Spec => []ShutdownIsClean` |

The argument:

- *Wake-up.* `NoCallStuck` speaks of `Run` in its blocking call, which is too late
  to be inductive. `WakeInv` adds `RunWoken`: already while `Run` is queued, a
  packet is coming whenever something is queued behind it. A call queues its
  runnable and then posts, so it makes that true; a pass of `Run` takes one packet,
  but it puts `Run` behind everything that is queued, so nothing is behind it.
  `RunOnce` (queued once, or blocking, or gone) and `PortInUse` (the port is open
  until the shutdown) complete it.
- *Handles.* `Steps` sorts the steps by what they do to the indexes, the handles
  and the packets into eight kinds. `NoHandleLeaked` needs only `ReadsOpen`
  with it (what is read is open). The rest rests on `HandleInv`, which has
  `IndexInv` and `ResultInv` besides these two. `IndexInv` holds for all handle values, however
  often they are given out: an open handle leads to the entry of the path it is open
  on, so the entry that a new handle overwrites is one that was disposed of, and
  that is what `overwritten` remembers. `ResultInv` speaks of the values under which
  no entry was overwritten: such a handle has one read outstanding or one packet
  queued and never both (`Single`), and its packet leads to an entry
  (`PacketsLead`). An overwritten entry is the one way out of that: from then
  on a packet of the former use may free, or read again, what the value means now.
  That an open watch is read needs only `IndexInv`: a packet under the value of an open
  handle leads to its entry, so the step that takes it reads that handle again,
  closes it or is one of the escapes.
- *Shutdown.* `ShutdownInv` as on Linux; that the handles are closed follows from
  `OpenInv`, as no entry is left to hold one.

### macOS

Two modules, for every value of the constants that satisfies the assumptions of
`FSEvents` and of `MacWatcher`:

| Theorem | States |
|---|---|
| `TypeCorrect` | `Spec => []TypeOK` |
| `LockDiscipline` | `Spec => []LockPaired` |
| `StreamIsTable` | `Spec => []StreamFollowsTable` |
| `RegisteredAreHeard` | `Spec => []CallbacksAreHeard` |
| `EventsStayInOrder` | `Spec => []EventsInOrder` |
| `MacImplementsService` | `Spec => ImplementsService` |

The argument:

- *Types.* `TypesHold` strengthens `TypeOK` by what a stream knows of the log
  (`Known`): its position, and the events under way, are not ahead of the log.
- *Lock.* `LockInv` adds that before there is a thread nothing is queued for it and
  no path has an entry. A task that queues a `Run` waits for a free lock, so it
  finds no `Run` queued.
- *Stream and table.* `StreamInv`, the body of `StreamFollowsTable` while the process
  lives. The lemmas about `EndsUpWatched` say what changes when a task is put at the
  end of the queue, and when one is taken from its head and done to the stream.
- *Entries.* `EntryInv` is inductive as it stands: a path with a callback has an entry.
  The converse is not: a dispatch that fails leaves an entry whose callbacks are gone.
  `CallbacksAreHeard` is `EntryInv`, `LockInv` and `StreamInv` together.
- *Events.* `EventsInOrder` is inductive with the types: a callback takes what is
  behind `position`, and pushes its smallest event.
- *Refinement.* As on Linux; `QueueInv` has the order of the calls and that none is
  behind a deactivation, and `EntryInv` stands for `NoOrphans`.

### Stream filter

Two modules, `StreamOrder_proofs` extending `StreamFilter_proofs`, for every value of
the constants that satisfies the assumptions of `PStreamFilter`, `StreamFilterChild` and `StreamFilterParent`:

| Theorem | States |
|---|---|
| `FilterTypes` | `Spec => []TypeOK` |
| `StopComesLast` | `Spec => []StopIsLast` |
| `HandlersFindTheirState` | `Spec => []HandshakesMatch` |
| `ChannelIsResumed` | `Spec => []ChannelNotStranded` |
| `ChunksKeepTheirOrder` | `Spec => []OrderKept` |
| `SuspensionsLoseNothing` | `Spec => []SuspendKeepsData` |

None of the six is inductive: a message in flight must agree with the state it will
find, so each speaks of all four queues at once. The first four share one invariant,
`Inv`:

- *Order in the queues.* `ToChildOrder`, `ToParentOrder`, `QueueOrder` and
  `ActorOrder` say which names stand in a queue once, at its end, or not behind
  others. What a step takes or adds is looked up in one lemma per queue.
- *Protocol.* A request is in one place: on its way to the parent, in one of the
  parent's queues or answered (`OneToken`). Wherever it is, the child waits for it
  (`Waits`), so an answer finds the state that wants it. `Started` says that the
  child is silent until it hears of the start, `Flows` that no data follows
  the stop, `Flushes` that the parent is Disconnecting while it waits for
  FlushedData.
- *Stop.* `StopInv`: who has emitted the stop, or will, and that nothing can be
  written behind that.
- *Suspensions.* `Suspends`: the queued requests and the state of the actor say
  what the suspend count is.

What the child's methods do is said once, by `Turns`: the actor stays in its state,
sends one request and waits for its answer, or goes where it waits for nothing. So script,
events and the collection are one case of the proof; each message and each
action of the parent is one of its own.

The two theorems about data rest on `OrderInv`: `Inv`, and `StraightInv` as long as
the channel is not retargeted. On a retargeted channel `OnDataAvailable` runs on a
thread of its own and reads `mState` while the actor thread changes it, and the two
properties are false (section 6); a channel that is not retargeted stays so.
`StraightInv` has these parts:

- *Two ways.* `Inward` is the list of the places that a chunk passes on its way to
  script (what script kept, the child's buffer, the queue to the child, the closures of
  the actor thread, the call in progress, the chunks to come), `Outward` the same
  for the way to the listener through both buffers. `Ordered` says that every chunk in
  a stage comes before every chunk in a later one, `Sorts` that each stage is sorted.
  So a step moves chunks to an earlier stage, and must show that the stages between are
  empty; `Passed` and `Advanced` are that argument for any list of stages.
- *Empty stages.* `ChildBuffers` and `ParentBuffers` say when the two `mBufferedData`
  are empty, and when no data is under way to the child. They are why
  `FlushBufferedData` and `OnDataBuffered` overtake nothing.
- *Silence.* Between the messages Suspended and Resumed the child hears of no data, so
  what it appends to its buffer lies behind it and what it flushes lies before.
- *Loss.* `CalmInv`: as long as script neither closed nor disconnected, no message of
  the two finds its receiver in a state that throws data away, so the chunks delivered
  are all held somewhere.

### Only model-checked

The liveness properties (fairness is outside the prover's reach) and the refutations.

## 6. Divergences met while modelling

Besides those that a run shows (section 4), the model contains these behaviours:

- `RemovePath` of a callback that is not registered on a watched path reaches
  `MOZ_CRASH` (`RemoveUnregistered`; `NativeFileWatcherLnx.cpp:617`), while
  `nsINativeFileWatcher.idl:80-82` says that such a request is silently ignored.
- A missing path makes `AddPathRunnableMethod` return an error to nobody
  (`AddMissing`; line 461); the comment at 422-423 says that all errors reach the
  main thread.
- `RemovePath` of a deleted directory takes the callbacks out, fails in
  `inotify_rm_watch`, and leaves the entry without an answer (`RemoveAborted`;
  line 656); the interface says the watch gets closed.
- An event without a name is reported under uninitialised bytes (line 333).
- `MakeResourcePath` fails for every event of a path that `nsIFile` does not accept, and
  nobody is told (`SkipRefused`; lines 354-355), although the success callback ran.
- When one post to the main thread fails, `RunInternal` returns early and `Run`
  does not reschedule itself (`DispatchChangeFails`; line 361): the watcher is
  deaf from then on.
- `AddPath` of a path that is watched already answers with no success callback
  (`AddKnown`; lines 464-472).
- `AddPath` of a directory that was deleted and created again joins the entry of
  the deleted one, whose watch is gone, so nothing is watched (`AddKnown`; line
  466); `nsINativeFileWatcher.idl:59` says that it watches the path.
- Two clients that share an error callback, or pass none (`nsINativeFileWatcher.idl:69`
  calls it optional): the array holds it once (line 984), and the second removal
  reaches `MOZ_CRASH` (`RemoveUnregistered`; line 632).
- `IN_Q_OVERFLOW` is not in `IN_ALL_EVENTS`, so an overflow is skipped
  (`SkipUnmasked`), while `nsINativeFileWatcher.idl:31-32` says that it is
  reported as `*`.
- Of several events in one buffer only the first is stored (`ReadEvent`), so changes that
  come in quick succession are lost: `linux_batched`. The test
  `test_watch_many_changes.js`, which waits for many changes one after the other,
  meets this when two of them are queued before a read.
- The data of the 1000th read is dropped, and no signal will come for the rest
  (`ReadCutShort`; the comment at line 324 says that all is read).
- The descriptor is freed before the second removal reads it (line 661; the
  comment at 659 says that both tables lose the entry). If it reads as something else
  by then, the second table keeps a pointer to freed memory (`Unindex`), and the
  next event of the old watch that is still queued goes through it (`StaleEvent`). No
  new watch leads there (`FreedIsUnwatched`).

The Windows port (`NativeFileWatcherWin.cpp`):

- After an overflow, reported either way, the directory is not read again
  (`Overflowed`, `NoBytes`): the watch is silent from then on.
- Deleting a watched directory makes its read fail with an error that
  `RunInternal` treats as unknown: it returns a failure and `Run` is not
  rescheduled, which ends the watching of all paths (`UnknownError`; line 419).
- An entry is freed by the aborted read of its handle. When the read is complete
  but not yet handled at the removal, or an earlier one could not be repeated,
  nothing is aborted: the disposed entry stays, and every later `AddPath` of the
  path joins it in vain (`Dispose`; line 812).
- When Windows gives the value of a closed handle to another directory before
  the aborted packet of its former use is handled, `Put` overwrites the disposed entry
  in the second index (`Enter`; line 660), and that packet frees the new entry
  instead and so closes a live watch (`Aborted`; lines 407-415): its clients are never
  told. The overwritten entry is never freed and stays in the first index for good, so
  every later `AddPath` of its path joins it in vain. A later packet of the handle leads
  to no entry, and its null pointer is dereferenced (`UnknownResource`; lines 447-451).
  What the properties say of these states: the indexes agree, no buffer that the
  kernel writes to is freed, and an open watch is read; not that a watch lasts until it
  is removed.
- `RemovePath` of an unregistered callback reaches `MOZ_CRASH` as on Linux
  (`RemoveUnregistered`; lines 764 and 779).

The macOS port (`NativeFileWatcherMac.cpp`):

- Two tasks queued for the FSEvents thread behind each other deadlock it: the first
  locks `runLoopLock` and queues its `Run` behind the second, which waits for the lock
  (`FseStuck`). The constructor's `Run` is in front of both, so this takes the first
  path and two more, three calls in all.
- A `CFRunLoopStop` between `SetRef` of `Run` and `CFRunLoopRun` is lost: the
  task that was to run then waits for the next stop (`EnterRunLoop`; `mac_added_path`).
- When the dispatch to the FSEvents thread fails, its run loop has been stopped, and
  the stream does not report until a later addition or removal brings a `Run` (`FseStuck`).
  `AddPath` (lines 453-455) then leaves its tables as they were, and tells nobody.
  `RemovePath` (lines 623-625) has taken the callbacks out and keeps the
  entry (`RemoveDispatchFails`): a later `AddPath` joins it (`AddKnown`) and is
  told nothing, a later `RemovePath` reaches `MOZ_CRASH` (`RemoveUnregistered`).
- Before the first `Run` of the FSEvents thread its run-loop reference is not
  initialised (`AddNoRunLoop`, `RemoveNoRunLoop`).
- When the last path is removed the stream is released and its reference kept; the
  next addition uses it (`FseAddReleased`).
- A failed post returns with `callBackLock` held (`DispatchChangeFails`), and the
  callback of the stream then blocks for ever.
- What happens before a stream reports its first event is lost when it is replaced,
  as the new one starts from now as well (`Rebuild` with `SinceNow`).
- A pass of `Run` handles half of the saved events: its index grows while the
  queue shrinks (`RunEvent`, `RunEnd`).
- Only changes of files are saved (`Saves`): what the system drops is not reported,
  and `*` never comes.
- Success is reported before the FSEvents thread has handled the path (`AddEntry`),
  and a replaced stream may report changes older than the addition of a path.
- The shutdown leaves the FSEvents thread and its stream running
  (`DeactivateRunnable`); the comment at 643-645 says that it stops the thread.
- When its thread cannot be made, the task stays, and no later `AddPath` makes a
  thread (`AddFirstFails`).
- Nothing dispatches an error: `ReportError` and `DispatchErrorCallbacks` have no
  caller. A missing path and a known path get no answer, and `RemovePath` of an
  unregistered callback reaches `MOZ_CRASH`, as on Linux.

The stream filter:

- On a retargeted channel a chunk in flight at a suspension is dropped by
  `DoSendData` or, once resumed, overtakes the chunks that the child still
  buffers: `OrderKept` and `SuspendKeepsData` speak of the others.
- `disconnect()` while `Suspending` or `Resuming` takes effect in `SetNextState`,
  which does not write what the child buffers: it is lost.
- A chunk that the parent buffers behind the last flush waits for the next
  `OnDataAvailable`, and for ever if none comes (`OnDataBuffered`, `OnDataPassed`).
- An `OnStopRequest` between the last flush and `mDisconnected` is sent to a child that
  does not hear it (`ActUnheard`), and the listener never gets it (`stopMissed`).
- `Broken` does nothing in `Disconnecting`: when the child dies there, the load
  does not finish (`Abandoned`). It never resumes a suspended channel, and neither
  does `RecvClose`.
- `OnStopRequest` overwrites a `close` or `disconnect` that waits for an answer
  (`StopsIn`): the request is lost.
- `disconnect()` throws in `Resuming` with `TransferringData` to follow, so `Cleanup`
  for a page that is gone disconnects nothing then (`CanDisconnectLater`).
- `resume()` in `Resuming` with `Suspending` to follow is ignored.
- The parent's `State::Initialized` is never entered.

## 7. Not modelled

Of the file watcher: the stub; assertions that only exist in debug builds;
logging; formatting of paths (on macOS paths are taken as ASCII, and a watched `/` or
a path with a trailing slash, which `getRecursivePaths` never produces, is not
in the model); reference counts and the release of callbacks on the main thread;
a failure of `NS_DispatchToCurrentThread`, by which `Run` and the FSEvents task queue
themselves (Linux 416, macOS 119, 150 and 311, Windows 529): it is called by a runnable
of that thread, which takes events as long as it runs one, and no code handles its
failure; the undefined behaviour of unlocking a lock on another thread than the one that
locked it; the xpcshell tests.

Of the stream filter: how the pair of actors is made (`Create`, `Attach`,
`RecvInitialized(false)`); a second `resume()` that script calls inside an event of a
flush, which only flushes what the flush around it would have; a data event that cannot be made for lack of memory; a
channel's listener that fails; `nsIRequest` and the other interfaces the parent
forwards; the inside of `ChannelEventQueue`, which is taken as a queue that runs one
event at a time.

The rest of `toolkit/` is vendored: most of its size is generated code (protocol
buffers, disassembler tables) and libraries, and its other components are
independent of these two.
