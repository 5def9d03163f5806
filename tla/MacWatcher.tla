----------------------------- MODULE MacWatcher -----------------------------
(***************************************************************************)
(* The native file watcher of NativeFileWatcherMac.cpp.                    *)
(*                                                                         *)
(* The main thread calls the service and runs the callbacks posted to it.  *)
(* The "FileWatcher IO" thread executes a FIFO of runnables; one of them,  *)
(* Run, hands on what the FSEvents thread saved and reposts itself for     *)
(* ever.  The tables belong to the IO thread, so its other runnables are   *)
(* one action each; Run is cut at each event and each path, as it holds    *)
(* callBackLock in between and the FSEvents thread may wait for that.      *)
(***************************************************************************)
EXTENDS FSEventsTask

CONSTANTS
    Cbs,             \* change callbacks
    Errs,            \* error callbacks; a missing one is a member like others
    ThreadMayFail,   \* whether NS_NewNamedThread may fail for the FSE thread
    MaxPostFailures, \* bound: failures of a dispatch to another thread
    MaxCalls         \* bound: calls of AddPath and RemovePath

ASSUME WatcherAssumption ==
    /\ ThreadMayFail \in BOOLEAN
    /\ MaxPostFailures \in Nat
    /\ MaxCalls \in Nat

VARIABLES
    \* The service, on the main thread.
    initialised,   \* whether Init has run: "no", "ok" or "failed"
    mIOThread,     \* whether mIOThread is set
    calls,         \* calls dispatched so far
    mainq,         \* runnables posted to the main thread
    \* The IO thread.
    ioq,           \* its queue of runnables
    io,            \* where Run stands: "idle", or in the loop over "events" or "paths"
    passes,        \* i of the loop over the events
    returnedPaths, \* what is left of the loop over the paths of an event
    mWatchedResourcesByPath,   \* the paths that have an entry
    mChangeCallbacksTable,
    mErrorCallbacksTable,
    mWorkerFSERunnable,        \* whether the FSE task was made
    mShuttingDown,
    postFailures,  \* failures of a dispatch to another thread so far
    \* History, read by properties only.
    runFailed,     \* Run returned a failure and was not rescheduled
    lastHandled    \* the latest event that Run is done with

tableVars == <<mWatchedResourcesByPath, mChangeCallbacksTable, mErrorCallbacksTable>>
mainVars == <<initialised, mIOThread, calls>>
runVars == <<io, passes, returnedPaths, runFailed, lastHandled>>
watcherVars == <<mainVars, mainq, ioq, runVars, tableVars, mWorkerFSERunnable,
                 mShuttingDown, postFailures>>
vars == <<fseventsVars, taskVars, crash, watcherVars>>

Calls == [op : {"add", "remove"}, id : 1..MaxCalls, path : Paths, cb : Cbs, err : Errs]
RunTask == [op |-> "run"]
DeactivateTask == [op |-> "deactivate"]
Tasks == Calls \cup {RunTask, DeactivateTask}

\* A "change" stands for the WatchedChangeEvents of one event and one watched
\* path: the callbacks that still have to run.
Changes == [kind : {"change"}, event : EventIds, path : Paths, cbs : (SUBSET Cbs) \ {{}}]
Successes == [kind : {"success"}, call : Calls]
Posts == Changes \cup Successes

Success(r) == [kind |-> "success", call |-> r]

Init ==
    /\ FSEventsInit
    /\ TaskInit
    /\ initialised = "no"
    /\ mIOThread = FALSE
    /\ calls = 0
    /\ mainq = <<>>
    /\ ioq = <<>>
    /\ io = "idle"
    /\ passes = 0
    /\ returnedPaths = <<>>
    /\ mWatchedResourcesByPath = {}
    /\ mChangeCallbacksTable = [p \in Paths |-> {}]
    /\ mErrorCallbacksTable = [p \in Paths |-> {}]
    /\ mWorkerFSERunnable = FALSE
    /\ mShuttingDown = FALSE
    /\ postFailures = 0
    /\ runFailed = FALSE
    /\ lastHandled = 0

(***************************************************************************)
(* The service on the main thread.                                         *)
(***************************************************************************)
\* Init: the observer service or the thread may be missing.
ServiceInit ==
    /\ initialised = "no"
    /\ \/ /\ initialised' = "ok"
          /\ mIOThread' = TRUE
          /\ ioq' = <<RunTask>>
       \/ /\ initialised' = "failed"
          /\ UNCHANGED <<mIOThread, ioq>>
    /\ UNCHANGED <<fseventsVars, taskVars, crash, calls, mainq, runVars, tableVars,
                   mWorkerFSERunnable, mShuttingDown, postFailures>>

DispatchToIO(task) ==
    /\ Alive
    /\ mIOThread
    /\ ioq' = Append(ioq, task)
    /\ UNCHANGED <<fseventsVars, taskVars, crash, initialised, mainq, runVars, tableVars,
                   mWorkerFSERunnable, mShuttingDown, postFailures>>

DispatchCall(op, p, c, e) ==
    /\ calls < MaxCalls
    /\ calls' = calls + 1
    /\ DispatchToIO([op |-> op, id |-> calls + 1, path |-> p, cb |-> c, err |-> e])
    /\ UNCHANGED mIOThread

AddPath(p, c, e) == DispatchCall("add", p, c, e)
RemovePath(p, c, e) == DispatchCall("remove", p, c, e)

\* Mutant of Uninit: mIOThread is not swapped out.
UninitKeepingThread ==
    /\ DispatchToIO(DeactivateTask)
    /\ UNCHANGED <<mIOThread, calls>>

\* "xpcom-shutdown-threads": no call can follow, as mIOThread is swapped out.
Uninit ==
    /\ DispatchToIO(DeactivateTask)
    /\ mIOThread' = FALSE
    /\ UNCHANGED calls

Delivered(q) ==
    /\ Alive
    /\ mainq' = q
    /\ UNCHANGED <<fseventsVars, taskVars, crash, mainVars, ioq, runVars, tableVars,
                   mWorkerFSERunnable, mShuttingDown, postFailures>>

\* The main thread runs one callback of the oldest post.
DeliverChange(c) ==
    /\ mainq # <<>>
    /\ Head(mainq).kind = "change"
    /\ c \in Head(mainq).cbs
    /\ Delivered(IF Head(mainq).cbs = {c} THEN Tail(mainq)
                 ELSE [mainq EXCEPT ![1].cbs = @ \ {c}])

DeliverSuccess ==
    /\ mainq # <<>>
    /\ Head(mainq).kind = "success"
    /\ Delivered(Tail(mainq))

DeliverNext == (\E c \in Cbs : DeliverChange(c)) \/ DeliverSuccess

(***************************************************************************)
(* The IO thread.                                                          *)
(***************************************************************************)
IOTakes(op) ==
    /\ Alive
    /\ io = "idle"
    /\ ioq # <<>>
    /\ Head(ioq).op = op

Current == Head(ioq)

\* A dispatch to the main thread or to the FSE thread fails.
PostFails ==
    /\ postFailures < MaxPostFailures
    /\ postFailures' = postFailures + 1

\* ReportSuccess: a failure to post is logged and changes nothing else.
ReportSuccess ==
    \/ /\ mainq' = Append(mainq, Success(Current))
       /\ UNCHANGED postFailures
    \/ /\ PostFails
       /\ UNCHANGED mainq

Ends == ioq' = Tail(ioq) /\ UNCHANGED <<log, mainVars, runVars, mShuttingDown>>

\* Mutant of AppendCallbacks: the change callback goes to both tables.
AppendCallbacksMixedUp(r) ==
    /\ mChangeCallbacksTable' = [mChangeCallbacksTable EXCEPT ![r.path] = @ \cup {r.cb}]
    /\ mErrorCallbacksTable' = [mErrorCallbacksTable EXCEPT ![r.path] = @ \cup {r.cb}]

\* AppendCallbacksToHashtables: the arrays hold each callback once.
AppendCallbacks(r) ==
    /\ mChangeCallbacksTable' = [mChangeCallbacksTable EXCEPT ![r.path] = @ \cup {r.cb}]
    /\ mErrorCallbacksTable' = [mErrorCallbacksTable EXCEPT ![r.path] = @ \cup {r.err}]

(***************************************************************************)
(* AddPathRunnableMethod.                                                  *)
(***************************************************************************)
\* The test of mShuttingDown never fails: see ImplementsService.
Adds == IOTakes("add") /\ ~mShuttingDown /\ Ends

HasEntry(r) == r.path \in mWatchedResourcesByPath

\* stat fails: NS_ERROR_FILE_NOT_FOUND goes to the caller of the runnable.
AddMissing ==
    /\ Adds
    /\ UNCHANGED <<streamVars, taskVars, crash, mainq, tableVars, mWorkerFSERunnable,
                   postFailures>>

\* The path has an entry: its callbacks are added, and nobody is told.
AddKnown ==
    /\ Adds
    /\ HasEntry(Current)
    /\ AppendCallbacks(Current)
    /\ UNCHANGED <<streamVars, taskVars, crash, mainq, mWatchedResourcesByPath,
                   mWorkerFSERunnable, postFailures>>

\* What is left to do once the FSE thread has been told.
AddEntry ==
    /\ AppendCallbacks(Current)
    /\ mWatchedResourcesByPath' = mWatchedResourcesByPath \cup {Current.path}
    /\ ReportSuccess

\* The first path: the task and its thread are made.
AddFirst ==
    /\ Adds
    /\ ~HasEntry(Current)
    /\ ~mWorkerFSERunnable
    /\ mWorkerFSERunnable' = TRUE
    /\ NewTask(Current.path)
    /\ NewThread
    /\ AddEntry
    /\ UNCHANGED <<loopVars, savedVars, crash>>

\* The thread cannot be made, and the task stays.
AddFirstFails ==
    /\ Adds
    /\ ~HasEntry(Current)
    /\ ~mWorkerFSERunnable
    /\ ThreadMayFail
    /\ mWorkerFSERunnable' = TRUE
    /\ NewTask(Current.path)
    /\ UNCHANGED <<fseq, fse, loopVars, savedVars, crash, mainq, tableVars, postFailures>>

AddNext ==
    /\ Adds
    /\ ~HasEntry(Current)
    /\ mWorkerFSERunnable
    /\ childRunLoop
    /\ StopAndDispatch("add", Current.path)
    /\ AddEntry
    /\ UNCHANGED <<streamVars, crash, mWorkerFSERunnable>>

\* Mutant of AddDispatchFails: the callbacks are in the tables by then.
AddDispatchFailsLate ==
    /\ Adds
    /\ ~HasEntry(Current)
    /\ mWorkerFSERunnable
    /\ childRunLoop
    /\ StopWithoutDispatch
    /\ PostFails
    /\ AppendCallbacks(Current)
    /\ UNCHANGED <<streamVars, crash, mainq, mWatchedResourcesByPath, mWorkerFSERunnable>>

\* The dispatch to the FSE thread fails once its run loop was told to stop.
AddDispatchFails ==
    /\ Adds
    /\ ~HasEntry(Current)
    /\ mWorkerFSERunnable
    /\ childRunLoop
    /\ StopWithoutDispatch
    /\ PostFails
    /\ UNCHANGED <<streamVars, crash, mainq, tableVars, mWorkerFSERunnable>>

\* childRunLoop is not initialised before the first Run of the FSE thread.
AddNoRunLoop ==
    /\ Adds
    /\ ~HasEntry(Current)
    /\ mWorkerFSERunnable
    /\ ~childRunLoop
    /\ crash' = "no_run_loop"
    /\ UNCHANGED <<streamVars, taskVars, mainq, tableVars, mWorkerFSERunnable, postFailures>>

AddPathRunnable ==
    \/ AddMissing \/ AddKnown \/ AddFirst \/ AddFirstFails
    \/ AddNext \/ AddDispatchFails \/ AddNoRunLoop

(***************************************************************************)
(* RemovePathRunnableMethod.                                               *)
(***************************************************************************)
Removes ==
    /\ IOTakes("remove")
    /\ ~mShuttingDown
    /\ Ends
    /\ UNCHANGED <<streamVars, mWorkerFSERunnable>>

Registered(r) ==
    /\ r.cb \in mChangeCallbacksTable[r.path]
    /\ r.err \in mErrorCallbacksTable[r.path]

LastCallback(r) == mChangeCallbacksTable[r.path] = {r.cb}

RemoveCallbacks(r) ==
    /\ mChangeCallbacksTable' = [mChangeCallbacksTable EXCEPT ![r.path] = @ \ {r.cb}]
    /\ mErrorCallbacksTable' = [mErrorCallbacksTable EXCEPT ![r.path] = @ \ {r.err}]

RemoveUnwatched ==
    /\ Removes
    /\ ~HasEntry(Current)
    /\ ReportSuccess
    /\ UNCHANGED <<taskVars, crash, tableVars>>

\* MOZ_CRASH when either callback is not in its array.
RemoveUnregistered ==
    /\ Removes
    /\ HasEntry(Current)
    /\ ~Registered(Current)
    /\ crash' = "unregistered"
    /\ UNCHANGED <<taskVars, mainq, tableVars, postFailures>>

RemoveOne ==
    /\ Removes
    /\ HasEntry(Current)
    /\ Registered(Current)
    /\ ~LastCallback(Current)
    /\ RemoveCallbacks(Current)
    /\ ReportSuccess
    /\ UNCHANGED <<taskVars, crash, mWatchedResourcesByPath>>

\* Mutant of RemoveEntry: the FSE thread is told, and the entry stays.
RemoveEntryNot(r) == UNCHANGED mWatchedResourcesByPath

RemoveEntry(r) == mWatchedResourcesByPath' = mWatchedResourcesByPath \ {r.path}

RemoveLast ==
    /\ Removes
    /\ HasEntry(Current)
    /\ Registered(Current)
    /\ LastCallback(Current)
    /\ childRunLoop
    /\ RemoveCallbacks(Current)
    /\ StopAndDispatch("remove", Current.path)
    /\ RemoveEntry(Current)
    /\ ReportSuccess
    /\ UNCHANGED crash

\* The dispatch to the FSE thread fails: the callbacks are gone, the entry
\* stays, and nobody is told.
RemoveDispatchFails ==
    /\ Removes
    /\ HasEntry(Current)
    /\ Registered(Current)
    /\ LastCallback(Current)
    /\ childRunLoop
    /\ RemoveCallbacks(Current)
    /\ StopWithoutDispatch
    /\ PostFails
    /\ UNCHANGED <<crash, mainq, mWatchedResourcesByPath>>

RemoveNoRunLoop ==
    /\ Removes
    /\ HasEntry(Current)
    /\ Registered(Current)
    /\ LastCallback(Current)
    /\ ~childRunLoop
    /\ crash' = "no_run_loop"
    /\ RemoveCallbacks(Current)
    /\ UNCHANGED <<taskVars, mainq, mWatchedResourcesByPath, postFailures>>

RemovePathRunnable ==
    \/ RemoveUnwatched \/ RemoveUnregistered \/ RemoveOne
    \/ RemoveLast \/ RemoveDispatchFails \/ RemoveNoRunLoop

\* The tables are cleared; the FSE thread and its stream go on.
DeactivateRunnable ==
    /\ IOTakes("deactivate")
    /\ ~mShuttingDown
    /\ mShuttingDown' = TRUE
    /\ mWatchedResourcesByPath' = {}
    /\ mChangeCallbacksTable' = [p \in Paths |-> {}]
    /\ mErrorCallbacksTable' = [p \in Paths |-> {}]
    /\ ioq' = Tail(ioq)
    /\ UNCHANGED <<fseventsVars, taskVars, crash, mainVars, mainq, runVars,
                   mWorkerFSERunnable, postFailures>>

(***************************************************************************)
(* Run and RunInternal.                                                    *)
(***************************************************************************)
RunFrame ==
    UNCHANGED <<fseventsVars, fseq, fse, runLoopLock, loopVars, batch, crash, mainVars,
                tableVars, mWorkerFSERunnable, mShuttingDown>>

\* Mutant of Reschedule: Run goes in front of the calls.
RescheduleFirst(q) == <<RunTask>> \o q

\* The queue with Run behind what came in meanwhile.
Reschedule(q) == Append(q, RunTask)

RunInShutdown ==
    /\ IOTakes("run")
    /\ mShuttingDown
    /\ ioq' = Tail(ioq)
    /\ RunFrame
    /\ UNCHANGED <<mSavedEvents, callBackLock, mainq, runVars, postFailures>>

\* Nothing was saved: the lock is taken and given back.
RunNothing ==
    /\ IOTakes("run")
    /\ ~mShuttingDown
    /\ callBackLock = "free"
    /\ mSavedEvents = <<>>
    /\ ioq' = Reschedule(Tail(ioq))
    /\ RunFrame
    /\ UNCHANGED <<mSavedEvents, callBackLock, mainq, runVars, postFailures>>

RunBegin ==
    /\ IOTakes("run")
    /\ ~mShuttingDown
    /\ callBackLock = "free"
    /\ mSavedEvents # <<>>
    /\ callBackLock' = "io"
    /\ io' = "events"
    /\ passes' = 0
    /\ ioq' = Tail(ioq)
    /\ RunFrame
    /\ UNCHANGED <<mSavedEvents, mainq, returnedPaths, runFailed, lastHandled, postFailures>>

InRun(place) ==
    /\ Alive
    /\ io = place
    /\ RunFrame

\* The event at the head of mSavedEvents.
Event == Head(mSavedEvents)

\* Mutant of getRecursivePaths: the loop stops before the last component.
RecursivePathsShort(f) == [n \in 1..Len(f) - 2 |-> SubSeq(f, 1, n)]

\* Every directory on the way to the file, and the file.
getRecursivePaths(f) == [n \in 1..Len(f) |-> SubSeq(f, 1, n)]

\* The queue gets shorter while the index grows: half of the events are left.
RunEvent ==
    /\ InRun("events")
    /\ passes < Len(mSavedEvents)
    /\ returnedPaths' = getRecursivePaths(log[Event].path)
    /\ io' = "paths"
    /\ UNCHANGED <<mSavedEvents, callBackLock, mainq, ioq, passes, runFailed, lastHandled,
                   postFailures>>

NextPath == Head(returnedPaths)

SkipUnwatched ==
    /\ InRun("paths")
    /\ returnedPaths # <<>>
    /\ NextPath \notin mWatchedResourcesByPath
    /\ returnedPaths' = Tail(returnedPaths)
    /\ UNCHANGED <<mSavedEvents, callBackLock, mainq, ioq, io, passes, runFailed,
                   lastHandled, postFailures>>

PostChange(cbs) ==
    mainq' = IF cbs = {} THEN mainq
             ELSE Append(mainq, [kind |-> "change", event |-> Event, path |-> NextPath,
                                 cbs |-> cbs])

\* DispatchChangeCallbacks: a post for each callback of the path.
DispatchChange ==
    /\ InRun("paths")
    /\ returnedPaths # <<>>
    /\ NextPath \in mWatchedResourcesByPath
    /\ PostChange(mChangeCallbacksTable[NextPath])
    /\ returnedPaths' = Tail(returnedPaths)
    /\ UNCHANGED <<mSavedEvents, callBackLock, ioq, io, passes, runFailed, lastHandled,
                   postFailures>>

\* One of the posts fails: RunInternal returns without unlocking, and Run does
\* not reschedule itself.
DispatchChangeFails ==
    /\ InRun("paths")
    /\ returnedPaths # <<>>
    /\ NextPath \in mWatchedResourcesByPath
    /\ PostFails
    /\ \E posted \in SUBSET mChangeCallbacksTable[NextPath] :
        /\ posted # mChangeCallbacksTable[NextPath]
        /\ PostChange(posted)
    /\ io' = "idle"
    /\ runFailed' = TRUE
    /\ UNCHANGED <<mSavedEvents, callBackLock, ioq, passes, returnedPaths, lastHandled>>

RunPop ==
    /\ InRun("paths")
    /\ returnedPaths = <<>>
    /\ lastHandled' = Event
    /\ mSavedEvents' = Tail(mSavedEvents)
    /\ passes' = passes + 1
    /\ io' = "events"
    /\ UNCHANGED <<callBackLock, mainq, ioq, returnedPaths, runFailed, postFailures>>

RunEnd ==
    /\ InRun("events")
    /\ passes >= Len(mSavedEvents)
    /\ callBackLock' = "free"
    /\ io' = "idle"
    /\ ioq' = Reschedule(ioq)
    /\ UNCHANGED <<mSavedEvents, mainq, passes, returnedPaths, runFailed, lastHandled,
                   postFailures>>

Run ==
    \/ RunInShutdown \/ RunNothing \/ RunBegin
    \/ RunEvent \/ SkipUnwatched \/ DispatchChange \/ DispatchChangeFails
    \/ RunPop \/ RunEnd

IOThread == Run \/ AddPathRunnable \/ RemovePathRunnable \/ DeactivateRunnable

(***************************************************************************)
(* The whole system.                                                       *)
(***************************************************************************)
MainThread ==
    \/ ServiceInit
    \/ \E p \in Paths, c \in Cbs, e \in Errs : AddPath(p, c, e)
    \/ \E p \in Paths, c \in Cbs, e \in Errs : RemovePath(p, c, e)
    \/ Uninit

FSE == FseThread /\ UNCHANGED watcherVars

FileSystem == Alive /\ FsNext /\ UNCHANGED <<taskVars, crash, watcherVars>>

Next == MainThread \/ DeliverNext \/ IOThread \/ FSE \/ FileSystem

Spec == Init /\ [][Next]_vars

\* The scheduler runs the three threads, and a run loop that is stopped
\* returns.  Clients and the file system owe nothing.
Fairness ==
    /\ WF_vars(IOThread)
    /\ WF_vars(DeliverNext)
    /\ WF_vars(FseThread /\ UNCHANGED watcherVars)

FairSpec == Spec /\ Fairness

(***************************************************************************)
(* The service this port provides: WatchService with                       *)
(*   registered  the table of the change callbacks,                        *)
(*   requests    the calls in the queue of the IO thread,                  *)
(*   posts       the queue of the main thread.                             *)
(***************************************************************************)
ServiceState ==
    IF mIOThread THEN "open" ELSE IF initialised = "ok" THEN "closed" ELSE "new"

CallsIn(q) == {q[n] : n \in 1..Len(q)} \cap Calls

RegisteredPairs == {x \in Paths \X Cbs : x[2] \in mChangeCallbacksTable[x[1]]}

Service == INSTANCE WatchService WITH
    service <- ServiceState,
    requests <- CallsIn(ioq),
    registered <- RegisteredPairs,
    posts <- mainq,
    alive <- Alive

(***************************************************************************)
(* Properties.                                                             *)
(***************************************************************************)
ServiceTypeOK ==
    /\ initialised \in {"no", "ok", "failed"}
    /\ mIOThread \in BOOLEAN
    /\ calls \in 0..MaxCalls

RunTypeOK ==
    /\ io \in {"idle", "events", "paths"}
    /\ passes \in Nat
    /\ returnedPaths \in Seq(Seq(STRING))
    /\ runFailed \in BOOLEAN
    /\ lastHandled \in 0..MaxEvents

TableTypeOK ==
    /\ mWatchedResourcesByPath \in SUBSET Paths
    /\ mChangeCallbacksTable \in [Paths -> SUBSET Cbs]
    /\ mErrorCallbacksTable \in [Paths -> SUBSET Errs]

QueueTypeOK ==
    /\ ioq \in Seq(Tasks)
    /\ mainq \in Seq(Posts)
    /\ postFailures \in 0..MaxPostFailures
    /\ mWorkerFSERunnable \in BOOLEAN
    /\ mShuttingDown \in BOOLEAN

\* Every variable of the stream, of the two threads, of the tables and of the
\* queues between the threads keeps its type; Run only looks at the head of
\* mSavedEvents while there is one.
TypeOK ==
    /\ FSEventsTypeOK
    /\ TaskTypeOK
    /\ ServiceTypeOK
    /\ RunTypeOK
    /\ TableTypeOK
    /\ QueueTypeOK
    /\ io = "paths" => mSavedEvents # <<>>

RunsQueued == {n \in 1..Len(fseq) : fseq[n] = FseRunTask}

\* Whoever locks runLoopLock leaves one Run in the queue to unlock it: the lock
\* is held exactly while a Run is queued, no two are, and no Run unlocks a lock
\* that is free.
LockPaired ==
    Alive /\ fse # "none" =>
        /\ \A m, n \in RunsQueued : m = n
        /\ runLoopLock <=> RunsQueued # {}

\* The places of the queue q at which p is added or removed.
Orders(q, p) == {n \in 1..Len(q) : q[n].op # "run" /\ q[n].path = p}

\* Whether p is in a stream of these paths once the FSE thread has done what is
\* in q.
EndsUpWatched(q, paths, p) ==
    IF Orders(q, p) = {} THEN p \in paths
    ELSE \E n \in Orders(q, p) : (\A m \in Orders(q, p) : m <= n) /\ q[n].op = "add"

\* The stream follows the table of the other thread: what is queued for the
\* FSE thread turns the paths of the stream into the paths that have an entry.
StreamFollowsTable ==
    Alive /\ fse # "none" /\ ~mShuttingDown =>
        \A p \in Paths :
            EndsUpWatched(fseq, streamPaths, p) <=> p \in mWatchedResourcesByPath

\* Whoever is registered will be heard: a path with change callbacks has an entry,
\* and is in the stream once the FSE thread has done what is queued for it.
CallbacksAreHeard ==
    Alive =>
        \A p \in Paths : mChangeCallbacksTable[p] # {} =>
            /\ p \in mWatchedResourcesByPath
            /\ fse # "none"
            /\ EndsUpWatched(fseq, streamPaths, p)

\* Events keep their order and come once, from the stream through the batch of
\* the callback and mSavedEvents to Run, although the stream is replaced and a
\* pass of Run leaves half of mSavedEvents to the next.
EventsInOrder ==
    /\ \A n \in 1..Len(mSavedEvents) : mSavedEvents[n] > lastHandled
    /\ \A m, n \in 1..Len(mSavedEvents) : m < n => mSavedEvents[m] < mSavedEvents[n]
    /\ \A b \in batch :
        /\ lastHandled < b /\ b <= position
        /\ \A n \in 1..Len(mSavedEvents) : mSavedEvents[n] < b
    /\ \A n \in 1..Len(mSavedEvents) : mSavedEvents[n] <= position
    /\ lastHandled <= position

\* This port implements the service: its calls take effect in their order, an
\* unwatched path has no callback to be told, what is posted goes to callbacks
\* that are registered, and nothing comes after the shutdown.
ImplementsService == Service!Spec

\* Run reposts itself for ever and waits for callBackLock, and yet every call gets
\* its turn.
CallsServed ==
    \A id \in 1..MaxCalls :
        (\E n \in 1..Len(ioq) : ioq[n] \in Calls /\ ioq[n].id = id)
        ~> (~Alive \/ \A n \in 1..Len(ioq) : ioq[n] \in Calls => ioq[n].id # id)

\* The FSE thread is out of its run loop for good: its next runnable waits for
\* runLoopLock, which only a later one would unlock, or it has none, as the
\* dispatch failed that its run loop was stopped for.
FseStuck ==
    /\ fse = "idle"
    /\ fseq = <<>> \/ (Head(fseq).op \in {"add", "remove"} /\ runLoopLock)

Concerns(n, p) == n <= Len(log) /\ Under(log[n].path, p)

\* What the stream has to report is reported, although it is replaced in
\* between, once it has reported something before; unless the FSE thread is
\* stuck, or the path is removed.
EventsCollected ==
    \A n \in EventIds :
        (streamState = "started" /\ sinceWhen # SinceNow /\ n \in Pending)
        ~> (\/ n \in batch
            \/ ~\E p \in streamPaths : Concerns(n, p)
            \/ FseStuck \/ runFailed \/ ~Alive)

\* A saved change of a file reaches each callback of each directory above it.
ChangeReachesCallback ==
    \A n \in EventIds, p \in Paths, c \in Cbs :
        (/\ \E k \in 1..Len(mSavedEvents) : mSavedEvents[k] = n
         /\ Concerns(n, p)
         /\ io = "idle"
         /\ c \in mChangeCallbacksTable[p])
        ~> (\/ \E k \in 1..Len(mainq) : /\ mainq[k].kind = "change"
                                        /\ mainq[k].event = n
                                        /\ mainq[k].path = p
                                        /\ c \in mainq[k].cbs
            \/ c \notin mChangeCallbacksTable[p]
            \/ runFailed \/ ~Alive)
=============================================================================
