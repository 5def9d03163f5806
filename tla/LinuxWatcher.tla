---------------------------- MODULE LinuxWatcher ----------------------------
(***************************************************************************)
(* The native file watcher of NativeFileWatcherLnx.cpp.                    *)
(*                                                                         *)
(* Three kinds of actors run concurrently: the main thread, which calls    *)
(* the service and runs the callbacks posted to it; the "FileWatcher IO"   *)
(* thread, a FIFO of runnables of which one, Run, reposts itself for ever; *)
(* and the threads that happen to take SIGIO and run signalHandler.  The   *)
(* tables belong to the IO thread alone, so each runnable that only works  *)
(* on them is one action; Run is cut wherever the kernel or a signal       *)
(* handler can get in between (test, load, store, each read, each event).  *)
(***************************************************************************)
EXTENDS InotifyKernel

CONSTANTS
    Cbs,             \* change callbacks
    Errs,            \* error callbacks; a missing one is a member like others,
                     \* as two null handles compare equal
    NoPath,          \* what an unknown watch descriptor maps to
    SignalThreads,   \* threads that may take SIGIO
    ReadLimit,       \* 1000 in the code: passes of the read and process loops
    MaxPostFailures, \* bound: failures of NS_DispatchToMainThread
    MayRefuse,       \* paths that MakeResourcePath may refuse: nsIFile takes
                     \* absolute paths only, inotify takes any
    MaxCalls         \* bound: calls of AddPath and RemovePath

ASSUME WatcherAssumption ==
    /\ NoPath \notin Paths
    /\ ReadLimit \in Nat \ {0}
    /\ MaxPostFailures \in Nat
    /\ MayRefuse \subseteq Paths
    /\ MaxCalls \in Nat

VARIABLES
    \* The service, on the main thread.
    initialised,     \* whether Init has run: "no", "ok" or "failed"
    mIOThread,       \* whether mIOThread is set
    calls,           \* calls dispatched so far
    mainq,           \* runnables posted to the main thread
    \* SIGIO.
    mEventWaiting,   \* the counter shared with the handler
    handler,         \* per thread: the value its handler loaded, or NotHandling
    \* The IO thread.
    ioq,             \* its queue of runnables
    io,              \* where Run stands: "idle" when it is not executing
    loaded,          \* the value --mEventWaiting loaded
    mInotifyReadTimeout,
    mInotifyEventQueue,
    mWatchedResourcesByPath,    \* path -> watch descriptor of its entry, or NoWd
    mWatchedResourcesByHandle,  \* descriptor -> path of its entry, or NoPath
    mChangeCallbacksTable,
    mErrorCallbacksTable,
    mShuttingDown,
    crash,           \* why the process died: "none" while it lives
    postFailures,    \* failures of NS_DispatchToMainThread so far
    \* History, read by properties only.
    runFailed,       \* Run returned a failure and was not rescheduled
    cutShort,        \* the last read loop stopped at ReadLimit
    lastCall,        \* per path and callback, the latest call that named them
    quiet            \* pairs whose latest call is a removal that succeeded

signalVars == <<mEventWaiting, handler>>
runVars == <<io, loaded, mInotifyReadTimeout, mInotifyEventQueue, runFailed, cutShort>>
tableVars == <<mWatchedResourcesByPath, mWatchedResourcesByHandle,
               mChangeCallbacksTable, mErrorCallbacksTable>>
historyVars == <<lastCall, quiet>>
mainVars == <<initialised, mIOThread, calls, lastCall, quiet>>
vars == <<kernelVars, signalVars, runVars, tableVars, mainVars,
          mainq, ioq, mShuttingDown, crash, postFailures>>

NotHandling == -1
CallIds == 1..MaxCalls
Pairs == Paths \X Cbs

(***************************************************************************)
(* Runnables of the two queues.                                            *)
(***************************************************************************)
Calls == [op : {"add", "remove"}, id : CallIds, path : Paths, cb : Cbs, err : Errs]
RunTask == [op |-> "run"]
DeactivateTask == [op |-> "deactivate"]
Tasks == Calls \cup {RunTask, DeactivateTask}

\* One "change" stands for the WatchedChangeEvents of one inotify event: the
\* callbacks that still have to run.  name tells a real name from leftover bytes.
Changes == [kind : {"change"}, path : Paths, name : {"entry", "unset"},
            cbs : (SUBSET Cbs) \ {{}}]
Successes == [kind : {"success"}, call : Calls]
Errors == [kind : {"error"}, call : Calls]
Posts == Changes \cup Successes \cup Errors

Success(r) == [kind |-> "success", call |-> r]
Failure(r) == [kind |-> "error", call |-> r]

(***************************************************************************)
(* The service on the main thread.                                         *)
(***************************************************************************)
Init ==
    /\ KernelInit
    /\ initialised = "no"
    /\ mIOThread = FALSE
    /\ calls = 0
    /\ mainq = <<>>
    /\ mEventWaiting = 0
    /\ handler = [t \in SignalThreads |-> NotHandling]
    /\ ioq = <<>>
    /\ io = "idle"
    /\ loaded = 0
    /\ mInotifyReadTimeout = ReadLimit
    /\ mInotifyEventQueue = <<>>
    /\ mWatchedResourcesByPath = [p \in Paths |-> NoWd]
    /\ mWatchedResourcesByHandle = [w \in Wds |-> NoPath]
    /\ mChangeCallbacksTable = [p \in Paths |-> {}]
    /\ mErrorCallbacksTable = [p \in Paths |-> {}]
    /\ mShuttingDown = FALSE
    /\ crash = "none"
    /\ postFailures = 0
    /\ runFailed = FALSE
    /\ cutShort = FALSE
    /\ lastCall = [x \in Pairs |-> 0]
    /\ quiet = {}

Alive == crash = "none"

\* Init: any of its system calls may fail, and the service is then not created.
ServiceInit ==
    /\ initialised = "no"
    /\ \/ /\ initialised' = "ok"
          /\ mIOThread' = TRUE
          /\ ioq' = <<RunTask>>
       \/ /\ initialised' = "failed"
          /\ UNCHANGED <<mIOThread, ioq>>
    /\ UNCHANGED <<kernelVars, signalVars, runVars, tableVars, historyVars, calls,
                   mainq, mShuttingDown, crash, postFailures>>

\* AddPath and RemovePath only dispatch to the IO thread, if there is one.
DispatchCall(op, p, c, e) ==
    LET r == [op |-> op, id |-> calls + 1, path |-> p, cb |-> c, err |-> e]
    IN  /\ Alive
        /\ mIOThread
        /\ calls < MaxCalls
        /\ calls' = calls + 1
        /\ ioq' = Append(ioq, r)
        /\ lastCall' = [lastCall EXCEPT ![<<p, c>>] = calls + 1]
        /\ quiet' = quiet \ {<<p, c>>}
        /\ UNCHANGED <<kernelVars, signalVars, runVars, tableVars, initialised,
                       mIOThread, mainq, mShuttingDown, crash, postFailures>>

AddPath(p, c, e) == DispatchCall("add", p, c, e)
RemovePath(p, c, e) == DispatchCall("remove", p, c, e)

\* Mutant of Uninit: mIOThread is not swapped out.
UninitKeepingThread ==
    /\ Alive
    /\ mIOThread
    /\ ioq' = Append(ioq, DeactivateTask)
    /\ UNCHANGED <<kernelVars, signalVars, runVars, tableVars, historyVars, initialised,
                   mIOThread, calls, mainq, mShuttingDown, crash, postFailures>>

\* "xpcom-shutdown-threads": no call can follow, as mIOThread is swapped out.
Uninit ==
    /\ Alive
    /\ mIOThread
    /\ mIOThread' = FALSE
    /\ ioq' = Append(ioq, DeactivateTask)
    /\ UNCHANGED <<kernelVars, signalVars, runVars, tableVars, historyVars, initialised,
                   calls, mainq, mShuttingDown, crash, postFailures>>

Delivered(q) ==
    /\ Alive
    /\ mainq' = q
    /\ UNCHANGED <<kernelVars, signalVars, runVars, tableVars, initialised, mIOThread,
                   calls, lastCall, ioq, mShuttingDown, crash, postFailures>>

\* The main thread runs one callback of the oldest post.
DeliverChange(c) ==
    /\ mainq # <<>>
    /\ Head(mainq).kind = "change"
    /\ c \in Head(mainq).cbs
    /\ Delivered(IF Head(mainq).cbs = {c} THEN Tail(mainq)
                 ELSE [mainq EXCEPT ![1].cbs = @ \ {c}])
    /\ UNCHANGED quiet

DeliverSuccess ==
    /\ mainq # <<>>
    /\ Head(mainq).kind = "success"
    /\ Delivered(Tail(mainq))
    /\ LET r == Head(mainq).call
       IN  quiet' = IF r.op = "remove" /\ lastCall[<<r.path, r.cb>>] = r.id
                    THEN quiet \cup {<<r.path, r.cb>>} ELSE quiet

DeliverError ==
    /\ mainq # <<>>
    /\ Head(mainq).kind = "error"
    /\ Delivered(Tail(mainq))
    /\ UNCHANGED quiet

DeliverNext == (\E c \in Cbs : DeliverChange(c)) \/ DeliverSuccess \/ DeliverError

(***************************************************************************)
(* SIGIO.  ++mEventWaiting is a load and a store, on any thread.           *)
(***************************************************************************)
SignalLoad(t) ==
    /\ Alive
    /\ sigPending
    /\ handler[t] = NotHandling
    /\ sigPending' = FALSE
    /\ handler' = [handler EXCEPT ![t] = mEventWaiting]
    /\ UNCHANGED <<dir, kwatch, nextWd, kq, fsOps, mEventWaiting, runVars, tableVars,
                   mainVars, mainq, ioq, mShuttingDown, crash, postFailures>>

\* Mutant of SignalStore: the handler does not count the signal.
SignalForgotten(t) ==
    /\ Alive
    /\ handler[t] # NotHandling
    /\ handler' = [handler EXCEPT ![t] = NotHandling]
    /\ UNCHANGED <<mEventWaiting, kernelVars, runVars, tableVars, mainVars, mainq, ioq,
                   mShuttingDown, crash, postFailures>>

SignalStore(t) ==
    /\ Alive
    /\ handler[t] # NotHandling
    /\ mEventWaiting' = handler[t] + 1
    /\ handler' = [handler EXCEPT ![t] = NotHandling]
    /\ UNCHANGED <<kernelVars, runVars, tableVars, mainVars, mainq, ioq, mShuttingDown,
                   crash, postFailures>>

(***************************************************************************)
(* The IO thread.  It executes its oldest runnable to the end before it    *)
(* looks at the next one.                                                  *)
(***************************************************************************)
Takes(op) ==
    /\ Alive
    /\ io = "idle"
    /\ ioq # <<>>
    /\ Head(ioq).op = op

Current == Head(ioq)

\* NS_DispatchToMainThread: the post is queued, or the dispatch fails.
PostFails ==
    /\ postFailures < MaxPostFailures
    /\ postFailures' = postFailures + 1

\* ReportSuccess, ReportError: a failure to post is logged and nothing else.
Report(m) ==
    \/ /\ mainq' = Append(mainq, m)
       /\ UNCHANGED postFailures
    \/ /\ PostFails
       /\ UNCHANGED mainq

CallVars == <<signalVars, runVars, mainVars, dir, fsOps>>
Ends == ioq' = Tail(ioq) /\ UNCHANGED CallVars

\* Mutant of AppendCallbacks: the change callback goes to both tables.
AppendCallbacksMixedUp(p, c, e) ==
    /\ mChangeCallbacksTable' = [mChangeCallbacksTable EXCEPT ![p] = @ \cup {c}]
    /\ mErrorCallbacksTable' = [mErrorCallbacksTable EXCEPT ![p] = @ \cup {c}]

\* AppendCallbacksToHashtables: the arrays hold each callback once.
AppendCallbacks(p, c, e) ==
    /\ mChangeCallbacksTable' = [mChangeCallbacksTable EXCEPT ![p] = @ \cup {c}]
    /\ mErrorCallbacksTable' = [mErrorCallbacksTable EXCEPT ![p] = @ \cup {e}]

\* Mutant of RemoveCallbacks: the change callback is forgotten.
RemoveErrorCallback(p, c, e) ==
    /\ mErrorCallbacksTable' = [mErrorCallbacksTable EXCEPT ![p] = @ \ {e}]
    /\ UNCHANGED mChangeCallbacksTable

\* RemoveElement on both arrays of the path.
RemoveCallbacks(p, c, e) ==
    /\ mChangeCallbacksTable' = [mChangeCallbacksTable EXCEPT ![p] = @ \ {c}]
    /\ mErrorCallbacksTable' = [mErrorCallbacksTable EXCEPT ![p] = @ \ {e}]

(***************************************************************************)
(* AddPathRunnableMethod.                                                  *)
(***************************************************************************)
\* The test of mShuttingDown never fails: see ShutdownIsClean.
Adds == Takes("add") /\ ~mShuttingDown /\ UNCHANGED <<mShuttingDown, crash>>

\* access fails: NS_ERROR_FILE_NOT_FOUND goes to the caller of the runnable.
AddMissing ==
    /\ Adds
    /\ dir[Current.path] = NoInode
    /\ Ends
    /\ UNCHANGED <<kwatch, nextWd, kq, sigPending, tableVars, mainq, postFailures>>

\* The path has an entry: its callbacks are added, and nobody is told.
AddKnown ==
    /\ Adds
    /\ dir[Current.path] # NoInode
    /\ mWatchedResourcesByPath[Current.path] # NoWd
    /\ AppendCallbacks(Current.path, Current.cb, Current.err)
    /\ Ends
    /\ UNCHANGED <<kwatch, nextWd, kq, sigPending, mWatchedResourcesByPath,
                   mWatchedResourcesByHandle, mainq, postFailures>>

AddRefused ==
    /\ Adds
    /\ dir[Current.path] # NoInode
    /\ mWatchedResourcesByPath[Current.path] = NoWd
    /\ InotifyAddWatchFails(dir[Current.path])
    /\ Report(Failure(Current))
    /\ Ends
    /\ UNCHANGED <<kq, sigPending, tableVars>>

AddWatched ==
    /\ Adds
    /\ dir[Current.path] # NoInode
    /\ mWatchedResourcesByPath[Current.path] = NoWd
    /\ \E w \in Wds :
        /\ InotifyAddWatch(dir[Current.path], w)
        /\ mWatchedResourcesByPath' = [mWatchedResourcesByPath EXCEPT ![Current.path] = w]
        /\ mWatchedResourcesByHandle' = [mWatchedResourcesByHandle EXCEPT ![w] = Current.path]
    /\ AppendCallbacks(Current.path, Current.cb, Current.err)
    /\ Report(Success(Current))
    /\ Ends
    /\ UNCHANGED <<kq, sigPending>>

AddPathRunnable == AddMissing \/ AddKnown \/ AddRefused \/ AddWatched

(***************************************************************************)
(* RemovePathRunnableMethod.                                               *)
(***************************************************************************)
Removes == Takes("remove") /\ ~mShuttingDown /\ UNCHANGED mShuttingDown

HasEntry(r) == mWatchedResourcesByPath[r.path] # NoWd

Registered(r) ==
    /\ r.cb \in mChangeCallbacksTable[r.path]
    /\ r.err \in mErrorCallbacksTable[r.path]

\* Mutant of LastCallback: the length is taken before the removal.
LastCallbackTooEarly(r) == mChangeCallbacksTable[r.path] = {}

LastCallback(r) == mChangeCallbacksTable[r.path] = {r.cb}

RemoveUnwatched ==
    /\ Removes
    /\ ~HasEntry(Current)
    /\ Report(Success(Current))
    /\ Ends
    /\ UNCHANGED <<kwatch, nextWd, kq, sigPending, tableVars, crash>>

\* MOZ_CRASH when either callback is not in its array.
RemoveUnregistered ==
    /\ Removes
    /\ HasEntry(Current)
    /\ ~Registered(Current)
    /\ crash' = "unregistered"
    /\ Ends
    /\ UNCHANGED <<kwatch, nextWd, kq, sigPending, tableVars, mainq, postFailures>>

RemoveOne ==
    /\ Removes
    /\ HasEntry(Current)
    /\ Registered(Current)
    /\ ~LastCallback(Current)
    /\ RemoveCallbacks(Current.path, Current.cb, Current.err)
    /\ Report(Success(Current))
    /\ Ends
    /\ UNCHANGED <<kwatch, nextWd, kq, sigPending, mWatchedResourcesByPath,
                   mWatchedResourcesByHandle, crash>>

\* inotify_rm_watch fails as the watch is gone: NS_ERROR_ABORT, the entry stays.
RemoveAborted ==
    /\ Removes
    /\ HasEntry(Current)
    /\ Registered(Current)
    /\ LastCallback(Current)
    /\ mWatchedResourcesByPath[Current.path] \notin LiveWds
    /\ RemoveCallbacks(Current.path, Current.cb, Current.err)
    /\ Ends
    /\ UNCHANGED <<kwatch, nextWd, kq, sigPending, mWatchedResourcesByPath,
                   mWatchedResourcesByHandle, mainq, crash, postFailures>>

\* Mutant of CloseWatch: inotify_rm_watch is not called.
CloseWatchNot(w) == UNCHANGED <<kwatch, nextWd, kq, sigPending>>

CloseWatch(w) == InotifyRmWatch(w)

\* Removing the entry of p from the first index frees its descriptor, which
\* the removal from the second index then reads: what it finds is still w, or
\* what the allocator wrote over it, which is no descriptor.
Unindex(p, w) ==
    /\ mWatchedResourcesByPath' = [mWatchedResourcesByPath EXCEPT ![p] = NoWd]
    /\ \/ mWatchedResourcesByHandle' = [mWatchedResourcesByHandle EXCEPT ![w] = NoPath]
       \/ UNCHANGED mWatchedResourcesByHandle

RemoveLast ==
    /\ Removes
    /\ HasEntry(Current)
    /\ Registered(Current)
    /\ LastCallback(Current)
    /\ LET w == mWatchedResourcesByPath[Current.path]
       IN  /\ w \in LiveWds
           /\ CloseWatch(w)
           /\ Unindex(Current.path, w)
    /\ RemoveCallbacks(Current.path, Current.cb, Current.err)
    /\ Report(Success(Current))
    /\ Ends
    /\ UNCHANGED crash

RemovePathRunnable ==
    RemoveUnwatched \/ RemoveUnregistered \/ RemoveOne \/ RemoveAborted \/ RemoveLast

(***************************************************************************)
(* DeactivateRunnableMethod.                                               *)
(***************************************************************************)
DeactivateRunnable ==
    /\ Takes("deactivate")
    /\ InotifyClose
    /\ crash' = IF mShuttingDown THEN "deactivated" ELSE crash
    /\ mShuttingDown' = TRUE
    /\ mWatchedResourcesByHandle' = [w \in Wds |-> NoPath]
    /\ mWatchedResourcesByPath' = [p \in Paths |-> NoWd]
    /\ mChangeCallbacksTable' = [p \in Paths |-> {}]
    /\ mErrorCallbacksTable' = [p \in Paths |-> {}]
    /\ Ends
    /\ UNCHANGED <<sigPending, mainq, postFailures>>

(***************************************************************************)
(* Run and RunInternal.                                                    *)
(***************************************************************************)
RunFrame == UNCHANGED <<tableVars, mainVars, mShuttingDown, handler,
                        dir, kwatch, nextWd, sigPending, fsOps>>

\* Mutant of Reschedule: with nothing to do, the loop is left for good.
RescheduleNot(q) == q

\* Mutant of Reschedule: Run goes in front of the calls.
RescheduleFirst(q) == <<RunTask>> \o q

\* NS_DispatchToCurrentThread(this): Run goes behind what is queued by now.
Reschedule(q) == Append(q, RunTask)

RunInShutdown ==
    /\ Takes("run")
    /\ mShuttingDown
    /\ ioq' = Tail(ioq)
    /\ RunFrame
    /\ UNCHANGED <<kq, mEventWaiting, runVars, mainq, crash, postFailures>>

\* if (mEventWaiting) fails: nothing to do this time.
RunNothing ==
    /\ Takes("run")
    /\ ~mShuttingDown
    /\ mEventWaiting = 0
    /\ ioq' = Reschedule(Tail(ioq))
    /\ RunFrame
    /\ UNCHANGED <<kq, mEventWaiting, runVars, mainq, crash, postFailures>>

RunBegin ==
    /\ Takes("run")
    /\ ~mShuttingDown
    /\ mEventWaiting # 0
    /\ io' = "load"
    /\ ioq' = Tail(ioq)
    /\ RunFrame
    /\ UNCHANGED <<kq, mEventWaiting, loaded, mInotifyReadTimeout, mInotifyEventQueue,
                   runFailed, cutShort, mainq, crash, postFailures>>

InRun(pc) == Alive /\ io = pc /\ RunFrame

\* --mEventWaiting, which is not atomic with respect to the handler.
RunLoad ==
    /\ InRun("load")
    /\ io' = "store"
    /\ loaded' = mEventWaiting
    /\ UNCHANGED <<kq, mEventWaiting, mInotifyReadTimeout, mInotifyEventQueue,
                   runFailed, cutShort, mainq, ioq, crash, postFailures>>

RunStore ==
    /\ InRun("store")
    /\ io' = "read"
    /\ mEventWaiting' = loaded - 1
    /\ mInotifyReadTimeout' = ReadLimit
    /\ UNCHANGED <<kq, loaded, mInotifyEventQueue, runFailed, cutShort, mainq, ioq,
                   crash, postFailures>>

\* Mutant of StartProcessing: mInotifyReadTimeout is not reset.
StartProcessingWithoutReset ==
    /\ io' = "process"
    /\ UNCHANGED mInotifyReadTimeout

\* Whichever way the read loop ends, the process loop starts.
StartProcessing ==
    /\ io' = "process"
    /\ mInotifyReadTimeout' = ReadLimit

\* read finds nothing (EAGAIN).
ReadNothing ==
    /\ InRun("read")
    /\ kq = <<>>
    /\ StartProcessing
    /\ cutShort' = FALSE
    /\ UNCHANGED <<kq, mEventWaiting, loaded, mInotifyEventQueue, runFailed, mainq, ioq,
                   crash, postFailures>>

\* Mutant of ReadEvent: of the events in the buffer, the last is kept.
ReadEventLast ==
    /\ InRun("read")
    /\ mInotifyReadTimeout - 1 > 0
    /\ \E k \in 1..Len(kq) :
        /\ InotifyRead(k)
        /\ mInotifyEventQueue' = Append(mInotifyEventQueue, kq[k])
    /\ mInotifyReadTimeout' = mInotifyReadTimeout - 1
    /\ UNCHANGED <<io, mEventWaiting, loaded, runFailed, cutShort, mainq, ioq, crash,
                   postFailures>>

\* Of the events the buffer was filled with, the first is kept.
ReadEvent ==
    /\ InRun("read")
    /\ mInotifyReadTimeout - 1 > 0
    /\ \E k \in 1..Len(kq) : InotifyRead(k)
    /\ mInotifyEventQueue' = Append(mInotifyEventQueue, Head(kq))
    /\ mInotifyReadTimeout' = mInotifyReadTimeout - 1
    /\ UNCHANGED <<io, mEventWaiting, loaded, runFailed, cutShort, mainq, ioq, crash,
                   postFailures>>

\* --mInotifyReadTimeout > 0 fails after a read: what was read is dropped.
ReadCutShort ==
    /\ InRun("read")
    /\ mInotifyReadTimeout - 1 = 0
    /\ \E k \in 1..Len(kq) : InotifyRead(k)
    /\ StartProcessing
    /\ cutShort' = TRUE
    /\ UNCHANGED <<mEventWaiting, loaded, mInotifyEventQueue, runFailed, mainq, ioq,
                   crash, postFailures>>

\* The event at the head of mInotifyEventQueue.
Event == Head(mInotifyEventQueue)
EventPath == mWatchedResourcesByHandle[Event.wd]

InAllEvents == Event.kind \in {"entry", "self"}

\* mWatchedResourcesByHandle.Get gives a descriptor that is not freed.
DescriptorValid ==
    /\ Event.wd \in Wds
    /\ EventPath # NoPath
    /\ mWatchedResourcesByPath[EventPath] = Event.wd

ProcessLoop ==
    /\ InRun("process")
    /\ mInotifyEventQueue # <<>>
    /\ mInotifyReadTimeout - 1 > 0
    /\ UNCHANGED <<kq, mEventWaiting, loaded, cutShort>>

PopEvent ==
    /\ mInotifyEventQueue' = Tail(mInotifyEventQueue)
    /\ mInotifyReadTimeout' = mInotifyReadTimeout - 1
    /\ UNCHANGED <<io, runFailed, ioq>>

\* Not in IN_ALL_EVENTS (a lost watch, an overflow).
SkipUnmasked ==
    /\ ProcessLoop
    /\ ~InAllEvents
    /\ PopEvent
    /\ UNCHANGED <<mainq, crash, postFailures>>

\* MakeResourcePath through a null or freed descriptor.
StaleEvent ==
    /\ ProcessLoop
    /\ InAllEvents
    /\ ~DescriptorValid
    /\ crash' = "stale_event"
    /\ UNCHANGED <<io, mInotifyReadTimeout, mInotifyEventQueue, runFailed, mainq, ioq,
                   postFailures>>

\* MakeResourcePath fails, and nobody is told: it refuses the watched path, or
\* the name.  strncpy copies no byte of an event without a name, so that the
\* bytes of the new buffer are not initialised and may spell anything.
SkipRefused ==
    /\ ProcessLoop
    /\ InAllEvents
    /\ DescriptorValid
    /\ EventPath \in MayRefuse \/ Event.kind = "self"
    /\ PopEvent
    /\ UNCHANGED <<mainq, crash, postFailures>>

PostChange(cbs) ==
    mainq' = IF cbs = {} THEN mainq
             ELSE Append(mainq, [kind |-> "change", path |-> EventPath, cbs |-> cbs,
                                 name |-> IF Event.kind = "entry" THEN "entry" ELSE "unset"])

\* DispatchChangeCallbacks: a post for each callback of the path.
DispatchChange ==
    /\ ProcessLoop
    /\ InAllEvents
    /\ DescriptorValid
    /\ PostChange(mChangeCallbacksTable[EventPath])
    /\ PopEvent
    /\ UNCHANGED <<crash, postFailures>>

\* One of the posts fails: RunInternal returns with the event still queued,
\* and Run does not reschedule itself.
DispatchChangeFails ==
    /\ ProcessLoop
    /\ InAllEvents
    /\ DescriptorValid
    /\ PostFails
    /\ \E posted \in SUBSET mChangeCallbacksTable[EventPath] :
        /\ posted # mChangeCallbacksTable[EventPath]
        /\ PostChange(posted)
    /\ io' = "idle"
    /\ runFailed' = TRUE
    /\ UNCHANGED <<mInotifyReadTimeout, mInotifyEventQueue, ioq, crash>>

\* Mutant of RunEnd: the counter is cleared once the events are processed.
RunEndClearing ==
    /\ InRun("process")
    /\ mInotifyEventQueue # <<>> => mInotifyReadTimeout - 1 = 0
    /\ io' = "idle"
    /\ ioq' = Reschedule(ioq)
    /\ mEventWaiting' = 0
    /\ UNCHANGED <<kq, loaded, mInotifyReadTimeout, mInotifyEventQueue,
                   runFailed, cutShort, mainq, crash, postFailures>>

\* The end of RunInternal: both loops are done.
RunEnd ==
    /\ InRun("process")
    /\ mInotifyEventQueue # <<>> => mInotifyReadTimeout - 1 = 0
    /\ io' = "idle"
    /\ ioq' = Reschedule(ioq)
    /\ UNCHANGED <<kq, mEventWaiting, loaded, mInotifyReadTimeout, mInotifyEventQueue,
                   runFailed, cutShort, mainq, crash, postFailures>>

Run ==
    \/ RunInShutdown \/ RunNothing \/ RunBegin \/ RunLoad \/ RunStore
    \/ ReadNothing \/ ReadEvent \/ ReadCutShort
    \/ SkipUnmasked \/ StaleEvent \/ SkipRefused
    \/ DispatchChange \/ DispatchChangeFails \/ RunEnd

IOThread == Run \/ AddPathRunnable \/ RemovePathRunnable \/ DeactivateRunnable

(***************************************************************************)
(* The whole system.                                                       *)
(***************************************************************************)
MainThread ==
    \/ ServiceInit
    \/ \E p \in Paths, c \in Cbs, e \in Errs : AddPath(p, c, e)
    \/ \E p \in Paths, c \in Cbs, e \in Errs : RemovePath(p, c, e)
    \/ Uninit

watcherVars == <<signalVars, runVars, tableVars, mainVars, mainq, ioq, mShuttingDown,
                 crash, postFailures>>

FileSystem == Alive /\ FsNext /\ UNCHANGED watcherVars

Signals == \E t \in SignalThreads : SignalLoad(t) \/ SignalStore(t)

Next == MainThread \/ DeliverNext \/ Signals \/ IOThread \/ FileSystem

Spec == Init /\ [][Next]_vars

(***************************************************************************)
(* Fairness: the scheduler runs the IO thread and the main thread, the     *)
(* kernel delivers a pending signal and lets a handler finish.  Clients    *)
(* and the file system owe nothing.                                        *)
(***************************************************************************)
Fairness ==
    /\ WF_vars(IOThread)
    /\ WF_vars(DeliverNext)
    /\ WF_vars(\E t \in SignalThreads : SignalLoad(t))
    /\ \A t \in SignalThreads : WF_vars(SignalStore(t))

FairSpec == Spec /\ Fairness

(***************************************************************************)
(* The service this port provides: WatchService with                       *)
(*   registered  the table of the change callbacks,                        *)
(*   requests    the calls in the queue of the IO thread,                  *)
(*   posts       the queue of the main thread.                             *)
(***************************************************************************)
ServiceState ==
    IF mIOThread THEN "open" ELSE IF initialised = "ok" THEN "closed" ELSE "new"

CallsIn(q) == {q[n] : n \in 1..Len(q)} \cap Calls

RegisteredPairs == {x \in Paths \X Cbs : x[2] \in mChangeCallbacksTable[x[1]]}

Service == INSTANCE WatchService WITH
    service <- ServiceState,
    requests <- CallsIn(ioq),
    registered <- RegisteredPairs,
    posts <- mainq,
    alive <- Alive

(***************************************************************************)
(* Properties.                                                             *)
(***************************************************************************)
ServiceTypeOK ==
    /\ initialised \in {"no", "ok", "failed"}
    /\ mIOThread \in BOOLEAN
    /\ calls \in 0..MaxCalls
    /\ lastCall \in [Pairs -> 0..MaxCalls]
    /\ quiet \in SUBSET Pairs

SignalTypeOK ==
    /\ mEventWaiting \in Nat
    /\ handler \in [SignalThreads -> Nat \cup {NotHandling}]

RunTypeOK ==
    /\ io \in {"idle", "load", "store", "read", "process"}
    /\ loaded \in Nat
    /\ mInotifyReadTimeout \in 1..ReadLimit
    /\ mInotifyEventQueue \in Seq(KernelEvents)
    /\ runFailed \in BOOLEAN
    /\ cutShort \in BOOLEAN

TableTypeOK ==
    /\ mWatchedResourcesByPath \in [Paths -> Wds \cup {NoWd}]
    /\ mWatchedResourcesByHandle \in [Wds -> Paths \cup {NoPath}]
    /\ mChangeCallbacksTable \in [Paths -> SUBSET Cbs]
    /\ mErrorCallbacksTable \in [Paths -> SUBSET Errs]

QueueTypeOK ==
    /\ ioq \in Seq(Tasks)
    /\ mainq \in Seq(Posts)
    /\ postFailures \in 0..MaxPostFailures
    /\ mShuttingDown \in BOOLEAN
    /\ crash \in {"none", "unregistered", "stale_event", "deactivated"}

\* Every variable of the kernel, of the service, of the IO thread and of the
\* two queues between the threads keeps its type.
TypeOK ==
    /\ KernelTypeOK
    /\ ServiceTypeOK
    /\ SignalTypeOK
    /\ RunTypeOK
    /\ TableTypeOK
    /\ QueueTypeOK

\* Something is going to make Run read the inotify descriptor.
WakeupComing ==
    \/ sigPending
    \/ \E t \in SignalThreads : handler[t] # NotHandling
    \/ mEventWaiting > 0
    \/ io \in {"load", "store", "read"}

\* The racy ++ and -- of mEventWaiting never leave events in the kernel that
\* nothing will read, unless the last read loop gave up at its limit.
NoLostWakeup == kq # <<>> => WakeupComing \/ cutShort

\* Run is in the IO thread's queue exactly once while it does not execute, as
\* long as the watcher is up and no dispatch failed; never twice.
RunScheduledOnce ==
    LET queued == Cardinality({n \in 1..Len(ioq) : ioq[n] = RunTask})
        needed == initialised = "ok" /\ ~mShuttingDown /\ ~runFailed
    IN  /\ queued <= 1
        /\ io # "idle" => queued = 0
        /\ needed /\ io = "idle" => queued = 1

\* The process loop empties mInotifyEventQueue before Run is rescheduled: its
\* limit is never what ends it, since the read loop has the same limit.
NothingLeftBehind == io = "idle" /\ ~runFailed => mInotifyEventQueue = <<>>

\* A descriptor that was freed is reachable by handle only if its watch is gone:
\* what the second index kept of it can meet events queued before the removal,
\* and never a new one.
FreedIsUnwatched ==
    \A w \in Wds :
        /\ mWatchedResourcesByHandle[w] # NoPath
        /\ mWatchedResourcesByPath[mWatchedResourcesByHandle[w]] # w
        => w \notin LiveWds

\* Every watch the kernel reports on can be looked up, so only events of a
\* watch that is gone can meet no descriptor.
LiveWatchesIndexed == \A w \in LiveWds : mWatchedResourcesByHandle[w] # NoPath

\* A path without change callbacks is not watched by the kernel any more.
EmptyEntryIsDead ==
    \A p \in Paths :
        /\ mWatchedResourcesByPath[p] # NoWd
        /\ mChangeCallbacksTable[p] = {}
        => mWatchedResourcesByPath[p] \notin LiveWds

\* Once the success callback of a removal has run, and the callback was not
\* added again, no change of the path is under way to it, and none will be.
QuietAfterRemoval ==
    \A x \in quiet :
        /\ x[2] \notin mChangeCallbacksTable[x[1]]
        /\ \A n \in 1..Len(mainq) :
            mainq[n].kind = "change" /\ mainq[n].path = x[1] => x[2] \notin mainq[n].cbs

\* Every call the service took was executed before the watcher shut down, so
\* that no runnable ever finds mShuttingDown set, and nothing is registered or
\* watched from then on.
ShutdownIsClean ==
    mShuttingDown =>
        /\ \A n \in 1..Len(ioq) : ioq[n].op \notin {"add", "remove"}
        /\ \A p \in Paths : mChangeCallbacksTable[p] = {} /\ mErrorCallbacksTable[p] = {}
        /\ LiveWds = {}

\* This port implements the service: its calls take effect in their order, an
\* unwatched path has no callback to be told, what is posted goes to callbacks
\* that are registered, and nothing comes after the shutdown.
ImplementsService == Service!Spec

\* Run reposts itself for ever, and yet every call gets its turn.
CallsServed ==
    \A id \in CallIds :
        (\E n \in 1..Len(ioq) : ioq[n] \in Calls /\ ioq[n].id = id)
        ~> (~Alive \/ \A n \in 1..Len(ioq) : ioq[n] \in Calls => ioq[n].id # id)

\* The kernel's queue is emptied again and again, unless Run is dead or cut short.
EventsRead == kq # <<>> ~> (kq = <<>> \/ ~Alive \/ runFailed \/ cutShort)

\* e is a change of an entry of p, to which c is registered.
ChangeOf(e, p, c) ==
    /\ e.kind = "entry"
    /\ mWatchedResourcesByHandle[e.wd] = p
    /\ c \in mChangeCallbacksTable[p]

ChangePosted(p, c) ==
    \E n \in 1..Len(mainq) :
        mainq[n].kind = "change" /\ mainq[n].path = p /\ c \in mainq[n].cbs

\* A change of p that is the oldest event in the kernel's queue, and so the first
\* of its read, is posted to each callback p has when it is processed.  Those
\* behind it in the same read are lost: see EveryChangeReaches in LinuxClaims.
FirstChangeReaches ==
    \A p \in Paths \ MayRefuse, c \in Cbs :
        (kq # <<>> /\ ChangeOf(Head(kq), p, c))
        ~> (ChangePosted(p, c) \/ c \notin mChangeCallbacksTable[p]
            \/ ~Alive \/ runFailed \/ cutShort)
=============================================================================
