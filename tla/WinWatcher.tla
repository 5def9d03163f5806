----------------------------- MODULE WinWatcher -----------------------------
(***************************************************************************)
(* The native file watcher of NativeFileWatcherWin.cpp.                    *)
(*                                                                         *)
(* The main thread calls the service and runs the callbacks posted to it.  *)
(* The "FileWatcher IO" thread executes a FIFO of runnables.  One of them, *)
(* Run, blocks in GetQueuedCompletionStatus until the completion port has  *)
(* a packet, handles that packet and reposts itself; so each call must     *)
(* also post a packet, which it does after it queued its runnable.         *)
(*                                                                         *)
(* The tables belong to the IO thread, and a change of a directory during  *)
(* one of its runnables is recorded by the handle until the next read, so  *)
(* a runnable is one action, and Run is two: the call that blocks, and     *)
(* what it does with the packet.                                           *)
(***************************************************************************)
EXTENDS CompletionPort

CONSTANTS
    Cbs,             \* change callbacks
    Errs,            \* error callbacks; a missing one is a member like others
    InvalidHandle,   \* INVALID_HANDLE_VALUE, left by dispose
    MaxPostFailures, \* bound: failures of NS_DispatchToMainThread
    MaxCalls         \* bound: calls of AddPath and RemovePath

ASSUME WatcherAssumption ==
    /\ InvalidHandle \notin Handles \cup {NoHandle}
    /\ MaxPostFailures \in Nat
    /\ MaxCalls \in Nat

VARIABLES
    \* The service, on the main thread.
    initialised,     \* whether Init has run: "no", "ok" or "failed"
    mIOThread,       \* whether mIOThread is set
    calls,           \* calls dispatched so far
    waking,          \* the main thread has dispatched and not yet posted its packet
    mainq,           \* runnables posted to the main thread
    thread,          \* the IO thread: "running", "shutdown" (asked to end), "ended"
    \* The IO thread.
    ioq,             \* its queue of runnables
    waiting,         \* Run is in GetQueuedCompletionStatus
    mWatchedResourcesByPath,    \* path -> the handle its entry holds, or NoHandle
    mWatchedResourcesByHandle,  \* handle -> path of the entry stored there, or NoPath
    mChangeCallbacksTable,
    mErrorCallbacksTable,
    mShuttingDown,
    crash,           \* why the process died: "none" while it lives
    postFailures,    \* failures of NS_DispatchToMainThread so far
    \* History, read by properties only.
    stopped,         \* Run returned a failure and was not rescheduled
    silenced,        \* handles left without a read by an overflow or a failed read
    overwritten      \* handle -> the paths whose entry an entry of another path
                     \* replaced in mWatchedResourcesByHandle

tableVars == <<mWatchedResourcesByPath, mWatchedResourcesByHandle,
               overwritten, mChangeCallbacksTable, mErrorCallbacksTable>>
mainVars == <<initialised, mIOThread, calls, waking, thread>>
runVars == <<waiting, stopped, silenced>>
vars == <<portVars, tableVars, mainVars, runVars, mainq, ioq, mShuttingDown,
          crash, postFailures>>

Calls == [op : {"add", "remove"}, id : 1..MaxCalls, path : Paths, cb : Cbs, err : Errs]
RunTask == [op |-> "run"]
DeactivateTask == [op |-> "deactivate"]
Tasks == Calls \cup {RunTask, DeactivateTask}

\* A "change" or an "error" stands for the events of one packet or one failure:
\* the callbacks that still have to run.
Changes == [kind : {"change"}, path : Paths, cbs : (SUBSET Cbs) \ {{}}]
Errors == [kind : {"error"}, path : Paths, cbs : (SUBSET Errs) \ {{}}]
Successes == [kind : {"success"}, call : Calls]
ShutdownTask == [kind |-> "shutdown"]
Posts == Changes \cup Errors \cup Successes \cup {ShutdownTask}

Alive == crash = "none"

Init ==
    /\ PortInit
    /\ initialised = "no"
    /\ mIOThread = FALSE
    /\ calls = 0
    /\ waking = FALSE
    /\ mainq = <<>>
    /\ thread = "running"
    /\ ioq = <<>>
    /\ waiting = FALSE
    /\ mWatchedResourcesByPath = [p \in Paths |-> NoHandle]
    /\ mWatchedResourcesByHandle = [h \in Handles |-> NoPath]
    /\ mChangeCallbacksTable = [p \in Paths |-> {}]
    /\ mErrorCallbacksTable = [p \in Paths |-> {}]
    /\ mShuttingDown = FALSE
    /\ crash = "none"
    /\ postFailures = 0
    /\ stopped = FALSE
    /\ silenced = {}
    /\ overwritten = [h \in Handles |-> {}]

(***************************************************************************)
(* The service on the main thread.                                         *)
(***************************************************************************)
MainThreadFree == Alive /\ ~waking

\* Init: the port, the observer or the thread may fail to be created.
ServiceInit ==
    /\ initialised = "no"
    /\ \/ /\ initialised' = "ok"
          /\ mIOThread' = TRUE
          /\ ioq' = <<RunTask>>
       \/ /\ initialised' = "failed"
          /\ UNCHANGED <<mIOThread, ioq>>
    /\ UNCHANGED <<portVars, tableVars, runVars, calls, waking, thread, mainq,
                   mShuttingDown, crash, postFailures>>

Dispatch(task) ==
    /\ MainThreadFree
    /\ mIOThread
    /\ ioq' = Append(ioq, task)
    /\ waking' = TRUE
    /\ UNCHANGED <<portVars, tableVars, runVars, initialised, thread, mainq,
                   mShuttingDown, crash, postFailures>>

DispatchCall(op, p, c, e) ==
    /\ calls < MaxCalls
    /\ calls' = calls + 1
    /\ Dispatch([op |-> op, id |-> calls + 1, path |-> p, cb |-> c, err |-> e])
    /\ UNCHANGED mIOThread

AddPath(p, c, e) == DispatchCall("add", p, c, e)
RemovePath(p, c, e) == DispatchCall("remove", p, c, e)

\* Mutant of Uninit: mIOThread is not swapped out.
UninitKeepingThread ==
    /\ Dispatch(DeactivateTask)
    /\ UNCHANGED <<calls, mIOThread>>

\* "xpcom-shutdown-threads": no call can follow, as mIOThread is swapped out.
Uninit ==
    /\ Dispatch(DeactivateTask)
    /\ mIOThread' = FALSE
    /\ UNCHANGED calls

\* Mutant of WakeUpWorkerThread: no packet is posted.
WakeUpNot ==
    /\ Alive
    /\ waking
    /\ waking' = FALSE
    /\ UNCHANGED <<portVars, tableVars, runVars, initialised, mIOThread, calls, thread,
                   mainq, ioq, mShuttingDown, crash, postFailures>>

WakeUpWorkerThread ==
    /\ Alive
    /\ waking
    /\ waking' = FALSE
    /\ PostPacket
    /\ UNCHANGED <<dirs, fsOps, tableVars, runVars, initialised, mIOThread, calls, thread,
                   mainq, ioq, mShuttingDown, crash, postFailures>>

Delivered(q) ==
    /\ MainThreadFree
    /\ mainq' = q
    /\ UNCHANGED <<portVars, tableVars, runVars, initialised, mIOThread, calls, waking,
                   ioq, mShuttingDown, crash, postFailures>>

\* One callback of the oldest change or error.
DeliverCallback(c) ==
    /\ mainq # <<>>
    /\ Head(mainq).kind \in {"change", "error"}
    /\ c \in Head(mainq).cbs
    /\ Delivered(IF Head(mainq).cbs = {c} THEN Tail(mainq)
                 ELSE [mainq EXCEPT ![1].cbs = @ \ {c}])
    /\ UNCHANGED thread

DeliverSuccess ==
    /\ mainq # <<>>
    /\ Head(mainq).kind = "success"
    /\ Delivered(Tail(mainq))
    /\ UNCHANGED thread

\* NativeWatcherIOShutdownTask: nsIThread::Shutdown, which returns when the
\* thread has emptied its queue.
DeliverShutdown ==
    /\ mainq # <<>>
    /\ Head(mainq).kind = "shutdown"
    /\ Delivered(Tail(mainq))
    /\ thread' = "shutdown"

DeliverNext ==
    (\E c \in Cbs \cup Errs : DeliverCallback(c)) \/ DeliverSuccess \/ DeliverShutdown

(***************************************************************************)
(* Posts of the IO thread.                                                 *)
(***************************************************************************)
Posted(q, kind, p, cbs) ==
    IF cbs = {} THEN q ELSE Append(q, [kind |-> kind, path |-> p, cbs |-> cbs])

PostFails ==
    /\ postFailures < MaxPostFailures
    /\ postFailures' = postFailures + 1

\* DispatchChangeCallbacks and DispatchErrorCallbacks post for one callback
\* after the other, until a dispatch fails.
DispatchesTo(q, kind, p, cbs) ==
    /\ mainq' = Posted(q, kind, p, cbs)
    /\ UNCHANGED postFailures

DispatchFails(q, kind, p, cbs) ==
    /\ PostFails
    /\ \E some \in SUBSET cbs : some # cbs /\ mainq' = Posted(q, kind, p, some)

\* ReportSuccess and ReportError of a runnable: a failure is its return value,
\* which nobody reads.
Report(post) ==
    \/ mainq' = Append(mainq, post) /\ UNCHANGED postFailures
    \/ PostFails /\ UNCHANGED mainq

Success(r) == [kind |-> "success", call |-> r]
Failure(r) == [kind |-> "error", path |-> r.path, cbs |-> {r.err}]

(***************************************************************************)
(* The runnables of the IO thread.                                         *)
(***************************************************************************)
Takes(op) ==
    /\ Alive
    /\ thread # "ended"
    /\ ~waiting
    /\ ioq # <<>>
    /\ Head(ioq).op = op

Current == Head(ioq)
Entry == mWatchedResourcesByPath[Current.path]

CallFrame == UNCHANGED <<mainVars, waiting, stopped, mShuttingDown, dirs, fsOps>>
KernelFrame == UNCHANGED <<handleVars, portOpen, port>>
IndexFrame == UNCHANGED <<mWatchedResourcesByPath, mWatchedResourcesByHandle, overwritten>>
Ends == ioq' = Tail(ioq) /\ CallFrame

\* Mutant of AppendCallbacks: the change callback goes to both tables.
AppendCallbacksMixedUp(p, c, e) ==
    /\ mChangeCallbacksTable' = [mChangeCallbacksTable EXCEPT ![p] = @ \cup {c}]
    /\ mErrorCallbacksTable' = [mErrorCallbacksTable EXCEPT ![p] = @ \cup {c}]

\* AppendCallbacksToHashtables: the arrays hold each callback once.
AppendCallbacks(p, c, e) ==
    /\ mChangeCallbacksTable' = [mChangeCallbacksTable EXCEPT ![p] = @ \cup {c}]
    /\ mErrorCallbacksTable' = [mErrorCallbacksTable EXCEPT ![p] = @ \cup {e}]

\* RemoveCallbacksFromHashtables, and RemoveElement on both arrays.
RemoveCallbacks(p, c, e) ==
    /\ mChangeCallbacksTable' = [mChangeCallbacksTable EXCEPT ![p] = @ \ {c}]
    /\ mErrorCallbacksTable' = [mErrorCallbacksTable EXCEPT ![p] = @ \ {e}]

(***************************************************************************)
(* AddPathRunnableMethod.                                                  *)
(***************************************************************************)
\* The test of mShuttingDown never fails: see ShutdownIsClean.
Adds == Takes("add") /\ ~mShuttingDown /\ UNCHANGED crash

\* The path has an entry, be it one that is being removed: its callbacks are
\* added, and nobody is told.
AddKnown ==
    /\ Adds
    /\ Entry # NoHandle
    /\ AppendCallbacks(Current.path, Current.cb, Current.err)
    /\ Ends
    /\ KernelFrame /\ IndexFrame
    /\ UNCHANGED <<mainq, postFailures, silenced>>

\* CreateFileW or CreateIoCompletionPort fails.
AddRefused ==
    /\ Adds
    /\ Entry = NoHandle
    /\ CreateFileFails(Current.path)
    /\ Report(Failure(Current))
    /\ Ends
    /\ KernelFrame
    /\ UNCHANGED <<tableVars, silenced>>

\* ReadDirectoryChangesW fails: every error callback of the path hears of it,
\* the call's callbacks are taken out again and the handle is closed.
AddUnreadable ==
    /\ Adds
    /\ Entry = NoHandle
    /\ \E h \in Handles : OpenAndReadFails(Current.path, h)
    /\ LET errs == mErrorCallbacksTable[Current.path] \cup {Current.err}
       IN  \/ DispatchesTo(mainq, "error", Current.path, errs)
           \/ DispatchFails(mainq, "error", Current.path, errs)
    /\ RemoveCallbacks(Current.path, Current.cb, Current.err)
    /\ Ends
    /\ IndexFrame
    /\ UNCHANGED silenced

\* Put replaces an entry that a former use of the handle's value left.
Enter(p, h) ==
    /\ mWatchedResourcesByPath' = [mWatchedResourcesByPath EXCEPT ![p] = h]
    /\ mWatchedResourcesByHandle' = [mWatchedResourcesByHandle EXCEPT ![h] = p]
    /\ overwritten' = [overwritten EXCEPT ![h] = @ \cup ({mWatchedResourcesByHandle[h]} \ {NoPath})]

AddWatched ==
    /\ Adds
    /\ Entry = NoHandle
    /\ \E h \in Handles :
        /\ OpenAndRead(Current.path, h)
        /\ Enter(Current.path, h)
        /\ silenced' = silenced \ {h}
    /\ AppendCallbacks(Current.path, Current.cb, Current.err)
    /\ Report(Success(Current))
    /\ Ends

AddPathRunnable == AddKnown \/ AddRefused \/ AddUnreadable \/ AddWatched

(***************************************************************************)
(* RemovePathRunnableMethod.                                               *)
(***************************************************************************)
Removes == Takes("remove") /\ ~mShuttingDown /\ Ends /\ UNCHANGED silenced

Registered(r) ==
    /\ r.cb \in mChangeCallbacksTable[r.path]
    /\ r.err \in mErrorCallbacksTable[r.path]

\* Mutant of LastCallback: the length is taken before the removal.
LastCallbackTooEarly(r) == mChangeCallbacksTable[r.path] = {}

LastCallback(r) == mChangeCallbacksTable[r.path] = {r.cb}

RemoveUnwatched ==
    /\ Removes
    /\ Entry = NoHandle
    /\ Report(Success(Current))
    /\ KernelFrame
    /\ UNCHANGED <<tableVars, crash>>

\* MOZ_CRASH when either callback is not in its array.
RemoveUnregistered ==
    /\ Removes
    /\ Entry # NoHandle
    /\ ~Registered(Current)
    /\ crash' = "unregistered"
    /\ KernelFrame
    /\ UNCHANGED <<tableVars, mainq, postFailures>>

RemoveOne ==
    /\ Removes
    /\ Entry # NoHandle
    /\ Registered(Current)
    /\ ~LastCallback(Current)
    /\ RemoveCallbacks(Current.path, Current.cb, Current.err)
    /\ Report(Success(Current))
    /\ KernelFrame /\ IndexFrame
    /\ UNCHANGED crash

\* Mutant of Dispose: the entry is freed with its handle.
DisposeAndFree(p) ==
    /\ mWatchedResourcesByPath' = [mWatchedResourcesByPath EXCEPT ![p] = NoHandle]
    /\ mWatchedResourcesByHandle' =
         [h \in Handles |-> IF mWatchedResourcesByHandle[h] = p THEN NoPath
                            ELSE mWatchedResourcesByHandle[h]]
    /\ UNCHANGED overwritten

\* Both indexes keep the entry: the buffer may be in use.
Dispose(p) ==
    /\ mWatchedResourcesByPath' = [mWatchedResourcesByPath EXCEPT ![p] = InvalidHandle]
    /\ UNCHANGED <<mWatchedResourcesByHandle, overwritten>>

\* The handle is closed, unless an earlier removal did that.
RemoveLast ==
    /\ Removes
    /\ Entry # NoHandle
    /\ Registered(Current)
    /\ LastCallback(Current)
    /\ \/ Entry \in Handles /\ CloseHandle(Entry, port)
       \/ Entry = InvalidHandle /\ KernelFrame
    /\ Dispose(Current.path)
    /\ RemoveCallbacks(Current.path, Current.cb, Current.err)
    /\ Report(Success(Current))
    /\ UNCHANGED crash

RemovePathRunnable == RemoveUnwatched \/ RemoveUnregistered \/ RemoveOne \/ RemoveLast

(***************************************************************************)
(* DeactivateRunnableMethod.                                               *)
(***************************************************************************)
\* Mutant of CloseEverything: only the port is closed.
CloseOnlyPort == ClosePort({})

\* Clearing mWatchedResourcesByPath frees the entries, and with each its handle.
CloseEverything == ClosePort({mWatchedResourcesByPath[p] : p \in Paths} \cap Handles)

\* Mutant of ScheduleShutdown: the thread is not shut down.
ScheduleShutdownNot == UNCHANGED <<mainq, postFailures>>

ScheduleShutdown == Report(ShutdownTask)

DeactivateRunnable ==
    /\ Takes("deactivate")
    /\ ~mShuttingDown
    /\ mShuttingDown' = TRUE
    /\ mWatchedResourcesByHandle' = [h \in Handles |-> NoPath]
    /\ mWatchedResourcesByPath' = [p \in Paths |-> NoHandle]
    /\ mChangeCallbacksTable' = [p \in Paths |-> {}]
    /\ mErrorCallbacksTable' = [p \in Paths |-> {}]
    /\ CloseEverything
    /\ ScheduleShutdown
    /\ ioq' = Tail(ioq)
    /\ UNCHANGED <<mainVars, runVars, dirs, fsOps, crash, overwritten>>

(***************************************************************************)
(* Run and RunInternal.                                                    *)
(***************************************************************************)
RunFrame == UNCHANGED <<mainVars, mShuttingDown, dirs, fsOps>>

RunInShutdown ==
    /\ Takes("run")
    /\ mShuttingDown
    /\ ioq' = Tail(ioq)
    /\ RunFrame /\ KernelFrame
    /\ UNCHANGED <<tableVars, runVars, mainq, crash, postFailures>>

\* GetQueuedCompletionStatus is called.
RunWaits ==
    /\ Takes("run")
    /\ ~mShuttingDown
    /\ ioq' = Tail(ioq)
    /\ waiting' = TRUE
    /\ RunFrame /\ KernelFrame
    /\ UNCHANGED <<tableVars, stopped, silenced, mainq, crash, postFailures>>

\* It returns with the oldest packet.
Received == Head(port)
Rest == Tail(port)
Resource == mWatchedResourcesByHandle[Received.key]

Returns(statuses) ==
    /\ Alive
    /\ waiting
    /\ port # <<>>
    /\ Received.status \in statuses
    /\ waiting' = FALSE
    /\ RunFrame

\* Mutant of Reschedule: Run goes in front of the calls.
RescheduleFirst ==
    /\ ioq' = <<RunTask>> \o ioq
    /\ UNCHANGED <<stopped, crash>>

\* RunInternal returns NS_OK: Run goes behind what is queued by now.
Reschedule ==
    /\ ioq' = Append(ioq, RunTask)
    /\ UNCHANGED <<stopped, crash>>

\* It returns a failure: Run is not scheduled again.
Stop ==
    /\ stopped' = TRUE
    /\ UNCHANGED <<ioq, crash>>

PacketTaken == port' = Rest /\ UNCHANGED <<handleVars, portOpen>>

\* No bytes: a wake-up, or an overflow reported as success.
NoBytes ==
    /\ Returns({"empty"})
    /\ PacketTaken
    /\ silenced' = silenced \cup ({Received.key} \cap Handles)
    /\ Reschedule
    /\ UNCHANGED <<tableVars, mainq, postFailures>>

\* ERROR_NOTIFY_ENUM_DIR: "*" goes to the callbacks, and nothing is read again.
Overflowed ==
    /\ Returns({"enum_dir"})
    /\ Resource # NoPath
    /\ PacketTaken
    /\ silenced' = silenced \cup {Received.key}
    /\ LET cbs == mChangeCallbacksTable[Resource]
       IN  \/ DispatchesTo(mainq, "change", Resource, cbs) /\ Reschedule
           \/ DispatchFails(mainq, "change", Resource, cbs) /\ Stop
    /\ UNCHANGED tableVars

\* Mutant of FreeResource: the first index keeps the entry.
FreeByHandle(h, p) ==
    /\ mWatchedResourcesByHandle' = [mWatchedResourcesByHandle EXCEPT ![h] = NoPath]
    /\ UNCHANGED <<mWatchedResourcesByPath, overwritten>>

FreeResource(h, p) ==
    /\ mWatchedResourcesByHandle' = [mWatchedResourcesByHandle EXCEPT ![h] = NoPath]
    /\ mWatchedResourcesByPath' = [mWatchedResourcesByPath EXCEPT ![p] = NoHandle]
    /\ UNCHANGED overwritten

\* ERROR_OPERATION_ABORTED: the entry that the handle leads to is freed, and
\* with it the handle that entry holds, if it is open.
Aborted ==
    /\ Returns({"aborted"})
    /\ \/ /\ Resource = NoPath
          /\ PacketTaken /\ IndexFrame
       \/ /\ Resource # NoPath
          /\ FreeResource(Received.key, Resource)
          /\ LET h == mWatchedResourcesByPath[Resource]
             IN  \/ h \in Handles /\ CloseHandle(h, Rest)
                 \/ h = InvalidHandle /\ PacketTaken
    /\ Reschedule
    /\ UNCHANGED <<mChangeCallbacksTable, mErrorCallbacksTable, silenced, mainq, postFailures>>

\* Any other error, such as a directory that was deleted.
UnknownError ==
    /\ Returns({"failed"})
    /\ PacketTaken
    /\ Stop
    /\ UNCHANGED <<tableVars, silenced, mainq, postFailures>>

\* The handle leads to no entry, and the null pointer is dereferenced.
UnknownResource ==
    /\ Returns({"changes", "enum_dir"})
    /\ Resource = NoPath
    /\ PacketTaken
    /\ crash' = "unknown_resource"
    /\ UNCHANGED <<tableVars, stopped, silenced, mainq, ioq, postFailures>>

Changed == Returns({"changes"}) /\ Resource # NoPath /\ UNCHANGED tableVars

Notified == mChangeCallbacksTable[Resource]

\* A post to one of the callbacks fails: the directory is not read again.
ChangeUndelivered ==
    /\ Changed
    /\ DispatchFails(mainq, "change", Resource, Notified)
    /\ PacketTaken
    /\ Stop
    /\ UNCHANGED silenced


\* The posts of the packet's names; MakeResourcePath may refuse all of them.
ChangesPosted ==
    {Posted(mainq, "change", Resource, Notified)}
      \cup (IF "name" \in MayFail THEN {mainq} ELSE {})

\* Mutant of ReadAgain: the directory is not read again.
ReadAgainNot ==
    /\ PacketTaken
    /\ mainq' \in ChangesPosted
    /\ UNCHANGED <<postFailures, silenced>>

\* AddDirectoryToWatchList succeeds, or every error callback hears of it.
ReadAgain ==
    \/ /\ Read(mWatchedResourcesByPath[Resource], Rest)
       /\ mainq' \in ChangesPosted
       /\ UNCHANGED <<postFailures, silenced>>
    \/ /\ ReadFails(mWatchedResourcesByPath[Resource], Rest)
       /\ silenced' = silenced \cup {Received.key}
       /\ \E q \in ChangesPosted :
            DispatchesTo(q, "error", Resource, mErrorCallbacksTable[Resource])

ChangeDispatched == Changed /\ ReadAgain /\ Reschedule

\* The read fails, and so does the post of the error: NS_ERROR_ABORT.
ErrorUndelivered ==
    /\ Changed
    /\ ReadFails(mWatchedResourcesByPath[Resource], Rest)
    /\ silenced' = silenced \cup {Received.key}
    /\ \E q \in ChangesPosted :
         DispatchFails(q, "error", Resource, mErrorCallbacksTable[Resource])
    /\ Stop

Run ==
    \/ RunInShutdown \/ RunWaits \/ NoBytes \/ Overflowed \/ Aborted \/ UnknownError
    \/ UnknownResource \/ ChangeUndelivered \/ ChangeDispatched \/ ErrorUndelivered

IOThread == Run \/ AddPathRunnable \/ RemovePathRunnable \/ DeactivateRunnable

\* nsIThread::Shutdown was called, and the queue is empty.
ThreadEnds ==
    /\ Alive
    /\ thread = "shutdown"
    /\ ~waiting
    /\ ioq = <<>>
    /\ thread' = "ended"
    /\ UNCHANGED <<portVars, tableVars, runVars, initialised, mIOThread, calls, waking,
                   mainq, ioq, mShuttingDown, crash, postFailures>>

(***************************************************************************)
(* The whole system.                                                       *)
(***************************************************************************)
MainThread ==
    \/ ServiceInit
    \/ \E p \in Paths, c \in Cbs, e \in Errs : AddPath(p, c, e) \/ RemovePath(p, c, e)
    \/ Uninit
    \/ WakeUpWorkerThread

FileSystem ==
    /\ Alive
    /\ FsNext
    /\ UNCHANGED <<tableVars, mainVars, runVars, mainq, ioq, mShuttingDown, crash,
                   postFailures>>

Next == MainThread \/ DeliverNext \/ IOThread \/ ThreadEnds \/ FileSystem

Spec == Init /\ [][Next]_vars

(***************************************************************************)
(* Fairness: the scheduler runs the IO thread, and the main thread goes on *)
(* with what it is doing and runs what is posted to it.  Clients and the   *)
(* file system owe nothing.                                                *)
(***************************************************************************)
Fairness ==
    /\ WF_vars(IOThread)
    /\ WF_vars(ThreadEnds)
    /\ WF_vars(WakeUpWorkerThread)
    /\ WF_vars(DeliverNext)

FairSpec == Spec /\ Fairness

(***************************************************************************)
(* Properties.                                                             *)
(***************************************************************************)
ServiceTypeOK ==
    /\ initialised \in {"no", "ok", "failed"}
    /\ mIOThread \in BOOLEAN
    /\ calls \in 0..MaxCalls
    /\ waking \in BOOLEAN
    /\ thread \in {"running", "shutdown", "ended"}

TableTypeOK ==
    /\ mWatchedResourcesByPath \in [Paths -> Handles \cup {NoHandle, InvalidHandle}]
    /\ mWatchedResourcesByHandle \in [Handles -> Paths \cup {NoPath}]
    /\ mChangeCallbacksTable \in [Paths -> SUBSET Cbs]
    /\ mErrorCallbacksTable \in [Paths -> SUBSET Errs]
    /\ overwritten \in [Handles -> SUBSET Paths]

QueueTypeOK ==
    /\ ioq \in Seq(Tasks)
    /\ mainq \in Seq(Posts)
    /\ postFailures \in 0..MaxPostFailures
    /\ waiting \in BOOLEAN
    /\ mShuttingDown \in BOOLEAN
    /\ crash \in {"none", "unregistered", "unknown_resource"}
    /\ stopped \in BOOLEAN
    /\ silenced \in SUBSET Handles

\* Every variable of the system, of the service and of the IO thread keeps its
\* type.
TypeOK == PortTypeOK /\ ServiceTypeOK /\ TableTypeOK /\ QueueTypeOK

Packeted(h) == \E n \in 1..Len(port) : port[n].key = h

\* GetQueuedCompletionStatus has no timeout, so while Run is in it and a call
\* is queued behind it, a wake-up packet is queued or the main thread is about
\* to post it: whichever way the packets and the calls interleave, no call has
\* its packet taken by an earlier pass of Run.
NoCallStuck ==
    waiting /\ ioq # <<>> =>
        waking \/ \E n \in 1..Len(port) : port[n] = WakeUpPacket

\* The indexes agree whatever handle values the system gives out again: the entry
\* a handle leads to holds that handle until it is disposed of, no two handles
\* lead to one entry, and the handle an entry holds leads back to it.  A disposed
\* entry stays in the second index, for the packet that frees it, unless an entry
\* with the same handle value replaced it there.
IndexesAgree ==
    /\ \A h \in Handles : mWatchedResourcesByHandle[h] # NoPath =>
         /\ mWatchedResourcesByPath[mWatchedResourcesByHandle[h]] \in {h, InvalidHandle}
         /\ \A g \in Handles :
              mWatchedResourcesByHandle[g] = mWatchedResourcesByHandle[h] => g = h
    /\ \A p \in Paths : mWatchedResourcesByPath[p] # NoHandle =>
         \/ /\ mWatchedResourcesByPath[p] \in Handles
            /\ mWatchedResourcesByHandle[mWatchedResourcesByPath[p]] = p
         \/ /\ mWatchedResourcesByPath[p] = InvalidHandle
            /\ \E h \in Handles : mWatchedResourcesByHandle[h] = p \/ p \in overwritten[h]

\* The kernel never writes to the buffer of a freed entry: that is what the
\* removal in two steps is for.  Nor does the port report on one, unless the
\* value of the handle was given out again before that removal was over: then the
\* aborted packet of the former use frees the entry of the present one.
BuffersOutliveReads ==
    /\ \A h \in reading : mWatchedResourcesByHandle[h] # NoPath
    /\ \A n \in 1..Len(port) : port[n] # WakeUpPacket =>
         \/ mWatchedResourcesByHandle[port[n].key] # NoPath
         \/ overwritten[port[n].key] # {}

\* Every open handle is held by an entry, so that it can still be closed.
NoHandleLeaked ==
    \A h \in Handles : openOn[h] # NoPath => mWatchedResourcesByPath[openOn[h]] = h

\* A watch whose last change callback was removed is not open any more: an
\* entry without change callbacks is disposed of.
EmptyEntryIsDisposed ==
    \A p \in Paths :
        mWatchedResourcesByPath[p] # NoHandle /\ mChangeCallbacksTable[p] = {} =>
            mWatchedResourcesByPath[p] = InvalidHandle

\* The directory of an open watch is being read, or a packet of it is on its
\* way to Run, which reads again; unless an overflow or a failing read ended
\* that, or Run is not there any more.
OpenWatchIsRead ==
    \A h \in Handles :
        openOn[h] # NoPath => h \in reading \/ Packeted(h) \/ h \in silenced \/ stopped

\* Every call the service took was executed before the watcher shut down, and
\* nothing is open or registered from then on.
ShutdownIsClean ==
    mShuttingDown =>
        /\ \A n \in 1..Len(ioq) : ioq[n].op = "run"
        /\ \A p \in Paths : mChangeCallbacksTable[p] = {} /\ mErrorCallbacksTable[p] = {}
        /\ \A h \in Handles : openOn[h] = NoPath
        /\ reading = {}

\* Run blocks without a timeout, and yet every call gets its turn.
CallsServed ==
    \A id \in 1..MaxCalls :
        (\E n \in 1..Len(ioq) : ioq[n] \in Calls /\ ioq[n].id = id)
        ~> (~Alive \/ \A n \in 1..Len(ioq) : ioq[n] \in Calls => ioq[n].id # id)

\* The IO thread ends after Uninit, whatever Run is waiting for, unless the
\* process dies or the task that joins the thread cannot be posted.
ThreadJoined ==
    (initialised = "ok" /\ ~mIOThread) ~> (thread = "ended" \/ ~Alive \/ postFailures > 0)

\* A change of a watched directory reaches each callback its path has when the
\* packet is handled.
ChangeReachesCallback ==
    \A h \in Handles, p \in Paths, c \in Cbs :
        (/\ \E n \in 1..Len(port) : port[n] = Packet(h, "changes")
         /\ mWatchedResourcesByHandle[h] = p
         /\ c \in mChangeCallbacksTable[p])
        ~> (\/ \E n \in 1..Len(mainq) : /\ mainq[n].kind = "change"
                                        /\ mainq[n].path = p
                                        /\ c \in mainq[n].cbs
            \/ c \notin mChangeCallbacksTable[p]
            \/ ~Alive \/ stopped)

(***************************************************************************)
(* What the documentation says and the code does not do.                   *)
(***************************************************************************)
\* nsINativeFileWatcher.idl:80: removePath removes the path, and its success
\* callback runs when the watcher has stopped watching.  A callback that was
\* added while its path was being removed stays in the table, and becomes live
\* again when another client adds the path.
RemovalUnregisters ==
    [][RemoveUnwatched => Current.cb \notin mChangeCallbacksTable[Current.path]]_vars
=============================================================================
