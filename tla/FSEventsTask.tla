---------------------------- MODULE FSEventsTask ----------------------------
(***************************************************************************)
(* NativeFileWatcherFSETask of NativeFileWatcherMac.cpp: the thread        *)
(* "FileWatcher FSE".  Its runnables come from the IO thread.  Run         *)
(* schedules the stream and then stays in CFRunLoopRun, where the stream's *)
(* callback is called, until the IO thread stops the run loop; only then   *)
(* does the thread look at its next runnable.  AddPath and RemovePath      *)
(* replace the stream and queue a new Run.                                 *)
(*                                                                         *)
(* runLoopLock is locked by whoever makes a stream (the constructor, on    *)
(* the IO thread, AddPath, RemovePath) and unlocked by the Run that starts *)
(* it.  callBackLock guards the events that are handed to the IO thread.   *)
(***************************************************************************)
EXTENDS FSEvents

VARIABLES
    fseq,          \* the thread's queue of runnables
    fse,           \* where the thread stands; "none" before it is created
    stopRequested, \* CFRunLoopStop was called during CFRunLoopRun
    runLoopLock,   \* whether it is locked
    childRunLoop,  \* whether Run has told the IO thread its run loop
    batch,         \* events of the callback's call that are not looked at yet
    mSavedEvents,  \* events that wait for the IO thread
    callBackLock,  \* its owner: "free", "fse" or "io"
    crash          \* why the process died: "none" while it lives

loopVars == <<stopRequested, childRunLoop>>
savedVars == <<batch, mSavedEvents, callBackLock>>
taskVars == <<fseq, fse, runLoopLock, loopVars, savedVars>>

FseRunTask == [op |-> "run"]
FseTasks == [op : {"add", "remove"}, path : Paths] \cup {FseRunTask}

TaskInit ==
    /\ fseq = <<>>
    /\ fse = "none"
    /\ stopRequested = FALSE
    /\ runLoopLock = FALSE
    /\ childRunLoop = FALSE
    /\ batch = {}
    /\ mSavedEvents = <<>>
    /\ callBackLock = "free"
    /\ crash = "none"

Alive == crash = "none"

(***************************************************************************)
(* What the IO thread does to this task.                                   *)
(***************************************************************************)
\* The constructor makes the first stream and leaves the lock to Run.
NewTask(p) ==
    /\ runLoopLock' = TRUE
    /\ StreamCreate({p}, SinceNow)

\* NS_NewNamedThread with Run as its first runnable.
NewThread ==
    /\ fse' = "idle"
    /\ fseq' = <<FseRunTask>>

InRunLoop == fse \in {"loop", "callback", "pushing"}

\* CFRunLoopStop: a run loop that is not running forgets that it was called.
CFRunLoopStop == stopRequested' = (stopRequested \/ InRunLoop)

StopAndDispatch(op, p) ==
    /\ CFRunLoopStop
    /\ fseq' = Append(fseq, [op |-> op, path |-> p])
    /\ UNCHANGED <<fse, runLoopLock, childRunLoop, savedVars>>

\* The dispatch fails, and the run loop has been stopped by then.
StopWithoutDispatch ==
    /\ CFRunLoopStop
    /\ UNCHANGED <<fseq, fse, runLoopLock, childRunLoop, savedVars>>

(***************************************************************************)
(* Run.                                                                    *)
(***************************************************************************)
Takes(op) ==
    /\ Alive
    /\ fse = "idle"
    /\ fseq # <<>>
    /\ Head(fseq).op = op

\* Up to the unlock: the IO thread only looks at childRunLoop, and stopping the
\* run loop is of no use to it before the thread is in it.
FseRun ==
    /\ Takes("run")
    /\ childRunLoop' = TRUE
    /\ StreamStart
    /\ runLoopLock' = FALSE
    /\ fseq' = Tail(fseq)
    /\ fse' = "entering"
    /\ UNCHANGED <<log, stopRequested, savedVars, crash>>

EnterRunLoop ==
    /\ Alive
    /\ fse = "entering"
    /\ fse' = "loop"
    /\ stopRequested' = FALSE
    /\ UNCHANGED <<fseventsVars, fseq, runLoopLock, childRunLoop, savedVars, crash>>

LeaveRunLoop ==
    /\ Alive
    /\ fse = "loop"
    /\ stopRequested
    /\ fse' = "idle"
    /\ stopRequested' = FALSE
    /\ UNCHANGED <<fseventsVars, fseq, runLoopLock, childRunLoop, savedVars, crash>>

(***************************************************************************)
(* fsevents_callback.                                                      *)
(***************************************************************************)
StreamCallback ==
    /\ Alive
    /\ fse = "loop"
    /\ \E n \in Pending :
        /\ StreamReports(n)
        /\ batch' = {m \in Pending : m <= n}
    /\ fse' = "callback"
    /\ UNCHANGED <<log, fseq, runLoopLock, loopVars, mSavedEvents, callBackLock, crash>>

CallbackLock ==
    /\ Alive
    /\ fse = "callback"
    /\ callBackLock = "free"
    /\ callBackLock' = "fse"
    /\ fse' = "pushing"
    /\ UNCHANGED <<fseventsVars, fseq, runLoopLock, loopVars, batch, mSavedEvents, crash>>

\* Only changes of files are handed on.
Saves(n) == log[n].flag = "ItemIsFile"

CallbackPush ==
    /\ Alive
    /\ fse = "pushing"
    /\ \E n \in batch :
        /\ \A m \in batch : n <= m
        /\ batch' = batch \ {n}
        /\ mSavedEvents' = IF Saves(n) THEN Append(mSavedEvents, n) ELSE mSavedEvents
    /\ UNCHANGED <<fseventsVars, fseq, fse, runLoopLock, loopVars, callBackLock, crash>>

CallbackUnlock ==
    /\ Alive
    /\ fse = "pushing"
    /\ batch = {}
    /\ callBackLock' = "free"
    /\ fse' = "loop"
    /\ UNCHANGED <<fseventsVars, fseq, runLoopLock, loopVars, batch, mSavedEvents, crash>>

(***************************************************************************)
(* AddPath and RemovePath.  Lock blocks while another stream waits for its *)
(* Run: on this thread, for ever.                                          *)
(***************************************************************************)
\* Mutant of Rebuild: the new stream starts from now.
RebuildFromNow(paths) ==
    /\ StreamCreate(paths, SinceNow)
    /\ runLoopLock' = TRUE
    /\ fseq' = Append(Tail(fseq), FseRunTask)

\* Mutant of Rebuild: the event that was reported last is asked for again.
RebuildOneBack(paths) ==
    /\ StreamCreate(paths, IF sinceWhen = SinceNow THEN SinceNow ELSE sinceWhen - 1)
    /\ runLoopLock' = TRUE
    /\ fseq' = Append(Tail(fseq), FseRunTask)

\* Mutant of Rebuild: the lock is released, as it is when no path is left.
RebuildUnlocking(paths) ==
    /\ StreamCreate(paths, sinceWhen)
    /\ fseq' = Append(Tail(fseq), FseRunTask)
    /\ UNCHANGED runLoopLock

\* A stream of these paths replaces the old one and goes on where that was.
Rebuild(paths) ==
    /\ StreamCreate(paths, sinceWhen)
    /\ runLoopLock' = TRUE
    /\ fseq' = Append(Tail(fseq), FseRunTask)

FseAddPath ==
    /\ Takes("add")
    /\ ~runLoopLock
    /\ streamState # "released"
    /\ Rebuild(streamPaths \cup {Head(fseq).path})
    /\ UNCHANGED <<log, fse, loopVars, savedVars, crash>>

\* RemovePath released the stream of the last path and kept the reference.
FseAddReleased ==
    /\ Takes("add")
    /\ ~runLoopLock
    /\ streamState = "released"
    /\ crash' = "released_stream"
    /\ runLoopLock' = TRUE
    /\ UNCHANGED <<fseventsVars, fseq, fse, loopVars, savedVars>>

FseRemovePath ==
    /\ Takes("remove")
    /\ ~runLoopLock
    /\ streamPaths # {Head(fseq).path}
    /\ Rebuild(streamPaths \ {Head(fseq).path})
    /\ UNCHANGED <<log, fse, loopVars, savedVars, crash>>

FseRemoveLast ==
    /\ Takes("remove")
    /\ ~runLoopLock
    /\ streamPaths = {Head(fseq).path}
    /\ StreamRelease
    /\ fseq' = Tail(fseq)
    /\ UNCHANGED <<log, fse, runLoopLock, loopVars, savedVars, crash>>

FseThread ==
    \/ FseRun \/ EnterRunLoop \/ LeaveRunLoop
    \/ StreamCallback \/ CallbackLock \/ CallbackPush \/ CallbackUnlock
    \/ FseAddPath \/ FseAddReleased \/ FseRemovePath \/ FseRemoveLast

TaskTypeOK ==
    /\ fseq \in Seq(FseTasks)
    /\ fse \in {"none", "idle", "entering", "loop", "callback", "pushing"}
    /\ stopRequested \in BOOLEAN
    /\ runLoopLock \in BOOLEAN
    /\ childRunLoop \in BOOLEAN
    /\ batch \in SUBSET EventIds
    /\ mSavedEvents \in Seq(EventIds)
    /\ callBackLock \in {"free", "fse", "io"}
    /\ crash \in {"none", "unregistered", "no_run_loop", "released_stream"}
=============================================================================
