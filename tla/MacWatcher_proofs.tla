-------------------------- MODULE MacWatcher_proofs --------------------------
(***************************************************************************)
(* Proofs about MacWatcher, for every value of its constants.              *)
(***************************************************************************)
EXTENDS MacWatcher, SequenceTheorems, TLAPS

-----------------------------------------------------------------------------
(***************************************************************************)
(* Types.  The places in the log that the other variables name exist, as   *)
(* the stream never gets past the end of the log.                          *)
(***************************************************************************)
Known ==
  /\ position <= Len(log)
  /\ sinceWhen # SinceNow => sinceWhen = position
  /\ \A b \in batch : b <= position
  /\ \A n \in 1..Len(mSavedEvents) : mSavedEvents[n] <= position

TypeInv == TypeOK /\ Known

LEMMA TailOfQueue ==
  ASSUME NEW S, NEW q \in Seq(S), q # <<>>
  PROVE  /\ Head(q) \in S /\ Head(q) = q[1]
         /\ Tail(q) \in Seq(S)
         /\ Len(Tail(q)) = Len(q) - 1 /\ Len(q) \in Nat \ {0}
         /\ \A n \in 1..Len(Tail(q)) : Tail(q)[n] = q[n + 1] /\ n + 1 \in 1..Len(q)
  OBVIOUS

LEMMA AppendedQueue ==
  ASSUME NEW S, NEW q \in Seq(S), NEW x \in S
  PROVE  /\ Append(q, x) \in Seq(S)
         /\ Len(Append(q, x)) = Len(q) + 1 /\ Len(q) \in Nat
         /\ \A n \in 1..Len(q) : Append(q, x)[n] = q[n]
         /\ Append(q, x)[Len(q) + 1] = x
  OBVIOUS

LEMMA InitTypeInv == Init => TypeInv
<1> SUFFICES ASSUME Init PROVE TypeInv
  OBVIOUS
<1>1. FSEventsTypeOK
  <2>1. log = <<>> /\ streamState = "none" /\ streamPaths = {} /\ sinceWhen = SinceNow /\ position = 0
    BY DEF Init, FSEventsInit
  <2>2. MaxEvents \in Nat
    BY FSEventsAssumption
  <2> QED
    BY <2>1, <2>2 DEF FSEventsTypeOK
<1>2. TaskTypeOK
  <2>1. fseq = <<>> /\ mSavedEvents = <<>>
    BY DEF Init, TaskInit
  <2>2. fseq \in Seq(FseTasks) /\ mSavedEvents \in Seq(EventIds)
    BY <2>1
  <2> QED
    BY <2>2 DEF Init, TaskInit, TaskTypeOK
<1>3. ServiceTypeOK
  <2>1. calls = 0 /\ MaxCalls \in Nat
    BY WatcherAssumption DEF Init
  <2>2. calls \in 0..MaxCalls
    BY <2>1
  <2> QED
    BY <2>2 DEF Init, ServiceTypeOK
<1>4. RunTypeOK
  <2>1. lastHandled = 0 /\ passes = 0 /\ returnedPaths = <<>> /\ MaxEvents \in Nat
    BY FSEventsAssumption DEF Init
  <2>2. lastHandled \in 0..MaxEvents /\ passes \in Nat /\ returnedPaths \in Seq(Seq(STRING))
    BY <2>1
  <2> QED
    BY <2>2 DEF Init, RunTypeOK
<1>5. TableTypeOK
  BY DEF Init, TableTypeOK
<1>6. QueueTypeOK
  <2>1. postFailures = 0 /\ ioq = <<>> /\ mainq = <<>> /\ MaxPostFailures \in Nat
    BY WatcherAssumption DEF Init
  <2>2. postFailures \in 0..MaxPostFailures /\ ioq \in Seq(Tasks) /\ mainq \in Seq(Posts)
    BY <2>1
  <2> QED
    BY <2>2 DEF Init, QueueTypeOK
<1>7. (io = "paths" => mSavedEvents # <<>>) /\ Known
  BY DEF Init, FSEventsInit, TaskInit, Known
<1> QED
  BY <1>1, <1>2, <1>3, <1>4, <1>5, <1>6, <1>7 DEF TypeInv, TypeOK

\* What a step leaves alone keeps its type.
LEMMA Frame ==
  ASSUME TypeInv
  PROVE  /\ UNCHANGED fseventsVars => FSEventsTypeOK'
         /\ UNCHANGED <<taskVars, crash>> => TaskTypeOK'
         /\ UNCHANGED mainVars => ServiceTypeOK'
         /\ UNCHANGED runVars => RunTypeOK'
         /\ UNCHANGED tableVars => TableTypeOK'
         /\ UNCHANGED <<ioq, mainq, postFailures, mWorkerFSERunnable, mShuttingDown>> => QueueTypeOK'
         /\ UNCHANGED <<fseventsVars, batch, mSavedEvents, io>> => Known' /\ (io = "paths" => mSavedEvents # <<>>)'
<1> USE DEF TypeInv, TypeOK
<1>1. UNCHANGED fseventsVars => FSEventsTypeOK'
  BY DEF fseventsVars, streamVars, FSEventsTypeOK
<1>2. UNCHANGED <<taskVars, crash>> => TaskTypeOK'
  BY DEF taskVars, loopVars, savedVars, TaskTypeOK
<1>3. UNCHANGED mainVars => ServiceTypeOK'
  BY DEF mainVars, ServiceTypeOK
<1>4. UNCHANGED runVars => RunTypeOK'
  BY DEF runVars, RunTypeOK
<1>5. UNCHANGED tableVars => TableTypeOK'
  BY DEF tableVars, TableTypeOK
<1>6. UNCHANGED <<ioq, mainq, postFailures, mWorkerFSERunnable, mShuttingDown>> => QueueTypeOK'
  BY DEF QueueTypeOK
<1>7. UNCHANGED <<fseventsVars, batch, mSavedEvents, io>> => Known' /\ (io = "paths" => mSavedEvents # <<>>)'
  BY DEF fseventsVars, streamVars, Known
<1> QED
  BY <1>1, <1>2, <1>3, <1>4, <1>5, <1>6, <1>7

(***************************************************************************)
(* The main thread and the file system.                                    *)
(***************************************************************************)
LEMMA MainTypes == TypeInv /\ MainThread => TypeInv'
<1> SUFFICES ASSUME TypeInv, MainThread PROVE TypeInv'
  OBVIOUS
<1>a. /\ ioq \in Seq(Tasks) /\ calls \in 0..MaxCalls
      /\ RunTask \in Tasks /\ DeactivateTask \in Tasks /\ Calls \subseteq Tasks
  BY DEF TypeInv, TypeOK, QueueTypeOK, ServiceTypeOK, Tasks
<1>f. UNCHANGED <<fseventsVars, taskVars, crash, runVars, tableVars, mainq, mWorkerFSERunnable,
                  mShuttingDown, postFailures>>
      => /\ FSEventsTypeOK' /\ TaskTypeOK' /\ RunTypeOK' /\ TableTypeOK' /\ Known'
         /\ (io = "paths" => mSavedEvents # <<>>)'
         /\ (ioq' \in Seq(Tasks) => QueueTypeOK')
  <2>1. UNCHANGED <<runVars, taskVars>> => UNCHANGED <<io, batch, mSavedEvents>>
    BY DEF runVars, taskVars, savedVars
  <2>2. UNCHANGED <<mainq, mWorkerFSERunnable, mShuttingDown, postFailures>> /\ ioq' \in Seq(Tasks)
        => QueueTypeOK'
    BY DEF TypeInv, TypeOK, QueueTypeOK
  <2> QED
    BY <2>1, <2>2, Frame
<1>1. CASE ServiceInit
  <2>1. ioq' = ioq \/ ioq' = <<RunTask>>
    BY <1>1 DEF ServiceInit
  <2>5. \A x \in Tasks : <<x>> \in Seq(Tasks)
    OBVIOUS
  <2>2. ioq' \in Seq(Tasks)
    BY <1>a, <2>1, <2>5
  <2>3. ServiceTypeOK'
    BY <1>1 DEF ServiceInit, TypeInv, TypeOK, ServiceTypeOK
  <2>4. UNCHANGED <<fseventsVars, taskVars, crash, runVars, tableVars, mainq, mWorkerFSERunnable,
                    mShuttingDown, postFailures>>
    BY <1>1 DEF ServiceInit
  <2> QED
    BY <1>f, <2>2, <2>3, <2>4 DEF TypeInv, TypeOK
<1>d. ASSUME NEW t \in Tasks, DispatchToIO(t), calls' \in 0..MaxCalls, mIOThread' \in BOOLEAN
      PROVE  TypeInv'
  <2>1. ioq' = Append(ioq, t) /\ initialised' = initialised
    BY <1>d DEF DispatchToIO
  <2>2. ioq' \in Seq(Tasks)
    BY <1>a, <2>1
  <2>3. ServiceTypeOK'
    BY <1>d, <2>1 DEF TypeInv, TypeOK, ServiceTypeOK
  <2>4. UNCHANGED <<fseventsVars, taskVars, crash, runVars, tableVars, mainq, mWorkerFSERunnable,
                    mShuttingDown, postFailures>>
    BY <1>d DEF DispatchToIO
  <2> QED
    BY <1>f, <2>2, <2>3, <2>4 DEF TypeInv, TypeOK
<1>b. mIOThread \in BOOLEAN
  BY DEF TypeInv, TypeOK, ServiceTypeOK
<1>2. ASSUME NEW op \in {"add", "remove"}, NEW p \in Paths, NEW c \in Cbs, NEW e \in Errs,
             DispatchCall(op, p, c, e)
      PROVE  TypeInv'
  <2>1. calls < MaxCalls /\ calls' = calls + 1 /\ mIOThread' = mIOThread
    BY <1>2 DEF DispatchCall
  <2>2. calls + 1 \in 1..MaxCalls /\ calls' \in 0..MaxCalls
    BY <1>a, <2>1, WatcherAssumption
  <2>3. PICK t : t = [op |-> op, id |-> calls + 1, path |-> p, cb |-> c, err |-> e]
    OBVIOUS
  <2>4. t \in Calls
    BY <2>2, <2>3 DEF Calls
  <2>5. DispatchToIO(t)
    BY <1>2, <2>3 DEF DispatchCall
  <2> QED
    BY <1>a, <1>b, <1>d, <2>1, <2>2, <2>4, <2>5
<1>3. CASE Uninit
  <2>1. DispatchToIO(DeactivateTask) /\ mIOThread' = FALSE /\ calls' = calls
    BY <1>3 DEF Uninit
  <2> QED
    BY <1>a, <1>d, <2>1
<1> QED
  BY <1>1, <1>2, <1>3 DEF MainThread, AddPath, RemovePath

LEMMA DeliverTypes == TypeInv /\ DeliverNext => TypeInv'
<1> SUFFICES ASSUME TypeInv, DeliverNext PROVE TypeInv'
  OBVIOUS
<1>a. mainq \in Seq(Posts)
  BY DEF TypeInv, TypeOK, QueueTypeOK
<1>d. ASSUME NEW q \in Seq(Posts), Delivered(q) PROVE TypeInv'
  <2>1. UNCHANGED <<fseventsVars, taskVars, crash, mainVars, ioq, runVars, tableVars,
                    mWorkerFSERunnable, mShuttingDown, postFailures>> /\ mainq' = q
    BY <1>d DEF Delivered
  <2>2. UNCHANGED <<io, batch, mSavedEvents>>
    BY <2>1 DEF runVars, taskVars, savedVars
  <2>3. QueueTypeOK'
    BY <2>1 DEF TypeInv, TypeOK, QueueTypeOK
  <2> QED
    BY <2>1, <2>2, <2>3, Frame DEF TypeInv, TypeOK
<1>1. CASE DeliverSuccess
  <2>1. mainq # <<>> /\ Delivered(Tail(mainq))
    BY <1>1 DEF DeliverSuccess
  <2>2. Tail(mainq) \in Seq(Posts)
    BY <1>a, <2>1
  <2> QED
    BY <1>d, <2>1, <2>2
<1>2. ASSUME NEW c \in Cbs, DeliverChange(c) PROVE TypeInv'
  <2>1. mainq # <<>> /\ Head(mainq).kind = "change" /\ c \in Head(mainq).cbs
    BY <1>2 DEF DeliverChange
  <2>2. CASE Head(mainq).cbs = {c}
    <3>1. Delivered(Tail(mainq)) /\ Tail(mainq) \in Seq(Posts)
      BY <1>2, <1>a, <2>1, <2>2 DEF DeliverChange
    <3> QED
      BY <1>d, <3>1
  <2>3. CASE Head(mainq).cbs # {c}
    <3> DEFINE m == Head(mainq)
    <3>1. m \in Changes
      BY <1>a, <2>1, HeadTailProperties DEF Posts, Successes
    <3>2. [m EXCEPT !.cbs = @ \ {c}] \in Changes
      BY <2>1, <2>3, <3>1 DEF Changes
    <3>3. 1 \in 1..Len(mainq) /\ mainq[1] = m
      BY <1>a, <2>1
    <3>4. [mainq EXCEPT ![1].cbs = @ \ {c}] = [mainq EXCEPT ![1] = [m EXCEPT !.cbs = @ \ {c}]]
      BY <1>a, <3>3
    <3>5. [mainq EXCEPT ![1] = [m EXCEPT !.cbs = @ \ {c}]] \in Seq(Posts)
      BY <1>a, <3>2, <3>3, ExceptSeq DEF Posts
    <3>6. Delivered([mainq EXCEPT ![1].cbs = @ \ {c}])
      BY <1>2, <2>3 DEF DeliverChange
    <3> QED
      BY <1>d, <3>4, <3>5, <3>6
  <2> QED
    BY <2>2, <2>3
<1> QED
  BY <1>1, <1>2 DEF DeliverNext

LEMMA FileSystemTypes == TypeInv /\ FileSystem => TypeInv'
<1> SUFFICES ASSUME TypeInv, FileSystem PROVE TypeInv'
  OBVIOUS
<1>1. PICK f \in Files, flag \in Flags : Touch(f, flag)
  BY DEF FileSystem, FsNext
<1>2. UNCHANGED <<taskVars, crash, watcherVars>>
  BY DEF FileSystem
<1>3. /\ log \in Seq([path : Files, flag : AllFlags]) /\ Len(log) < MaxEvents
      /\ log' = Append(log, [path |-> f, flag |-> flag])
      /\ [path |-> f, flag |-> flag] \in [path : Files, flag : AllFlags]
      /\ UNCHANGED <<streamState, streamPaths, sinceWhen, position>> /\ position \in 0..MaxEvents
  BY <1>1, FSEventsAssumption DEF Touch, TypeInv, TypeOK, FSEventsTypeOK, streamVars
<1>4. log' \in Seq([path : Files, flag : AllFlags]) /\ Len(log') = Len(log) + 1 /\ Len(log) \in Nat
  BY <1>3
<1>5. FSEventsTypeOK'
  BY <1>3, <1>4, FSEventsAssumption DEF TypeInv, TypeOK, FSEventsTypeOK
<1>6. UNCHANGED <<mSavedEvents, batch, io>>
  BY <1>2 DEF taskVars, savedVars, watcherVars, runVars
<1>7. Known' /\ (io = "paths" => mSavedEvents # <<>>)'
  BY <1>3, <1>4, <1>6 DEF Known, TypeInv, TypeOK
<1>8. UNCHANGED <<mainVars, runVars, tableVars, ioq, mainq, postFailures, mWorkerFSERunnable, mShuttingDown>>
  BY <1>2 DEF watcherVars
<1> QED
  BY <1>2, <1>5, <1>7, <1>8, Frame DEF TypeInv, TypeOK

(***************************************************************************)
(* The calls on the IO thread.                                             *)
(***************************************************************************)
LEMMA CurrentType ==
  ASSUME TypeInv, NEW op, IOTakes(op)
  PROVE  /\ ioq \in Seq(Tasks) /\ Tail(ioq) \in Seq(Tasks)
         /\ Current \in Tasks /\ Current.op = op
         /\ op \in {"add", "remove"} => Current \in Calls
<1>1. ioq \in Seq(Tasks) /\ ioq # <<>> /\ Current.op = op
  BY DEF TypeInv, TypeOK, QueueTypeOK, IOTakes, Current
<1>2. Tail(ioq) \in Seq(Tasks) /\ Current \in Tasks
  BY <1>1, TailOfQueue DEF Current
<1>3. \A t \in Tasks : t.op \in {"add", "remove"} => t \in Calls
  BY DEF Tasks, RunTask, DeactivateTask
<1> QED
  BY <1>1, <1>2, <1>3

LEMMA ReportTypes ==
  ASSUME TypeInv, Current \in Calls, ReportSuccess
  PROVE  mainq' \in Seq(Posts) /\ postFailures' \in 0..MaxPostFailures
<1>1. mainq \in Seq(Posts) /\ postFailures \in 0..MaxPostFailures
  BY DEF TypeInv, TypeOK, QueueTypeOK
<1>2. Success(Current) \in Posts
  BY DEF Success, Posts, Successes
<1>3. Append(mainq, Success(Current)) \in Seq(Posts)
  BY <1>1, <1>2
<1>4. postFailures < MaxPostFailures => postFailures + 1 \in 0..MaxPostFailures
  BY <1>1, WatcherAssumption
<1> QED
  BY <1>1, <1>3, <1>4 DEF ReportSuccess, PostFails

\* What is left to show of a call: the stream, the FSE thread, the tables, and
\* what it posts.
LEMMA CallTypes ==
  ASSUME TypeInv, NEW op, IOTakes(op), Ends,
         FSEventsTypeOK', TaskTypeOK', TableTypeOK', UNCHANGED position,
         sinceWhen' = sinceWhen \/ sinceWhen' = SinceNow, UNCHANGED <<batch, mSavedEvents>>,
         mWorkerFSERunnable' \in BOOLEAN,
         mainq' \in Seq(Posts), postFailures' \in 0..MaxPostFailures
  PROVE  TypeInv'
<1>1. UNCHANGED <<log, mainVars, runVars, mShuttingDown>> /\ ioq' = Tail(ioq)
  BY DEF Ends
<1>2. ioq' \in Seq(Tasks)
  BY <1>1, CurrentType
<1>3. ServiceTypeOK' /\ RunTypeOK'
  BY <1>1, Frame
<1>4. QueueTypeOK'
  BY <1>1, <1>2 DEF TypeInv, TypeOK, QueueTypeOK
<1>5. io' = io /\ log' = log
  BY <1>1 DEF runVars
<1>6. Known' /\ (io = "paths" => mSavedEvents # <<>>)'
  BY <1>5 DEF TypeInv, TypeOK, Known
<1> QED
  BY <1>3, <1>4, <1>6 DEF TypeInv, TypeOK

LEMMA AppendCallbacksTypes ==
  ASSUME TypeInv, NEW r \in Calls, AppendCallbacks(r),
         mWatchedResourcesByPath' \in SUBSET Paths
  PROVE  TableTypeOK'
<1>1. r.path \in Paths /\ r.cb \in Cbs /\ r.err \in Errs
  BY DEF Calls
<1>2. /\ mChangeCallbacksTable \in [Paths -> SUBSET Cbs]
      /\ mErrorCallbacksTable \in [Paths -> SUBSET Errs]
  BY DEF TypeInv, TypeOK, TableTypeOK
<1>3. mChangeCallbacksTable' \in [Paths -> SUBSET Cbs]
  BY <1>1, <1>2 DEF AppendCallbacks
<1>4. mErrorCallbacksTable' \in [Paths -> SUBSET Errs]
  BY <1>1, <1>2 DEF AppendCallbacks
<1> QED
  BY <1>3, <1>4 DEF TableTypeOK

LEMMA RemoveCallbacksTypes ==
  ASSUME TypeInv, NEW r \in Calls, RemoveCallbacks(r),
         mWatchedResourcesByPath' \in SUBSET Paths
  PROVE  TableTypeOK'
<1>2. /\ mChangeCallbacksTable \in [Paths -> SUBSET Cbs]
      /\ mErrorCallbacksTable \in [Paths -> SUBSET Errs]
  BY DEF TypeInv, TypeOK, TableTypeOK
<1>3. mChangeCallbacksTable' \in [Paths -> SUBSET Cbs]
  BY <1>2 DEF RemoveCallbacks
<1>4. mErrorCallbacksTable' \in [Paths -> SUBSET Errs]
  BY <1>2 DEF RemoveCallbacks
<1> QED
  BY <1>3, <1>4 DEF TableTypeOK

LEMMA StreamCreateTypes ==
  ASSUME TypeInv, UNCHANGED log, NEW paths \in SUBSET Paths,
         NEW since \in {sinceWhen, SinceNow}, StreamCreate(paths, since)
  PROVE  FSEventsTypeOK' /\ sinceWhen' = since /\ position' = position
<1>1. /\ streamState' = "created" /\ streamPaths' = paths /\ sinceWhen' = since
      /\ position' = position
  BY DEF StreamCreate
<1> QED
  BY <1>1 DEF TypeInv, TypeOK, FSEventsTypeOK

LEMMA StopAndDispatchTypes ==
  ASSUME TypeInv, NEW op \in {"add", "remove"}, NEW p \in Paths, StopAndDispatch(op, p),
         UNCHANGED crash
  PROVE  TaskTypeOK' /\ UNCHANGED <<batch, mSavedEvents>>
<1>1. fseq \in Seq(FseTasks) /\ stopRequested \in BOOLEAN
  BY DEF TypeInv, TypeOK, TaskTypeOK
<1>2. [op |-> op, path |-> p] \in FseTasks
  BY DEF FseTasks
<1>3. fseq' \in Seq(FseTasks)
  BY <1>1, <1>2 DEF StopAndDispatch
<1>4. stopRequested' \in BOOLEAN
  BY <1>1 DEF StopAndDispatch, CFRunLoopStop, InRunLoop
<1>5. UNCHANGED <<fse, runLoopLock, childRunLoop, batch, mSavedEvents, callBackLock>>
  BY DEF StopAndDispatch, savedVars
<1> QED
  BY <1>3, <1>4, <1>5 DEF TypeInv, TypeOK, TaskTypeOK

LEMMA StopWithoutDispatchTypes ==
  ASSUME TypeInv, StopWithoutDispatch, UNCHANGED crash
  PROVE  TaskTypeOK' /\ UNCHANGED <<batch, mSavedEvents>>
<1>1. stopRequested \in BOOLEAN
  BY DEF TypeInv, TypeOK, TaskTypeOK
<1>2. stopRequested' \in BOOLEAN
  BY <1>1 DEF StopWithoutDispatch, CFRunLoopStop, InRunLoop
<1>3. UNCHANGED <<fseq, fse, runLoopLock, childRunLoop, batch, mSavedEvents, callBackLock>>
  BY DEF StopWithoutDispatch, savedVars
<1> QED
  BY <1>2, <1>3 DEF TypeInv, TypeOK, TaskTypeOK

LEMMA PostFailsTypes == TypeInv /\ PostFails => postFailures' \in 0..MaxPostFailures
  BY WatcherAssumption DEF PostFails, TypeInv, TypeOK, QueueTypeOK

LEMMA AddTypes == TypeInv /\ AddPathRunnable => TypeInv'
<1> SUFFICES ASSUME TypeInv, AddPathRunnable PROVE TypeInv'
  OBVIOUS
<1>a. IOTakes("add") /\ Ends /\ UNCHANGED log
  BY DEF AddPathRunnable, Adds, AddMissing, AddKnown, AddFirst, AddFirstFails, AddNext,
         AddDispatchFails, AddNoRunLoop, Ends
<1>b. Current \in Calls /\ Current.path \in Paths
  BY <1>a, CurrentType DEF Calls
<1>c. /\ mWatchedResourcesByPath \in SUBSET Paths /\ mWorkerFSERunnable \in BOOLEAN
      /\ mainq \in Seq(Posts) /\ postFailures \in 0..MaxPostFailures
  BY DEF TypeInv, TypeOK, TableTypeOK, QueueTypeOK
<1>g. UNCHANGED streamVars => FSEventsTypeOK' /\ position' = position /\ sinceWhen' = sinceWhen
  BY <1>a, Frame DEF fseventsVars, streamVars
<1>h. UNCHANGED taskVars => UNCHANGED <<batch, mSavedEvents>>
  BY DEF taskVars, savedVars
<1>e. ASSUME AddEntry
      PROVE  TableTypeOK' /\ mainq' \in Seq(Posts) /\ postFailures' \in 0..MaxPostFailures
  <2>1. mWatchedResourcesByPath' \in SUBSET Paths
    BY <1>b, <1>c, <1>e DEF AddEntry
  <2>2. AppendCallbacks(Current) /\ ReportSuccess
    BY <1>e DEF AddEntry
  <2> QED
    BY <1>b, <2>1, <2>2, AppendCallbacksTypes, ReportTypes
<1>n. ASSUME NewTask(Current.path)
      PROVE  /\ FSEventsTypeOK' /\ sinceWhen' = SinceNow /\ position' = position
             /\ runLoopLock' = TRUE
  <2>1. {Current.path} \in SUBSET Paths
    BY <1>b
  <2> QED
    BY <1>a, <1>n, <2>1, StreamCreateTypes DEF NewTask
<1>1. CASE AddMissing
  <2>1. UNCHANGED <<streamVars, taskVars, crash, mainq, tableVars, mWorkerFSERunnable, postFailures>>
    BY <1>1 DEF AddMissing
  <2> QED
    BY <1>a, <1>c, <1>g, <1>h, <2>1, Frame, CallTypes
<1>2. CASE AddKnown
  <2>1. /\ UNCHANGED <<streamVars, taskVars, crash, mainq, mWorkerFSERunnable, postFailures>>
        /\ UNCHANGED mWatchedResourcesByPath /\ AppendCallbacks(Current)
    BY <1>2 DEF AddKnown
  <2>2. TableTypeOK'
    BY <1>b, <1>c, <2>1, AppendCallbacksTypes
  <2> QED
    BY <1>a, <1>c, <1>g, <1>h, <2>1, <2>2, Frame, CallTypes
<1>3. CASE AddFirst
  <2>1. /\ NewTask(Current.path) /\ NewThread /\ AddEntry
        /\ UNCHANGED <<loopVars, savedVars, crash>> /\ mWorkerFSERunnable' = TRUE
    BY <1>3 DEF AddFirst
  <2>2. fse' = "idle" /\ fseq' = <<FseRunTask>>
    BY <2>1 DEF NewThread
  <2>3. \A x \in FseTasks : <<x>> \in Seq(FseTasks)
    OBVIOUS
  <2>4. fseq' \in Seq(FseTasks)
    BY <2>2, <2>3 DEF FseTasks
  <2>5. UNCHANGED <<stopRequested, childRunLoop, batch, mSavedEvents, callBackLock, crash>>
    BY <2>1 DEF loopVars, savedVars
  <2>6. TaskTypeOK'
    BY <1>n, <2>1, <2>2, <2>4, <2>5 DEF TypeInv, TypeOK, TaskTypeOK
  <2> QED
    BY <1>a, <1>e, <1>n, <2>1, <2>5, <2>6, CallTypes
<1>4. CASE AddFirstFails
  <2>1. /\ NewTask(Current.path)
        /\ UNCHANGED <<fseq, fse, loopVars, savedVars, crash, mainq, tableVars, postFailures>>
        /\ mWorkerFSERunnable' = TRUE
    BY <1>4 DEF AddFirstFails
  <2>5. UNCHANGED <<stopRequested, childRunLoop, batch, mSavedEvents, callBackLock, crash>>
    BY <2>1 DEF loopVars, savedVars
  <2>6. TaskTypeOK'
    BY <1>n, <2>1, <2>5 DEF TypeInv, TypeOK, TaskTypeOK
  <2> QED
    BY <1>a, <1>c, <1>n, <2>1, <2>5, <2>6, Frame, CallTypes
<1>5. CASE AddNext
  <2>1. /\ StopAndDispatch("add", Current.path) /\ AddEntry
        /\ UNCHANGED <<streamVars, crash, mWorkerFSERunnable>>
    BY <1>5 DEF AddNext
  <2>2. TaskTypeOK' /\ UNCHANGED <<batch, mSavedEvents>>
    BY <1>b, <2>1, StopAndDispatchTypes
  <2> QED
    BY <1>a, <1>c, <1>e, <1>g, <2>1, <2>2, CallTypes
<1>6. CASE AddNoRunLoop
  <2>1. /\ UNCHANGED <<streamVars, taskVars, mainq, tableVars, mWorkerFSERunnable, postFailures>>
        /\ crash' = "no_run_loop"
    BY <1>6 DEF AddNoRunLoop
  <2>2. TaskTypeOK'
    BY <2>1 DEF taskVars, loopVars, savedVars, TypeInv, TypeOK, TaskTypeOK
  <2> QED
    BY <1>a, <1>c, <1>g, <1>h, <2>1, <2>2, Frame, CallTypes
<1>7. CASE AddDispatchFails
  <2>1. /\ StopWithoutDispatch /\ PostFails
        /\ UNCHANGED <<streamVars, crash, mainq, tableVars, mWorkerFSERunnable>>
    BY <1>7 DEF AddDispatchFails
  <2>2. TaskTypeOK' /\ UNCHANGED <<batch, mSavedEvents>>
    BY <2>1, StopWithoutDispatchTypes
  <2> QED
    BY <1>a, <1>c, <1>g, <2>1, <2>2, Frame, PostFailsTypes, CallTypes
<1> QED
  BY <1>1, <1>2, <1>3, <1>4, <1>5, <1>6, <1>7 DEF AddPathRunnable

LEMMA RemoveTypes == TypeInv /\ RemovePathRunnable => TypeInv'
<1> SUFFICES ASSUME TypeInv, RemovePathRunnable PROVE TypeInv'
  OBVIOUS
<1>a. IOTakes("remove") /\ Ends /\ UNCHANGED <<log, streamVars, mWorkerFSERunnable>>
  BY DEF RemovePathRunnable, Removes, RemoveUnwatched, RemoveUnregistered, RemoveOne,
         RemoveLast, RemoveDispatchFails, RemoveNoRunLoop, Ends
<1>b. Current \in Calls /\ Current.path \in Paths
  BY <1>a, CurrentType DEF Calls
<1>c. /\ mWatchedResourcesByPath \in SUBSET Paths /\ mWorkerFSERunnable \in BOOLEAN
      /\ mainq \in Seq(Posts) /\ postFailures \in 0..MaxPostFailures
  BY DEF TypeInv, TypeOK, TableTypeOK, QueueTypeOK
<1>g. FSEventsTypeOK' /\ position' = position /\ sinceWhen' = sinceWhen
  BY <1>a, Frame DEF fseventsVars, streamVars
<1>h. UNCHANGED taskVars => UNCHANGED <<batch, mSavedEvents>>
  BY DEF taskVars, savedVars
<1>x. ASSUME NEW x \in {"unregistered", "no_run_loop"}, crash' = x, UNCHANGED taskVars
      PROVE  TaskTypeOK'
  BY <1>x DEF taskVars, loopVars, savedVars, TypeInv, TypeOK, TaskTypeOK
<1>1. CASE RemoveUnwatched
  <2>1. ReportSuccess /\ UNCHANGED <<taskVars, crash, tableVars>>
    BY <1>1 DEF RemoveUnwatched
  <2> QED
    BY <1>a, <1>b, <1>c, <1>g, <1>h, <2>1, Frame, ReportTypes, CallTypes
<1>2. CASE RemoveUnregistered
  <2>1. crash' = "unregistered" /\ UNCHANGED <<taskVars, mainq, tableVars, postFailures>>
    BY <1>2 DEF RemoveUnregistered
  <2> QED
    BY <1>a, <1>c, <1>g, <1>h, <1>x, <2>1, Frame, CallTypes
<1>3. CASE RemoveOne
  <2>1. /\ RemoveCallbacks(Current) /\ ReportSuccess
        /\ UNCHANGED <<taskVars, crash, mWatchedResourcesByPath>>
    BY <1>3 DEF RemoveOne
  <2>2. TableTypeOK'
    BY <1>b, <1>c, <2>1, RemoveCallbacksTypes
  <2> QED
    BY <1>a, <1>b, <1>c, <1>g, <1>h, <2>1, <2>2, Frame, ReportTypes, CallTypes
<1>4. CASE RemoveLast
  <2>1. /\ RemoveCallbacks(Current) /\ ReportSuccess /\ StopAndDispatch("remove", Current.path)
        /\ mWatchedResourcesByPath' = mWatchedResourcesByPath \ {Current.path} /\ UNCHANGED crash
    BY <1>4 DEF RemoveLast, RemoveEntry
  <2>2. mWatchedResourcesByPath' \in SUBSET Paths
    BY <1>c, <2>1
  <2>3. TableTypeOK'
    BY <1>b, <2>1, <2>2, RemoveCallbacksTypes
  <2>4. TaskTypeOK' /\ UNCHANGED <<batch, mSavedEvents>>
    BY <1>b, <2>1, StopAndDispatchTypes
  <2> QED
    BY <1>a, <1>b, <1>c, <1>g, <2>1, <2>3, <2>4, ReportTypes, CallTypes
<1>5. CASE RemoveNoRunLoop
  <2>1. /\ crash' = "no_run_loop" /\ RemoveCallbacks(Current)
        /\ UNCHANGED <<taskVars, mainq, mWatchedResourcesByPath, postFailures>>
    BY <1>5 DEF RemoveNoRunLoop
  <2>2. TableTypeOK'
    BY <1>b, <1>c, <2>1, RemoveCallbacksTypes
  <2> QED
    BY <1>a, <1>c, <1>g, <1>h, <1>x, <2>1, <2>2, CallTypes
<1>6. CASE RemoveDispatchFails
  <2>1. /\ RemoveCallbacks(Current) /\ StopWithoutDispatch /\ PostFails
        /\ UNCHANGED <<crash, mainq, mWatchedResourcesByPath>>
    BY <1>6 DEF RemoveDispatchFails
  <2>2. TableTypeOK'
    BY <1>b, <1>c, <2>1, RemoveCallbacksTypes
  <2>3. TaskTypeOK' /\ UNCHANGED <<batch, mSavedEvents>>
    BY <2>1, StopWithoutDispatchTypes
  <2> QED
    BY <1>a, <1>c, <1>g, <2>1, <2>2, <2>3, PostFailsTypes, CallTypes
<1> QED
  BY <1>1, <1>2, <1>3, <1>4, <1>5, <1>6 DEF RemovePathRunnable

LEMMA DeactivateTypes == TypeInv /\ DeactivateRunnable => TypeInv'
<1> SUFFICES ASSUME TypeInv, DeactivateRunnable PROVE TypeInv'
  OBVIOUS
<1>1. /\ IOTakes("deactivate") /\ ioq' = Tail(ioq) /\ mShuttingDown' = TRUE
      /\ mWatchedResourcesByPath' = {}
      /\ mChangeCallbacksTable' = [p \in Paths |-> {}]
      /\ mErrorCallbacksTable' = [p \in Paths |-> {}]
      /\ UNCHANGED <<fseventsVars, taskVars, crash, mainVars, mainq, runVars,
                     mWorkerFSERunnable, postFailures>>
  BY DEF DeactivateRunnable
<1>2. ioq' \in Seq(Tasks)
  BY <1>1, CurrentType
<1>3. QueueTypeOK'
  BY <1>1, <1>2 DEF TypeInv, TypeOK, QueueTypeOK
<1>4. TableTypeOK'
  BY <1>1 DEF TableTypeOK
<1>5. UNCHANGED <<io, batch, mSavedEvents>>
  BY <1>1 DEF runVars, taskVars, savedVars
<1> QED
  BY <1>1, <1>3, <1>4, <1>5, Frame DEF TypeInv, TypeOK

(***************************************************************************)
(* Run.                                                                    *)
(***************************************************************************)
LEMMA PathsOnTheWay ==
  ASSUME NEW f \in Seq(STRING)
  PROVE  getRecursivePaths(f) \in Seq(Seq(STRING))
<1>1. Len(f) \in Nat
  OBVIOUS
<1>2. ASSUME NEW n \in 1..Len(f) PROVE SubSeq(f, 1, n) \in Seq(STRING)
  <2>1. n \in Int /\ 1 \in Int /\ \A i \in 1..n : f[i] \in STRING
    BY <1>1
  <2> QED
    BY <2>1, SubSeqProperties
<1>3. getRecursivePaths(f) \in [1..Len(f) -> Seq(STRING)]
  BY <1>2 DEF getRecursivePaths
<1>4. Seq(Seq(STRING)) = UNION {[1..n -> Seq(STRING)] : n \in Nat}
  BY SeqDef
<1> QED
  BY <1>1, <1>3, <1>4

\* What a step of Run must show.
LEMMA RunStepTypes ==
  ASSUME TypeInv, RunFrame, RunTypeOK',
         ioq' \in Seq(Tasks), mainq' \in Seq(Posts), postFailures' \in 0..MaxPostFailures,
         mSavedEvents' = mSavedEvents \/ (mSavedEvents # <<>> /\ mSavedEvents' = Tail(mSavedEvents)),
         callBackLock' \in {"free", "fse", "io"},
         io' = "paths" => mSavedEvents' # <<>>
  PROVE  TypeInv'
<1>1. UNCHANGED <<fseventsVars, fseq, fse, runLoopLock, loopVars, batch, crash, mainVars,
                  tableVars, mWorkerFSERunnable, mShuttingDown>>
  BY DEF RunFrame
<1>2. UNCHANGED <<log, position, sinceWhen, stopRequested, childRunLoop>>
  BY <1>1 DEF fseventsVars, streamVars, loopVars
<1>3. FSEventsTypeOK' /\ ServiceTypeOK' /\ TableTypeOK'
  BY <1>1, Frame
<1>4. QueueTypeOK'
  BY <1>1 DEF TypeInv, TypeOK, QueueTypeOK
<1>5. mSavedEvents \in Seq(EventIds)
  BY DEF TypeInv, TypeOK, TaskTypeOK
<1>6. /\ mSavedEvents' \in Seq(EventIds)
      /\ \A n \in 1..Len(mSavedEvents') : \E m \in 1..Len(mSavedEvents) :
            mSavedEvents'[n] = mSavedEvents[m]
  <2>1. CASE mSavedEvents' = mSavedEvents
    BY <1>5, <2>1
  <2>2. CASE mSavedEvents # <<>> /\ mSavedEvents' = Tail(mSavedEvents)
    <3>1. /\ Tail(mSavedEvents) \in Seq(EventIds)
          /\ \A n \in 1..Len(Tail(mSavedEvents)) :
                /\ Tail(mSavedEvents)[n] = mSavedEvents[n + 1]
                /\ n + 1 \in 1..Len(mSavedEvents)
      BY <1>5, <2>2, TailOfQueue
    <3> QED
      BY <2>2, <3>1
  <2> QED
    BY <2>1, <2>2
<1>7. TaskTypeOK'
  BY <1>1, <1>2, <1>6 DEF TypeInv, TypeOK, TaskTypeOK
<1>8. Known'
  BY <1>1, <1>2, <1>6 DEF TypeInv, TypeOK, Known
<1> QED
  BY <1>3, <1>4, <1>7, <1>8 DEF TypeInv, TypeOK

LEMMA PostChangeTypes ==
  ASSUME TypeInv, io = "paths", NextPath \in mWatchedResourcesByPath,
         NEW cbs \in SUBSET Cbs, PostChange(cbs)
  PROVE  mainq' \in Seq(Posts)
<1>1. mainq \in Seq(Posts) /\ mSavedEvents \in Seq(EventIds) /\ mSavedEvents # <<>>
  BY DEF TypeInv, TypeOK, QueueTypeOK, TaskTypeOK
<1>2. Event \in EventIds /\ NextPath \in Paths
  BY <1>1, TailOfQueue DEF Event, TypeInv, TypeOK, TableTypeOK
<1>3. cbs # {} => [kind |-> "change", event |-> Event, path |-> NextPath, cbs |-> cbs] \in Posts
  BY <1>2 DEF Posts, Changes
<1> QED
  BY <1>1, <1>3 DEF PostChange

LEMMA RunTypes == TypeInv /\ Run => TypeInv'
<1> SUFFICES ASSUME TypeInv, Run PROVE TypeInv'
  OBVIOUS
<1>a. /\ ioq \in Seq(Tasks) /\ mainq \in Seq(Posts) /\ postFailures \in 0..MaxPostFailures
      /\ mSavedEvents \in Seq(EventIds) /\ callBackLock \in {"free", "fse", "io"}
      /\ RunTask \in Tasks
      /\ mChangeCallbacksTable \in [Paths -> SUBSET Cbs]
      /\ mWatchedResourcesByPath \in SUBSET Paths
  BY DEF TypeInv, TypeOK, QueueTypeOK, TaskTypeOK, TableTypeOK, Tasks
<1>b. ASSUME NEW q \in Seq(Tasks) PROVE Reschedule(q) \in Seq(Tasks)
  BY <1>a DEF Reschedule
<1>c. UNCHANGED runVars => RunTypeOK' /\ io' = io
  BY Frame DEF runVars
<1>d. io = "paths" => mSavedEvents # <<>>
  BY DEF TypeInv, TypeOK
<1>r. /\ io \in {"idle", "events", "paths"} /\ passes \in Nat
      /\ returnedPaths \in Seq(Seq(STRING)) /\ runFailed \in BOOLEAN
      /\ lastHandled \in 0..MaxEvents
  BY DEF TypeInv, TypeOK, RunTypeOK
<1>1. CASE RunInShutdown
  <2>1. /\ IOTakes("run") /\ ioq' = Tail(ioq) /\ RunFrame
        /\ UNCHANGED <<mSavedEvents, callBackLock, mainq, runVars, postFailures>>
    BY <1>1 DEF RunInShutdown
  <2>2. ioq' \in Seq(Tasks)
    BY <2>1, CurrentType
  <2> QED
    BY <1>a, <1>c, <1>d, <2>1, <2>2, RunStepTypes
<1>2. CASE RunNothing
  <2>1. /\ IOTakes("run") /\ ioq' = Reschedule(Tail(ioq)) /\ RunFrame
        /\ UNCHANGED <<mSavedEvents, callBackLock, mainq, runVars, postFailures>>
    BY <1>2 DEF RunNothing
  <2>2. ioq' \in Seq(Tasks)
    BY <1>b, <2>1, CurrentType
  <2> QED
    BY <1>a, <1>c, <1>d, <2>1, <2>2, RunStepTypes
<1>3. CASE RunBegin
  <2>1. /\ IOTakes("run") /\ ioq' = Tail(ioq) /\ RunFrame /\ callBackLock' = "io"
        /\ io' = "events" /\ passes' = 0
        /\ UNCHANGED <<mSavedEvents, mainq, returnedPaths, runFailed, lastHandled, postFailures>>
    BY <1>3 DEF RunBegin
  <2>2. ioq' \in Seq(Tasks)
    BY <2>1, CurrentType
  <2>3. RunTypeOK'
    BY <1>r, <2>1 DEF RunTypeOK
  <2> QED
    BY <1>a, <2>1, <2>2, <2>3, RunStepTypes
<1>4. CASE RunEvent
  <2>1. /\ RunFrame /\ io = "events" /\ passes < Len(mSavedEvents)
        /\ returnedPaths' = getRecursivePaths(log[Event].path) /\ io' = "paths"
        /\ UNCHANGED <<mSavedEvents, callBackLock, mainq, ioq, passes, runFailed, lastHandled,
                       postFailures>>
    BY <1>4 DEF RunEvent, InRun
  <2>2. mSavedEvents # <<>> /\ 1 \in 1..Len(mSavedEvents)
    BY <1>a, <1>r, <2>1
  <2>3. Event = mSavedEvents[1] /\ Event \in EventIds
    BY <1>a, <2>2 DEF Event
  <2>4. Event <= position /\ position <= Len(log)
    BY <2>2, <2>3 DEF TypeInv, Known
  <2>5. log \in Seq([path : Files, flag : AllFlags]) /\ position \in Nat
    BY FSEventsAssumption DEF TypeInv, TypeOK, FSEventsTypeOK
  <2>6. Event \in 1..Len(log)
    BY <2>3, <2>4, <2>5, FSEventsAssumption DEF EventIds
  <2>7. log[Event] \in [path : Files, flag : AllFlags]
    <3>1. ASSUME NEW S, log \in Seq(S) PROVE log[Event] \in S
      BY <2>6, <3>1, ElementOfSeq
    <3> QED
      BY <2>5, <3>1
  <2>8. log[Event].path \in Seq(STRING)
    BY <2>7, FSEventsAssumption
  <2>9. RunTypeOK'
    BY <1>r, <2>1, <2>8, PathsOnTheWay DEF RunTypeOK
  <2> QED
    BY <1>a, <2>1, <2>2, <2>9, RunStepTypes
<1>5. CASE SkipUnwatched
  <2>1. /\ RunFrame /\ io = "paths" /\ returnedPaths # <<>> /\ returnedPaths' = Tail(returnedPaths)
        /\ UNCHANGED <<mSavedEvents, callBackLock, mainq, ioq, io, passes, runFailed,
                       lastHandled, postFailures>>
    BY <1>5 DEF SkipUnwatched, InRun
  <2>2. Tail(returnedPaths) \in Seq(Seq(STRING))
    BY <1>r, <2>1, TailOfQueue
  <2>3. RunTypeOK'
    BY <1>r, <2>1, <2>2 DEF RunTypeOK
  <2> QED
    BY <1>a, <1>d, <2>1, <2>3, RunStepTypes
<1>6. CASE DispatchChange
  <2>1. /\ RunFrame /\ io = "paths" /\ returnedPaths # <<>> /\ returnedPaths' = Tail(returnedPaths)
        /\ NextPath \in mWatchedResourcesByPath
        /\ PostChange(mChangeCallbacksTable[NextPath])
        /\ UNCHANGED <<mSavedEvents, callBackLock, ioq, io, passes, runFailed, lastHandled,
                       postFailures>>
    BY <1>6 DEF DispatchChange, InRun
  <2>2. Tail(returnedPaths) \in Seq(Seq(STRING))
    BY <1>r, <2>1, TailOfQueue
  <2>3. RunTypeOK'
    BY <1>r, <2>1, <2>2 DEF RunTypeOK
  <2>4. mChangeCallbacksTable[NextPath] \in SUBSET Cbs
    BY <1>a, <2>1
  <2>5. mainq' \in Seq(Posts)
    BY <2>1, <2>4, PostChangeTypes
  <2> QED
    BY <1>a, <1>d, <2>1, <2>3, <2>5, RunStepTypes
<1>7. CASE DispatchChangeFails
  <2>1. /\ RunFrame /\ io = "paths" /\ NextPath \in mWatchedResourcesByPath /\ PostFails
        /\ io' = "idle" /\ runFailed' = TRUE
        /\ UNCHANGED <<mSavedEvents, callBackLock, ioq, passes, returnedPaths, lastHandled>>
    BY <1>7 DEF DispatchChangeFails, InRun
  <2>2. PICK posted \in SUBSET mChangeCallbacksTable[NextPath] : PostChange(posted)
    BY <1>7 DEF DispatchChangeFails
  <2>3. posted \in SUBSET Cbs
    BY <1>a, <2>1, <2>2
  <2>4. mainq' \in Seq(Posts)
    BY <2>1, <2>2, <2>3, PostChangeTypes
  <2>5. postFailures' \in 0..MaxPostFailures
    BY <1>a, <2>1, WatcherAssumption DEF PostFails
  <2>6. RunTypeOK'
    BY <1>r, <2>1 DEF RunTypeOK
  <2> QED
    BY <1>a, <2>1, <2>4, <2>5, <2>6, RunStepTypes
<1>8. CASE RunPop
  <2>1. /\ RunFrame /\ io = "paths" /\ lastHandled' = Event /\ mSavedEvents' = Tail(mSavedEvents)
        /\ passes' = passes + 1 /\ io' = "events"
        /\ UNCHANGED <<callBackLock, mainq, ioq, returnedPaths, runFailed, postFailures>>
    BY <1>8 DEF RunPop, InRun
  <2>2. Event \in EventIds
    BY <1>a, <1>d, <2>1, TailOfQueue DEF Event
  <2>3. Event \in 0..MaxEvents
    BY <2>2, FSEventsAssumption DEF EventIds
  <2>4. RunTypeOK'
    BY <1>r, <2>1, <2>3 DEF RunTypeOK
  <2> QED
    BY <1>a, <1>d, <2>1, <2>4, RunStepTypes
<1>9. CASE RunEnd
  <2>1. /\ RunFrame /\ callBackLock' = "free" /\ io' = "idle" /\ ioq' = Reschedule(ioq)
        /\ UNCHANGED <<mSavedEvents, mainq, passes, returnedPaths, runFailed, lastHandled,
                       postFailures>>
    BY <1>9 DEF RunEnd, InRun
  <2>2. ioq' \in Seq(Tasks)
    BY <1>a, <1>b, <2>1
  <2>3. RunTypeOK'
    BY <1>r, <2>1 DEF RunTypeOK
  <2> QED
    BY <1>a, <2>1, <2>2, <2>3, RunStepTypes
<1> QED
  BY <1>1, <1>2, <1>3, <1>4, <1>5, <1>6, <1>7, <1>8, <1>9 DEF Run

(***************************************************************************)
(* The FSE thread.                                                         *)
(***************************************************************************)
LEMMA RebuildTypes ==
  ASSUME TypeInv, fseq # <<>>, UNCHANGED log, NEW paths \in SUBSET Paths, Rebuild(paths)
  PROVE  /\ FSEventsTypeOK' /\ sinceWhen' = sinceWhen /\ position' = position
         /\ fseq' \in Seq(FseTasks) /\ runLoopLock' = TRUE
<1>1. /\ StreamCreate(paths, sinceWhen) /\ runLoopLock' = TRUE
      /\ fseq' = Append(Tail(fseq), FseRunTask)
  BY DEF Rebuild
<1>2. fseq \in Seq(FseTasks) /\ FseRunTask \in FseTasks
  BY DEF TypeInv, TypeOK, TaskTypeOK, FseTasks
<1>3. fseq' \in Seq(FseTasks)
  BY <1>1, <1>2, TailOfQueue
<1> QED
  BY <1>1, <1>3, StreamCreateTypes

LEMMA FseTypes == TypeInv /\ FSE => TypeInv'
<1> SUFFICES ASSUME TypeInv, FSE PROVE TypeInv'
  OBVIOUS
<1>a. UNCHANGED <<mainVars, runVars, tableVars, ioq, mainq, postFailures, mWorkerFSERunnable,
                  mShuttingDown, io>>
  BY DEF FSE, watcherVars, runVars
<1>b. ServiceTypeOK' /\ RunTypeOK' /\ TableTypeOK' /\ QueueTypeOK'
  BY <1>a, Frame
<1>t. /\ fseq \in Seq(FseTasks) /\ mSavedEvents \in Seq(EventIds) /\ batch \in SUBSET EventIds
      /\ streamPaths \in SUBSET Paths /\ position \in 0..MaxEvents /\ position \in Nat
      /\ sinceWhen \in EventIds \cup {SinceNow}
      /\ log \in Seq([path : Files, flag : AllFlags]) /\ Len(log) \in Nat /\ Len(log) <= MaxEvents
      /\ MaxEvents \in Nat
  BY FSEventsAssumption DEF TypeInv, TypeOK, TaskTypeOK, FSEventsTypeOK
<1>s. io = "paths" => mSavedEvents # <<>>
  BY DEF TypeInv, TypeOK
<1>h. ASSUME NEW op, Takes(op)
      PROVE  /\ fseq # <<>> /\ Head(fseq) \in FseTasks /\ Tail(fseq) \in Seq(FseTasks)
             /\ op \in {"add", "remove"} => Head(fseq).path \in Paths
  <2>1. fseq # <<>> /\ Head(fseq).op = op
    BY <1>h DEF Takes
  <2>2. Head(fseq) \in FseTasks /\ Tail(fseq) \in Seq(FseTasks)
    BY <1>t, <2>1, TailOfQueue
  <2>3. \A t \in FseTasks : t.op \in {"add", "remove"} => t.path \in Paths
    BY DEF FseTasks, FseRunTask
  <2> QED
    BY <2>1, <2>2, <2>3
\* A step that leaves the stream and the events alone.
<1>q. ASSUME UNCHANGED <<fseventsVars, batch, mSavedEvents>>, TaskTypeOK' PROVE TypeInv'
  <2>1. Known' /\ (io = "paths" => mSavedEvents # <<>>)' /\ FSEventsTypeOK'
    BY <1>a, <1>q, Frame
  <2> QED
    BY <1>b, <1>q, <2>1 DEF TypeInv, TypeOK
\* A step that replaces the stream.
<1>r. ASSUME UNCHANGED <<log, batch, mSavedEvents, fse, loopVars, callBackLock, crash>>,
             FSEventsTypeOK', position' = position, sinceWhen' = sinceWhen,
             fseq' \in Seq(FseTasks), runLoopLock' \in BOOLEAN
      PROVE  TypeInv'
  <2>1. UNCHANGED <<stopRequested, childRunLoop>>
    BY <1>r DEF loopVars
  <2>2. TaskTypeOK'
    BY <1>r, <2>1 DEF TypeInv, TypeOK, TaskTypeOK
  <2>3. Known' /\ (io = "paths" => mSavedEvents # <<>>)'
    BY <1>a, <1>r, <1>s DEF TypeInv, Known
  <2> QED
    BY <1>b, <1>r, <2>2, <2>3 DEF TypeInv, TypeOK
<1>1. CASE FseRun
  <2>1. /\ Takes("run") /\ childRunLoop' = TRUE /\ StreamStart /\ runLoopLock' = FALSE
        /\ fseq' = Tail(fseq) /\ fse' = "entering"
        /\ UNCHANGED <<log, stopRequested, batch, mSavedEvents, callBackLock, crash>>
    BY <1>1 DEF FseRun, savedVars
  <2>2. fseq' \in Seq(FseTasks)
    BY <1>h, <2>1
  <2>3. TaskTypeOK'
    BY <2>1, <2>2 DEF TypeInv, TypeOK, TaskTypeOK
  <2>4. /\ streamState' = "started" /\ UNCHANGED <<streamPaths, sinceWhen>>
        /\ position' = IF sinceWhen = SinceNow THEN Len(log) ELSE sinceWhen
    BY <2>1 DEF StreamStart
  <2>5. sinceWhen # SinceNow => sinceWhen = position
    BY DEF TypeInv, Known
  <2>6. position <= Len(log)
    BY DEF TypeInv, Known
  <2>7. position' \in 0..MaxEvents /\ position <= position' /\ position' <= Len(log)
    BY <1>t, <2>4, <2>5, <2>6
  <2>8. FSEventsTypeOK'
    BY <1>t, <2>1, <2>4, <2>7 DEF FSEventsTypeOK
  <2>9. /\ \A b \in batch : b <= position'
        /\ \A n \in 1..Len(mSavedEvents) : mSavedEvents[n] <= position'
    <3>1. /\ \A b \in batch : b <= position /\ b \in Nat
          /\ \A n \in 1..Len(mSavedEvents) : mSavedEvents[n] <= position /\ mSavedEvents[n] \in Nat
      BY <1>t DEF TypeInv, Known, EventIds
    <3> QED
      BY <1>t, <2>7, <3>1
  <2>10. sinceWhen' # SinceNow => sinceWhen' = position'
    BY <2>4
  <2>11. Known'
    BY <2>1, <2>7, <2>9, <2>10 DEF Known
  <2> QED
    BY <1>a, <1>b, <1>s, <2>1, <2>3, <2>8, <2>11 DEF TypeInv, TypeOK
<1>2. CASE EnterRunLoop
  <2>1. /\ UNCHANGED <<fseventsVars, fseq, runLoopLock, childRunLoop, batch, mSavedEvents, callBackLock, crash>>
        /\ fse' = "loop" /\ stopRequested' = FALSE
    BY <1>2 DEF EnterRunLoop, savedVars
  <2>2. TaskTypeOK'
    BY <2>1 DEF TypeInv, TypeOK, TaskTypeOK
  <2> QED
    BY <1>q, <2>1, <2>2
<1>3. CASE LeaveRunLoop
  <2>1. /\ UNCHANGED <<fseventsVars, fseq, runLoopLock, childRunLoop, batch, mSavedEvents, callBackLock, crash>>
        /\ fse' = "idle" /\ stopRequested' = FALSE
    BY <1>3 DEF LeaveRunLoop, savedVars
  <2>2. TaskTypeOK'
    BY <2>1 DEF TypeInv, TypeOK, TaskTypeOK
  <2> QED
    BY <1>q, <2>1, <2>2
<1>4. CASE StreamCallback
  <2>1. /\ fse' = "callback"
        /\ UNCHANGED <<log, fseq, runLoopLock, stopRequested, childRunLoop, mSavedEvents,
                       callBackLock, crash>>
    BY <1>4 DEF StreamCallback, loopVars
  <2>2. PICK k \in Pending : StreamReports(k) /\ batch' = {m \in Pending : m <= k}
    BY <1>4 DEF StreamCallback
  <2>3. /\ k \in EventIds /\ k > position /\ k <= Len(log)
        /\ sinceWhen' = k /\ position' = k /\ UNCHANGED <<streamState, streamPaths>>
        /\ batch' \subseteq EventIds /\ \A b \in batch' : b <= k
    BY <2>2 DEF StreamReports, Pending
  <2>4. TaskTypeOK'
    BY <2>1, <2>3 DEF TypeInv, TypeOK, TaskTypeOK
  <2>5. position' \in 0..MaxEvents /\ k \in Nat
    BY <1>t, <2>3 DEF EventIds
  <2>6. FSEventsTypeOK'
    BY <1>t, <2>1, <2>3, <2>5 DEF TypeInv, TypeOK, FSEventsTypeOK
  <2>7. \A n \in 1..Len(mSavedEvents) : mSavedEvents[n] <= k
    <3>1. \A n \in 1..Len(mSavedEvents) : mSavedEvents[n] <= position /\ mSavedEvents[n] \in Nat
      BY <1>t DEF TypeInv, Known, EventIds
    <3> QED
      BY <1>t, <2>3, <2>5, <3>1
  <2>8. Known'
    BY <2>1, <2>3, <2>7 DEF Known
  <2> QED
    BY <1>a, <1>b, <1>s, <2>1, <2>4, <2>6, <2>8 DEF TypeInv, TypeOK
<1>5. CASE CallbackLock
  <2>1. /\ UNCHANGED <<fseventsVars, fseq, runLoopLock, stopRequested, childRunLoop, batch, mSavedEvents, crash>>
        /\ fse' = "pushing" /\ callBackLock' = "fse"
    BY <1>5 DEF CallbackLock, loopVars
  <2>2. TaskTypeOK'
    BY <2>1 DEF TypeInv, TypeOK, TaskTypeOK
  <2> QED
    BY <1>q, <2>1, <2>2
<1>6. CASE CallbackPush
  <2>1. UNCHANGED <<fseventsVars, fseq, fse, runLoopLock, stopRequested, childRunLoop, callBackLock, crash>>
    BY <1>6 DEF CallbackPush, loopVars
  <2>2. PICK k \in batch : /\ batch' = batch \ {k}
                           /\ mSavedEvents' = IF Saves(k) THEN Append(mSavedEvents, k) ELSE mSavedEvents
    BY <1>6 DEF CallbackPush
  <2>3. k \in EventIds /\ k <= position
    BY <1>t, <2>2 DEF TypeInv, Known
  <2>4. mSavedEvents' \in Seq(EventIds) /\ (mSavedEvents # <<>> => mSavedEvents' # <<>>)
    BY <1>t, <2>2, <2>3
  <2>5. \A n \in 1..Len(mSavedEvents') : mSavedEvents'[n] <= position
    <3>1. \A n \in 1..Len(mSavedEvents) : mSavedEvents[n] <= position
      BY DEF TypeInv, Known
    <3> QED
      BY <1>t, <2>2, <2>3, <3>1
  <2>6. TaskTypeOK'
    BY <1>t, <2>1, <2>2, <2>4 DEF TypeInv, TypeOK, TaskTypeOK
  <2>7. UNCHANGED <<log, position, sinceWhen>>
    BY <2>1 DEF fseventsVars, streamVars
  <2>8. Known'
    BY <2>2, <2>5, <2>7 DEF TypeInv, Known
  <2>9. FSEventsTypeOK'
    BY <2>1, Frame
  <2> QED
    BY <1>a, <1>b, <1>s, <2>4, <2>6, <2>8, <2>9 DEF TypeInv, TypeOK
<1>7. CASE CallbackUnlock
  <2>1. /\ UNCHANGED <<fseventsVars, fseq, runLoopLock, stopRequested, childRunLoop, batch, mSavedEvents, crash>>
        /\ fse' = "loop" /\ callBackLock' = "free"
    BY <1>7 DEF CallbackUnlock, loopVars
  <2>2. TaskTypeOK'
    BY <2>1 DEF TypeInv, TypeOK, TaskTypeOK
  <2> QED
    BY <1>q, <2>1, <2>2
<1>8. CASE FseAddPath
  <2>1. /\ Takes("add") /\ Rebuild(streamPaths \cup {Head(fseq).path})
        /\ UNCHANGED <<log, fse, loopVars, batch, mSavedEvents, callBackLock, crash>>
    BY <1>8 DEF FseAddPath, savedVars
  <2>2. streamPaths \cup {Head(fseq).path} \in SUBSET Paths /\ fseq # <<>>
    BY <1>h, <1>t, <2>1
  <2> QED
    BY <1>r, <2>1, <2>2, RebuildTypes
<1>9. CASE FseAddReleased
  <2>1. /\ UNCHANGED <<fseventsVars, fseq, fse, stopRequested, childRunLoop, batch, mSavedEvents, callBackLock>>
        /\ runLoopLock' = TRUE /\ crash' = "released_stream"
    BY <1>9 DEF FseAddReleased, loopVars, savedVars
  <2>2. TaskTypeOK'
    BY <2>1 DEF TypeInv, TypeOK, TaskTypeOK
  <2> QED
    BY <1>q, <2>1, <2>2
<1>10. CASE FseRemovePath
  <2>1. /\ Takes("remove") /\ Rebuild(streamPaths \ {Head(fseq).path})
        /\ UNCHANGED <<log, fse, loopVars, batch, mSavedEvents, callBackLock, crash>>
    BY <1>10 DEF FseRemovePath, savedVars
  <2>2. streamPaths \ {Head(fseq).path} \in SUBSET Paths /\ fseq # <<>>
    BY <1>h, <1>t, <2>1
  <2> QED
    BY <1>r, <2>1, <2>2, RebuildTypes
<1>11. CASE FseRemoveLast
  <2>1. /\ Takes("remove") /\ StreamRelease /\ fseq' = Tail(fseq)
        /\ UNCHANGED <<log, fse, runLoopLock, loopVars, batch, mSavedEvents, callBackLock, crash>>
    BY <1>11 DEF FseRemoveLast, savedVars
  <2>2. fseq' \in Seq(FseTasks)
    BY <1>h, <2>1
  <2>3. /\ streamState' = "released" /\ streamPaths' = {} /\ UNCHANGED <<sinceWhen, position>>
    BY <2>1 DEF StreamRelease
  <2>4. FSEventsTypeOK'
    BY <2>1, <2>3 DEF TypeInv, TypeOK, FSEventsTypeOK
  <2>5. runLoopLock' \in BOOLEAN
    BY <2>1 DEF TypeInv, TypeOK, TaskTypeOK
  <2> QED
    BY <1>r, <2>1, <2>2, <2>3, <2>4, <2>5
<1> QED
  BY <1>1, <1>2, <1>3, <1>4, <1>5, <1>6, <1>7, <1>8, <1>9, <1>10, <1>11 DEF FSE, FseThread

LEMMA StutterTypes == TypeInv /\ UNCHANGED vars => TypeInv'
<1> SUFFICES ASSUME TypeInv, UNCHANGED vars PROVE TypeInv'
  OBVIOUS
<1>1. UNCHANGED <<fseventsVars, taskVars, crash, mainVars, runVars, tableVars, ioq, mainq,
                  postFailures, mWorkerFSERunnable, mShuttingDown>>
  BY DEF vars, watcherVars
<1>2. UNCHANGED <<batch, mSavedEvents, io>>
  BY <1>1 DEF taskVars, savedVars, runVars
<1> QED
  BY <1>1, <1>2, Frame DEF TypeInv, TypeOK

\* Every variable of the macOS port keeps its type.
THEOREM TypesHold == Spec => []TypeInv
<1>1. TypeInv /\ [Next]_vars => TypeInv'
  BY MainTypes, DeliverTypes, RunTypes, AddTypes, RemoveTypes, DeactivateTypes, FseTypes,
     FileSystemTypes, StutterTypes DEF Next, IOThread
<1> QED
  BY <1>1, InitTypeInv, PTL DEF Spec

\* Every variable of the stream, of the threads, of the tables and of the queues
\* keeps its type.
THEOREM TypeCorrect == Spec => []TypeOK
  BY TypesHold, PTL DEF TypeInv

-----------------------------------------------------------------------------
(***************************************************************************)
(* What a step does to the FSE thread's queue, the lock and the stream.    *)
(***************************************************************************)
taskFrame == <<fseq, runLoopLock, streamPaths, childRunLoop, mWatchedResourcesByPath,
               mWorkerFSERunnable>>

Internal ==
  /\ UNCHANGED <<taskFrame, mShuttingDown>>
  /\ fse' = fse \/ (fse # "none" /\ fse' # "none")

ShutsDown ==
  /\ UNCHANGED <<fseq, runLoopLock, streamPaths, childRunLoop, mWorkerFSERunnable, fse>>
  /\ mShuttingDown' = TRUE /\ mWatchedResourcesByPath' = {}

FirstPath ==
  /\ ~mWorkerFSERunnable /\ mWorkerFSERunnable' = TRUE
  /\ runLoopLock' = TRUE
  /\ \E p \in Paths :
        /\ streamPaths' = {p}
        /\ \/ /\ fse' = "idle" /\ fseq' = <<FseRunTask>>
              /\ mWatchedResourcesByPath' = mWatchedResourcesByPath \cup {p}
           \/ UNCHANGED <<fse, fseq, mWatchedResourcesByPath>>
  /\ UNCHANGED <<childRunLoop, mShuttingDown>>

Ordered ==
  /\ childRunLoop
  /\ UNCHANGED <<runLoopLock, streamPaths, childRunLoop, mWorkerFSERunnable, mShuttingDown, fse>>
  /\ \E p \in Paths :
        \/ /\ fseq' = Append(fseq, [op |-> "add", path |-> p])
           /\ mWatchedResourcesByPath' = mWatchedResourcesByPath \cup {p}
        \/ /\ fseq' = Append(fseq, [op |-> "remove", path |-> p])
           /\ mWatchedResourcesByPath' = mWatchedResourcesByPath \ {p}

Started ==
  /\ fse # "none" /\ fse' # "none" /\ fseq # <<>> /\ Head(fseq) = FseRunTask
  /\ fseq' = Tail(fseq) /\ runLoopLock' = FALSE
  /\ UNCHANGED <<streamPaths, mWatchedResourcesByPath, mWorkerFSERunnable, mShuttingDown>>

\* The paths after the order that is at the head of the queue.
Obeyed(t) == IF t.op = "add" THEN streamPaths \cup {t.path} ELSE streamPaths \ {t.path}

Rebuilt ==
  /\ fse # "none" /\ fse' = fse /\ fseq # <<>> /\ Head(fseq) # FseRunTask /\ ~runLoopLock
  /\ streamPaths' = Obeyed(Head(fseq))
  /\ \/ fseq' = Append(Tail(fseq), FseRunTask) /\ runLoopLock' = TRUE
     \/ fseq' = Tail(fseq) /\ runLoopLock' = FALSE
  /\ UNCHANGED <<childRunLoop, mWatchedResourcesByPath, mWorkerFSERunnable, mShuttingDown>>

TaskStep == Internal \/ ShutsDown \/ FirstPath \/ Ordered \/ Started \/ Rebuilt

LEMMA FseTaskStep == TypeInv /\ FSE /\ Alive' => TaskStep
<1> SUFFICES ASSUME TypeInv, FSE, Alive' PROVE TaskStep
  OBVIOUS
<1>a. UNCHANGED <<mWatchedResourcesByPath, mWorkerFSERunnable, mShuttingDown>>
  BY DEF FSE, watcherVars, tableVars
<1>b. UNCHANGED <<fseventsVars, fseq, runLoopLock, childRunLoop>> /\ fse # "none" /\ fse' # "none"
      => TaskStep
  BY <1>a DEF TaskStep, Internal, taskFrame, fseventsVars, streamVars
<1>t. fseq \in Seq(FseTasks) /\ streamPaths \in SUBSET Paths
  BY DEF TypeInv, TypeOK, TaskTypeOK, FSEventsTypeOK
<1>h. ASSUME NEW op, Takes(op)
      PROVE  fse = "idle" /\ fseq # <<>> /\ Head(fseq) \in FseTasks /\ Head(fseq).op = op
  BY <1>h, <1>t, TailOfQueue DEF Takes
<1>1. CASE FseRun
  <2>1. /\ Takes("run") /\ StreamStart /\ runLoopLock' = FALSE /\ fseq' = Tail(fseq)
        /\ fse' = "entering"
    BY <1>1 DEF FseRun
  <2>2. Head(fseq) = FseRunTask
    BY <1>h, <2>1 DEF FseTasks
  <2>3. streamPaths' = streamPaths
    BY <2>1 DEF StreamStart
  <2> QED
    BY <1>a, <1>h, <2>1, <2>2, <2>3 DEF TaskStep, Started
<1>2. CASE EnterRunLoop \/ LeaveRunLoop \/ CallbackLock \/ CallbackUnlock \/ CallbackPush
  BY <1>b, <1>2 DEF EnterRunLoop, LeaveRunLoop, CallbackLock, CallbackUnlock, CallbackPush, loopVars
<1>3. CASE StreamCallback
  <2>1. /\ UNCHANGED <<fseq, runLoopLock, childRunLoop>> /\ fse = "loop" /\ fse' = "callback"
    BY <1>3 DEF StreamCallback, loopVars
  <2>2. streamPaths' = streamPaths
    BY <1>3 DEF StreamCallback, StreamReports
  <2> QED
    BY <1>a, <2>1, <2>2 DEF TaskStep, Internal, taskFrame
<1>4. CASE FseAddPath
  <2>1. /\ Takes("add") /\ ~runLoopLock /\ Rebuild(streamPaths \cup {Head(fseq).path})
        /\ fse' = fse /\ childRunLoop' = childRunLoop
    BY <1>4 DEF FseAddPath, loopVars
  <2>2. /\ streamPaths' = streamPaths \cup {Head(fseq).path} /\ runLoopLock' = TRUE
        /\ fseq' = Append(Tail(fseq), FseRunTask)
    BY <2>1 DEF Rebuild, StreamCreate
  <2>3. Head(fseq) # FseRunTask /\ Head(fseq).op = "add"
    BY <1>h, <2>1 DEF FseRunTask
  <2>4. streamPaths' = Obeyed(Head(fseq))
    BY <2>2, <2>3 DEF Obeyed
  <2> QED
    BY <1>a, <1>h, <2>1, <2>2, <2>3, <2>4 DEF TaskStep, Rebuilt
<1>5. CASE FseAddReleased
  BY <1>5 DEF FseAddReleased, Alive
<1>6. CASE FseRemovePath
  <2>1. /\ Takes("remove") /\ ~runLoopLock /\ Rebuild(streamPaths \ {Head(fseq).path})
        /\ fse' = fse /\ childRunLoop' = childRunLoop
    BY <1>6 DEF FseRemovePath, loopVars
  <2>2. /\ streamPaths' = streamPaths \ {Head(fseq).path} /\ runLoopLock' = TRUE
        /\ fseq' = Append(Tail(fseq), FseRunTask)
    BY <2>1 DEF Rebuild, StreamCreate
  <2>3. Head(fseq) # FseRunTask /\ Head(fseq).op # "add"
    BY <1>h, <2>1 DEF FseRunTask
  <2>4. streamPaths' = Obeyed(Head(fseq))
    BY <2>2, <2>3 DEF Obeyed
  <2> QED
    BY <1>a, <1>h, <2>1, <2>2, <2>3, <2>4 DEF TaskStep, Rebuilt
<1>7. CASE FseRemoveLast
  <2>1. /\ Takes("remove") /\ ~runLoopLock /\ streamPaths = {Head(fseq).path}
        /\ fse' = fse /\ childRunLoop' = childRunLoop /\ fseq' = Tail(fseq)
        /\ runLoopLock' = runLoopLock /\ streamPaths' = {}
    BY <1>7 DEF FseRemoveLast, loopVars, StreamRelease
  <2>3. Head(fseq) # FseRunTask /\ Head(fseq).op # "add"
    BY <1>h, <2>1 DEF FseRunTask
  <2>4. streamPaths' = Obeyed(Head(fseq)) /\ runLoopLock' = FALSE
    BY <2>1, <2>3 DEF Obeyed, TypeInv, TypeOK, TaskTypeOK
  <2> QED
    BY <1>a, <1>h, <2>1, <2>3, <2>4 DEF TaskStep, Rebuilt
<1> QED
  BY <1>1, <1>2, <1>3, <1>4, <1>5, <1>6, <1>7 DEF FSE, FseThread

LEMMA CallTaskStep == TypeInv /\ (AddPathRunnable \/ RemovePathRunnable) /\ Alive' => TaskStep
<1> SUFFICES ASSUME TypeInv, AddPathRunnable \/ RemovePathRunnable, Alive' PROVE TaskStep
  OBVIOUS
<1>a. (IOTakes("add") \/ IOTakes("remove")) /\ mShuttingDown' = mShuttingDown
  BY DEF AddPathRunnable, Adds, AddMissing, AddKnown, AddFirst, AddFirstFails, AddNext,
         AddDispatchFails, AddNoRunLoop, RemovePathRunnable, Removes, RemoveUnwatched, RemoveUnregistered,
         RemoveOne, RemoveLast, RemoveDispatchFails, RemoveNoRunLoop, Ends
<1>b. Current.path \in Paths
  BY <1>a, CurrentType DEF Calls
<1>i. UNCHANGED <<streamVars, taskVars, mWatchedResourcesByPath, mWorkerFSERunnable>> => TaskStep
  BY <1>a DEF TaskStep, Internal, taskFrame, streamVars, taskVars, loopVars
<1>1. CASE AddMissing \/ AddKnown
  BY <1>1, <1>i DEF AddMissing, AddKnown, tableVars
<1>2. CASE AddFirst
  <2>1. /\ ~mWorkerFSERunnable /\ mWorkerFSERunnable' = TRUE
        /\ NewTask(Current.path) /\ NewThread /\ AddEntry /\ UNCHANGED loopVars
    BY <1>2 DEF AddFirst
  <2>2. /\ runLoopLock' = TRUE /\ streamPaths' = {Current.path} /\ fse' = "idle"
        /\ fseq' = <<FseRunTask>> /\ childRunLoop' = childRunLoop
        /\ mWatchedResourcesByPath' = mWatchedResourcesByPath \cup {Current.path}
    BY <2>1 DEF NewTask, StreamCreate, NewThread, AddEntry, loopVars
  <2> QED
    BY <1>a, <1>b, <2>1, <2>2 DEF TaskStep, FirstPath
<1>3. CASE AddFirstFails
  <2>1. /\ ~mWorkerFSERunnable /\ mWorkerFSERunnable' = TRUE
        /\ NewTask(Current.path) /\ UNCHANGED <<fseq, fse, loopVars, tableVars>>
    BY <1>3 DEF AddFirstFails
  <2>2. /\ runLoopLock' = TRUE /\ streamPaths' = {Current.path}
        /\ UNCHANGED <<fseq, fse, mWatchedResourcesByPath, childRunLoop>>
    BY <2>1 DEF NewTask, StreamCreate, loopVars, tableVars
  <2> QED
    BY <1>a, <1>b, <2>1, <2>2 DEF TaskStep, FirstPath
<1>4. CASE AddNext
  <2>1. /\ childRunLoop /\ StopAndDispatch("add", Current.path) /\ AddEntry
        /\ UNCHANGED <<streamVars, mWorkerFSERunnable>>
    BY <1>4 DEF AddNext
  <2>2. /\ fseq' = Append(fseq, [op |-> "add", path |-> Current.path])
        /\ UNCHANGED <<fse, runLoopLock, childRunLoop, streamPaths, mWorkerFSERunnable>>
        /\ mWatchedResourcesByPath' = mWatchedResourcesByPath \cup {Current.path}
    BY <2>1 DEF StopAndDispatch, AddEntry, streamVars
  <2> QED
    BY <1>a, <1>b, <2>1, <2>2 DEF TaskStep, Ordered
<1>5. CASE RemoveUnwatched \/ RemoveOne
  BY <1>5, <1>i DEF RemoveUnwatched, RemoveOne, Removes, tableVars
<1>6. CASE RemoveLast
  <2>1. /\ childRunLoop /\ StopAndDispatch("remove", Current.path) /\ RemoveEntry(Current)
        /\ UNCHANGED <<streamVars, mWorkerFSERunnable>>
    BY <1>6 DEF RemoveLast, Removes
  <2>2. /\ fseq' = Append(fseq, [op |-> "remove", path |-> Current.path])
        /\ UNCHANGED <<fse, runLoopLock, childRunLoop, streamPaths, mWorkerFSERunnable>>
        /\ mWatchedResourcesByPath' = mWatchedResourcesByPath \ {Current.path}
    BY <2>1 DEF StopAndDispatch, RemoveEntry, streamVars
  <2> QED
    BY <1>a, <1>b, <2>1, <2>2 DEF TaskStep, Ordered
<1>7. CASE AddNoRunLoop \/ RemoveUnregistered \/ RemoveNoRunLoop
  BY <1>7 DEF AddNoRunLoop, RemoveUnregistered, RemoveNoRunLoop, Alive
<1>8. CASE AddDispatchFails \/ RemoveDispatchFails
  <2>1. /\ StopWithoutDispatch
        /\ UNCHANGED <<streamVars, mWatchedResourcesByPath, mWorkerFSERunnable>>
    BY <1>8 DEF AddDispatchFails, RemoveDispatchFails, Removes, tableVars
  <2> QED
    BY <1>a, <2>1 DEF StopWithoutDispatch, TaskStep, Internal, taskFrame, streamVars
<1> QED
  BY <1>1, <1>2, <1>3, <1>4, <1>5, <1>6, <1>7, <1>8 DEF AddPathRunnable, RemovePathRunnable

LEMMA TaskSteps == TypeInv /\ [Next]_vars /\ Alive' => TaskStep
<1> SUFFICES ASSUME TypeInv, [Next]_vars, Alive' PROVE TaskStep
  OBVIOUS
<1>i. UNCHANGED <<fseventsVars, taskVars, tableVars, mWorkerFSERunnable, mShuttingDown>> => TaskStep
  BY DEF TaskStep, Internal, taskFrame, fseventsVars, streamVars, taskVars, loopVars, tableVars
<1>1. CASE MainThread
  BY <1>1, <1>i DEF MainThread, ServiceInit, AddPath, RemovePath, DispatchCall, Uninit, DispatchToIO
<1>2. CASE DeliverNext
  BY <1>2, <1>i DEF DeliverNext, DeliverChange, DeliverSuccess, Delivered
<1>3. CASE Run
  <2>1. RunFrame
    BY <1>3 DEF Run, RunInShutdown, RunNothing, RunBegin, RunEvent, SkipUnwatched, DispatchChange,
                DispatchChangeFails, RunPop, RunEnd, InRun
  <2> QED
    BY <2>1 DEF RunFrame, TaskStep, Internal, taskFrame, fseventsVars, streamVars, loopVars, tableVars
<1>4. CASE DeactivateRunnable
  <2>1. /\ mShuttingDown' = TRUE /\ mWatchedResourcesByPath' = {}
        /\ UNCHANGED <<fseventsVars, taskVars, mWorkerFSERunnable>>
    BY <1>4 DEF DeactivateRunnable
  <2> QED
    BY <2>1 DEF TaskStep, ShutsDown, fseventsVars, streamVars, taskVars, loopVars
<1>5. CASE FileSystem
  <2>1. UNCHANGED <<streamVars, taskVars, watcherVars>>
    BY <1>5 DEF FileSystem, FsNext, Touch
  <2> QED
    BY <2>1 DEF TaskStep, Internal, taskFrame, streamVars, taskVars, loopVars, watcherVars, tableVars
<1>6. CASE UNCHANGED vars
  BY <1>6, <1>i DEF vars, watcherVars
<1> QED
  BY <1>1, <1>2, <1>3, <1>4, <1>5, <1>6, FseTaskStep, CallTaskStep DEF Next, IOThread

\* A dead process stays dead.
LEMMA DeadStaysDead == TypeInv /\ [Next]_vars /\ Alive' => Alive
<1> SUFFICES ASSUME TypeInv, [Next]_vars, ~Alive PROVE ~Alive'
  OBVIOUS
<1>1. CASE ServiceInit
  BY <1>1 DEF ServiceInit, Alive
<1>2. CASE UNCHANGED vars
  BY <1>2 DEF vars, Alive
<1>3. CASE MainThread /\ ~ServiceInit
  BY <1>3 DEF MainThread, AddPath, RemovePath, DispatchCall, Uninit, DispatchToIO
<1>4. CASE DeliverNext
  BY <1>4 DEF DeliverNext, DeliverChange, DeliverSuccess, Delivered
<1>5. CASE Run
  BY <1>5 DEF Run, RunInShutdown, RunNothing, RunBegin, RunEvent, SkipUnwatched, DispatchChange,
              DispatchChangeFails, RunPop, RunEnd, InRun, IOTakes
<1>6. CASE AddPathRunnable
  BY <1>6 DEF AddPathRunnable, Adds, AddMissing, AddKnown, AddFirst, AddFirstFails, AddNext,
              AddDispatchFails, AddNoRunLoop, IOTakes
<1>7. CASE RemovePathRunnable
  BY <1>7 DEF RemovePathRunnable, Removes, RemoveUnwatched, RemoveUnregistered,
              RemoveOne, RemoveLast, RemoveDispatchFails, RemoveNoRunLoop, IOTakes
<1>8. CASE DeactivateRunnable
  BY <1>8 DEF DeactivateRunnable, IOTakes
<1>9. CASE FSE
  BY <1>9 DEF FSE, FseThread, FseRun, EnterRunLoop, LeaveRunLoop, StreamCallback, CallbackLock,
              CallbackPush, CallbackUnlock, FseAddPath, FseAddReleased, FseRemovePath,
              FseRemoveLast, Takes
<1>10. CASE FileSystem
  BY <1>10 DEF FileSystem
<1> QED
  BY <1>1, <1>2, <1>3, <1>4, <1>5, <1>6, <1>7, <1>8, <1>9, <1>10 DEF Next, IOThread

(***************************************************************************)
(* The lock.                                                               *)
(***************************************************************************)
LockInv ==
  /\ fse = "none" => fseq = <<>> /\ ~childRunLoop /\ mWatchedResourcesByPath = {}
  /\ ~mWorkerFSERunnable => fse = "none"
  /\ LockPaired

LEMMA OneRunAtTheEnd ==
  ASSUME NEW q \in Seq(FseTasks), \A n \in 1..Len(q) : q[n] # FseRunTask,
         NEW s, s = Append(q, FseRunTask)
  PROVE  /\ \A m, n \in 1..Len(s) : s[m] = FseRunTask /\ s[n] = FseRunTask => m = n
         /\ \E n \in 1..Len(s) : s[n] = FseRunTask
<1>1. FseRunTask \in FseTasks
  BY DEF FseTasks
<1>2. /\ Len(s) = Len(q) + 1 /\ Len(q) \in Nat
      /\ \A n \in 1..Len(q) : s[n] = q[n]
      /\ s[Len(q) + 1] = FseRunTask
  BY <1>1, AppendedQueue
<1>3. ASSUME NEW n \in 1..Len(s), s[n] = FseRunTask PROVE n = Len(q) + 1
  BY <1>2, <1>3
<1>4. Len(q) + 1 \in 1..Len(s)
  BY <1>2
<1> QED
  BY <1>2, <1>3, <1>4

LEMMA LockStep == TypeInv /\ LockInv /\ Alive /\ TaskStep /\ TypeInv' => LockInv'
<1> SUFFICES ASSUME TypeInv, LockInv, Alive, TaskStep, TypeInv' PROVE LockInv'
  OBVIOUS
<1>t. fseq \in Seq(FseTasks) /\ FseRunTask \in FseTasks
  BY DEF TypeInv, TypeOK, TaskTypeOK, FseTasks
<1>o. \A p : /\ [op |-> "add", path |-> p] # FseRunTask
             /\ [op |-> "remove", path |-> p] # FseRunTask
  BY DEF FseRunTask
<1>l. fse # "none" => /\ \A m, n \in 1..Len(fseq) :
                            fseq[m] = FseRunTask /\ fseq[n] = FseRunTask => m = n
                      /\ runLoopLock <=> \E n \in 1..Len(fseq) : fseq[n] = FseRunTask
  BY DEF LockInv, LockPaired, RunsQueued
\* What the queue has to satisfy after the step.
<1>g. ASSUME /\ \A m, n \in 1..Len(fseq') :
                   fseq'[m] = FseRunTask /\ fseq'[n] = FseRunTask => m = n
             /\ runLoopLock' <=> \E n \in 1..Len(fseq') : fseq'[n] = FseRunTask
      PROVE  LockPaired'
  BY <1>g DEF LockPaired, RunsQueued
<1>1. CASE Internal
  <2>1. UNCHANGED <<fseq, runLoopLock, childRunLoop, mWatchedResourcesByPath, mWorkerFSERunnable>>
        /\ (fse' = fse \/ (fse # "none" /\ fse' # "none"))
    BY <1>1 DEF Internal, taskFrame
  <2>2. LockPaired'
    BY <1>l, <2>1 DEF LockPaired, RunsQueued
  <2> QED
    BY <2>1, <2>2 DEF LockInv
<1>2. CASE ShutsDown
  <2>1. LockPaired'
    BY <1>l, <1>2 DEF ShutsDown, LockPaired, RunsQueued
  <2> QED
    BY <1>2, <2>1 DEF ShutsDown, LockInv
<1>3. CASE FirstPath
  <2>1. /\ mWorkerFSERunnable' = TRUE /\ runLoopLock' = TRUE /\ fse = "none"
        /\ \/ fse' = "idle" /\ fseq' = <<FseRunTask>>
           \/ UNCHANGED <<fse, fseq, mWatchedResourcesByPath, childRunLoop>>
    BY <1>3 DEF FirstPath, LockInv
  <2>2. CASE fse' = "idle" /\ fseq' = <<FseRunTask>>
    <3>1. Len(fseq') = 1 /\ fseq'[1] = FseRunTask
      BY <2>2
    <3>2. LockPaired'
      BY <1>g, <2>1, <3>1
    <3> QED
      BY <2>1, <2>2, <3>2 DEF LockInv
  <2>3. CASE UNCHANGED <<fse, fseq, mWatchedResourcesByPath, childRunLoop>>
    <3>1. LockPaired'
      BY <2>1, <2>3 DEF LockPaired
    <3> QED
      BY <2>1, <2>3, <3>1 DEF LockInv
  <2> QED
    BY <2>1, <2>2, <2>3
<1>4. CASE Ordered
  <2>1. fse # "none" /\ UNCHANGED <<runLoopLock, mWorkerFSERunnable, fse>>
    BY <1>4 DEF Ordered, LockInv
  <2>2. PICK t \in FseTasks : t # FseRunTask /\ fseq' = Append(fseq, t)
    BY <1>4, <1>o DEF Ordered, FseTasks
  <2>3. /\ Len(fseq') = Len(fseq) + 1 /\ Len(fseq) \in Nat
        /\ \A n \in 1..Len(fseq) : fseq'[n] = fseq[n]
        /\ fseq'[Len(fseq) + 1] = t
    BY <1>t, <2>2, AppendedQueue
  <2>4. LockPaired'
    BY <1>g, <1>l, <2>1, <2>2, <2>3
  <2> QED
    BY <2>1, <2>4 DEF LockInv
<1>5. CASE Started
  <2>1. /\ fse # "none" /\ fse' # "none" /\ fseq # <<>> /\ Head(fseq) = FseRunTask
        /\ fseq' = Tail(fseq) /\ runLoopLock' = FALSE /\ mWorkerFSERunnable' = mWorkerFSERunnable
    BY <1>5 DEF Started
  <2>2. /\ fseq[1] = FseRunTask /\ Len(fseq') = Len(fseq) - 1 /\ Len(fseq) \in Nat \ {0}
        /\ \A n \in 1..Len(fseq') : fseq'[n] = fseq[n + 1] /\ n + 1 \in 1..Len(fseq)
    BY <1>t, <2>1, TailOfQueue
  <2>3. \A n \in 1..Len(fseq') : fseq'[n] # FseRunTask
    BY <1>l, <2>1, <2>2
  <2>4. LockPaired'
    BY <1>g, <2>1, <2>3
  <2> QED
    BY <2>1, <2>4 DEF LockInv
<1>6. CASE Rebuilt
  <2>1. /\ fse # "none" /\ fse' = fse /\ fseq # <<>> /\ Head(fseq) # FseRunTask /\ ~runLoopLock
        /\ mWorkerFSERunnable' = mWorkerFSERunnable
        /\ \/ fseq' = Append(Tail(fseq), FseRunTask) /\ runLoopLock' = TRUE
           \/ fseq' = Tail(fseq) /\ runLoopLock' = FALSE
    BY <1>6 DEF Rebuilt
  <2>2. /\ Tail(fseq) \in Seq(FseTasks) /\ Len(Tail(fseq)) = Len(fseq) - 1
        /\ \A n \in 1..Len(Tail(fseq)) : Tail(fseq)[n] = fseq[n + 1] /\ n + 1 \in 1..Len(fseq)
    BY <1>t, <2>1, TailOfQueue
  <2>3. \A n \in 1..Len(Tail(fseq)) : Tail(fseq)[n] # FseRunTask
    BY <1>l, <2>1, <2>2
  <2>4. ASSUME fseq' = Append(Tail(fseq), FseRunTask), runLoopLock' = TRUE
        PROVE  LockPaired'
    BY <1>g, <2>2, <2>3, <2>4, OneRunAtTheEnd
  <2>5. ASSUME fseq' = Tail(fseq), runLoopLock' = FALSE
        PROVE  LockPaired'
    BY <1>g, <2>3, <2>5
  <2>7. LockPaired'
    BY <2>1, <2>4, <2>5
  <2> QED
    BY <2>1, <2>7 DEF LockInv
<1> QED
  BY <1>1, <1>2, <1>3, <1>4, <1>5, <1>6 DEF TaskStep

LEMMA LockInvariant == Spec => [](Alive => LockInv)
<1>1. Init => LockInv
  BY DEF Init, TaskInit, LockInv, LockPaired
<1>2. TypeInv /\ TypeInv' /\ (Alive => LockInv) /\ [Next]_vars => (Alive => LockInv)'
  BY TaskSteps, DeadStaysDead, LockStep
<1> QED
  BY <1>1, <1>2, TypesHold, PTL DEF Spec

\* The lock of the FSE task is held exactly while one Run is queued to unlock it.
THEOREM LockDiscipline == Spec => []LockPaired
<1>1. (Alive => LockInv) => LockPaired
  BY DEF LockInv, LockPaired
<1> QED
  BY <1>1, LockInvariant, PTL
-----------------------------------------------------------------------------
(***************************************************************************)
(* The stream follows the table: what the tail of the queue, or one more   *)
(* order at its end, leaves watched.                                       *)
(***************************************************************************)
LEMMA OrderAppended ==
  ASSUME NEW q \in Seq(FseTasks), NEW t \in FseTasks, NEW paths, NEW p
  PROVE  EndsUpWatched(Append(q, t), paths, p) <=>
            IF t.op # "run" /\ t.path = p THEN t.op = "add" ELSE EndsUpWatched(q, paths, p)
<1> DEFINE s == Append(q, t)
<1>1. /\ Len(s) = Len(q) + 1 /\ Len(q) \in Nat
      /\ \A n \in 1..Len(q) : s[n] = q[n]
      /\ s[Len(q) + 1] = t
  BY AppendedQueue
<1> HIDE DEF s
<1>2. CASE t.op # "run" /\ t.path = p
  <2>1. Len(q) + 1 \in Orders(s, p)
    BY <1>1, <1>2 DEF Orders
  <2>2. \A n \in Orders(s, p) : n \in Nat /\ n <= Len(q) + 1
    BY <1>1 DEF Orders
  <2>3. \A n \in Orders(s, p) : Len(q) + 1 <= n => n = Len(q) + 1
    BY <1>1, <2>2
  <2>4. EndsUpWatched(s, paths, p) <=> s[Len(q) + 1].op = "add"
    BY <2>1, <2>2, <2>3 DEF EndsUpWatched
  <2> QED
    BY <1>1, <1>2, <2>4 DEF s
<1>3. CASE ~(t.op # "run" /\ t.path = p)
  <2>1. Orders(s, p) = Orders(q, p)
    BY <1>1, <1>3 DEF Orders
  <2>2. \A n \in Orders(q, p) : s[n] = q[n]
    BY <1>1 DEF Orders
  <2>3. EndsUpWatched(s, paths, p) <=> EndsUpWatched(q, paths, p)
    BY <2>1, <2>2 DEF EndsUpWatched
  <2> QED
    BY <1>3, <2>3 DEF s
<1> QED
  BY <1>2, <1>3

LEMMA HeadObeyed ==
  ASSUME NEW q \in Seq(FseTasks), q # <<>>, NEW old, NEW new, NEW p,
         p \in new <=> IF Head(q).op # "run" /\ Head(q).path = p THEN Head(q).op = "add" ELSE p \in old
  PROVE  EndsUpWatched(Tail(q), new, p) <=> EndsUpWatched(q, old, p)
<1> DEFINE s == Tail(q)
<1>1. /\ Head(q) = q[1] /\ Len(s) = Len(q) - 1 /\ Len(q) \in Nat \ {0}
      /\ \A n \in 1..Len(s) : s[n] = q[n + 1] /\ n + 1 \in 1..Len(q)
  BY TailOfQueue
<1> HIDE DEF s
<1>2. \A n \in Orders(s, p) : n \in Nat \ {0} /\ n + 1 \in Orders(q, p) /\ s[n] = q[n + 1]
  BY <1>1 DEF Orders
<1>3. \A n \in Orders(q, p) : n \in Nat \ {0} /\ (n # 1 => n - 1 \in Orders(s, p) /\ q[n] = s[n - 1])
  <2> SUFFICES ASSUME NEW n \in Orders(q, p)
               PROVE  n \in Nat \ {0} /\ (n # 1 => n - 1 \in Orders(s, p) /\ q[n] = s[n - 1])
    OBVIOUS
  <2>1. n \in 1..Len(q) /\ q[n].op # "run" /\ q[n].path = p
    BY DEF Orders
  <2>2. n # 1 => n - 1 \in 1..Len(s) /\ (n - 1) + 1 = n
    BY <1>1, <2>1
  <2>3. n # 1 => s[n - 1] = q[n]
    BY <1>1, <2>2
  <2> QED
    BY <1>1, <2>1, <2>2, <2>3 DEF Orders
<1>4. 1 \in Orders(q, p) <=> Head(q).op # "run" /\ Head(q).path = p
  BY <1>1 DEF Orders
<1>5. CASE Orders(s, p) = {}
  <2>1. \A n \in Orders(q, p) : n = 1
    BY <1>3, <1>5
  <2>2. EndsUpWatched(s, new, p) <=> p \in new
    BY <1>5 DEF EndsUpWatched
  <2>3. CASE 1 \in Orders(q, p)
    <3>1. EndsUpWatched(q, old, p) <=> q[1].op = "add"
      BY <2>1, <2>3 DEF EndsUpWatched
    <3> QED
      BY <1>1, <1>4, <2>2, <2>3, <3>1 DEF s
  <2>4. CASE 1 \notin Orders(q, p)
    <3>1. Orders(q, p) = {}
      BY <2>1, <2>4
    <3> QED
      BY <1>4, <2>2, <2>4, <3>1 DEF EndsUpWatched, s
  <2> QED
    BY <2>3, <2>4
<1>6. CASE Orders(s, p) # {}
  <2>1. Orders(q, p) # {}
    BY <1>2, <1>6
  <2>2. ASSUME NEW n \in Orders(s, p), \A m \in Orders(s, p) : m <= n
        PROVE  \A m \in Orders(q, p) : m <= n + 1
    <3> SUFFICES ASSUME NEW m \in Orders(q, p) PROVE m <= n + 1
      OBVIOUS
    <3>1. m # 1 => m - 1 <= n
      BY <1>3, <2>2
    <3> QED
      BY <1>2, <1>3, <3>1
  <2>3. ASSUME NEW n \in Orders(q, p), \A m \in Orders(q, p) : m <= n
        PROVE  n # 1 /\ \A m \in Orders(s, p) : m <= n - 1
    <3>1. \A m \in Orders(s, p) : m + 1 <= n /\ m \in Nat \ {0} /\ n \in Nat
      BY <1>2, <1>3, <2>3
    <3>2. n # 1
      BY <1>6, <3>1
    <3>3. \A m \in Orders(s, p) : m <= n - 1
      BY <3>1
    <3> QED
      BY <3>2, <3>3
  <2>4. EndsUpWatched(s, new, p) => EndsUpWatched(q, old, p)
    <3> SUFFICES ASSUME NEW n \in Orders(s, p), \A m \in Orders(s, p) : m <= n, s[n].op = "add"
                 PROVE  EndsUpWatched(q, old, p)
      BY <1>6 DEF EndsUpWatched
    <3>1. n + 1 \in Orders(q, p) /\ q[n + 1].op = "add"
      BY <1>2
    <3>2. \A m \in Orders(q, p) : m <= n + 1
      BY <2>2
    <3> QED
      BY <2>1, <3>1, <3>2 DEF EndsUpWatched
  <2>5. EndsUpWatched(q, old, p) => EndsUpWatched(s, new, p)
    <3> SUFFICES ASSUME NEW n \in Orders(q, p), \A m \in Orders(q, p) : m <= n, q[n].op = "add"
                 PROVE  EndsUpWatched(s, new, p)
      BY <2>1 DEF EndsUpWatched
    <3>1. n # 1 /\ \A m \in Orders(s, p) : m <= n - 1
      BY <2>3
    <3>2. n - 1 \in Orders(s, p) /\ s[n - 1].op = "add"
      BY <1>3, <3>1
    <3> QED
      BY <1>6, <3>1, <3>2 DEF EndsUpWatched
  <2> QED
    BY <2>4, <2>5 DEF s
<1> QED
  BY <1>5, <1>6

StreamInv == fse # "none" /\ ~mShuttingDown =>
  \A p \in Paths : EndsUpWatched(fseq, streamPaths, p) <=> p \in mWatchedResourcesByPath

LEMMA StreamStep == TypeInv /\ LockInv /\ StreamInv /\ TaskStep => StreamInv'
<1> SUFFICES ASSUME TypeInv, LockInv, StreamInv, TaskStep, fse' # "none", ~mShuttingDown',
                    NEW p \in Paths
             PROVE  EndsUpWatched(fseq', streamPaths', p) <=> p \in mWatchedResourcesByPath'
  BY DEF StreamInv
<1>t. fseq \in Seq(FseTasks) /\ FseRunTask \in FseTasks /\ FseRunTask.op = "run"
  BY DEF TypeInv, TypeOK, TaskTypeOK, FseTasks, FseRunTask
<1>i. fse # "none" /\ ~mShuttingDown
      => (EndsUpWatched(fseq, streamPaths, p) <=> p \in mWatchedResourcesByPath)
  BY DEF StreamInv
<1>1. CASE Internal
  BY <1>1, <1>i DEF Internal, taskFrame
<1>2. CASE ShutsDown
  BY <1>2 DEF ShutsDown
<1>3. CASE FirstPath
  <2>1. fse = "none" /\ mWatchedResourcesByPath = {}
    BY <1>3 DEF FirstPath, LockInv
  <2>2. PICK q \in Paths : /\ streamPaths' = {q} /\ fseq' = <<FseRunTask>>
                           /\ mWatchedResourcesByPath' = mWatchedResourcesByPath \cup {q}
    BY <1>3, <2>1 DEF FirstPath
  <2>3. Orders(<<FseRunTask>>, p) = {}
    BY <1>t DEF Orders
  <2> QED
    BY <2>1, <2>2, <2>3 DEF EndsUpWatched
<1>4. CASE Ordered
  <2>1. fse # "none" /\ ~mShuttingDown /\ streamPaths' = streamPaths
    BY <1>4 DEF Ordered, LockInv
  <2>2. PICK q \in Paths :
          \/ /\ fseq' = Append(fseq, [op |-> "add", path |-> q])
             /\ mWatchedResourcesByPath' = mWatchedResourcesByPath \cup {q}
          \/ /\ fseq' = Append(fseq, [op |-> "remove", path |-> q])
             /\ mWatchedResourcesByPath' = mWatchedResourcesByPath \ {q}
    BY <1>4 DEF Ordered
  <2>3. \A o \in {"add", "remove"} : /\ [op |-> o, path |-> q] \in FseTasks
                                     /\ [op |-> o, path |-> q].op = o
                                     /\ [op |-> o, path |-> q].path = q
    BY DEF FseTasks
  <2>4. \A o \in {"add", "remove"} :
          EndsUpWatched(Append(fseq, [op |-> o, path |-> q]), streamPaths, p) <=>
             IF q = p THEN o = "add" ELSE EndsUpWatched(fseq, streamPaths, p)
    <3> SUFFICES ASSUME NEW o \in {"add", "remove"}
                 PROVE  EndsUpWatched(Append(fseq, [op |-> o, path |-> q]), streamPaths, p) <=>
                           IF q = p THEN o = "add" ELSE EndsUpWatched(fseq, streamPaths, p)
      OBVIOUS
    <3>1. PICK t \in FseTasks : t = [op |-> o, path |-> q] /\ t.op = o /\ t.path = q
      BY <2>3
    <3>2. EndsUpWatched(Append(fseq, t), streamPaths, p) <=>
             IF t.op # "run" /\ t.path = p THEN t.op = "add" ELSE EndsUpWatched(fseq, streamPaths, p)
      BY <1>t, OrderAppended
    <3> QED
      BY <3>1, <3>2
  <2> QED
    BY <1>i, <2>1, <2>2, <2>4
<1>5. CASE Started
  <2>1. /\ fse # "none" /\ ~mShuttingDown /\ fseq # <<>> /\ Head(fseq) = FseRunTask
        /\ fseq' = Tail(fseq) /\ streamPaths' = streamPaths
        /\ mWatchedResourcesByPath' = mWatchedResourcesByPath
    BY <1>5 DEF Started
  <2>2. EndsUpWatched(Tail(fseq), streamPaths, p) <=> EndsUpWatched(fseq, streamPaths, p)
    BY <1>t, <2>1, HeadObeyed
  <2> QED
    BY <1>i, <2>1, <2>2
<1>6. CASE Rebuilt
  <2>1. /\ fse # "none" /\ ~mShuttingDown /\ fseq # <<>> /\ Head(fseq) # FseRunTask
        /\ streamPaths' = Obeyed(Head(fseq))
        /\ fseq' = Append(Tail(fseq), FseRunTask) \/ fseq' = Tail(fseq)
        /\ mWatchedResourcesByPath' = mWatchedResourcesByPath
    BY <1>6 DEF Rebuilt
  <2>2. Head(fseq) \in FseTasks /\ Tail(fseq) \in Seq(FseTasks)
    BY <1>t, <2>1, TailOfQueue
  <2>3. Head(fseq).op \in {"add", "remove"}
    BY <2>1, <2>2 DEF FseTasks
  <2>4. p \in Obeyed(Head(fseq)) <=>
           IF Head(fseq).op # "run" /\ Head(fseq).path = p THEN Head(fseq).op = "add"
           ELSE p \in streamPaths
    BY <2>3 DEF Obeyed
  <2>5. PICK new : new = streamPaths'
    OBVIOUS
  <2>6. EndsUpWatched(Tail(fseq), new, p) <=> EndsUpWatched(fseq, streamPaths, p)
    BY <1>t, <2>1, <2>4, <2>5, HeadObeyed
  <2>7. EndsUpWatched(Append(Tail(fseq), FseRunTask), new, p) <=> EndsUpWatched(Tail(fseq), new, p)
    BY <1>t, <2>2, OrderAppended
  <2> QED
    BY <1>i, <2>1, <2>5, <2>6, <2>7
<1> QED
  BY <1>1, <1>2, <1>3, <1>4, <1>5, <1>6 DEF TaskStep

LEMMA StreamInvariant == Spec => [](Alive => StreamInv)
<1>1. Init => StreamInv
  BY DEF Init, TaskInit, StreamInv
<1>2. TypeInv /\ (Alive => LockInv) /\ (Alive => StreamInv) /\ [Next]_vars => (Alive => StreamInv)'
  BY TaskSteps, DeadStaysDead, StreamStep
<1> QED
  BY <1>1, <1>2, TypesHold, LockInvariant, PTL DEF Spec

\* What is queued for the FSE thread turns the paths of the stream into the paths
\* that have an entry in the table of the IO thread.
THEOREM StreamIsTable == Spec => []StreamFollowsTable
<1>1. (Alive => StreamInv) => StreamFollowsTable
  BY DEF StreamInv, StreamFollowsTable
<1> QED
  BY <1>1, StreamInvariant, PTL
-----------------------------------------------------------------------------
(***************************************************************************)
(* Entries and callbacks: what a step does to the tables.                  *)
(***************************************************************************)
Appended(r) ==
  /\ ~mShuttingDown /\ ~mShuttingDown'
  /\ mWatchedResourcesByPath' = mWatchedResourcesByPath \cup {r.path}
  /\ mChangeCallbacksTable' = [mChangeCallbacksTable EXCEPT ![r.path] = @ \cup {r.cb}]

Removed(r) ==
  /\ UNCHANGED mShuttingDown
  /\ mChangeCallbacksTable' = [mChangeCallbacksTable EXCEPT ![r.path] = @ \ {r.cb}]
  /\ \/ /\ mChangeCallbacksTable[r.path] = {r.cb}
        /\ mWatchedResourcesByPath' = mWatchedResourcesByPath \ {r.path}
     \/ UNCHANGED mWatchedResourcesByPath

Cleared ==
  /\ mWatchedResourcesByPath' = {}
  /\ mChangeCallbacksTable' = [p \in Paths |-> {}]

tables == <<mWatchedResourcesByPath, mChangeCallbacksTable, mShuttingDown>>

LEMMA CallTables ==
  TypeInv /\ (AddPathRunnable \/ RemovePathRunnable) /\ Alive'
  => UNCHANGED tables \/ Appended(Current) \/ Removed(Current)
<1> SUFFICES ASSUME TypeInv, AddPathRunnable \/ RemovePathRunnable, Alive'
             PROVE  UNCHANGED tables \/ Appended(Current) \/ Removed(Current)
  OBVIOUS
<1>1. CASE AddMissing \/ AddFirstFails \/ AddDispatchFails \/ RemoveUnwatched
  BY <1>1 DEF AddMissing, AddFirstFails, AddDispatchFails, RemoveUnwatched, Adds, Removes, Ends,
              tableVars, tables
<1>2. CASE AddKnown
  BY <1>2 DEF AddKnown, Adds, Ends, HasEntry, AppendCallbacks, Appended
<1>3. CASE AddFirst \/ AddNext
  BY <1>3 DEF AddFirst, AddNext, Adds, Ends, AddEntry, AppendCallbacks, Appended
<1>4. CASE RemoveOne \/ RemoveDispatchFails
  BY <1>4 DEF RemoveOne, RemoveDispatchFails, Removes, Ends, RemoveCallbacks, Removed
<1>5. CASE RemoveLast
  BY <1>5 DEF RemoveLast, Removes, Ends, LastCallback, RemoveCallbacks, RemoveEntry, Removed
<1>6. CASE AddNoRunLoop \/ RemoveUnregistered \/ RemoveNoRunLoop
  BY <1>6 DEF AddNoRunLoop, RemoveUnregistered, RemoveNoRunLoop, Alive
<1> QED
  BY <1>1, <1>2, <1>3, <1>4, <1>5, <1>6 DEF AddPathRunnable, RemovePathRunnable

LEMMA Tables ==
  TypeInv /\ [Next]_vars /\ Alive'
  => \/ UNCHANGED tables \/ Cleared
     \/ Current \in Calls /\ (Appended(Current) \/ Removed(Current))
<1> SUFFICES ASSUME TypeInv, [Next]_vars, Alive'
             PROVE  \/ UNCHANGED tables \/ Cleared
                    \/ Current \in Calls /\ (Appended(Current) \/ Removed(Current))
  OBVIOUS
<1>1. CASE MainThread
  BY <1>1 DEF MainThread, ServiceInit, AddPath, RemovePath, DispatchCall, Uninit, DispatchToIO,
              tableVars, tables
<1>2. CASE DeliverNext
  BY <1>2 DEF DeliverNext, DeliverChange, DeliverSuccess, Delivered, tableVars, tables
<1>3. CASE Run
  BY <1>3 DEF Run, RunInShutdown, RunNothing, RunBegin, RunEvent, SkipUnwatched, DispatchChange,
              DispatchChangeFails, RunPop, RunEnd, InRun, RunFrame, tableVars, tables
<1>4. CASE DeactivateRunnable
  BY <1>4 DEF DeactivateRunnable, Cleared
<1>5. CASE FSE \/ FileSystem
  BY <1>5 DEF FSE, FileSystem, watcherVars, tableVars, tables
<1>6. CASE UNCHANGED vars
  BY <1>6 DEF vars, watcherVars, tableVars, tables
<1>7. CASE AddPathRunnable \/ RemovePathRunnable
  <2>1. IOTakes("add") \/ IOTakes("remove")
    BY <1>7 DEF AddPathRunnable, Adds, AddMissing, AddKnown, AddFirst, AddFirstFails, AddNext,
           AddDispatchFails, AddNoRunLoop, RemovePathRunnable, Removes, RemoveUnwatched, RemoveUnregistered,
           RemoveOne, RemoveLast, RemoveDispatchFails, RemoveNoRunLoop
  <2> QED
    BY <1>7, <2>1, CallTables, CurrentType
<1> QED
  BY <1>1, <1>2, <1>3, <1>4, <1>5, <1>6, <1>7 DEF Next, IOThread

EntryInv ==
  /\ \A p \in Paths : mChangeCallbacksTable[p] # {} => p \in mWatchedResourcesByPath
  /\ mShuttingDown => mWatchedResourcesByPath = {}

LEMMA EntryStep ==
  ASSUME TypeInv, EntryInv, NEW r \in Calls,
         UNCHANGED tables \/ Cleared \/ Appended(r) \/ Removed(r)
  PROVE  EntryInv'
<1>s. mShuttingDown' => mWatchedResourcesByPath' = {}
  BY DEF EntryInv, tables, Cleared, Appended, Removed
<1> SUFFICES ASSUME NEW p \in Paths
             PROVE  mChangeCallbacksTable'[p] # {} => p \in mWatchedResourcesByPath'
  BY <1>s DEF EntryInv
<1>t. /\ mChangeCallbacksTable \in [Paths -> SUBSET Cbs] /\ r.path \in Paths /\ r.cb \in Cbs
      /\ mChangeCallbacksTable[p] # {} => p \in mWatchedResourcesByPath
  BY DEF TypeInv, TypeOK, TableTypeOK, Calls, EntryInv
<1>1. CASE UNCHANGED tables
  BY <1>1, <1>t DEF tables
<1>2. CASE Cleared
  BY <1>2 DEF Cleared
<1>3. CASE Appended(r)
  <2>1. mChangeCallbacksTable'[p] = IF p = r.path THEN mChangeCallbacksTable[p] \cup {r.cb}
                                    ELSE mChangeCallbacksTable[p]
    BY <1>3, <1>t DEF Appended
  <2> QED
    BY <1>3, <1>t, <2>1 DEF Appended
<1>4. CASE Removed(r)
  <2>1. mChangeCallbacksTable'[p] = IF p = r.path THEN mChangeCallbacksTable[p] \ {r.cb}
                                    ELSE mChangeCallbacksTable[p]
    BY <1>4, <1>t DEF Removed
  <2> QED
    BY <1>4, <1>t, <2>1 DEF Removed
<1> QED
  BY <1>1, <1>2, <1>3, <1>4

LEMMA EntryInvariant == Spec => [](Alive => EntryInv)
<1>1. Init => EntryInv
  BY DEF Init, EntryInv
<1>2. TypeInv /\ (Alive => EntryInv) /\ [Next]_vars => (Alive => EntryInv)'
  <2> SUFFICES ASSUME TypeInv, Alive => EntryInv, [Next]_vars, Alive' PROVE EntryInv'
    OBVIOUS
  <2>1. EntryInv
    BY DeadStaysDead
  <2>2. UNCHANGED tables \/ Cleared => EntryInv'
    BY <2>1 DEF EntryInv, tables, Cleared
  <2>3. ASSUME NEW r \in Calls, Appended(r) \/ Removed(r) PROVE EntryInv'
    BY <2>1, <2>3, EntryStep
  <2> QED
    BY <2>2, <2>3, Tables
<1> QED
  BY <1>1, <1>2, TypesHold, PTL DEF Spec

\* Whoever is registered will be heard: the path of a change callback has an
\* entry, and what is queued for the FSE thread leaves it in the stream.
THEOREM RegisteredAreHeard == Spec => []CallbacksAreHeard
<1>1. (Alive => LockInv) /\ (Alive => StreamInv) /\ (Alive => EntryInv) => CallbacksAreHeard
  <2> SUFFICES ASSUME Alive, LockInv, StreamInv, EntryInv,
                      NEW p \in Paths, mChangeCallbacksTable[p] # {}
               PROVE  /\ p \in mWatchedResourcesByPath
                      /\ fse # "none"
                      /\ EndsUpWatched(fseq, streamPaths, p)
    BY DEF CallbacksAreHeard
  <2>1. p \in mWatchedResourcesByPath /\ ~mShuttingDown
    BY DEF EntryInv
  <2>2. fse # "none"
    BY <2>1 DEF LockInv
  <2> QED
    BY <2>1, <2>2 DEF StreamInv
<1> QED
  BY <1>1, LockInvariant, StreamInvariant, EntryInvariant, PTL

-----------------------------------------------------------------------------
(***************************************************************************)
(* The way of an event: what a step does to it.                            *)
(***************************************************************************)
Passed == UNCHANGED <<batch, mSavedEvents, lastHandled>> /\ position <= position'

Reported ==
  /\ UNCHANGED <<mSavedEvents, lastHandled>>
  /\ position <= position'
  /\ \A b \in batch' : position < b /\ b <= position'

Pushed ==
  /\ UNCHANGED <<lastHandled, position>>
  /\ \E n \in batch :
        /\ \A m \in batch : n <= m
        /\ batch' = batch \ {n}
        /\ mSavedEvents' = Append(mSavedEvents, n) \/ mSavedEvents' = mSavedEvents

Popped ==
  /\ UNCHANGED <<batch, position>>
  /\ mSavedEvents # <<>>
  /\ lastHandled' = Head(mSavedEvents) /\ mSavedEvents' = Tail(mSavedEvents)

LEMMA EventSteps == TypeInv /\ [Next]_vars => Passed \/ Reported \/ Pushed \/ Popped
<1> SUFFICES ASSUME TypeInv, [Next]_vars PROVE Passed \/ Reported \/ Pushed \/ Popped
  OBVIOUS
<1>t. /\ position \in 0..MaxEvents /\ MaxEvents \in Nat /\ Len(log) \in Nat /\ position <= Len(log)
      /\ sinceWhen # SinceNow => sinceWhen = position
      /\ io = "paths" => mSavedEvents # <<>>
  BY FSEventsAssumption DEF TypeInv, TypeOK, FSEventsTypeOK, Known
<1>i. UNCHANGED <<batch, mSavedEvents, lastHandled, position>> => Passed
  BY <1>t DEF Passed
<1>1. CASE MainThread
  BY <1>1, <1>i DEF MainThread, ServiceInit, AddPath, RemovePath, DispatchCall, Uninit, DispatchToIO,
              fseventsVars, streamVars, taskVars, savedVars, runVars
<1>2. CASE DeliverNext
  BY <1>2, <1>i DEF DeliverNext, DeliverChange, DeliverSuccess, Delivered,
              fseventsVars, streamVars, taskVars, savedVars, runVars
<1>3. CASE Run
  <2>1. CASE RunInShutdown \/ RunNothing \/ RunBegin \/ RunEvent \/ SkipUnwatched \/ DispatchChange
             \/ DispatchChangeFails \/ RunEnd
    BY <1>i, <2>1 DEF RunInShutdown, RunNothing, RunBegin, RunEvent, SkipUnwatched, DispatchChange,
              DispatchChangeFails, RunEnd, InRun, RunFrame, fseventsVars, streamVars, runVars
  <2>2. CASE RunPop
    BY <1>t, <2>2 DEF RunPop, InRun, RunFrame, Event, fseventsVars, streamVars, Popped
  <2> QED
    BY <1>3, <2>1, <2>2 DEF Run
<1>4. CASE DeactivateRunnable
  BY <1>4, <1>i DEF DeactivateRunnable, fseventsVars, streamVars, taskVars, savedVars, runVars
<1>5. CASE AddPathRunnable
  <2>1. CASE AddMissing \/ AddKnown \/ AddNoRunLoop
    BY <1>i, <2>1 DEF AddMissing, AddKnown, AddNoRunLoop, Adds, Ends, streamVars, taskVars,
                      savedVars, runVars
  <2>2. CASE AddFirst \/ AddFirstFails
    BY <1>i, <2>2 DEF AddFirst, AddFirstFails, Adds, Ends, NewTask, StreamCreate, savedVars, runVars
  <2>3. CASE AddNext \/ AddDispatchFails
    BY <1>i, <2>3 DEF AddNext, AddDispatchFails, Adds, Ends, StopAndDispatch, StopWithoutDispatch,
                      streamVars, savedVars, runVars
  <2> QED
    BY <1>5, <2>1, <2>2, <2>3 DEF AddPathRunnable
<1>6. CASE RemovePathRunnable
  <2>1. CASE RemoveUnwatched \/ RemoveUnregistered \/ RemoveOne \/ RemoveNoRunLoop
    BY <1>i, <2>1 DEF RemoveUnwatched, RemoveUnregistered, RemoveOne, RemoveNoRunLoop, Removes, Ends,
                      streamVars, taskVars, savedVars, runVars
  <2>2. CASE RemoveLast \/ RemoveDispatchFails
    BY <1>i, <2>2 DEF RemoveLast, RemoveDispatchFails, Removes, Ends, StopAndDispatch,
                      StopWithoutDispatch, streamVars, savedVars, runVars
  <2> QED
    BY <1>6, <2>1, <2>2 DEF RemovePathRunnable
<1>7. CASE FSE
  <2>1. lastHandled' = lastHandled
    BY <1>7 DEF FSE, watcherVars, runVars
  <2>2. CASE FseRun
    <3>1. UNCHANGED <<batch, mSavedEvents>> /\ StreamStart
      BY <2>2 DEF FseRun, savedVars
    <3>2. position <= position'
      BY <1>t, <3>1 DEF StreamStart
    <3> QED
      BY <2>1, <3>1, <3>2 DEF Passed
  <2>3. CASE EnterRunLoop \/ LeaveRunLoop \/ CallbackLock \/ CallbackUnlock \/ FseAddReleased
    BY <1>i, <2>1, <2>3 DEF EnterRunLoop, LeaveRunLoop, CallbackLock, CallbackUnlock, FseAddReleased,
                            fseventsVars, streamVars, savedVars
  <2>4. CASE StreamCallback
    <3>1. PICK n \in Pending : StreamReports(n) /\ batch' = {m \in Pending : m <= n}
      BY <2>4 DEF StreamCallback
    <3>2. position' = n /\ n \in Nat /\ n > position
      BY <3>1 DEF StreamReports, Pending, EventIds
    <3>3. \A m \in Pending : m > position /\ m \in Nat
      BY DEF Pending, EventIds
    <3>4. mSavedEvents' = mSavedEvents
      BY <2>4 DEF StreamCallback
    <3> QED
      BY <1>t, <2>1, <3>1, <3>2, <3>3, <3>4 DEF Reported
  <2>5. CASE CallbackPush
    BY <2>1, <2>5 DEF CallbackPush, fseventsVars, streamVars, Pushed
  <2>6. CASE FseAddPath \/ FseRemovePath \/ FseRemoveLast
    BY <1>i, <2>1, <2>6 DEF FseAddPath, FseRemovePath, FseRemoveLast, Rebuild, StreamCreate,
                            StreamRelease, savedVars
  <2> QED
    BY <1>7, <2>2, <2>3, <2>4, <2>5, <2>6 DEF FSE, FseThread
<1>8. CASE FileSystem
  BY <1>8, <1>i DEF FileSystem, FsNext, Touch, streamVars, taskVars, savedVars, watcherVars, runVars
<1>9. CASE UNCHANGED vars
  BY <1>9, <1>i DEF vars, fseventsVars, streamVars, taskVars, savedVars, watcherVars, runVars
<1> QED
  BY <1>1, <1>2, <1>3, <1>4, <1>5, <1>6, <1>7, <1>8, <1>9 DEF Next, IOThread

LEMMA EventStep ==
  TypeInv /\ TypeInv' /\ EventsInOrder /\ (Passed \/ Reported \/ Pushed \/ Popped) => EventsInOrder'
<1> SUFFICES ASSUME TypeInv, TypeInv', EventsInOrder, Passed \/ Reported \/ Pushed \/ Popped
             PROVE  EventsInOrder'
  OBVIOUS
<1>a. /\ position \in 0..MaxEvents /\ position' \in 0..MaxEvents /\ lastHandled \in 0..MaxEvents
      /\ batch \in SUBSET EventIds /\ batch' \in SUBSET EventIds /\ mSavedEvents \in Seq(EventIds)
  BY DEF TypeInv, TypeOK, FSEventsTypeOK, TaskTypeOK, RunTypeOK
<1>b. EventIds \subseteq Nat /\ MaxEvents \in Nat
  BY FSEventsAssumption DEF EventIds
<1>t. /\ position \in Nat /\ position' \in Nat /\ lastHandled \in Nat
      /\ batch \subseteq Nat /\ batch' \subseteq Nat
      /\ mSavedEvents \in Seq(EventIds) /\ EventIds \subseteq Nat /\ batch \subseteq EventIds
  BY <1>a, <1>b
<1>s. \A n \in 1..Len(mSavedEvents) : mSavedEvents[n] \in Nat
  <2>1. \A n \in 1..Len(mSavedEvents) : mSavedEvents[n] \in EventIds
    BY <1>a
  <2> QED
    BY <1>b, <2>1
<1>e. /\ \A n \in 1..Len(mSavedEvents) : /\ mSavedEvents[n] > lastHandled
                                         /\ mSavedEvents[n] <= position
      /\ \A m, n \in 1..Len(mSavedEvents) : m < n => mSavedEvents[m] < mSavedEvents[n]
      /\ \A b \in batch : /\ lastHandled < b /\ b <= position
                          /\ \A n \in 1..Len(mSavedEvents) : mSavedEvents[n] < b
      /\ lastHandled <= position
  BY DEF EventsInOrder
<1>1. CASE Passed
  <2>1. /\ batch' = batch /\ mSavedEvents' = mSavedEvents /\ lastHandled' = lastHandled
        /\ \A x \in Nat : x <= position => x <= position'
    BY <1>1, <1>t DEF Passed
  <2>2. lastHandled <= position'
    BY <1>e, <1>t, <2>1
  <2>3. \A b \in batch : b <= position'
    BY <1>e, <1>t, <2>1
  <2>4. \A n \in 1..Len(mSavedEvents) : mSavedEvents[n] <= position'
    BY <1>e, <1>s, <2>1
  <2> QED
    BY <1>e, <2>1, <2>2, <2>3, <2>4 DEF EventsInOrder
<1>2. CASE Reported
  <2>1. /\ mSavedEvents' = mSavedEvents /\ lastHandled' = lastHandled
        /\ \A x \in Nat : x <= position => x <= position'
        /\ \A b \in batch' : position < b /\ b <= position'
    BY <1>2, <1>t DEF Reported
  <2>2. \A b \in batch', x \in Nat : x <= position => x < b
    BY <1>t, <2>1
  <2>3. \A b \in batch' : lastHandled < b /\ \A n \in 1..Len(mSavedEvents) : mSavedEvents[n] < b
    BY <1>e, <1>s, <1>t, <2>2
  <2>4. lastHandled <= position' /\ \A n \in 1..Len(mSavedEvents) : mSavedEvents[n] <= position'
    BY <1>e, <1>s, <1>t, <2>1
  <2> QED
    BY <1>e, <2>1, <2>3, <2>4 DEF EventsInOrder
<1>3. CASE Pushed
  <2>1. PICK b \in batch : /\ \A m \in batch : b <= m
                           /\ batch' = batch \ {b}
                           /\ mSavedEvents' = Append(mSavedEvents, b) \/ mSavedEvents' = mSavedEvents
    BY <1>3 DEF Pushed
  <2>2. lastHandled' = lastHandled /\ position' = position
    BY <1>3 DEF Pushed
  <2>3. CASE mSavedEvents' = mSavedEvents
    <3>1. \A m \in batch' : m \in batch
      BY <2>1
    <3> QED
      BY <1>e, <2>2, <2>3, <3>1 DEF EventsInOrder
  <2>4. CASE mSavedEvents' = Append(mSavedEvents, b)
    <3>1. /\ Len(mSavedEvents') = Len(mSavedEvents) + 1 /\ Len(mSavedEvents) \in Nat
          /\ \A n \in 1..Len(mSavedEvents) : mSavedEvents'[n] = mSavedEvents[n]
          /\ mSavedEvents'[Len(mSavedEvents) + 1] = b
      BY <1>t, <2>4, AppendedQueue
    <3>2. \A n \in 1..Len(mSavedEvents') :
            n \in 1..Len(mSavedEvents) \/ n = Len(mSavedEvents) + 1
      BY <3>1
    <3>3. \A m \in batch' : m \in batch /\ b < m
      BY <1>t, <2>1
    <3>4. \A n \in 1..Len(mSavedEvents') : mSavedEvents'[n] > lastHandled /\ mSavedEvents'[n] <= position
      BY <1>e, <3>1, <3>2
    <3>5. \A m, n \in 1..Len(mSavedEvents') : m < n => mSavedEvents'[m] < mSavedEvents'[n]
      <4> SUFFICES ASSUME NEW m \in 1..Len(mSavedEvents'), NEW n \in 1..Len(mSavedEvents'), m < n
                   PROVE  mSavedEvents'[m] < mSavedEvents'[n]
        OBVIOUS
      <4>1. m \in 1..Len(mSavedEvents)
        BY <3>1
      <4> QED
        BY <1>e, <3>1, <3>2, <4>1
    <3>6. \A m \in batch' : \A n \in 1..Len(mSavedEvents') : mSavedEvents'[n] < m
      BY <1>e, <3>1, <3>2, <3>3
    <3> QED
      BY <1>e, <2>2, <3>3, <3>4, <3>5, <3>6 DEF EventsInOrder
  <2> QED
    BY <2>1, <2>3, <2>4
<1>4. CASE Popped
  <2>1. /\ mSavedEvents # <<>> /\ lastHandled' = mSavedEvents[1] /\ 1 \in 1..Len(mSavedEvents)
        /\ Len(mSavedEvents') = Len(mSavedEvents) - 1 /\ Len(mSavedEvents) \in Nat
        /\ \A n \in 1..Len(mSavedEvents') : /\ mSavedEvents'[n] = mSavedEvents[n + 1]
                                            /\ n + 1 \in 1..Len(mSavedEvents)
        /\ batch' = batch /\ position' = position
    BY <1>4, <1>t, TailOfQueue DEF Popped
  <2>2. lastHandled' \in Nat /\ lastHandled' <= position
    BY <1>e, <1>s, <2>1
  <2>3. \A n \in 1..Len(mSavedEvents') : mSavedEvents'[n] > lastHandled' /\ mSavedEvents'[n] <= position
    <3> SUFFICES ASSUME NEW n \in 1..Len(mSavedEvents')
                 PROVE  mSavedEvents'[n] > lastHandled' /\ mSavedEvents'[n] <= position
      OBVIOUS
    <3>1. mSavedEvents'[n] = mSavedEvents[n + 1] /\ n + 1 \in 1..Len(mSavedEvents) /\ 1 < n + 1
      BY <2>1
    <3>2. mSavedEvents[1] < mSavedEvents[n + 1]
      BY <1>e, <2>1, <3>1
    <3>3. mSavedEvents[1] \in Nat /\ mSavedEvents[n + 1] \in Nat
      BY <1>s, <2>1, <3>1
    <3> QED
      BY <1>e, <2>1, <3>1, <3>2, <3>3
  <2>4. \A m, n \in 1..Len(mSavedEvents') : m < n => mSavedEvents'[m] < mSavedEvents'[n]
    <3> SUFFICES ASSUME NEW m \in 1..Len(mSavedEvents'), NEW n \in 1..Len(mSavedEvents'), m < n
                 PROVE  mSavedEvents'[m] < mSavedEvents'[n]
      OBVIOUS
    <3>1. m + 1 < n + 1
      OBVIOUS
    <3> QED
      BY <1>e, <2>1, <3>1
  <2>5. \A b \in batch : lastHandled' < b /\ \A n \in 1..Len(mSavedEvents') : mSavedEvents'[n] < b
    BY <1>e, <2>1
  <2> QED
    BY <1>e, <2>1, <2>2, <2>3, <2>4, <2>5 DEF EventsInOrder
<1> QED
  BY <1>1, <1>2, <1>3, <1>4

\* Events keep their order and come once on their way to the callbacks, although
\* the stream is replaced and a pass of Run leaves half of them to the next.
THEOREM EventsStayInOrder == Spec => []EventsInOrder
<1>1. Init => EventsInOrder
  BY DEF Init, FSEventsInit, TaskInit, EventsInOrder
<1>2. TypeInv /\ TypeInv' /\ EventsInOrder /\ [Next]_vars => EventsInOrder'
  BY EventSteps, EventStep
<1> QED
  BY <1>1, <1>2, TypesHold, PTL DEF Spec
=============================================================================
