------------------------ MODULE LinuxWatcher_proofs ------------------------
(***************************************************************************)
(* Proofs about LinuxWatcher, for every value of its constants: types, the *)
(* wake-up protocol between signalHandler and Run, the limits of Run's two *)
(* loops, and the tables of the IO thread.                                 *)
(***************************************************************************)
EXTENDS LinuxWatcher, FiniteSetTheorems, TLAPS

\* What Run relies on between its test of mEventWaiting and its store: the
\* handler may only have raised the counter, so it stays a natural number.
CounterPositive ==
    /\ io = "load" => mEventWaiting >= 1
    /\ io = "store" => loaded >= 1

TypeInv == TypeOK /\ CounterPositive

-----------------------------------------------------------------------------
(***************************************************************************)
(* The kernel's queue.                                                     *)
(***************************************************************************)
LEMMA EventTypes ==
  ASSUME NEW w \in Wds
  PROVE  /\ Self(w) \in KernelEvents
         /\ Ignored(w) \in KernelEvents
         /\ Overflow \in KernelEvents
         /\ \A s \in NameSizes : Entry(w, s) \in KernelEvents
  BY KernelAssumption
  DEF Self, Ignored, Overflow, Entry, KernelEvents, Kinds, NoWd

LEMMA OverflowType == Overflow \in KernelEvents
  BY KernelAssumption DEF Overflow, KernelEvents, Kinds, NoWd

\* Queueing keeps the type, and a queue that changes gets longer.
LEMMA QueuedProperties ==
  ASSUME NEW q \in Seq(KernelEvents), NEW e \in KernelEvents
  PROVE  /\ Queued(q, e) \in Seq(KernelEvents)
         /\ Queued(q, e) = q \/ Len(Queued(q, e)) > Len(q)
<1>1. /\ Append(q, e) \in Seq(KernelEvents)
      /\ Len(Append(q, e)) > Len(q)
  OBVIOUS
<1>2. /\ Append(q, Overflow) \in Seq(KernelEvents)
      /\ Len(Append(q, Overflow)) > Len(q)
  BY OverflowType
<1> QED
  BY <1>1, <1>2 DEF Queued

\* A queue the kernel got by queueing: unchanged, or signalled.
LEMMA NotifyProperties ==
  ASSUME TypeOK, NEW q \in Seq(KernelEvents), q = kq \/ Len(q) > Len(kq), Notify(q)
  PROVE  /\ kq' \in Seq(KernelEvents)
         /\ sigPending' \in BOOLEAN
         /\ (kq' = kq /\ sigPending' = sigPending) \/ sigPending'
<1>1. sigPending \in BOOLEAN
  BY DEF TypeOK, KernelTypeOK
<1> QED
  BY <1>1 DEF Notify

LEMMA ReadProperties ==
  ASSUME TypeOK, NEW k \in 1..Len(kq), InotifyRead(k)
  PROVE  kq' \in Seq(KernelEvents) /\ kq # <<>> /\ Head(kq) \in KernelEvents
<1>1. kq \in Seq(KernelEvents)
  BY DEF TypeOK, KernelTypeOK
<1>2. \A n \in k + 1..Len(kq) : kq[n] \in KernelEvents
  BY <1>1
<1> QED
  BY <1>1, <1>2 DEF InotifyRead

\* Every operation on the file system keeps the kernel's types, and signals
\* the events it queues.
LEMMA FsNextProperties ==
  ASSUME TypeOK, FsNext
  PROVE  /\ KernelTypeOK'
         /\ (kq' = kq /\ sigPending' = sigPending) \/ sigPending'
<1> USE DEF FsOp
<1>k. KernelTypeOK
  BY DEF TypeOK
<1>f. ASSUME NEW op, FsOp(op) PROVE fsOps' \in 0..MaxFsOps
  BY <1>k, <1>f, KernelAssumption DEF KernelTypeOK
<1>1. ASSUME NEW i \in Inodes, ChangeEntry(i)
      PROVE  /\ KernelTypeOK'
             /\ (kq' = kq /\ sigPending' = sigPending) \/ sigPending'
  <2>1. kwatch[i] \in Wds
    BY <1>1, <1>k DEF ChangeEntry, KernelTypeOK
  <2>2. PICK s \in NameSizes : Notify(Queued(kq, Entry(kwatch[i], s)))
    BY <1>1 DEF ChangeEntry
  <2>3. Entry(kwatch[i], s) \in KernelEvents
    BY <2>1, EventTypes
  <2>4. /\ kq' \in Seq(KernelEvents)
        /\ sigPending' \in BOOLEAN
        /\ (kq' = kq /\ sigPending' = sigPending) \/ sigPending'
    BY <2>2, <2>3, <1>k, QueuedProperties, NotifyProperties DEF KernelTypeOK
  <2>5. UNCHANGED <<dir, kwatch, nextWd>> /\ FsOp("change")
    BY <1>1 DEF ChangeEntry
  <2> QED
    BY <1>k, <1>f, <2>4, <2>5 DEF KernelTypeOK
<1>2. ASSUME NEW i \in Inodes, TouchDirectory(i)
      PROVE  /\ KernelTypeOK'
             /\ (kq' = kq /\ sigPending' = sigPending) \/ sigPending'
  <2>1. kwatch[i] \in Wds
    BY <1>2, <1>k DEF TouchDirectory, KernelTypeOK
  <2>2. Self(kwatch[i]) \in KernelEvents
    BY <2>1, EventTypes
  <2>3. /\ kq' \in Seq(KernelEvents)
        /\ sigPending' \in BOOLEAN
        /\ (kq' = kq /\ sigPending' = sigPending) \/ sigPending'
    BY <1>2, <2>2, <1>k, QueuedProperties, NotifyProperties DEF KernelTypeOK, TouchDirectory
  <2>4. UNCHANGED <<dir, kwatch, nextWd>> /\ FsOp("touch")
    BY <1>2 DEF TouchDirectory
  <2> QED
    BY <1>k, <1>f, <2>3, <2>4 DEF KernelTypeOK
<1>3. ASSUME NEW p \in Paths, DeleteDirectory(p)
      PROVE  /\ KernelTypeOK'
             /\ (kq' = kq /\ sigPending' = sigPending) \/ sigPending'
  <2> DEFINE i == dir[p]
             w == kwatch[i]
             q == IF w = NoWd THEN kq ELSE Queued(Queued(kq, Self(w)), Ignored(w))
  <2>1. i \in Inodes /\ w \in Wds \cup {NoWd}
    BY <1>3, <1>k DEF DeleteDirectory, KernelTypeOK
  <2>2. q \in Seq(KernelEvents) /\ (q = kq \/ Len(q) > Len(kq))
    <3>1. CASE w = NoWd
      BY <3>1, <1>k DEF KernelTypeOK
    <3>2. CASE w # NoWd
      <4> DEFINE q1 == Queued(kq, Self(w))
                 q2 == Queued(q1, Ignored(w))
      <4>1. Self(w) \in KernelEvents /\ Ignored(w) \in KernelEvents
        BY <2>1, <3>2, EventTypes
      <4>2. q1 \in Seq(KernelEvents) /\ (q1 = kq \/ Len(q1) > Len(kq))
        BY <4>1, <1>k, QueuedProperties DEF KernelTypeOK
      <4>3. q2 \in Seq(KernelEvents) /\ (q2 = q1 \/ Len(q2) > Len(q1))
        BY <4>1, <4>2, QueuedProperties
      <4>4. kq \in Seq(KernelEvents)
        BY <1>k DEF KernelTypeOK
      <4> HIDE DEF q1, q2
      <4>5. q2 \in Seq(KernelEvents) /\ (q2 = kq \/ Len(q2) > Len(kq))
        BY <4>2, <4>3, <4>4
      <4> QED
        BY <4>5, <3>2 DEF q1, q2
    <3> QED
      BY <3>1, <3>2
  <2>3. Notify(q)
    BY <1>3 DEF DeleteDirectory
  <2>4. /\ kq' \in Seq(KernelEvents)
        /\ sigPending' \in BOOLEAN
        /\ (kq' = kq /\ sigPending' = sigPending) \/ sigPending'
    <3> HIDE DEF q
    <3> QED
      BY <2>2, <2>3, NotifyProperties
  <2>5. /\ dir' = [r \in Paths |-> IF dir[r] = i THEN NoInode ELSE dir[r]]
        /\ kwatch' = [kwatch EXCEPT ![i] = NoWd]
        /\ nextWd' = nextWd
        /\ FsOp("delete")
    BY <1>3 DEF DeleteDirectory
  <2>6. dir' \in [Paths -> Inodes \cup {NoInode}]
    BY <2>5, <1>k DEF KernelTypeOK
  <2>7. kwatch' \in [Inodes -> Wds \cup {NoWd}]
    BY <2>5, <1>k DEF KernelTypeOK
  <2> QED
    BY <1>k, <1>f, <2>4, <2>5, <2>6, <2>7 DEF KernelTypeOK
<1>4. ASSUME NEW p \in Paths, CreateDirectory(p)
      PROVE  /\ KernelTypeOK'
             /\ (kq' = kq /\ sigPending' = sigPending) \/ sigPending'
  <2>1. /\ dir' \in [Paths -> Inodes \cup {NoInode}]
        /\ UNCHANGED <<kwatch, nextWd, kq, sigPending>>
        /\ FsOp("create")
    BY <1>4, <1>k DEF CreateDirectory, KernelTypeOK
  <2> QED
    BY <1>k, <1>f, <2>1 DEF KernelTypeOK
<1>5. ASSUME NEW p \in Paths, NEW r \in Paths, RenameDirectory(p, r)
      PROVE  /\ KernelTypeOK'
             /\ (kq' = kq /\ sigPending' = sigPending) \/ sigPending'
  <2> DEFINE i == dir[p]
             w == kwatch[i]
             q == IF w = NoWd THEN kq ELSE Queued(kq, Self(w))
  <2>1. i \in Inodes /\ w \in Wds \cup {NoWd}
    BY <1>5, <1>k DEF RenameDirectory, KernelTypeOK
  <2>2. q \in Seq(KernelEvents) /\ (q = kq \/ Len(q) > Len(kq))
    <3>1. CASE w = NoWd
      BY <3>1, <1>k DEF KernelTypeOK
    <3>2. CASE w # NoWd
      <4>1. Self(w) \in KernelEvents
        BY <2>1, <3>2, EventTypes
      <4> QED
        BY <4>1, <3>2, <1>k, QueuedProperties DEF KernelTypeOK
    <3> QED
      BY <3>1, <3>2
  <2>3. Notify(q)
    BY <1>5 DEF RenameDirectory
  <2>4. /\ kq' \in Seq(KernelEvents)
        /\ sigPending' \in BOOLEAN
        /\ (kq' = kq /\ sigPending' = sigPending) \/ sigPending'
    <3> HIDE DEF q
    <3> QED
      BY <2>2, <2>3, NotifyProperties
  <2>5. /\ dir' = [x \in Paths |-> IF x = r THEN i
                                   ELSE IF dir[x] = i THEN NoInode ELSE dir[x]]
        /\ UNCHANGED <<kwatch, nextWd>>
        /\ FsOp("rename")
    BY <1>5 DEF RenameDirectory
  <2>6. dir' \in [Paths -> Inodes \cup {NoInode}]
    BY <2>1, <2>5, <1>k DEF KernelTypeOK
  <2> QED
    BY <1>k, <1>f, <2>4, <2>5, <2>6 DEF KernelTypeOK
<1> QED
  BY <1>1, <1>2, <1>3, <1>4, <1>5 DEF FsNext

-----------------------------------------------------------------------------
(***************************************************************************)
(* The main thread and the signal handlers.                                *)
(***************************************************************************)
LEMMA InitTypes == Init => TypeInv
<1> SUFFICES ASSUME Init PROVE TypeInv
  OBVIOUS
<1>1. KernelTypeOK
  <2>1. dir \in [Paths -> Inodes \cup {NoInode}]
    BY KernelAssumption DEF Init, KernelInit
  <2>2. kwatch \in [Inodes -> Wds \cup {NoWd}]
    BY DEF Init, KernelInit
  <2>3. nextWd = 1 /\ fsOps = 0 /\ kq = <<>>
    BY DEF Init, KernelInit
  <2>4. nextWd \in 1..(MaxWd + 1) /\ fsOps \in 0..MaxFsOps /\ kq \in Seq(KernelEvents)
    BY <2>3, KernelAssumption
  <2>5. sigPending \in BOOLEAN
    BY DEF Init, KernelInit
  <2> QED
    BY <2>1, <2>2, <2>4, <2>5 DEF KernelTypeOK
<1>2. ServiceTypeOK
  <2>1. calls = 0 /\ lastCall = [x \in Pairs |-> 0]
    BY DEF Init
  <2>2. calls \in 0..MaxCalls /\ lastCall \in [Pairs -> 0..MaxCalls]
    BY <2>1, WatcherAssumption
  <2>3. initialised \in {"no", "ok", "failed"} /\ mIOThread \in BOOLEAN
    BY DEF Init
  <2>4. quiet \in SUBSET Pairs
    BY DEF Init
  <2> QED
    BY <2>2, <2>3, <2>4 DEF ServiceTypeOK
<1>3. SignalTypeOK
  BY DEF Init, SignalTypeOK, NotHandling
<1>4. RunTypeOK /\ CounterPositive
  <2>1. /\ io = "idle" /\ loaded = 0 /\ mInotifyReadTimeout = ReadLimit
        /\ mInotifyEventQueue = <<>>
    BY DEF Init
  <2>2. /\ loaded \in Nat /\ mInotifyReadTimeout \in 1..ReadLimit
        /\ mInotifyEventQueue \in Seq(KernelEvents)
    BY <2>1, WatcherAssumption
  <2>3. runFailed \in BOOLEAN /\ cutShort \in BOOLEAN
    BY DEF Init
  <2> QED
    BY <2>1, <2>2, <2>3 DEF RunTypeOK, CounterPositive
<1>5. TableTypeOK
  BY DEF Init, TableTypeOK
<1>6. QueueTypeOK
  <2>1. ioq = <<>> /\ mainq = <<>> /\ postFailures = 0
    BY DEF Init
  <2>2. ioq \in Seq(Tasks) /\ mainq \in Seq(Posts) /\ postFailures \in 0..MaxPostFailures
    BY <2>1, WatcherAssumption
  <2>3. /\ mShuttingDown \in BOOLEAN
        /\ crash \in {"none", "unregistered", "stale_event", "deactivated"}
    BY DEF Init
  <2> QED
    BY <2>2, <2>3 DEF QueueTypeOK
<1> QED
  BY <1>1, <1>2, <1>3, <1>4, <1>5, <1>6 DEF TypeInv, TypeOK

\* What a step leaves alone keeps its type.
LEMMA Frame ==
  ASSUME TypeInv
  PROVE  /\ UNCHANGED kernelVars => KernelTypeOK'
         /\ UNCHANGED <<initialised, mIOThread, calls, historyVars>> => ServiceTypeOK'
         /\ UNCHANGED signalVars => SignalTypeOK'
         /\ UNCHANGED runVars => RunTypeOK'
         /\ UNCHANGED tableVars => TableTypeOK'
         /\ UNCHANGED <<signalVars, runVars>> => CounterPositive'
<1>1. UNCHANGED kernelVars => KernelTypeOK'
  BY DEF TypeInv, TypeOK, KernelTypeOK, kernelVars
<1>2. UNCHANGED <<initialised, mIOThread, calls, historyVars>> => ServiceTypeOK'
  BY DEF TypeInv, TypeOK, ServiceTypeOK, historyVars
<1>3. UNCHANGED signalVars => SignalTypeOK'
  BY DEF TypeInv, TypeOK, SignalTypeOK, signalVars
<1>4. UNCHANGED runVars => RunTypeOK'
  BY DEF TypeInv, TypeOK, RunTypeOK, runVars
<1>5. UNCHANGED tableVars => TableTypeOK'
  BY DEF TypeInv, TypeOK, TableTypeOK, tableVars
<1>6. UNCHANGED <<signalVars, runVars>> => CounterPositive'
  BY DEF TypeInv, CounterPositive, signalVars, runVars
<1> QED
  BY <1>1, <1>2, <1>3, <1>4, <1>5, <1>6

LEMMA ServiceInitTypes == TypeInv /\ ServiceInit => TypeInv'
<1> SUFFICES ASSUME TypeInv, ServiceInit PROVE TypeInv'
  OBVIOUS
<1>1. UNCHANGED <<kernelVars, signalVars, runVars, tableVars>>
  BY DEF ServiceInit
<1>2. ServiceTypeOK'
  BY DEF ServiceInit, TypeInv, TypeOK, ServiceTypeOK, historyVars
<1>3. ioq' \in Seq(Tasks)
  <2>1. ioq \in Seq(Tasks) /\ RunTask \in Tasks
    BY DEF TypeInv, TypeOK, QueueTypeOK, Tasks
  <2>2. ioq' = ioq \/ ioq' = <<RunTask>>
    BY DEF ServiceInit
  <2>3. \A x \in Tasks : <<x>> \in Seq(Tasks)
    OBVIOUS
  <2> QED
    BY <2>1, <2>2, <2>3
<1>4. QueueTypeOK'
  BY <1>3 DEF ServiceInit, TypeInv, TypeOK, QueueTypeOK
<1> QED
  BY <1>1, <1>2, <1>4, Frame DEF TypeInv, TypeOK

LEMMA DispatchCallTypes ==
  ASSUME TypeInv, NEW op \in {"add", "remove"}, NEW p \in Paths, NEW c \in Cbs,
         NEW e \in Errs, DispatchCall(op, p, c, e)
  PROVE  TypeInv'
<1> DEFINE r == [op |-> op, id |-> calls + 1, path |-> p, cb |-> c, err |-> e]
<1>1. UNCHANGED <<kernelVars, signalVars, runVars, tableVars>>
  BY DEF DispatchCall
<1>2. calls + 1 \in CallIds
  BY WatcherAssumption DEF DispatchCall, TypeInv, TypeOK, ServiceTypeOK, CallIds
<1>3. r \in Tasks
  BY <1>2 DEF Tasks, Calls
<1>4. ioq' = Append(ioq, r)
  BY DEF DispatchCall
<1>5. ioq' \in Seq(Tasks)
  <2> HIDE DEF r
  <2> QED
    BY <1>3, <1>4 DEF TypeInv, TypeOK, QueueTypeOK
<1>6. QueueTypeOK'
  BY <1>5 DEF DispatchCall, TypeInv, TypeOK, QueueTypeOK
<1>7. lastCall' \in [Pairs -> 0..MaxCalls]
  BY <1>2, WatcherAssumption
  DEF DispatchCall, TypeInv, TypeOK, ServiceTypeOK, Pairs, CallIds
<1>8. ServiceTypeOK'
  BY <1>2, <1>7 DEF DispatchCall, TypeInv, TypeOK, ServiceTypeOK, CallIds
<1> QED
  BY <1>1, <1>6, <1>8, Frame DEF TypeInv, TypeOK

LEMMA UninitTypes == TypeInv /\ Uninit => TypeInv'
<1> SUFFICES ASSUME TypeInv, Uninit PROVE TypeInv'
  OBVIOUS
<1>1. UNCHANGED <<kernelVars, signalVars, runVars, tableVars>>
  BY DEF Uninit
<1>2. ServiceTypeOK'
  BY DEF Uninit, TypeInv, TypeOK, ServiceTypeOK, historyVars
<1>3. DeactivateTask \in Tasks
  BY DEF Tasks
<1>4. QueueTypeOK'
  BY <1>3 DEF Uninit, TypeInv, TypeOK, QueueTypeOK
<1> QED
  BY <1>1, <1>2, <1>4, Frame DEF TypeInv, TypeOK

\* The main thread takes posts of the right type off its queue.
LEMMA DeliverTypes == TypeInv /\ DeliverNext => TypeInv'
<1> SUFFICES ASSUME TypeInv, DeliverNext PROVE TypeInv'
  OBVIOUS
<1>1. mainq \in Seq(Posts) /\ mainq # <<>>
  BY DEF DeliverNext, DeliverChange, DeliverSuccess, DeliverError, TypeInv, TypeOK,
         QueueTypeOK
<1>2. Head(mainq) \in Posts /\ Tail(mainq) \in Seq(Posts)
  BY <1>1
<1>3. /\ UNCHANGED <<kernelVars, signalVars, runVars, tableVars>>
      /\ UNCHANGED <<initialised, mIOThread, calls, lastCall>>
      /\ UNCHANGED <<ioq, mShuttingDown, crash, postFailures>>
  BY DEF DeliverNext, DeliverChange, DeliverSuccess, DeliverError, Delivered
<1>4. mainq' \in Seq(Posts)
  <2>1. ASSUME NEW c \in Cbs, DeliverChange(c) PROVE mainq' \in Seq(Posts)
    <3> DEFINE m == Head(mainq)
               rest == [m EXCEPT !.cbs = @ \ {c}]
    <3>1. CASE m.cbs = {c}
      BY <1>2, <2>1, <3>1 DEF DeliverChange, Delivered
    <3>2. CASE m.cbs # {c}
      <4>1. m \in Changes /\ c \in m.cbs
        BY <1>2, <2>1 DEF DeliverChange, Posts, Changes, Successes, Errors
      <4>2. rest \in Changes
        <5>1. m.cbs \ {c} \in (SUBSET Cbs) \ {{}}
          BY <4>1, <3>2 DEF Changes
        <5> QED
          BY <4>1, <5>1 DEF Changes
      <4>3. mainq' = [mainq EXCEPT ![1] = [mainq[1] EXCEPT !.cbs = mainq[1].cbs \ {c}]]
        BY <2>1, <3>2 DEF DeliverChange, Delivered
      <4>4. mainq[1] = m
        BY <1>1
      <4>5. mainq' = [mainq EXCEPT ![1] = rest]
        BY <4>3, <4>4
      <4> HIDE DEF rest
      <4> QED
        BY <1>1, <4>2, <4>5 DEF Posts
    <3> QED
      BY <3>1, <3>2
  <2>2. CASE DeliverSuccess \/ DeliverError
    BY <1>2, <2>2 DEF DeliverSuccess, DeliverError, Delivered
  <2> QED
    BY <2>1, <2>2 DEF DeliverNext
<1>5. quiet' \in SUBSET Pairs
  <2>0. quiet \in SUBSET Pairs
    BY DEF TypeInv, TypeOK, ServiceTypeOK
  <2>1. CASE DeliverSuccess
    <3>1. Head(mainq).call \in Calls
      BY <1>2, <2>1 DEF DeliverSuccess, Posts, Changes, Successes, Errors
    <3>2. <<Head(mainq).call.path, Head(mainq).call.cb>> \in Pairs
      BY <3>1 DEF Calls, Pairs
    <3> QED
      BY <2>0, <2>1, <3>2 DEF DeliverSuccess
  <2>2. CASE ~DeliverSuccess
    BY <2>0, <2>2 DEF DeliverNext, DeliverChange, DeliverError
  <2> QED
    BY <2>1, <2>2
<1>6. ServiceTypeOK'
  BY <1>3, <1>5 DEF TypeInv, TypeOK, ServiceTypeOK
<1>7. QueueTypeOK'
  BY <1>3, <1>4 DEF TypeInv, TypeOK, QueueTypeOK
<1> QED
  BY <1>3, <1>6, <1>7, Frame DEF TypeInv, TypeOK

\* A handler never lowers a positive counter to zero.
LEMMA SignalTypes ==
  ASSUME TypeInv, NEW t \in SignalThreads, SignalLoad(t) \/ SignalStore(t)
  PROVE  /\ TypeInv'
         /\ mEventWaiting' = mEventWaiting \/ mEventWaiting' >= 1
<1>1. /\ UNCHANGED <<runVars, tableVars, mainVars>>
      /\ UNCHANGED <<dir, kwatch, nextWd, kq, fsOps>>
      /\ UNCHANGED <<mainq, ioq, mShuttingDown, crash, postFailures>>
  BY DEF SignalLoad, SignalStore, kernelVars
<1>2. handler' \in [SignalThreads -> Nat \cup {NotHandling}]
  BY DEF TypeInv, TypeOK, SignalTypeOK, SignalLoad, SignalStore, NotHandling
<1>3. mEventWaiting' \in Nat /\ (mEventWaiting' = mEventWaiting \/ mEventWaiting' >= 1)
  BY DEF TypeInv, TypeOK, SignalTypeOK, SignalLoad, SignalStore, NotHandling
<1>4. sigPending' \in BOOLEAN
  BY DEF TypeInv, TypeOK, KernelTypeOK, SignalLoad, SignalStore, kernelVars
<1>5. KernelTypeOK'
  BY <1>1, <1>4 DEF TypeInv, TypeOK, KernelTypeOK
<1>6. SignalTypeOK'
  BY <1>2, <1>3 DEF SignalTypeOK
<1>7. QueueTypeOK'
  BY <1>1 DEF TypeInv, TypeOK, QueueTypeOK
<1>8. CounterPositive'
  BY <1>1, <1>3 DEF TypeInv, CounterPositive, runVars
<1>9. ServiceTypeOK'
  BY <1>1, Frame DEF mainVars, historyVars
<1> QED
  BY <1>1, <1>3, <1>5, <1>6, <1>7, <1>8, <1>9, Frame DEF TypeInv, TypeOK

-----------------------------------------------------------------------------
(***************************************************************************)
(* The calls, on the IO thread.                                            *)
(***************************************************************************)
LEMMA TakesProperties ==
  ASSUME TypeInv, NEW op, Takes(op)
  PROVE  /\ Tail(ioq) \in Seq(Tasks)
         /\ op \in {"add", "remove"} => Current \in Calls
<1>1. ioq \in Seq(Tasks) /\ ioq # <<>>
  BY DEF TypeInv, TypeOK, QueueTypeOK, Takes
<1>2. Head(ioq) \in Tasks /\ Tail(ioq) \in Seq(Tasks)
  BY <1>1
<1>3. op \in {"add", "remove"} => Head(ioq) \in Calls
  BY <1>2 DEF Takes, Tasks, RunTask, DeactivateTask
<1> QED
  BY <1>2, <1>3 DEF Current

\* A call that ends touches neither Run nor the main thread's state.
LEMMA EndsProperties ==
  ASSUME TypeInv, NEW op, Takes(op), Ends
  PROVE  /\ ioq' \in Seq(Tasks)
         /\ ServiceTypeOK' /\ SignalTypeOK' /\ RunTypeOK' /\ CounterPositive'
         /\ UNCHANGED <<dir, fsOps, signalVars, runVars>>
<1>1. UNCHANGED <<dir, fsOps, signalVars, runVars, mainVars>> /\ ioq' = Tail(ioq)
  BY DEF Ends, CallVars
<1>2. UNCHANGED <<initialised, mIOThread, calls, historyVars>>
  BY <1>1 DEF mainVars, historyVars
<1> QED
  BY <1>1, <1>2, TakesProperties, Frame

LEMMA ReportTypes ==
  ASSUME TypeInv, NEW m \in Posts, Report(m)
  PROVE  mainq' \in Seq(Posts) /\ postFailures' \in 0..MaxPostFailures
<1>1. mainq \in Seq(Posts) /\ postFailures \in 0..MaxPostFailures
  BY DEF TypeInv, TypeOK, QueueTypeOK
<1>2. mainq' = mainq \/ mainq' = Append(mainq, m)
  BY DEF Report
<1>3. \/ postFailures' = postFailures
      \/ postFailures' = postFailures + 1 /\ postFailures < MaxPostFailures
  BY DEF Report, PostFails
<1> QED
  BY <1>1, <1>2, <1>3, WatcherAssumption

LEMMA CallbackTypes ==
  ASSUME TypeInv, NEW p \in Paths, NEW c \in Cbs, NEW e \in Errs,
         AppendCallbacks(p, c, e) \/ RemoveCallbacks(p, c, e)
  PROVE  /\ mChangeCallbacksTable' \in [Paths -> SUBSET Cbs]
         /\ mErrorCallbacksTable' \in [Paths -> SUBSET Errs]
<1>1. /\ mChangeCallbacksTable \in [Paths -> SUBSET Cbs]
      /\ mErrorCallbacksTable \in [Paths -> SUBSET Errs]
  BY DEF TypeInv, TypeOK, TableTypeOK
<1> QED
  BY <1>1 DEF AppendCallbacks, RemoveCallbacks

LEMMA AddPathTypes == TypeInv /\ AddPathRunnable => TypeInv'
<1> SUFFICES ASSUME TypeInv, AddPathRunnable PROVE TypeInv'
  OBVIOUS
<1> DEFINE r == Current
<1>1. Takes("add") /\ Ends /\ UNCHANGED <<mShuttingDown, crash>>
  BY DEF AddPathRunnable, AddMissing, AddKnown, AddRefused, AddWatched, Adds
<1>2. Current \in Calls
  BY <1>1, TakesProperties
<1>3. /\ r.path \in Paths /\ r.cb \in Cbs /\ r.err \in Errs
      /\ Success(r) \in Posts /\ Failure(r) \in Posts
  BY <1>2 DEF Calls, Success, Failure, Posts, Successes, Errors
<1>4. /\ ioq' \in Seq(Tasks)
      /\ ServiceTypeOK' /\ SignalTypeOK' /\ RunTypeOK' /\ CounterPositive'
      /\ UNCHANGED <<dir, fsOps>>
  BY <1>1, EndsProperties
<1> HIDE DEF r
<1>5. mainq' \in Seq(Posts) /\ postFailures' \in 0..MaxPostFailures
  <2>1. \/ UNCHANGED <<mainq, postFailures>>
        \/ Report(Success(r)) \/ Report(Failure(r))
    BY DEF AddPathRunnable, AddMissing, AddKnown, AddRefused, AddWatched, r
  <2>2. mainq \in Seq(Posts) /\ postFailures \in 0..MaxPostFailures
    BY DEF TypeInv, TypeOK, QueueTypeOK
  <2> QED
    BY <2>1, <2>2, <1>3, ReportTypes
<1>6. QueueTypeOK'
  BY <1>1, <1>4, <1>5 DEF TypeInv, TypeOK, QueueTypeOK
<1>7. KernelTypeOK' /\ TableTypeOK'
  <2>1. CASE AddMissing \/ AddRefused
    BY <2>1, <1>4, Frame DEF AddMissing, AddRefused, InotifyAddWatchFails, kernelVars
  <2>2. CASE AddKnown
    <3>1. AppendCallbacks(r.path, r.cb, r.err)
      BY <2>2 DEF AddKnown, r
    <3>2. /\ UNCHANGED <<kwatch, nextWd, kq, sigPending>>
          /\ UNCHANGED <<mWatchedResourcesByPath, mWatchedResourcesByHandle>>
      BY <2>2 DEF AddKnown
    <3>3. KernelTypeOK'
      BY <3>2, <1>4, Frame DEF kernelVars
    <3> QED
      BY <3>1, <3>2, <3>3, <1>3, CallbackTypes DEF TypeInv, TypeOK, TableTypeOK
  <2>3. CASE AddWatched
    <3>1. PICK w \in Wds :
            /\ InotifyAddWatch(dir[r.path], w)
            /\ mWatchedResourcesByPath' = [mWatchedResourcesByPath EXCEPT ![r.path] = w]
            /\ mWatchedResourcesByHandle' = [mWatchedResourcesByHandle EXCEPT ![w] = r.path]
      BY <2>3 DEF AddWatched, r
    <3>2. AppendCallbacks(r.path, r.cb, r.err) /\ UNCHANGED <<kq, sigPending>>
      BY <2>3 DEF AddWatched, r
    <3>3. KernelTypeOK
      BY DEF TypeInv, TypeOK
    <3>4. kwatch' \in [Inodes -> Wds \cup {NoWd}]
      BY <3>1, <3>3 DEF InotifyAddWatch, KernelTypeOK
    <3>5. nextWd' \in 1..(MaxWd + 1)
      BY <3>1, <3>3, KernelAssumption DEF InotifyAddWatch, KernelTypeOK, Wds
    <3>6. KernelTypeOK'
      BY <3>2, <3>3, <3>4, <3>5, <1>4 DEF KernelTypeOK
    <3>7. /\ mWatchedResourcesByPath' \in [Paths -> Wds \cup {NoWd}]
          /\ mWatchedResourcesByHandle' \in [Wds -> Paths \cup {NoPath}]
      BY <3>1, <1>3 DEF TypeInv, TypeOK, TableTypeOK
    <3> QED
      BY <3>2, <3>6, <3>7, <1>3, CallbackTypes DEF TableTypeOK
  <2> QED
    BY <2>1, <2>2, <2>3 DEF AddPathRunnable
<1> QED
  BY <1>4, <1>6, <1>7 DEF TypeInv, TypeOK

\* Closing a watch: its events and the last one, IN_IGNORED, are signalled.
LEMMA CloseWatchProperties ==
  ASSUME TypeOK, NEW w \in Wds, CloseWatch(w)
  PROVE  /\ kwatch' \in [Inodes -> Wds \cup {NoWd}]
         /\ kwatch' = [i \in Inodes |-> IF kwatch[i] = w THEN NoWd ELSE kwatch[i]]
         /\ nextWd' = nextWd
         /\ kq' \in Seq(KernelEvents)
         /\ sigPending' \in BOOLEAN
         /\ (kq' = kq /\ sigPending' = sigPending) \/ sigPending'
<1>1. KernelTypeOK
  BY DEF TypeOK
<1>2. Notify(Queued(kq, Ignored(w)))
  BY DEF CloseWatch, InotifyRmWatch
<1>3. kwatch' = [i \in Inodes |-> IF kwatch[i] = w THEN NoWd ELSE kwatch[i]]
      /\ nextWd' = nextWd
  BY DEF CloseWatch, InotifyRmWatch
<1>4. kwatch' \in [Inodes -> Wds \cup {NoWd}]
  BY <1>1, <1>3 DEF KernelTypeOK
<1>5. Ignored(w) \in KernelEvents
  BY EventTypes
<1>6. /\ kq' \in Seq(KernelEvents)
      /\ sigPending' \in BOOLEAN
      /\ (kq' = kq /\ sigPending' = sigPending) \/ sigPending'
  BY <1>1, <1>2, <1>5, QueuedProperties, NotifyProperties DEF KernelTypeOK
<1> QED
  BY <1>3, <1>4, <1>6

LEMMA RemovePathTypes == TypeInv /\ RemovePathRunnable => TypeInv'
<1> SUFFICES ASSUME TypeInv, RemovePathRunnable PROVE TypeInv'
  OBVIOUS
<1> DEFINE r == Current
<1>1. Takes("remove") /\ Ends /\ UNCHANGED mShuttingDown
  BY DEF RemovePathRunnable, RemoveUnwatched, RemoveUnregistered, RemoveOne,
         RemoveAborted, RemoveLast, Removes
<1>2. Current \in Calls
  BY <1>1, TakesProperties
<1>3. /\ r.path \in Paths /\ r.cb \in Cbs /\ r.err \in Errs
      /\ Success(r) \in Posts
  BY <1>2 DEF Calls, Success, Posts, Successes
<1>4. /\ ioq' \in Seq(Tasks)
      /\ ServiceTypeOK' /\ SignalTypeOK' /\ RunTypeOK' /\ CounterPositive'
      /\ UNCHANGED <<dir, fsOps>>
  BY <1>1, EndsProperties
<1> HIDE DEF r
<1>5. mainq' \in Seq(Posts) /\ postFailures' \in 0..MaxPostFailures
  <2>1. UNCHANGED <<mainq, postFailures>> \/ Report(Success(r))
    BY DEF RemovePathRunnable, RemoveUnwatched, RemoveUnregistered, RemoveOne,
           RemoveAborted, RemoveLast, r
  <2>2. mainq \in Seq(Posts) /\ postFailures \in 0..MaxPostFailures
    BY DEF TypeInv, TypeOK, QueueTypeOK
  <2> QED
    BY <2>1, <2>2, <1>3, ReportTypes
<1>6. crash' = crash \/ crash' = "unregistered"
  BY DEF RemovePathRunnable, RemoveUnwatched, RemoveUnregistered, RemoveOne,
         RemoveAborted, RemoveLast
<1>7. QueueTypeOK'
  BY <1>1, <1>4, <1>5, <1>6 DEF TypeInv, TypeOK, QueueTypeOK
<1>8. KernelTypeOK' /\ TableTypeOK'
  <2>1. CASE RemoveUnwatched \/ RemoveUnregistered
    BY <2>1, <1>4, Frame DEF RemoveUnwatched, RemoveUnregistered, kernelVars
  <2>2. CASE RemoveOne \/ RemoveAborted
    <3>1. RemoveCallbacks(r.path, r.cb, r.err)
      BY <2>2 DEF RemoveOne, RemoveAborted, r
    <3>2. /\ UNCHANGED <<kwatch, nextWd, kq, sigPending>>
          /\ UNCHANGED <<mWatchedResourcesByPath, mWatchedResourcesByHandle>>
      BY <2>2 DEF RemoveOne, RemoveAborted
    <3>3. KernelTypeOK'
      BY <3>2, <1>4, Frame DEF kernelVars
    <3> QED
      BY <3>1, <3>2, <3>3, <1>3, CallbackTypes DEF TypeInv, TypeOK, TableTypeOK
  <2>3. CASE RemoveLast
    <3> DEFINE w == mWatchedResourcesByPath[r.path]
    <3>1. /\ RemoveCallbacks(r.path, r.cb, r.err)
          /\ w \in LiveWds
          /\ CloseWatch(w)
          /\ Unindex(r.path, w)
      BY <2>3 DEF RemoveLast, r
    <3>2. w \in Wds
      BY <3>1, <1>3 DEF LiveWds, TypeInv, TypeOK, TableTypeOK
    <3> HIDE DEF w
    <3>3. KernelTypeOK'
      BY <3>1, <3>2, <1>4, CloseWatchProperties DEF TypeInv, TypeOK, KernelTypeOK
    <3>4. /\ mWatchedResourcesByPath' \in [Paths -> Wds \cup {NoWd}]
          /\ mWatchedResourcesByHandle' \in [Wds -> Paths \cup {NoPath}]
      BY <3>1, <3>2, <1>3 DEF TypeInv, TypeOK, TableTypeOK, Unindex
    <3> QED
      BY <3>1, <3>3, <3>4, <1>3, CallbackTypes DEF TableTypeOK
  <2> QED
    BY <2>1, <2>2, <2>3 DEF RemovePathRunnable
<1> QED
  BY <1>4, <1>7, <1>8 DEF TypeInv, TypeOK

LEMMA DeactivateTypes == TypeInv /\ DeactivateRunnable => TypeInv'
<1> SUFFICES ASSUME TypeInv, DeactivateRunnable PROVE TypeInv'
  OBVIOUS
<1>1. /\ ioq' \in Seq(Tasks)
      /\ ServiceTypeOK' /\ SignalTypeOK' /\ RunTypeOK' /\ CounterPositive'
      /\ UNCHANGED <<dir, fsOps>>
  BY EndsProperties DEF DeactivateRunnable
<1>2. KernelTypeOK'
  <2>1. kwatch' \in [Inodes -> Wds \cup {NoWd}] /\ kq' \in Seq(KernelEvents)
    BY DEF DeactivateRunnable, InotifyClose
  <2>2. UNCHANGED <<nextWd, sigPending>>
    BY DEF DeactivateRunnable, InotifyClose
  <2> QED
    BY <2>1, <2>2, <1>1 DEF TypeInv, TypeOK, KernelTypeOK
<1>3. TableTypeOK'
  <2>1. mWatchedResourcesByPath' \in [Paths -> Wds \cup {NoWd}]
    BY DEF DeactivateRunnable
  <2>2. mWatchedResourcesByHandle' \in [Wds -> Paths \cup {NoPath}]
    BY DEF DeactivateRunnable
  <2>3. mChangeCallbacksTable' \in [Paths -> SUBSET Cbs]
    BY DEF DeactivateRunnable
  <2>4. mErrorCallbacksTable' \in [Paths -> SUBSET Errs]
    BY DEF DeactivateRunnable
  <2> QED
    BY <2>1, <2>2, <2>3, <2>4 DEF TableTypeOK
<1>4. QueueTypeOK'
  <2>1. UNCHANGED <<mainq, postFailures>>
    BY DEF DeactivateRunnable
  <2>2. mShuttingDown' \in BOOLEAN
    BY DEF DeactivateRunnable
  <2>3. crash' \in {"none", "unregistered", "stale_event", "deactivated"}
    BY DEF DeactivateRunnable, TypeInv, TypeOK, QueueTypeOK
  <2> QED
    BY <2>1, <2>2, <2>3, <1>1 DEF TypeInv, TypeOK, QueueTypeOK
<1> QED
  BY <1>1, <1>2, <1>3, <1>4 DEF TypeInv, TypeOK

-----------------------------------------------------------------------------
(***************************************************************************)
(* Run.                                                                    *)
(***************************************************************************)
\* A step of Run leaves the tables, the service and most of the kernel alone.
LEMMA RunFrameTypes ==
  ASSUME TypeInv, RunFrame, kq' \in Seq(KernelEvents), mEventWaiting' \in Nat
  PROVE  KernelTypeOK' /\ ServiceTypeOK' /\ SignalTypeOK' /\ TableTypeOK'
<1>1. KernelTypeOK'
  BY DEF TypeInv, TypeOK, KernelTypeOK, RunFrame
<1>2. SignalTypeOK'
  BY DEF TypeInv, TypeOK, SignalTypeOK, RunFrame
<1>3. UNCHANGED tableVars /\ UNCHANGED <<initialised, mIOThread, calls, historyVars>>
  BY DEF RunFrame, mainVars, historyVars
<1> QED
  BY <1>1, <1>2, <1>3, Frame

\* The IO thread's queue without its oldest runnable, with or without Run.
LEMMA RescheduleTypes ==
  ASSUME TypeInv
  PROVE  /\ Reschedule(ioq) \in Seq(Tasks)
         /\ Takes("run") => Tail(ioq) \in Seq(Tasks) /\ Reschedule(Tail(ioq)) \in Seq(Tasks)
<1>1. ioq \in Seq(Tasks) /\ RunTask \in Tasks
  BY DEF TypeInv, TypeOK, QueueTypeOK, Tasks
<1>2. \A q \in Seq(Tasks) : Append(q, RunTask) \in Seq(Tasks)
  BY <1>1
<1>3. Takes("run") => Tail(ioq) \in Seq(Tasks)
  BY <1>1 DEF Takes
<1> QED
  BY <1>1, <1>2, <1>3 DEF Reschedule

\* Run's decision to work or to come back later.
LEMMA RunStartTypes == TypeInv /\ (RunInShutdown \/ RunNothing \/ RunBegin) => TypeInv'
<1> SUFFICES ASSUME TypeInv, RunInShutdown \/ RunNothing \/ RunBegin PROVE TypeInv'
  OBVIOUS
<1>1. /\ Takes("run") /\ RunFrame
      /\ UNCHANGED <<kq, mEventWaiting, loaded, mInotifyReadTimeout, mInotifyEventQueue>>
      /\ UNCHANGED <<runFailed, cutShort, mainq, crash, postFailures>>
  BY DEF RunInShutdown, RunNothing, RunBegin, runVars
<1>2. io' = io \/ (io' = "load" /\ mEventWaiting # 0)
  BY DEF RunInShutdown, RunNothing, RunBegin, runVars
<1>3. ioq' = Tail(ioq) \/ ioq' = Reschedule(Tail(ioq))
  BY DEF RunInShutdown, RunNothing, RunBegin
<1>4. kq' \in Seq(KernelEvents) /\ mEventWaiting' \in Nat
  BY <1>1 DEF TypeInv, TypeOK, KernelTypeOK, SignalTypeOK
<1>5. KernelTypeOK' /\ ServiceTypeOK' /\ SignalTypeOK' /\ TableTypeOK'
  BY <1>1, <1>4, RunFrameTypes
<1>6. RunTypeOK'
  BY <1>1, <1>2 DEF TypeInv, TypeOK, RunTypeOK
<1>7. CounterPositive'
  BY <1>1, <1>2, <1>4 DEF TypeInv, CounterPositive
<1>8. ioq' \in Seq(Tasks)
  BY <1>1, <1>3, RescheduleTypes
<1>9. QueueTypeOK'
  BY <1>1, <1>8 DEF TypeInv, TypeOK, QueueTypeOK, RunFrame
<1> QED
  BY <1>5, <1>6, <1>7, <1>9 DEF TypeInv, TypeOK

\* The decrement: what was loaded was positive, so the result is a natural.
LEMMA RunCountTypes == TypeInv /\ (RunLoad \/ RunStore) => TypeInv'
<1> SUFFICES ASSUME TypeInv, RunLoad \/ RunStore PROVE TypeInv'
  OBVIOUS
<1>1. /\ RunFrame
      /\ UNCHANGED <<kq, mInotifyEventQueue, runFailed, cutShort>>
      /\ UNCHANGED <<mainq, ioq, crash, postFailures>>
  BY DEF RunLoad, RunStore, InRun
<1>2. \/ /\ io = "load" /\ io' = "store" /\ loaded' = mEventWaiting
         /\ UNCHANGED <<mEventWaiting, mInotifyReadTimeout>>
      \/ /\ io = "store" /\ io' = "read" /\ loaded' = loaded
         /\ mEventWaiting' = loaded - 1 /\ mInotifyReadTimeout' = ReadLimit
  BY DEF RunLoad, RunStore, InRun
<1>3. /\ mEventWaiting \in Nat /\ loaded \in Nat
      /\ mInotifyReadTimeout \in 1..ReadLimit
      /\ io = "load" => mEventWaiting >= 1
      /\ io = "store" => loaded >= 1
  BY DEF TypeInv, TypeOK, SignalTypeOK, RunTypeOK, CounterPositive
<1>4. mEventWaiting' \in Nat /\ loaded' \in Nat
  BY <1>2, <1>3
<1>5. mInotifyReadTimeout' \in 1..ReadLimit
  BY <1>2, <1>3, WatcherAssumption
<1>6. CounterPositive'
  BY <1>2, <1>3 DEF CounterPositive
<1>7. kq' \in Seq(KernelEvents)
  BY <1>1 DEF TypeInv, TypeOK, KernelTypeOK
<1>8. KernelTypeOK' /\ ServiceTypeOK' /\ SignalTypeOK' /\ TableTypeOK'
  BY <1>1, <1>4, <1>7, RunFrameTypes
<1>9. io' \in {"idle", "load", "store", "read", "process"}
  BY <1>2
<1>10. RunTypeOK'
  BY <1>1, <1>4, <1>5, <1>9 DEF TypeInv, TypeOK, RunTypeOK
<1>11. QueueTypeOK'
  BY <1>1 DEF TypeInv, TypeOK, QueueTypeOK, RunFrame
<1> QED
  BY <1>6, <1>8, <1>10, <1>11 DEF TypeInv, TypeOK

LEMMA RunReadTypes == TypeInv /\ (ReadNothing \/ ReadEvent \/ ReadCutShort) => TypeInv'
<1> SUFFICES ASSUME TypeInv, ReadNothing \/ ReadEvent \/ ReadCutShort PROVE TypeInv'
  OBVIOUS
<1> USE DEF StartProcessing
<1>1. /\ RunFrame /\ io = "read"
      /\ UNCHANGED <<mEventWaiting, loaded, runFailed, mainq, ioq, crash, postFailures>>
  BY DEF ReadNothing, ReadEvent, ReadCutShort, InRun
<1>2. io' \in {"read", "process"} /\ cutShort' \in BOOLEAN
  BY DEF ReadNothing, ReadEvent, ReadCutShort, InRun, TypeInv, TypeOK, RunTypeOK
<1>3. kq' \in Seq(KernelEvents)
  BY ReadProperties DEF ReadNothing, ReadEvent, ReadCutShort, TypeInv, TypeOK, KernelTypeOK
<1>4. mInotifyReadTimeout \in 1..ReadLimit /\ mInotifyEventQueue \in Seq(KernelEvents)
  BY DEF TypeInv, TypeOK, RunTypeOK
<1>5. mInotifyReadTimeout' \in 1..ReadLimit
  <2>1. \/ mInotifyReadTimeout' = ReadLimit
        \/ mInotifyReadTimeout' = mInotifyReadTimeout - 1 /\ mInotifyReadTimeout - 1 > 0
    BY DEF ReadNothing, ReadEvent, ReadCutShort
  <2> QED
    BY <1>4, <2>1, WatcherAssumption
<1>6. mInotifyEventQueue' \in Seq(KernelEvents)
  <2>1. CASE ReadEvent
    <3>1. Head(kq) \in KernelEvents
      BY <2>1, ReadProperties DEF ReadEvent, TypeInv
    <3> QED
      BY <1>4, <2>1, <3>1 DEF ReadEvent
  <2>2. CASE ReadNothing \/ ReadCutShort
    BY <1>4, <2>2 DEF ReadNothing, ReadCutShort
  <2> QED
    BY <2>1, <2>2
<1>7. mEventWaiting' \in Nat
  BY <1>1 DEF TypeInv, TypeOK, SignalTypeOK
<1>8. KernelTypeOK' /\ ServiceTypeOK' /\ SignalTypeOK' /\ TableTypeOK'
  BY <1>1, <1>3, <1>7, RunFrameTypes
<1>9. RunTypeOK'
  BY <1>1, <1>2, <1>5, <1>6 DEF TypeInv, TypeOK, RunTypeOK
<1>10. QueueTypeOK'
  BY <1>1 DEF TypeInv, TypeOK, QueueTypeOK, RunFrame
<1>11. CounterPositive'
  BY <1>2 DEF CounterPositive
<1> QED
  BY <1>8, <1>9, <1>10, <1>11 DEF TypeInv, TypeOK

ProcessStep == SkipUnmasked \/ StaleEvent \/ SkipRefused
               \/ DispatchChange \/ DispatchChangeFails

\* What an event of the process loop posts is a change of the type of a post.
LEMMA PostChangeTypes ==
  ASSUME TypeInv, DescriptorValid, NEW cbs \in SUBSET Cbs, PostChange(cbs)
  PROVE  mainq' \in Seq(Posts)
<1> DEFINE m == [kind |-> "change", path |-> EventPath, cbs |-> cbs,
                 name |-> IF Event.kind = "entry" THEN "entry" ELSE "unset"]
<1>1. mainq \in Seq(Posts)
  BY DEF TypeInv, TypeOK, QueueTypeOK
<1>2. EventPath \in Paths
  BY DEF DescriptorValid, EventPath, TypeInv, TypeOK, TableTypeOK
<1>3. cbs # {} => m \in Posts
  BY <1>2 DEF Posts, Changes
<1>4. mainq' = IF cbs = {} THEN mainq ELSE Append(mainq, m)
  BY DEF PostChange
<1> HIDE DEF m
<1> QED
  BY <1>1, <1>3, <1>4

LEMMA RunProcessTypes == TypeInv /\ ProcessStep => TypeInv'
<1> SUFFICES ASSUME TypeInv, ProcessStep PROVE TypeInv'
  OBVIOUS
<1> USE DEF ProcessStep
<1>1. ProcessLoop
  BY DEF SkipUnmasked, StaleEvent, SkipRefused, DispatchChange, DispatchChangeFails
<1>2. /\ RunFrame /\ io = "process"
      /\ mInotifyEventQueue # <<>> /\ mInotifyReadTimeout - 1 > 0
      /\ UNCHANGED <<kq, mEventWaiting, loaded, cutShort>>
  BY <1>1 DEF ProcessLoop, InRun
<1>3. /\ ioq' = ioq
      /\ io' \in {"idle", "process"}
      /\ runFailed' = runFailed \/ runFailed' = TRUE
      /\ crash' = crash \/ crash' = "stale_event"
  BY <1>2 DEF SkipUnmasked, StaleEvent, SkipRefused, DispatchChange,
              DispatchChangeFails, PopEvent
<1>4. \/ UNCHANGED <<mInotifyReadTimeout, mInotifyEventQueue>>
      \/ /\ mInotifyEventQueue' = Tail(mInotifyEventQueue)
         /\ mInotifyReadTimeout' = mInotifyReadTimeout - 1
  BY DEF SkipUnmasked, StaleEvent, SkipRefused, DispatchChange,
         DispatchChangeFails, PopEvent
<1>5. mInotifyReadTimeout \in 1..ReadLimit /\ mInotifyEventQueue \in Seq(KernelEvents)
  BY DEF TypeInv, TypeOK, RunTypeOK
<1>6. mInotifyReadTimeout' \in 1..ReadLimit
  BY <1>2, <1>4, <1>5, WatcherAssumption
<1>7. mInotifyEventQueue' \in Seq(KernelEvents)
  BY <1>2, <1>4, <1>5
<1>8. mainq' \in Seq(Posts)
  <2>1. CASE SkipUnmasked \/ StaleEvent \/ SkipRefused
    BY <2>1 DEF SkipUnmasked, StaleEvent, SkipRefused, TypeInv, TypeOK, QueueTypeOK
  <2>2. CASE DispatchChange \/ DispatchChangeFails
    <3>1. DescriptorValid
      BY <2>2 DEF DispatchChange, DispatchChangeFails
    <3>2. EventPath \in Paths
      BY <3>1 DEF DescriptorValid, EventPath, TypeInv, TypeOK, TableTypeOK
    <3>3. mChangeCallbacksTable[EventPath] \in SUBSET Cbs
      BY <3>2 DEF TypeInv, TypeOK, TableTypeOK
    <3>4. \E cbs \in SUBSET Cbs : PostChange(cbs)
      BY <2>2, <3>3 DEF DispatchChange, DispatchChangeFails
    <3> QED
      BY <3>1, <3>4, PostChangeTypes
  <2> QED
    BY <2>1, <2>2
<1>9. postFailures' \in 0..MaxPostFailures
  <2>1. postFailures \in 0..MaxPostFailures
    BY DEF TypeInv, TypeOK, QueueTypeOK
  <2>2. \/ postFailures' = postFailures
        \/ postFailures' = postFailures + 1 /\ postFailures < MaxPostFailures
    BY DEF SkipUnmasked, StaleEvent, SkipRefused, DispatchChange,
           DispatchChangeFails, PostFails
  <2> QED
    BY <2>1, <2>2, WatcherAssumption
<1>10. kq' \in Seq(KernelEvents) /\ mEventWaiting' \in Nat
  BY <1>2 DEF TypeInv, TypeOK, KernelTypeOK, SignalTypeOK
<1>11. KernelTypeOK' /\ ServiceTypeOK' /\ SignalTypeOK' /\ TableTypeOK'
  BY <1>2, <1>10, RunFrameTypes
<1>12. RunTypeOK'
  BY <1>2, <1>3, <1>6, <1>7 DEF TypeInv, TypeOK, RunTypeOK
<1>13. QueueTypeOK'
  <2>1. crash' \in {"none", "unregistered", "stale_event", "deactivated"}
    BY <1>3 DEF TypeInv, TypeOK, QueueTypeOK
  <2> QED
    BY <1>2, <1>3, <1>8, <1>9, <2>1 DEF TypeInv, TypeOK, QueueTypeOK, RunFrame
<1>14. CounterPositive'
  BY <1>3 DEF CounterPositive
<1> QED
  BY <1>11, <1>12, <1>13, <1>14 DEF TypeInv, TypeOK

LEMMA RunEndTypes == TypeInv /\ RunEnd => TypeInv'
<1> SUFFICES ASSUME TypeInv, RunEnd PROVE TypeInv'
  OBVIOUS
<1>1. /\ RunFrame /\ io' = "idle" /\ ioq' = Reschedule(ioq)
      /\ UNCHANGED <<kq, mEventWaiting, loaded, mInotifyReadTimeout, mInotifyEventQueue>>
      /\ UNCHANGED <<runFailed, cutShort, mainq, crash, postFailures>>
  BY DEF RunEnd, InRun
<1>2. kq' \in Seq(KernelEvents) /\ mEventWaiting' \in Nat
  BY <1>1 DEF TypeInv, TypeOK, KernelTypeOK, SignalTypeOK
<1>3. KernelTypeOK' /\ ServiceTypeOK' /\ SignalTypeOK' /\ TableTypeOK'
  BY <1>1, <1>2, RunFrameTypes
<1>4. RunTypeOK'
  BY <1>1 DEF TypeInv, TypeOK, RunTypeOK
<1>5. QueueTypeOK'
  BY <1>1, RescheduleTypes DEF TypeInv, TypeOK, QueueTypeOK, RunFrame
<1>6. CounterPositive'
  BY <1>1 DEF CounterPositive
<1> QED
  BY <1>3, <1>4, <1>5, <1>6 DEF TypeInv, TypeOK

-----------------------------------------------------------------------------
(***************************************************************************)
(* Type correctness.                                                       *)
(***************************************************************************)
LEMMA FileSystemTypes == TypeInv /\ FileSystem => TypeInv'
<1> SUFFICES ASSUME TypeInv, FileSystem PROVE TypeInv'
  OBVIOUS
<1>1. KernelTypeOK'
  BY FsNextProperties DEF FileSystem, TypeInv
<1>2. UNCHANGED <<signalVars, runVars, tableVars, mainVars>>
      /\ UNCHANGED <<mainq, ioq, mShuttingDown, crash, postFailures>>
  BY DEF FileSystem, watcherVars
<1>3. UNCHANGED <<initialised, mIOThread, calls, historyVars>>
  BY <1>2 DEF mainVars, historyVars
<1>4. QueueTypeOK'
  BY <1>2 DEF TypeInv, TypeOK, QueueTypeOK
<1> QED
  BY <1>1, <1>2, <1>3, <1>4, Frame DEF TypeInv, TypeOK

LEMMA StutterTypes == TypeInv /\ UNCHANGED vars => TypeInv'
<1> SUFFICES ASSUME TypeInv, UNCHANGED vars PROVE TypeInv'
  OBVIOUS
<1>1. /\ UNCHANGED <<kernelVars, signalVars, runVars, tableVars>>
      /\ UNCHANGED <<mainVars, mainq, ioq, mShuttingDown, crash, postFailures>>
  BY DEF vars
<1>2. UNCHANGED <<initialised, mIOThread, calls, historyVars>>
  BY <1>1 DEF mainVars, historyVars
<1>3. QueueTypeOK'
  BY <1>1 DEF TypeInv, TypeOK, QueueTypeOK
<1> QED
  BY <1>1, <1>2, <1>3, Frame DEF TypeInv, TypeOK

\* Every step keeps the types, and the counter positive where Run needs it.
LEMMA TypeStep == TypeInv /\ [Next]_vars => TypeInv'
<1> SUFFICES ASSUME TypeInv, [Next]_vars PROVE TypeInv'
  OBVIOUS
<1>1. CASE MainThread
  <2>1. ASSUME NEW p \in Paths, NEW c \in Cbs, NEW e \in Errs,
               AddPath(p, c, e) \/ RemovePath(p, c, e)
        PROVE  TypeInv'
    BY <2>1, DispatchCallTypes DEF AddPath, RemovePath
  <2> QED
    BY <1>1, <2>1, ServiceInitTypes, UninitTypes DEF MainThread
<1>2. CASE DeliverNext
  BY <1>2, DeliverTypes
<1>3. CASE Signals
  BY <1>3, SignalTypes DEF Signals
<1>4. CASE Run
  BY <1>4, RunStartTypes, RunCountTypes, RunReadTypes, RunProcessTypes, RunEndTypes
  DEF Run, ProcessStep
<1>5. CASE AddPathRunnable \/ RemovePathRunnable \/ DeactivateRunnable
  BY <1>5, AddPathTypes, RemovePathTypes, DeactivateTypes
<1>6. CASE FileSystem
  BY <1>6, FileSystemTypes
<1>7. CASE UNCHANGED vars
  BY <1>7, StutterTypes
<1> QED
  BY <1>1, <1>2, <1>3, <1>4, <1>5, <1>6, <1>7 DEF Next, IOThread

LEMMA AlwaysTypeInv == Spec => []TypeInv
  BY InitTypes, TypeStep, PTL DEF Spec

\* Type correctness: in every reachable state every variable has its type; in
\* particular the racy decrement of mEventWaiting never takes it below zero.
THEOREM TypeCorrect == Spec => []TypeOK
<1>1. TypeInv => TypeOK
  BY DEF TypeInv
<1> QED
  BY <1>1, AlwaysTypeInv, PTL

-----------------------------------------------------------------------------
(***************************************************************************)
(* The wake-up protocol.                                                   *)
(***************************************************************************)
\* What a step that does not belong to the protocol may do: leave the kernel's
\* queue as it is, or signal what it queued, or empty the queue.
LEMMA WakeupFrame ==
  ASSUME NoLostWakeup, UNCHANGED <<handler, mEventWaiting, io, cutShort>>,
         \/ kq' = <<>>
         \/ kq' = kq /\ sigPending' = sigPending
         \/ sigPending'
  PROVE  NoLostWakeup'
  BY DEF NoLostWakeup, WakeupComing

\* The calls and the end of the service keep a wake-up coming.
LEMMA CallsWakeup ==
  ASSUME TypeInv, NoLostWakeup,
         AddPathRunnable \/ RemovePathRunnable \/ DeactivateRunnable
  PROVE  NoLostWakeup'
<1>1. Ends
  BY DEF AddPathRunnable, AddMissing, AddKnown, AddRefused, AddWatched,
         RemovePathRunnable, RemoveUnwatched, RemoveUnregistered, RemoveOne,
         RemoveAborted, RemoveLast, DeactivateRunnable
<1>2. UNCHANGED <<handler, mEventWaiting, io, cutShort>>
  BY <1>1 DEF Ends, CallVars, signalVars, runVars
<1>3. CASE RemoveLast
  <2> DEFINE w == mWatchedResourcesByPath[Current.path]
  <2>1. w \in LiveWds /\ CloseWatch(w)
    BY <1>3 DEF RemoveLast
  <2>2. w \in Wds
    BY <2>1 DEF LiveWds, TypeInv, TypeOK, KernelTypeOK
  <2> HIDE DEF w
  <2>3. (kq' = kq /\ sigPending' = sigPending) \/ sigPending'
    BY <2>1, <2>2, CloseWatchProperties DEF TypeInv
  <2> QED
    BY <1>2, <2>3, WakeupFrame
<1>4. CASE DeactivateRunnable
  <2>1. kq' = <<>>
    BY <1>4 DEF DeactivateRunnable, InotifyClose
  <2> QED
    BY <1>2, <2>1, WakeupFrame
<1>5. CASE ~RemoveLast /\ ~DeactivateRunnable
  <2>1. UNCHANGED <<kq, sigPending>>
    BY <1>5 DEF AddPathRunnable, AddMissing, AddKnown, AddRefused, AddWatched,
           RemovePathRunnable, RemoveUnwatched, RemoveUnregistered, RemoveOne, RemoveAborted
  <2> QED
    BY <1>2, <2>1, WakeupFrame
<1> QED
  BY <1>3, <1>4, <1>5

\* The handler's load makes it the wake-up, its store leaves a positive counter.
LEMMA SignalsWakeup ==
  ASSUME TypeInv, NoLostWakeup, NEW t \in SignalThreads, SignalLoad(t) \/ SignalStore(t)
  PROVE  NoLostWakeup'
<1>1. /\ mEventWaiting \in Nat
      /\ handler \in [SignalThreads -> Nat \cup {NotHandling}]
  BY DEF TypeInv, TypeOK, SignalTypeOK
<1>2. CASE SignalLoad(t)
  <2>1. handler'[t] = mEventWaiting
    BY <1>1, <1>2 DEF SignalLoad
  <2>2. handler'[t] # NotHandling
    BY <1>1, <2>1 DEF NotHandling
  <2> QED
    BY <2>2 DEF NoLostWakeup, WakeupComing
<1>3. CASE SignalStore(t)
  <2>1. handler[t] \in Nat
    BY <1>1, <1>3 DEF SignalStore
  <2>2. mEventWaiting' = handler[t] + 1
    BY <1>3 DEF SignalStore
  <2>3. mEventWaiting' > 0
    BY <2>1, <2>2
  <2> QED
    BY <2>3 DEF NoLostWakeup, WakeupComing
<1> QED
  BY <1>2, <1>3

\* Run's decrement is followed by a read loop that ends on an empty queue, or
\* is cut short.
LEMMA RunWakeup ==
  ASSUME TypeInv, NoLostWakeup, Run
  PROVE  NoLostWakeup'
<1>1. CASE RunInShutdown \/ RunNothing
  <2>1. UNCHANGED <<handler, mEventWaiting, io, cutShort, kq, sigPending>>
    BY <1>1 DEF RunInShutdown, RunNothing, RunFrame, runVars
  <2> QED
    BY <2>1, WakeupFrame
<1>2. CASE RunBegin \/ RunLoad \/ RunStore \/ ReadEvent
  <2>1. io' \in {"load", "store", "read"}
    BY <1>2 DEF RunBegin, RunLoad, RunStore, ReadEvent, InRun
  <2> QED
    BY <2>1 DEF NoLostWakeup, WakeupComing
<1>3. CASE ReadNothing
  <2>1. kq' = <<>>
    BY <1>3 DEF ReadNothing
  <2> QED
    BY <2>1 DEF NoLostWakeup
<1>4. CASE ReadCutShort
  BY <1>4 DEF ReadCutShort, NoLostWakeup
<1>5. CASE ProcessStep \/ RunEnd
  <2>1. io = "process" /\ UNCHANGED <<handler, mEventWaiting, cutShort, kq, sigPending>>
    BY <1>5 DEF ProcessStep, SkipUnmasked, StaleEvent, SkipRefused, DispatchChange,
           DispatchChangeFails, ProcessLoop, RunEnd, InRun, RunFrame
  <2> QED
    BY <2>1 DEF NoLostWakeup, WakeupComing
<1> QED
  BY <1>1, <1>2, <1>3, <1>4, <1>5 DEF Run, ProcessStep

LEMMA WakeupStep ==
  ASSUME TypeInv, NoLostWakeup, [Next]_vars
  PROVE  NoLostWakeup'
<1>1. CASE MainThread \/ DeliverNext \/ UNCHANGED vars
  <2>1. UNCHANGED <<handler, mEventWaiting, io, cutShort, kq, sigPending>>
    BY <1>1 DEF MainThread, ServiceInit, AddPath, RemovePath, DispatchCall, Uninit,
           DeliverNext, DeliverChange, DeliverSuccess, DeliverError, Delivered,
           vars, kernelVars, signalVars, runVars
  <2> QED
    BY <2>1, WakeupFrame
<1>2. CASE Signals
  BY <1>2, SignalsWakeup DEF Signals
<1>3. CASE IOThread
  BY <1>3, RunWakeup, CallsWakeup DEF IOThread
<1>4. CASE FileSystem
  <2>1. (kq' = kq /\ sigPending' = sigPending) \/ sigPending'
    BY <1>4, FsNextProperties DEF FileSystem, TypeInv
  <2>2. UNCHANGED <<handler, mEventWaiting, io, cutShort>>
    BY <1>4 DEF FileSystem, watcherVars, signalVars, runVars
  <2> QED
    BY <2>1, <2>2, WakeupFrame
<1> QED
  BY <1>1, <1>2, <1>3, <1>4 DEF Next

\* No lost wake-up: however the handlers' increments and Run's decrement of
\* mEventWaiting interleave, events that wait in the kernel have a signal, a
\* handler, a positive counter or a read loop coming, unless the last read loop
\* was cut short by its limit.
THEOREM NoWakeupLost == Spec => []NoLostWakeup
<1>1. Init => NoLostWakeup
  BY DEF Init, KernelInit, NoLostWakeup
<1>2. TypeInv /\ NoLostWakeup /\ [Next]_vars => NoLostWakeup'
  BY WakeupStep
<1> QED
  BY <1>1, <1>2, AlwaysTypeInv, PTL DEF Spec

-----------------------------------------------------------------------------
(***************************************************************************)
(* The limits of the two loops of RunInternal.                             *)
(***************************************************************************)
\* While no dispatch failed: the read loop has spent one pass per event it
\* kept, so the process loop, reset to the same limit, has more passes left
\* than events.
LoopInv ==
    ~runFailed =>
        /\ io \in {"idle", "load", "store"} => Len(mInotifyEventQueue) = 0
        /\ io = "read" => Len(mInotifyEventQueue) = ReadLimit - mInotifyReadTimeout
        /\ io = "process" => Len(mInotifyEventQueue) < mInotifyReadTimeout

\* The steps outside Run touch none of its variables.
LEMMA OutsideRun ==
  ASSUME [Next]_vars, ~Run
  PROVE  UNCHANGED runVars
<1>1. CASE MainThread \/ DeliverNext \/ UNCHANGED vars
  BY <1>1 DEF MainThread, ServiceInit, AddPath, RemovePath, DispatchCall, Uninit,
         DeliverNext, DeliverChange, DeliverSuccess, DeliverError, Delivered, vars
<1>2. CASE Signals
  BY <1>2 DEF Signals, SignalLoad, SignalStore
<1>3. CASE AddPathRunnable \/ RemovePathRunnable \/ DeactivateRunnable
  <2>1. Ends
    BY <1>3 DEF AddPathRunnable, AddMissing, AddKnown, AddRefused, AddWatched,
           RemovePathRunnable, RemoveUnwatched, RemoveUnregistered, RemoveOne,
           RemoveAborted, RemoveLast, DeactivateRunnable
  <2> QED
    BY <2>1 DEF Ends, CallVars
<1>4. CASE FileSystem
  BY <1>4 DEF FileSystem, watcherVars
<1> QED
  BY <1>1, <1>2, <1>3, <1>4 DEF Next, IOThread

LEMMA LoopStep ==
  ASSUME TypeInv, LoopInv, [Next]_vars
  PROVE  LoopInv'
<1> DEFINE n == Len(mInotifyEventQueue)
<1>0. /\ n \in Nat /\ ReadLimit \in Nat \ {0}
      /\ mInotifyReadTimeout \in 1..ReadLimit
      /\ mInotifyEventQueue \in Seq(KernelEvents)
  BY WatcherAssumption DEF TypeInv, TypeOK, RunTypeOK
<1>1. CASE ~Run
  BY <1>1, OutsideRun DEF LoopInv, runVars
<1>2. CASE RunInShutdown \/ RunNothing \/ RunBegin \/ RunLoad
  <2>1. /\ io \in {"idle", "load"} /\ io' \in {"idle", "load", "store"}
        /\ UNCHANGED <<mInotifyEventQueue, runFailed>>
    BY <1>2 DEF RunInShutdown, RunNothing, RunBegin, RunLoad, Takes, InRun, runVars
  <2> QED
    BY <2>1 DEF LoopInv
<1>3. CASE RunStore
  <2>1. /\ io = "store" /\ io' = "read" /\ mInotifyReadTimeout' = ReadLimit
        /\ UNCHANGED <<mInotifyEventQueue, runFailed>>
    BY <1>3 DEF RunStore, InRun
  <2> QED
    BY <1>0, <2>1 DEF LoopInv
<1>4. CASE ReadNothing \/ ReadCutShort
  <2>1. /\ io = "read" /\ io' = "process" /\ mInotifyReadTimeout' = ReadLimit
        /\ UNCHANGED <<mInotifyEventQueue, runFailed>>
    BY <1>4 DEF ReadNothing, ReadCutShort, InRun, StartProcessing
  <2> QED
    BY <1>0, <2>1 DEF LoopInv
<1>5. CASE ReadEvent
  <2>1. /\ io = "read" /\ io' = "read"
        /\ mInotifyReadTimeout' = mInotifyReadTimeout - 1
        /\ runFailed' = runFailed
    BY <1>5 DEF ReadEvent, InRun
  <2>2. Head(kq) \in KernelEvents
    BY <1>5, ReadProperties DEF ReadEvent, TypeInv
  <2>3. mInotifyEventQueue' = Append(mInotifyEventQueue, Head(kq))
    BY <1>5 DEF ReadEvent
  <2>4. Len(mInotifyEventQueue') = n + 1
    BY <1>0, <2>2, <2>3
  <2> QED
    BY <1>0, <2>1, <2>4 DEF LoopInv
<1>6. CASE DispatchChangeFails
  BY <1>6 DEF DispatchChangeFails, LoopInv
<1>7. CASE StaleEvent
  <2>1. UNCHANGED <<io, mInotifyReadTimeout, mInotifyEventQueue, runFailed>>
    BY <1>7 DEF StaleEvent
  <2> QED
    BY <2>1 DEF LoopInv
<1>8. CASE SkipUnmasked \/ SkipRefused \/ DispatchChange
  <2>1. /\ io = "process" /\ io' = "process" /\ runFailed' = runFailed
        /\ mInotifyEventQueue # <<>>
        /\ mInotifyEventQueue' = Tail(mInotifyEventQueue)
        /\ mInotifyReadTimeout' = mInotifyReadTimeout - 1
    BY <1>8 DEF SkipUnmasked, SkipRefused, DispatchChange, PopEvent, ProcessLoop, InRun
  <2>2. Len(mInotifyEventQueue') = n - 1
    BY <1>0, <2>1
  <2> QED
    BY <1>0, <2>1, <2>2 DEF LoopInv
<1>9. CASE RunEnd
  <2>1. /\ io = "process" /\ io' = "idle"
        /\ mInotifyEventQueue # <<>> => mInotifyReadTimeout - 1 = 0
        /\ UNCHANGED <<mInotifyReadTimeout, mInotifyEventQueue, runFailed>>
    BY <1>9 DEF RunEnd, InRun
  <2>2. mInotifyEventQueue = <<>> => n = 0
    OBVIOUS
  <2> QED
    BY <1>0, <2>1, <2>2 DEF LoopInv
<1> QED
  BY <1>1, <1>2, <1>3, <1>4, <1>5, <1>6, <1>7, <1>8, <1>9 DEF Run

\* One pass of Run takes care of every event it has read: when it gives the IO
\* thread back, no event is left behind in mInotifyEventQueue, unless a dispatch
\* to the main thread failed.
THEOREM EventsProcessed == Spec => []NothingLeftBehind
<1>1. Init => LoopInv
  BY DEF Init, LoopInv
<1>2. TypeInv /\ LoopInv /\ [Next]_vars => LoopInv'
  BY LoopStep
<1>3. TypeInv /\ LoopInv => NothingLeftBehind
  <2> SUFFICES ASSUME TypeInv, LoopInv, io = "idle", ~runFailed
               PROVE  mInotifyEventQueue = <<>>
    BY DEF NothingLeftBehind
  <2>1. mInotifyEventQueue \in Seq(KernelEvents)
    BY DEF TypeInv, TypeOK, RunTypeOK
  <2>2. Len(mInotifyEventQueue) = 0
    BY DEF LoopInv
  <2> QED
    BY <2>1, <2>2
<1> QED
  BY <1>1, <1>2, <1>3, AlwaysTypeInv, PTL DEF Spec

-----------------------------------------------------------------------------
(***************************************************************************)
(* The tables: the two indexes and the watches of the kernel agree, an     *)
(* entry without callbacks is dead, and nothing is registered or posted    *)
(* after the shutdown.  First, which steps change tables and watches.      *)
(***************************************************************************)
RegistryStep == AddKnown \/ AddWatched \/ RemoveOne \/ RemoveAborted \/ RemoveLast
                \/ DeactivateRunnable

\* Only the calls that succeed and the shutdown change the tables; besides
\* them only the file system changes the watches, and it only ends them.
LEMMA RegistryFrame ==
  ASSUME TypeInv, [Next]_vars, ~RegistryStep
  PROVE  /\ UNCHANGED <<tableVars, nextWd>>
         /\ \A i \in Inodes : kwatch'[i] \in {kwatch[i], NoWd}
         /\ UNCHANGED kwatch \/ UNCHANGED mShuttingDown
<1> USE DEF RegistryStep
<1>0. kwatch \in [Inodes -> Wds \cup {NoWd}]
  BY DEF TypeInv, TypeOK, KernelTypeOK
<1>1. CASE MainThread \/ DeliverNext \/ UNCHANGED vars
  <2>1. UNCHANGED <<tableVars, kwatch, nextWd>>
    BY <1>1 DEF MainThread, ServiceInit, AddPath, RemovePath, DispatchCall, Uninit,
           DeliverNext, DeliverChange, DeliverSuccess, DeliverError, Delivered, vars,
           kernelVars
  <2> QED
    BY <2>1
<1>2. CASE Signals
  <2>1. UNCHANGED <<tableVars, kwatch, nextWd>>
    BY <1>2 DEF Signals, SignalLoad, SignalStore, kernelVars
  <2> QED
    BY <2>1
<1>3. CASE Run
  <2>1. RunFrame
    BY <1>3 DEF Run, RunInShutdown, RunNothing, RunBegin, RunLoad, RunStore, ReadNothing,
           ReadEvent, ReadCutShort, SkipUnmasked, StaleEvent, SkipRefused,
           DispatchChange, DispatchChangeFails, ProcessLoop, RunEnd, InRun
  <2> QED
    BY <2>1 DEF RunFrame
<1>4. CASE AddMissing \/ AddRefused \/ RemoveUnwatched \/ RemoveUnregistered
  <2>1. UNCHANGED <<tableVars, kwatch, nextWd>>
    BY <1>4 DEF AddMissing, AddRefused, RemoveUnwatched, RemoveUnregistered,
           InotifyAddWatchFails
  <2> QED
    BY <2>1
<1>5. CASE FileSystem
  <2>1. UNCHANGED <<tableVars, mShuttingDown>>
    BY <1>5 DEF FileSystem, watcherVars
  <2>2. CASE \E p \in Paths : DeleteDirectory(p)
    <3>1. PICK p \in Paths : DeleteDirectory(p)
      BY <2>2
    <3>2. kwatch' = [kwatch EXCEPT ![dir[p]] = NoWd] /\ nextWd' = nextWd
      BY <3>1 DEF DeleteDirectory
    <3> QED
      BY <1>0, <2>1, <3>2
  <2>3. CASE ~ \E p \in Paths : DeleteDirectory(p)
    <3>1. UNCHANGED <<kwatch, nextWd>>
      BY <1>5, <2>3 DEF FileSystem, FsNext, ChangeEntry, TouchDirectory, CreateDirectory,
             RenameDirectory
    <3> QED
      BY <2>1, <3>1
  <2> QED
    BY <2>2, <2>3
<1> QED
  BY <1>1, <1>2, <1>3, <1>4, <1>5
  DEF Next, IOThread, AddPathRunnable, RemovePathRunnable

\* A watch that lives after such a step lived before it.
LEMMA LiveFrame ==
  ASSUME \A i \in Inodes : kwatch'[i] \in {kwatch[i], NoWd}
  PROVE  LiveWds' \subseteq LiveWds
  BY DEF LiveWds

\* Which entry of a table each step of the registry is about.
LEMMA RegistryCall ==
  ASSUME TypeInv, AddKnown \/ AddWatched \/ RemoveOne \/ RemoveAborted \/ RemoveLast
  PROVE  /\ Current.path \in Paths /\ Current.cb \in Cbs /\ Current.err \in Errs
         /\ UNCHANGED mShuttingDown
<1>1. Takes("add") \/ Takes("remove")
  BY DEF AddKnown, AddWatched, Adds, RemoveOne, RemoveAborted, RemoveLast, Removes
<1>2. Current \in Calls
  BY <1>1, TakesProperties
<1>3. UNCHANGED mShuttingDown
  BY DEF AddKnown, AddWatched, Adds, RemoveOne, RemoveAborted, RemoveLast, Removes
<1> QED
  BY <1>2, <1>3 DEF Calls

\* The watch that inotify_add_watch returns lives, and nothing else is new.
LEMMA AddWatchProperties ==
  ASSUME TypeInv, NEW i \in Inodes, NEW w \in Wds, InotifyAddWatch(i, w)
  PROVE  /\ LiveWds' = LiveWds \cup {w}
         /\ w = nextWd \/ w \in LiveWds
<1>1. /\ kwatch \in [Inodes -> Wds \cup {NoWd}]
      /\ w # NoWd
  BY DEF TypeInv, TypeOK, KernelTypeOK, Wds, NoWd
<1>2. CASE kwatch[i] # NoWd
  BY <1>1, <1>2 DEF InotifyAddWatch, LiveWds
<1>3. CASE kwatch[i] = NoWd
  <2>1. kwatch' = [kwatch EXCEPT ![i] = w] /\ w = nextWd
    BY <1>3 DEF InotifyAddWatch
  <2>2. kwatch'[i] = w /\ \A j \in Inodes \ {i} : kwatch'[j] = kwatch[j]
    BY <1>1, <2>1
  <2> QED
    BY <1>1, <1>3, <2>1, <2>2 DEF LiveWds
<1> QED
  BY <1>2, <1>3

\* inotify_rm_watch ends that watch and no other.
LEMMA RmWatchProperties ==
  ASSUME TypeInv, NEW w \in Wds, CloseWatch(w)
  PROVE  LiveWds' = LiveWds \ {w} /\ nextWd' = nextWd
<1>1. /\ kwatch' = [i \in Inodes |-> IF kwatch[i] = w THEN NoWd ELSE kwatch[i]]
      /\ nextWd' = nextWd
  BY CloseWatchProperties DEF TypeInv
<1> QED
  BY <1>1 DEF LiveWds

-----------------------------------------------------------------------------
(***************************************************************************)
(* A descriptor that was freed is not watched.                             *)
(***************************************************************************)
LEMMA FreedUnwatchedStep ==
  ASSUME TypeInv, FreedIsUnwatched, [Next]_vars
  PROVE  FreedIsUnwatched'
<1> DEFINE r == Current
<1>0. /\ mWatchedResourcesByPath \in [Paths -> Wds \cup {NoWd}]
      /\ mWatchedResourcesByHandle \in [Wds -> Paths \cup {NoPath}]
      /\ dir \in [Paths -> Inodes \cup {NoInode}]
      /\ NoWd \notin Wds
      /\ LiveWds \subseteq Wds
  BY DEF TypeInv, TypeOK, TableTypeOK, KernelTypeOK, Wds, NoWd, LiveWds
<1>1. CASE ~RegistryStep \/ AddKnown \/ RemoveOne \/ RemoveAborted
  <2>1. UNCHANGED <<mWatchedResourcesByPath, mWatchedResourcesByHandle>>
    BY <1>1, RegistryFrame DEF AddKnown, RemoveOne, RemoveAborted, tableVars
  <2>2. LiveWds' \subseteq LiveWds
    <3>1. CASE ~RegistryStep
      BY <3>1, RegistryFrame, LiveFrame
    <3>2. CASE AddKnown \/ RemoveOne \/ RemoveAborted
      BY <3>2 DEF AddKnown, RemoveOne, RemoveAborted, LiveWds
    <3> QED
      BY <1>1, <3>1, <3>2
  <2> QED
    BY <2>1, <2>2 DEF FreedIsUnwatched
<1>2. CASE AddWatched
  <2>1. r.path \in Paths
    BY <1>2, RegistryCall
  <2>2. PICK w \in Wds :
          /\ InotifyAddWatch(dir[r.path], w)
          /\ mWatchedResourcesByPath' = [mWatchedResourcesByPath EXCEPT ![r.path] = w]
          /\ mWatchedResourcesByHandle' = [mWatchedResourcesByHandle EXCEPT ![w] = r.path]
    BY <1>2 DEF AddWatched
  <2>3. mWatchedResourcesByPath[r.path] = NoWd /\ dir[r.path] \in Inodes
    BY <1>0, <1>2, <2>1 DEF AddWatched
  <2> HIDE DEF r
  <2>4. LiveWds' = LiveWds \cup {w}
    BY <2>2, <2>3, AddWatchProperties
  <2> SUFFICES ASSUME NEW v \in Wds, mWatchedResourcesByHandle'[v] # NoPath,
                      mWatchedResourcesByPath'[mWatchedResourcesByHandle'[v]] # v
               PROVE  v \notin LiveWds'
    BY DEF FreedIsUnwatched
  <2>5. v # w
    BY <1>0, <2>1, <2>2
  <2>6. /\ mWatchedResourcesByHandle[v] # NoPath
        /\ mWatchedResourcesByPath[mWatchedResourcesByHandle[v]] # v
    BY <1>0, <2>1, <2>2, <2>3, <2>5
  <2> QED
    BY <2>4, <2>5, <2>6 DEF FreedIsUnwatched
<1>3. CASE RemoveLast
  <2> DEFINE w == mWatchedResourcesByPath[r.path]
  <2>1. r.path \in Paths
    BY <1>3, RegistryCall
  <2>2. w \in LiveWds /\ CloseWatch(w)
    BY <1>3 DEF RemoveLast
  <2>3. /\ mWatchedResourcesByPath' = [mWatchedResourcesByPath EXCEPT ![r.path] = NoWd]
        /\ \/ mWatchedResourcesByHandle' = [mWatchedResourcesByHandle EXCEPT ![w] = NoPath]
           \/ mWatchedResourcesByHandle' = mWatchedResourcesByHandle
    BY <1>3 DEF RemoveLast, Unindex
  <2>4. LiveWds' = LiveWds \ {w}
    <3> HIDE DEF w
    <3> QED
      BY <1>0, <2>2, RmWatchProperties
  <2> HIDE DEF r
  <2> SUFFICES ASSUME NEW v \in Wds, mWatchedResourcesByHandle'[v] # NoPath,
                      mWatchedResourcesByPath'[mWatchedResourcesByHandle'[v]] # v, v # w
               PROVE  v \notin LiveWds
    BY <2>4 DEF FreedIsUnwatched
  <2>5. mWatchedResourcesByHandle'[v] = mWatchedResourcesByHandle[v]
    BY <1>0, <2>3
  <2>6. mWatchedResourcesByPath[mWatchedResourcesByHandle[v]] # v
    <3>1. CASE mWatchedResourcesByHandle[v] = r.path
      BY <3>1
    <3>2. CASE mWatchedResourcesByHandle[v] # r.path
      BY <1>0, <2>3, <2>5, <3>2
    <3> QED
      BY <3>1, <3>2
  <2> QED
    BY <2>5, <2>6 DEF FreedIsUnwatched
<1>4. CASE DeactivateRunnable
  BY <1>4 DEF DeactivateRunnable, FreedIsUnwatched
<1> QED
  BY <1>1, <1>2, <1>3, <1>4 DEF RegistryStep

\* Whatever the freed descriptor reads as when the second index is asked to
\* forget it, a descriptor that stays reachable by handle without an entry of
\* its own belongs to a watch that is gone.
THEOREM FreedAreUnwatched == Spec => []FreedIsUnwatched
<1>1. Init => FreedIsUnwatched
  BY DEF Init, FreedIsUnwatched
<1>2. TypeInv /\ FreedIsUnwatched /\ [Next]_vars => FreedIsUnwatched'
  BY FreedUnwatchedStep
<1> QED
  BY <1>1, <1>2, AlwaysTypeInv, PTL DEF Spec

-----------------------------------------------------------------------------
(***************************************************************************)
(* Every live watch is indexed.                                            *)
(***************************************************************************)
LEMMA LiveIndexedStep ==
  ASSUME TypeInv, LiveWatchesIndexed, [Next]_vars
  PROVE  LiveWatchesIndexed'
<1> DEFINE r == Current
<1>0. /\ kwatch \in [Inodes -> Wds \cup {NoWd}]
      /\ mWatchedResourcesByHandle \in [Wds -> Paths \cup {NoPath}]
      /\ dir \in [Paths -> Inodes \cup {NoInode}]
      /\ NoPath \notin Paths
  BY WatcherAssumption DEF TypeInv, TypeOK, KernelTypeOK, TableTypeOK
<1>1. CASE ~RegistryStep
  <2>1. LiveWds' \subseteq LiveWds /\ UNCHANGED mWatchedResourcesByHandle
    BY <1>1, RegistryFrame, LiveFrame DEF tableVars
  <2> QED
    BY <2>1 DEF LiveWatchesIndexed
<1>2. CASE AddKnown \/ RemoveOne \/ RemoveAborted
  <2>1. UNCHANGED <<kwatch, mWatchedResourcesByHandle>>
    BY <1>2 DEF AddKnown, RemoveOne, RemoveAborted
  <2> QED
    BY <2>1 DEF LiveWatchesIndexed, LiveWds
<1>3. CASE AddWatched
  <2>1. r.path \in Paths
    BY <1>3, RegistryCall
  <2>2. PICK w \in Wds :
          /\ InotifyAddWatch(dir[r.path], w)
          /\ mWatchedResourcesByHandle' = [mWatchedResourcesByHandle EXCEPT ![w] = r.path]
    BY <1>3 DEF AddWatched
  <2>3. dir[r.path] \in Inodes
    BY <1>0, <1>3, <2>1 DEF AddWatched
  <2> HIDE DEF r
  <2>4. LiveWds' = LiveWds \cup {w}
    BY <2>2, <2>3, AddWatchProperties
  <2>5. LiveWds \subseteq Wds
    BY <1>0 DEF LiveWds
  <2> QED
    BY <1>0, <2>1, <2>2, <2>4, <2>5 DEF LiveWatchesIndexed
<1>4. CASE RemoveLast
  <2> DEFINE w == mWatchedResourcesByPath[r.path]
  <2>1. /\ w \in LiveWds
        /\ CloseWatch(w)
        /\ \/ mWatchedResourcesByHandle' = [mWatchedResourcesByHandle EXCEPT ![w] = NoPath]
           \/ mWatchedResourcesByHandle' = mWatchedResourcesByHandle
    BY <1>4 DEF RemoveLast, Unindex
  <2>2. LiveWds \subseteq Wds
    BY <1>0 DEF LiveWds
  <2> HIDE DEF w
  <2>3. LiveWds' = LiveWds \ {w}
    BY <2>1, <2>2, RmWatchProperties
  <2> QED
    BY <1>0, <2>1, <2>2, <2>3 DEF LiveWatchesIndexed
<1>5. CASE DeactivateRunnable
  <2>1. LiveWds' = {}
    BY <1>5 DEF DeactivateRunnable, InotifyClose, LiveWds
  <2> QED
    BY <2>1 DEF LiveWatchesIndexed
<1> QED
  BY <1>1, <1>2, <1>3, <1>4, <1>5 DEF RegistryStep

\* The table that Run looks events up in knows every watch the kernel reports
\* on, whether or not the bytes of a freed descriptor survive it.
THEOREM LiveWatchesAreIndexed == Spec => []LiveWatchesIndexed
<1>1. Init => LiveWatchesIndexed
  BY DEF Init, KernelInit, LiveWatchesIndexed, LiveWds
<1>2. TypeInv /\ LiveWatchesIndexed /\ [Next]_vars => LiveWatchesIndexed'
  BY LiveIndexedStep
<1> QED
  BY <1>1, <1>2, AlwaysTypeInv, PTL DEF Spec

-----------------------------------------------------------------------------
(***************************************************************************)
(* An entry without callbacks is dead.                                     *)
(***************************************************************************)
\* Descriptors are handed out in order: the next one is new to kernel and
\* tables alike, so a dead entry's descriptor can never come alive again.
DescriptorsOld ==
    /\ \A i \in Inodes : kwatch[i] < nextWd
    /\ \A p \in Paths : mWatchedResourcesByPath[p] < nextWd

LEMMA DescriptorsOldStep ==
  ASSUME TypeInv, DescriptorsOld, [Next]_vars
  PROVE  DescriptorsOld'
<1> DEFINE r == Current
<1>0. /\ kwatch \in [Inodes -> Wds \cup {NoWd}]
      /\ mWatchedResourcesByPath \in [Paths -> Wds \cup {NoWd}]
      /\ nextWd \in 1..(MaxWd + 1)
      /\ dir \in [Paths -> Inodes \cup {NoInode}]
      /\ Wds \subseteq Int /\ NoWd = 0
  BY KernelAssumption DEF TypeInv, TypeOK, KernelTypeOK, TableTypeOK, Wds, NoWd
<1>1. CASE ~RegistryStep
  <2>1. /\ UNCHANGED <<mWatchedResourcesByPath, nextWd>>
        /\ \A i \in Inodes : kwatch'[i] \in {kwatch[i], NoWd}
    BY <1>1, RegistryFrame DEF tableVars
  <2> QED
    BY <1>0, <2>1 DEF DescriptorsOld
<1>2. CASE AddKnown \/ RemoveOne \/ RemoveAborted
  <2>1. UNCHANGED <<mWatchedResourcesByPath, nextWd, kwatch>>
    BY <1>2 DEF AddKnown, RemoveOne, RemoveAborted
  <2> QED
    BY <2>1 DEF DescriptorsOld
<1>3. CASE AddWatched
  <2>1. r.path \in Paths
    BY <1>3, RegistryCall
  <2>2. PICK w \in Wds :
          /\ InotifyAddWatch(dir[r.path], w)
          /\ mWatchedResourcesByPath' = [mWatchedResourcesByPath EXCEPT ![r.path] = w]
    BY <1>3 DEF AddWatched
  <2>3. dir[r.path] \in Inodes
    BY <1>0, <1>3, <2>1 DEF AddWatched
  <2>4. \/ w = kwatch[dir[r.path]] /\ UNCHANGED <<kwatch, nextWd>>
        \/ w = nextWd /\ nextWd' = nextWd + 1 /\ kwatch' = [kwatch EXCEPT ![dir[r.path]] = w]
    BY <2>2 DEF InotifyAddWatch
  <2>5. w < nextWd' /\ nextWd' >= nextWd
    BY <1>0, <2>3, <2>4 DEF DescriptorsOld
  <2>6. \A i \in Inodes : kwatch'[i] \in {kwatch[i], w}
    BY <1>0, <2>4
  <2>7. \A p \in Paths : mWatchedResourcesByPath'[p] \in {mWatchedResourcesByPath[p], w}
    BY <1>0, <2>2
  <2>8. nextWd' \in Int
    BY <1>0, <2>4
  <2> HIDE DEF r
  <2>9. ASSUME NEW v \in Int, v < nextWd PROVE v < nextWd'
    BY <1>0, <2>5, <2>8, <2>9
  <2>i. Wds \cup {NoWd} \subseteq Int
    BY <1>0
  <2>10. \A i \in Inodes : kwatch[i] \in Int /\ kwatch[i] < nextWd
    <3>1. \A i \in Inodes : kwatch[i] \in Wds \cup {NoWd}
      BY <1>0
    <3> QED
      BY <2>i, <3>1 DEF DescriptorsOld
  <2>11. \A p \in Paths : /\ mWatchedResourcesByPath[p] \in Int
                          /\ mWatchedResourcesByPath[p] < nextWd
    <3>1. \A p \in Paths : mWatchedResourcesByPath[p] \in Wds \cup {NoWd}
      BY <1>0
    <3> QED
      BY <2>i, <3>1 DEF DescriptorsOld
  <2>12. \A i \in Inodes : kwatch'[i] < nextWd'
    BY <2>5, <2>6, <2>9, <2>10
  <2>13. \A p \in Paths : mWatchedResourcesByPath'[p] < nextWd'
    BY <2>5, <2>7, <2>9, <2>11
  <2> QED
    BY <2>12, <2>13 DEF DescriptorsOld
<1>4. CASE RemoveLast
  <2> DEFINE w == mWatchedResourcesByPath[r.path]
  <2>1. /\ w \in LiveWds
        /\ CloseWatch(w)
        /\ mWatchedResourcesByPath' = [mWatchedResourcesByPath EXCEPT ![r.path] = NoWd]
    BY <1>4 DEF RemoveLast, Unindex
  <2>2. w \in Wds
    BY <1>0, <2>1 DEF LiveWds
  <2>3. /\ kwatch' = [i \in Inodes |-> IF kwatch[i] = w THEN NoWd ELSE kwatch[i]]
        /\ nextWd' = nextWd
    BY <2>1, <2>2, CloseWatchProperties DEF TypeInv
  <2> HIDE DEF r, w
  <2>4. \A i \in Inodes : kwatch'[i] < nextWd'
    BY <1>0, <2>3 DEF DescriptorsOld
  <2>5. \A p \in Paths : mWatchedResourcesByPath'[p] < nextWd'
    BY <1>0, <2>1, <2>3 DEF DescriptorsOld
  <2> QED
    BY <2>4, <2>5 DEF DescriptorsOld
<1>5. CASE DeactivateRunnable
  <2>1. /\ nextWd' = nextWd
        /\ kwatch' = [i \in Inodes |-> NoWd]
        /\ mWatchedResourcesByPath' = [p \in Paths |-> NoWd]
    BY <1>5 DEF DeactivateRunnable, InotifyClose
  <2> QED
    BY <1>0, <2>1 DEF DescriptorsOld
<1> QED
  BY <1>1, <1>2, <1>3, <1>4, <1>5 DEF RegistryStep

LEMMA EmptyEntryStep ==
  ASSUME TypeInv, DescriptorsOld, EmptyEntryIsDead, [Next]_vars
  PROVE  EmptyEntryIsDead'
<1> DEFINE r == Current
<1>0. /\ kwatch \in [Inodes -> Wds \cup {NoWd}]
      /\ mWatchedResourcesByPath \in [Paths -> Wds \cup {NoWd}]
      /\ mChangeCallbacksTable \in [Paths -> SUBSET Cbs]
      /\ dir \in [Paths -> Inodes \cup {NoInode}]
      /\ nextWd \in Int
      /\ Wds \subseteq Int
  BY DEF TypeInv, TypeOK, KernelTypeOK, TableTypeOK, Wds
<1>1. CASE ~RegistryStep
  <2>1. UNCHANGED tableVars /\ LiveWds' \subseteq LiveWds
    BY <1>1, RegistryFrame, LiveFrame
  <2> QED
    BY <2>1 DEF EmptyEntryIsDead, tableVars
<1>2. CASE AddKnown
  <2>1. /\ r.path \in Paths
        /\ mChangeCallbacksTable' =
             [mChangeCallbacksTable EXCEPT ![r.path] = @ \cup {r.cb}]
        /\ UNCHANGED <<mWatchedResourcesByPath, kwatch>>
    BY <1>2, RegistryCall DEF AddKnown, AppendCallbacks
  <2> HIDE DEF r
  <2> QED
    BY <1>0, <2>1 DEF EmptyEntryIsDead, LiveWds
<1>3. CASE AddWatched
  <2>1. /\ r.path \in Paths
        /\ mChangeCallbacksTable' =
             [mChangeCallbacksTable EXCEPT ![r.path] = @ \cup {r.cb}]
    BY <1>3, RegistryCall DEF AddWatched, AppendCallbacks
  <2>2. PICK w \in Wds :
          /\ InotifyAddWatch(dir[r.path], w)
          /\ mWatchedResourcesByPath' = [mWatchedResourcesByPath EXCEPT ![r.path] = w]
    BY <1>3 DEF AddWatched
  <2>3. dir[r.path] \in Inodes
    BY <1>0, <1>3, <2>1 DEF AddWatched
  <2>4. LiveWds' = LiveWds \cup {w} /\ (w = nextWd \/ w \in LiveWds)
    BY <2>2, <2>3, AddWatchProperties
  <2> HIDE DEF r
  <2>5. ASSUME NEW p \in Paths, p # r.path, mWatchedResourcesByPath[p] = w, w \notin LiveWds
        PROVE  FALSE
    BY <1>0, <2>4, <2>5 DEF DescriptorsOld
  <2>6. mChangeCallbacksTable'[r.path] # {}
    BY <1>0, <2>1
  <2>7. \A p \in Paths \ {r.path} :
          /\ mChangeCallbacksTable'[p] = mChangeCallbacksTable[p]
          /\ mWatchedResourcesByPath'[p] = mWatchedResourcesByPath[p]
    BY <1>0, <2>1, <2>2
  <2> QED
    BY <2>4, <2>5, <2>6, <2>7 DEF EmptyEntryIsDead
<1>4. CASE RemoveOne \/ RemoveAborted
  <2>1. /\ r.path \in Paths
        /\ mChangeCallbacksTable' = [mChangeCallbacksTable EXCEPT ![r.path] = @ \ {r.cb}]
        /\ UNCHANGED <<mWatchedResourcesByPath, kwatch>>
        /\ \/ r.cb \in mChangeCallbacksTable[r.path]
              /\ mChangeCallbacksTable[r.path] # {r.cb}
           \/ mWatchedResourcesByPath[r.path] \notin LiveWds
    BY <1>4, RegistryCall
    DEF RemoveOne, RemoveAborted, RemoveCallbacks, Registered, LastCallback
  <2> HIDE DEF r
  <2>2. mChangeCallbacksTable'[r.path] # {} \/ mWatchedResourcesByPath[r.path] \notin LiveWds
    BY <1>0, <2>1
  <2>3. \A p \in Paths \ {r.path} : mChangeCallbacksTable'[p] = mChangeCallbacksTable[p]
    BY <1>0, <2>1
  <2> QED
    BY <2>1, <2>2, <2>3 DEF EmptyEntryIsDead, LiveWds
<1>5. CASE RemoveLast
  <2> DEFINE w == mWatchedResourcesByPath[r.path]
  <2>1. /\ r.path \in Paths
        /\ mChangeCallbacksTable' = [mChangeCallbacksTable EXCEPT ![r.path] = @ \ {r.cb}]
        /\ mWatchedResourcesByPath' = [mWatchedResourcesByPath EXCEPT ![r.path] = NoWd]
        /\ w \in LiveWds
        /\ CloseWatch(w)
    BY <1>5, RegistryCall DEF RemoveLast, RemoveCallbacks, Unindex
  <2>2. w \in Wds
    BY <1>0, <2>1 DEF LiveWds
  <2> HIDE DEF r, w
  <2>3. LiveWds' \subseteq LiveWds
    BY <2>1, <2>2, RmWatchProperties
  <2>4. mWatchedResourcesByPath'[r.path] = NoWd
    BY <1>0, <2>1
  <2>5. \A p \in Paths \ {r.path} :
          /\ mChangeCallbacksTable'[p] = mChangeCallbacksTable[p]
          /\ mWatchedResourcesByPath'[p] = mWatchedResourcesByPath[p]
    BY <1>0, <2>1
  <2> QED
    BY <2>3, <2>4, <2>5 DEF EmptyEntryIsDead
<1>6. CASE DeactivateRunnable
  <2>1. mWatchedResourcesByPath' = [p \in Paths |-> NoWd]
    BY <1>6 DEF DeactivateRunnable
  <2> QED
    BY <2>1 DEF EmptyEntryIsDead
<1> QED
  BY <1>1, <1>2, <1>3, <1>4, <1>5, <1>6 DEF RegistryStep

\* The kernel watches no path that has no change callback left: an entry whose
\* callbacks are all gone only survives when its watch died before it.
THEOREM EmptyEntriesAreDead == Spec => []EmptyEntryIsDead
<1>1. Init => DescriptorsOld /\ EmptyEntryIsDead
  BY DEF Init, KernelInit, DescriptorsOld, EmptyEntryIsDead, NoWd
<1>2. TypeInv /\ DescriptorsOld /\ [Next]_vars => DescriptorsOld'
  BY DescriptorsOldStep
<1>3. TypeInv /\ DescriptorsOld /\ EmptyEntryIsDead /\ [Next]_vars => EmptyEntryIsDead'
  BY EmptyEntryStep
<1> QED
  BY <1>1, <1>2, <1>3, AlwaysTypeInv, PTL DEF Spec

-----------------------------------------------------------------------------
(***************************************************************************)
(* The shutdown comes last.                                                *)
(***************************************************************************)
NoCalls(q) == \A n \in 1..Len(q) : q[n].op \notin {"add", "remove"}
NoShutdown(q) == \A n \in 1..Len(q) : q[n].op # "deactivate"
Ordered(q) == \A m, n \in 1..Len(q) :
                q[m].op = "deactivate" /\ m < n => q[n].op \notin {"add", "remove"}

\* The shutdown is queued once mIOThread is gone, behind every call.
ShutdownInv ==
    /\ initialised = "no" => /\ ~mIOThread /\ ~mShuttingDown
                             /\ ioq = <<>> /\ io = "idle"
    /\ mIOThread => ~mShuttingDown /\ NoShutdown(ioq)
    /\ Ordered(ioq)
    /\ ShutdownIsClean

\* What a queue keeps when its oldest runnable is taken, or one is appended.
LEMMA QueueProperties ==
  ASSUME NEW q \in Seq(Tasks)
  PROVE  /\ NoCalls(q) => NoCalls(Append(q, RunTask))
         /\ NoShutdown(q) => NoShutdown(Append(q, RunTask))
         /\ q # <<>> /\ NoCalls(q) => NoCalls(Tail(q))
         /\ q # <<>> /\ NoShutdown(q) => NoShutdown(Tail(q))
  BY DEF NoCalls, NoShutdown, RunTask

LEMMA OrderedProperties ==
  ASSUME NEW q \in Seq(Tasks), Ordered(q)
  PROVE  /\ Ordered(Append(q, RunTask))
         /\ Ordered(Append(q, DeactivateTask))
         /\ q # <<>> => Ordered(Tail(q))
         /\ q # <<>> /\ Head(q).op = "deactivate" => NoCalls(Tail(q))
<1>1. Ordered(Append(q, RunTask))
  BY DEF Ordered, RunTask
<1>2. Ordered(Append(q, DeactivateTask))
  BY DEF Ordered, DeactivateTask
<1>3. ASSUME q # <<>> PROVE Ordered(Tail(q))
  BY <1>3 DEF Ordered
<1>4. ASSUME q # <<>>, Head(q).op = "deactivate" PROVE NoCalls(Tail(q))
  BY <1>4 DEF Ordered, NoCalls
<1> QED
  BY <1>1, <1>2, <1>3, <1>4

\* The steps that keep the IO thread's queue, or take a runnable off it, or put
\* Run behind it, and that change neither table nor shutdown.
LEMMA ShutdownFrame ==
  ASSUME TypeInv, ShutdownInv,
         UNCHANGED <<initialised, mIOThread, mShuttingDown>>,
         mShuttingDown => UNCHANGED tableVars /\ LiveWds' \subseteq LiveWds,
         initialised # "no" \/ UNCHANGED io,
         \/ ioq' = ioq
         \/ ioq' = Reschedule(ioq) /\ initialised # "no"
         \/ ioq # <<>> /\ ioq' = Tail(ioq)
         \/ ioq # <<>> /\ ioq' = Reschedule(Tail(ioq))
  PROVE  ShutdownInv'
<1>1. ioq \in Seq(Tasks) /\ (ioq # <<>> => Tail(ioq) \in Seq(Tasks))
  BY DEF TypeInv, TypeOK, QueueTypeOK
<1>2. Ordered(ioq')
  BY <1>1, OrderedProperties DEF ShutdownInv, Reschedule
<1>3. NoShutdown(ioq) => NoShutdown(ioq')
  BY <1>1, QueueProperties DEF Reschedule
<1>4. NoCalls(ioq) => NoCalls(ioq')
  BY <1>1, QueueProperties DEF Reschedule
<1>5. initialised = "no" => ioq' = <<>>
  BY DEF ShutdownInv
<1>6. ShutdownIsClean'
  BY <1>4 DEF ShutdownInv, ShutdownIsClean, NoCalls, tableVars
<1> QED
  BY <1>2, <1>3, <1>5, <1>6 DEF ShutdownInv, Ordered, NoShutdown

LEMMA ShutdownStep ==
  ASSUME TypeInv, ShutdownInv, [Next]_vars
  PROVE  ShutdownInv'
<1>0. ioq \in Seq(Tasks)
  BY DEF TypeInv, TypeOK, QueueTypeOK
<1>1. CASE ServiceInit
  <2>1. /\ ~mIOThread /\ ~mShuttingDown /\ ioq = <<>>
        /\ mShuttingDown' = mShuttingDown
        /\ initialised' # "no"
        /\ ioq' = <<RunTask>> \/ (ioq' = ioq /\ mIOThread' = mIOThread)
    BY <1>1 DEF ServiceInit, ShutdownInv
  <2>2. Ordered(<<>>) /\ NoShutdown(<<>>)
    BY DEF Ordered, NoShutdown
  <2>3. Ordered(<<RunTask>>) /\ NoShutdown(<<RunTask>>)
    BY DEF Ordered, NoShutdown, RunTask
  <2>4. Ordered(ioq')
    BY <2>1, <2>2, <2>3
  <2>5. NoShutdown(ioq')
    BY <2>1, <2>2, <2>3
  <2> QED
    BY <2>1, <2>4, <2>5 DEF ShutdownInv, ShutdownIsClean, Ordered, NoShutdown
<1>2. ASSUME NEW op \in {"add", "remove"}, NEW p \in Paths, NEW c \in Cbs, NEW e \in Errs,
             DispatchCall(op, p, c, e)
      PROVE  ShutdownInv'
  <2> DEFINE r == [op |-> op, id |-> calls + 1, path |-> p, cb |-> c, err |-> e]
  <2>1. /\ mIOThread /\ ~mShuttingDown /\ NoShutdown(ioq) /\ initialised # "no"
        /\ UNCHANGED <<initialised, mIOThread, mShuttingDown>>
        /\ ioq' = Append(ioq, r)
    BY <1>2 DEF DispatchCall, ShutdownInv
  <2>2. r.op # "deactivate"
    OBVIOUS
  <2> HIDE DEF r
  <2>3. NoShutdown(ioq')
    BY <1>0, <2>1, <2>2 DEF NoShutdown
  <2>4. Ordered(ioq')
    BY <2>3 DEF NoShutdown, Ordered
  <2> QED
    BY <2>1, <2>3, <2>4 DEF ShutdownInv, ShutdownIsClean, Ordered, NoShutdown
<1>3. CASE Uninit
  <2>1. /\ ~mShuttingDown /\ ~mIOThread' /\ initialised # "no"
        /\ UNCHANGED <<initialised, mShuttingDown>>
        /\ ioq' = Append(ioq, DeactivateTask)
    BY <1>3 DEF Uninit, ShutdownInv
  <2>2. Ordered(ioq')
    BY <1>0, <2>1, OrderedProperties DEF ShutdownInv
  <2> QED
    BY <2>1, <2>2 DEF ShutdownInv, ShutdownIsClean, Ordered
<1>4. CASE DeactivateRunnable
  <2>1. /\ ioq # <<>> /\ Head(ioq).op = "deactivate" /\ ioq' = Tail(ioq)
        /\ UNCHANGED <<initialised, mIOThread>>
    BY <1>4 DEF DeactivateRunnable, Takes, Ends, CallVars, mainVars
  <2>2. ~mIOThread /\ initialised # "no"
    <3>1. ioq[1] = Head(ioq) /\ 1 \in 1..Len(ioq)
      BY <1>0, <2>1
    <3> QED
      BY <2>1, <3>1 DEF ShutdownInv, NoShutdown
  <2>3. NoCalls(ioq') /\ Ordered(ioq')
    BY <1>0, <2>1, OrderedProperties DEF ShutdownInv
  <2>4. LiveWds' = {}
    BY <1>4 DEF DeactivateRunnable, InotifyClose, LiveWds
  <2>5. \A p \in Paths : mChangeCallbacksTable'[p] = {} /\ mErrorCallbacksTable'[p] = {}
    BY <1>4 DEF DeactivateRunnable
  <2> QED
    BY <2>1, <2>2, <2>3, <2>4, <2>5 DEF ShutdownInv, ShutdownIsClean, Ordered, NoCalls
<1>5. CASE AddPathRunnable \/ RemovePathRunnable
  <2>1. /\ ~mShuttingDown /\ mShuttingDown' = mShuttingDown
        /\ Ends /\ ioq # <<>>
    BY <1>5 DEF AddPathRunnable, AddMissing, AddKnown, AddRefused, AddWatched, Adds,
           RemovePathRunnable, RemoveUnwatched, RemoveUnregistered, RemoveOne,
           RemoveAborted, RemoveLast, Removes, Takes
  <2>2. ioq' = Tail(ioq) /\ UNCHANGED <<initialised, mIOThread, io>>
    BY <2>1 DEF Ends, CallVars, mainVars, runVars
  <2> QED
    BY <2>1, <2>2, ShutdownFrame
<1>6. CASE \/ DeliverNext \/ Signals \/ FileSystem \/ Run \/ UNCHANGED vars
  <2>1. UNCHANGED <<initialised, mIOThread, mShuttingDown>>
    <3>1. CASE Run
      <4>1. RunFrame
        BY <3>1 DEF Run, RunInShutdown, RunNothing, RunBegin, RunLoad, RunStore, ReadNothing,
               ReadEvent, ReadCutShort, SkipUnmasked, StaleEvent, SkipRefused,
               DispatchChange, DispatchChangeFails, ProcessLoop, RunEnd, InRun
      <4> QED
        BY <4>1 DEF RunFrame, mainVars
    <3>2. CASE ~Run
      BY <1>6, <3>2 DEF DeliverNext, DeliverChange, DeliverSuccess, DeliverError, Delivered,
             Signals, SignalLoad, SignalStore, FileSystem, watcherVars, mainVars, vars
    <3> QED
      BY <3>1, <3>2
  <2>i. initialised # "no" \/ UNCHANGED io
    <3>1. Run => ioq # <<>> \/ io # "idle"
      BY DEF Run, RunInShutdown, RunNothing, RunBegin, RunLoad, RunStore, ReadNothing,
             ReadEvent, ReadCutShort, SkipUnmasked, StaleEvent, SkipRefused,
             DispatchChange, DispatchChangeFails, ProcessLoop, RunEnd, InRun, Takes
    <3>2. ~Run => UNCHANGED io
      BY OutsideRun DEF runVars
    <3> QED
      BY <3>1, <3>2 DEF ShutdownInv
  <2>2. ~RegistryStep => UNCHANGED tableVars /\ LiveWds' \subseteq LiveWds
    BY RegistryFrame, LiveFrame
  <2>3. CASE RegistryStep
    BY <2>3, <1>4, <1>5 DEF RegistryStep, AddPathRunnable, RemovePathRunnable
  <2>4. CASE ~RegistryStep
    <3>1. CASE RunInShutdown \/ RunNothing \/ RunBegin
      <4>1. ioq # <<>> /\ (ioq' = Tail(ioq) \/ ioq' = Reschedule(Tail(ioq)))
        BY <3>1 DEF RunInShutdown, RunNothing, RunBegin, Takes
      <4> QED
        BY <2>1, <2>i, <2>2, <2>4, <4>1, ShutdownFrame
    <3>2. CASE RunEnd
      <4>1. ioq' = Reschedule(ioq)
        BY <3>2 DEF RunEnd
      <4>2. initialised # "no"
        BY <3>2 DEF RunEnd, InRun, ShutdownInv
      <4> QED
        BY <2>1, <2>i, <2>2, <2>4, <4>1, <4>2, ShutdownFrame
    <3>3. CASE ~(RunInShutdown \/ RunNothing \/ RunBegin \/ RunEnd)
      <4>1. ioq' = ioq
        BY <1>6, <3>3 DEF Run, RunLoad, RunStore, ReadNothing, ReadEvent, ReadCutShort,
               SkipUnmasked, StaleEvent, SkipRefused, DispatchChange,
               DispatchChangeFails, ProcessLoop, PopEvent, DeliverNext, DeliverChange,
               DeliverSuccess, DeliverError, Delivered, Signals, SignalLoad, SignalStore,
               FileSystem, watcherVars, vars
      <4> QED
        BY <2>1, <2>i, <2>2, <2>4, <4>1, ShutdownFrame
    <3> QED
      BY <3>1, <3>2, <3>3
  <2> QED
    BY <2>3, <2>4
<1> QED
  BY <1>1, <1>2, <1>3, <1>4, <1>5, <1>6 DEF Next, MainThread, IOThread, AddPath, RemovePath

LEMMA AlwaysShutdownInv == Spec => []ShutdownInv
<1>1. Init => ShutdownInv
  BY DEF Init, ShutdownInv, ShutdownIsClean, Ordered
<1>2. TypeInv /\ ShutdownInv /\ [Next]_vars => ShutdownInv'
  BY ShutdownStep
<1> QED
  BY <1>1, <1>2, AlwaysTypeInv, PTL DEF Spec

\* The shutdown comes behind every call the service took: when it is done no
\* call waits in the queue, no callback is registered and no watch is alive.
THEOREM ShutdownClean == Spec => []ShutdownIsClean
<1>1. ShutdownInv => ShutdownIsClean
  BY DEF ShutdownInv
<1> QED
  BY <1>1, AlwaysShutdownInv, PTL

-----------------------------------------------------------------------------
(***************************************************************************)
(* Run is queued once.                                                     *)
(***************************************************************************)
RunsIn(q) == {n \in 1..Len(q) : q[n].op = "run"}
Needed == initialised = "ok" /\ ~mShuttingDown /\ ~runFailed

\* Run is queued at most once, not at all while it executes, and it is queued or
\* executes as long as it is needed.
RunInv ==
    /\ \A j, k \in RunsIn(ioq) : j = k
    /\ io # "idle" => RunsIn(ioq) = {}
    /\ Needed /\ io = "idle" => RunsIn(ioq) # {}

\* Only Run has its op among the runnables.
LEMMA RunTasks ==
  ASSUME NEW q \in Seq(Tasks), NEW n \in 1..Len(q)
  PROVE  q[n].op = "run" <=> q[n] = RunTask
  BY DEF Tasks, Calls, RunTask, DeactivateTask

\* Where Run is in a queue from which the oldest runnable is taken, or to which
\* one is appended.
LEMMA RunsInProperties ==
  ASSUME NEW q \in Seq(Tasks)
  PROVE  /\ RunsIn(Append(q, RunTask)) = RunsIn(q) \cup {Len(q) + 1}
         /\ \A r : r.op # "run" => RunsIn(Append(q, r)) = RunsIn(q)
         /\ q # <<>> => /\ RunsIn(Tail(q)) = {k \in 1..Len(Tail(q)) : k + 1 \in RunsIn(q)}
                        /\ 1 \in RunsIn(q) <=> Head(q).op = "run"
                        /\ Tail(q) \in Seq(Tasks) /\ Len(Tail(q)) = Len(q) - 1
                        /\ \A k \in RunsIn(q) : k = 1 \/ k - 1 \in 1..Len(Tail(q))
<1>1. RunsIn(Append(q, RunTask)) = RunsIn(q) \cup {Len(q) + 1}
  BY DEF RunsIn, RunTask
<1>2. ASSUME NEW r, r.op # "run" PROVE RunsIn(Append(q, r)) = RunsIn(q)
  <2>1. Len(Append(q, r)) = Len(q) + 1 /\ Append(q, r)[Len(q) + 1] = r
        /\ \A n \in 1..Len(q) : Append(q, r)[n] = q[n]
    OBVIOUS
  <2> QED
    BY <1>2, <2>1 DEF RunsIn
<1>3. ASSUME q # <<>>
      PROVE  /\ RunsIn(Tail(q)) = {k \in 1..Len(Tail(q)) : k + 1 \in RunsIn(q)}
             /\ 1 \in RunsIn(q) <=> Head(q).op = "run"
             /\ Tail(q) \in Seq(Tasks) /\ Len(Tail(q)) = Len(q) - 1
             /\ \A k \in RunsIn(q) : k = 1 \/ k - 1 \in 1..Len(Tail(q))
  BY <1>3 DEF RunsIn
<1> QED
  BY <1>1, <1>2, <1>3

\* Taking Run off the queue leaves none there; taking another runnable leaves Run.
LEMMA RunTakenOff ==
  ASSUME NEW q \in Seq(Tasks), q # <<>>, \A j, k \in RunsIn(q) : j = k
  PROVE  /\ \A j, k \in RunsIn(Tail(q)) : j = k
         /\ Head(q).op = "run" => RunsIn(Tail(q)) = {}
         /\ Head(q).op # "run" => (RunsIn(Tail(q)) = {} <=> RunsIn(q) = {})
<1>1. /\ RunsIn(Tail(q)) = {k \in 1..Len(Tail(q)) : k + 1 \in RunsIn(q)}
      /\ 1 \in RunsIn(q) <=> Head(q).op = "run"
      /\ \A k \in RunsIn(q) : k = 1 \/ k - 1 \in 1..Len(Tail(q))
      /\ Len(Tail(q)) \in Nat
  BY RunsInProperties
<1>2. RunsIn(q) \subseteq Int
  BY DEF RunsIn
<1>3. \A j, k \in RunsIn(Tail(q)) : j = k
  BY <1>1
<1>4. Head(q).op = "run" => RunsIn(Tail(q)) = {}
  BY <1>1
<1>5. ASSUME Head(q).op # "run" PROVE RunsIn(Tail(q)) = {} <=> RunsIn(q) = {}
  <2>1. ASSUME NEW k \in RunsIn(q) PROVE k - 1 \in RunsIn(Tail(q))
    BY <1>1, <1>2, <1>5, <2>1
  <2> QED
    BY <1>1, <2>1
<1> QED
  BY <1>3, <1>4, <1>5

\* The steps that leave Run alone: it is as necessary as before or less, executes
\* or does not as before, and another runnable is queued or taken.
LEMMA RunKept ==
  ASSUME TypeInv, RunInv, Needed' => Needed, io' = "idle" <=> io = "idle",
         \/ ioq' = ioq
         \/ \E r : r.op # "run" /\ ioq' = Append(ioq, r)
         \/ ioq # <<>> /\ Head(ioq).op # "run" /\ ioq' = Tail(ioq)
  PROVE  RunInv'
<1>1. ioq \in Seq(Tasks)
  BY DEF TypeInv, TypeOK, QueueTypeOK
<1>2. CASE ioq' = ioq
  BY <1>2 DEF RunInv, RunsIn
<1>3. CASE \E r : r.op # "run" /\ ioq' = Append(ioq, r)
  <2>1. RunsIn(ioq') = RunsIn(ioq)
    BY <1>1, <1>3, RunsInProperties
  <2> QED
    BY <2>1 DEF RunInv
<1>4. CASE ioq # <<>> /\ Head(ioq).op # "run" /\ ioq' = Tail(ioq)
  BY <1>1, <1>4, RunTakenOff DEF RunInv
<1> QED
  BY <1>2, <1>3, <1>4

LEMMA RunInvStep ==
  ASSUME TypeInv, ShutdownInv, RunInv, [Next]_vars
  PROVE  RunInv'
<1>0. ioq \in Seq(Tasks)
  BY DEF TypeInv, TypeOK, QueueTypeOK
<1>e. RunsIn(<<>>) = {} /\ RunsIn(<<RunTask>>) = {1}
  BY DEF RunsIn, RunTask
<1>1. CASE ServiceInit
  <2>1. /\ io = "idle" /\ io' = io /\ ioq = <<>>
        /\ ioq' = <<RunTask>> \/ (ioq' = <<>> /\ initialised' = "failed")
    BY <1>1 DEF ServiceInit, ShutdownInv, runVars
  <2> QED
    BY <1>e, <2>1 DEF RunInv, Needed
<1>2. CASE \E p \in Paths, c \in Cbs, e \in Errs : AddPath(p, c, e) \/ RemovePath(p, c, e)
  <2>1. PICK op \in {"add", "remove"}, p \in Paths, c \in Cbs, e \in Errs : DispatchCall(op, p, c, e)
    BY <1>2 DEF AddPath, RemovePath
  <2> DEFINE r == [op |-> op, id |-> calls + 1, path |-> p, cb |-> c, err |-> e]
  <2>2. r.op # "run" /\ ioq' = Append(ioq, r)
    BY <2>1 DEF DispatchCall
  <2>3. UNCHANGED <<initialised, mShuttingDown, runFailed, io>>
    BY <2>1 DEF DispatchCall, runVars
  <2> HIDE DEF r
  <2> QED
    BY <2>2, <2>3, RunKept DEF Needed
<1>3. CASE Uninit
  <2>1. /\ ioq' = Append(ioq, DeactivateTask)
        /\ UNCHANGED <<initialised, mShuttingDown, runFailed, io>>
    BY <1>3 DEF Uninit, runVars
  <2>2. DeactivateTask.op # "run"
    BY DEF DeactivateTask
  <2> QED
    BY <2>1, <2>2, RunKept DEF Needed
<1>4. CASE AddPathRunnable \/ RemovePathRunnable \/ DeactivateRunnable
  <2>1. /\ \E op \in {"add", "remove", "deactivate"} : Takes(op)
        /\ Ends /\ mShuttingDown' \in {mShuttingDown, TRUE}
    BY <1>4 DEF AddPathRunnable, AddMissing, AddKnown, AddRefused, AddWatched, Adds,
           RemovePathRunnable, RemoveUnwatched, RemoveUnregistered, RemoveOne,
           RemoveAborted, RemoveLast, Removes, DeactivateRunnable
  <2>2. /\ ioq # <<>> /\ Head(ioq).op # "run" /\ ioq' = Tail(ioq)
        /\ UNCHANGED <<initialised, runFailed, io>>
    BY <2>1 DEF Takes, Ends, CallVars, mainVars, runVars
  <2>3. Needed' => Needed
    BY <2>1, <2>2 DEF Needed
  <2> QED
    BY <2>2, <2>3, RunKept
<1>5. CASE DeliverNext \/ Signals \/ FileSystem \/ UNCHANGED vars
  <2>1. UNCHANGED <<ioq, initialised, mShuttingDown, runFailed, io>>
    BY <1>5 DEF DeliverNext, DeliverChange, DeliverSuccess, DeliverError, Delivered, Signals,
           SignalLoad, SignalStore, FileSystem, watcherVars, mainVars, runVars, vars
  <2> QED
    BY <2>1, RunKept DEF Needed
<1>6. CASE RunInShutdown \/ RunNothing \/ RunBegin
  <2>1. /\ io = "idle" /\ ioq # <<>> /\ Head(ioq).op = "run"
        /\ RunsIn(Tail(ioq)) = {}
    BY <1>0, <1>6, RunTakenOff DEF RunInShutdown, RunNothing, RunBegin, Takes, RunInv
  <2>2. Tail(ioq) \in Seq(Tasks)
    BY <1>0, <2>1
  <2>3. CASE RunInShutdown
    <3>1. ioq' = Tail(ioq) /\ io' = io /\ ~Needed'
      BY <2>3 DEF RunInShutdown, RunFrame, runVars, Needed
    <3> QED
      BY <2>1, <3>1 DEF RunInv
  <2>4. CASE RunNothing
    <3>1. ioq' = Append(Tail(ioq), RunTask) /\ io' = io
      BY <2>4 DEF RunNothing, Reschedule, runVars
    <3>2. RunsIn(ioq') = {Len(Tail(ioq)) + 1}
      BY <2>1, <2>2, <3>1, RunsInProperties
    <3> QED
      BY <2>1, <3>1, <3>2 DEF RunInv
  <2>5. CASE RunBegin
    <3>1. ioq' = Tail(ioq) /\ io' = "load"
      BY <2>5 DEF RunBegin
    <3> QED
      BY <2>1, <3>1 DEF RunInv
  <2> QED
    BY <1>6, <2>3, <2>4, <2>5
<1>7. CASE RunEnd
  <2>1. io = "process" /\ io' = "idle" /\ ioq' = Append(ioq, RunTask)
    BY <1>7 DEF RunEnd, InRun, Reschedule
  <2>2. RunsIn(ioq) = {}
    BY <2>1 DEF RunInv
  <2>3. RunsIn(ioq') = {Len(ioq) + 1}
    BY <1>0, <2>1, <2>2, RunsInProperties
  <2> QED
    BY <2>1, <2>3 DEF RunInv
<1>8. CASE DispatchChangeFails
  <2>1. io = "process" /\ io' = "idle" /\ ioq' = ioq /\ runFailed'
    BY <1>8 DEF DispatchChangeFails, ProcessLoop, InRun
  <2> QED
    BY <2>1 DEF RunInv, RunsIn, Needed
<1>9. CASE RunLoad \/ RunStore \/ ReadNothing \/ ReadEvent \/ ReadCutShort
           \/ SkipUnmasked \/ StaleEvent \/ SkipRefused \/ DispatchChange
  <2>1. /\ io # "idle" /\ io' # "idle" /\ ioq' = ioq
        /\ UNCHANGED <<runFailed, initialised, mShuttingDown>>
    BY <1>9 DEF RunLoad, RunStore, ReadNothing, ReadEvent, ReadCutShort, SkipUnmasked,
           StaleEvent, SkipRefused, DispatchChange, StartProcessing, ProcessLoop, PopEvent,
           InRun, RunFrame, mainVars
  <2> QED
    BY <2>1, RunKept DEF Needed
<1> QED
  BY <1>1, <1>2, <1>3, <1>4, <1>5, <1>6, <1>7, <1>8, <1>9 DEF Next, MainThread, IOThread, Run

\* While the watcher is up and no dispatch failed, Run is queued exactly once or it
\* executes: it never reposts itself twice, and never forgets to.
THEOREM RunIsScheduledOnce == Spec => []RunScheduledOnce
<1>1. Init => RunInv
  <2>1. RunsIn(<<>>) = {}
    BY DEF RunsIn
  <2> QED
    BY <2>1 DEF Init, RunInv, Needed
<1>2. TypeInv /\ ShutdownInv /\ RunInv /\ [Next]_vars => RunInv'
  BY RunInvStep
<1>3. TypeInv /\ RunInv => RunScheduledOnce
  <2> SUFFICES ASSUME TypeInv, RunInv PROVE RunScheduledOnce
    OBVIOUS
  <2>1. ioq \in Seq(Tasks)
    BY DEF TypeInv, TypeOK, QueueTypeOK
  <2>2. {n \in 1..Len(ioq) : ioq[n] = RunTask} = RunsIn(ioq)
    BY <2>1, RunTasks DEF RunsIn
  <2>3. RunsIn(ioq) = {} \/ \E k : RunsIn(ioq) = {k}
    BY DEF RunInv
  <2>4. Cardinality(RunsIn(ioq)) \in {0, 1} /\ (Cardinality(RunsIn(ioq)) = 0 <=> RunsIn(ioq) = {})
    <3>1. CASE RunsIn(ioq) = {}
      BY <3>1, FS_EmptySet
    <3>2. CASE \E k : RunsIn(ioq) = {k}
      <4>1. PICK k : RunsIn(ioq) = {k}
        BY <3>2
      <4>2. Cardinality(RunsIn(ioq)) = 1 /\ RunsIn(ioq) # {}
        BY <4>1, FS_Singleton
      <4> QED
        BY <4>2
    <3> QED
      BY <2>3, <3>1, <3>2
  <2> DEFINE queued == Cardinality(RunsIn(ioq))
  <2>5. /\ queued <= 1
        /\ io # "idle" => queued = 0
        /\ Needed /\ io = "idle" => queued = 1
    BY <2>4 DEF RunInv
  <2>6. Cardinality({n \in 1..Len(ioq) : ioq[n] = RunTask}) = queued
    BY <2>2
  <2> HIDE DEF queued
  <2> QED
    BY <2>5, <2>6 DEF RunScheduledOnce, Needed
<1> QED
  BY <1>1, <1>2, <1>3, AlwaysTypeInv, AlwaysShutdownInv, PTL DEF Spec
=============================================================================
