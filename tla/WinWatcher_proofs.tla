-------------------------- MODULE WinWatcher_proofs --------------------------
(***************************************************************************)
(* Proofs about WinWatcher, for every value of its constants: types, and   *)
(* the wake-up packets that keep Run from blocking on a queued call.       *)
(***************************************************************************)
EXTENDS WinWatcher, TLAPS, SequenceTheorems

-----------------------------------------------------------------------------
(***************************************************************************)
(* The system calls.                                                       *)
(***************************************************************************)
LEMMA PacketTypes ==
  /\ WakeUpPacket \in Packets
  /\ \A h \in Handles, s \in {"changes", "empty", "enum_dir", "aborted", "failed"} :
        Packet(h, s) \in Packets
  BY DEF WakeUpPacket, Packet, Packets

\* A packet with a result comes from a handle.
LEMMA ResultFromHandle ==
  ASSUME NEW x \in Packets, x.status # "empty"
  PROVE  x.key \in Handles
  BY DEF Packets

\* The port's queue grows at its end.
Extends(q) ==
  /\ port' \in Seq(Packets)
  /\ Len(q) <= Len(port')
  /\ \A n \in 1..Len(q) : port'[n] = q[n]

PortExtended == Extends(port)

LEMMA ExtendsProperties ==
  ASSUME NEW q \in Seq(Packets), NEW x \in Packets, port' = q \/ port' = Append(q, x)
  PROVE  Extends(q)
<1>1. CASE port' = q
  BY <1>1 DEF Extends
<1>2. CASE port' = Append(q, x)
  <2>1. /\ port' \in Seq(Packets) /\ Len(port') = Len(q) + 1
        /\ \A n \in 1..Len(q) : port'[n] = q[n]
    BY <1>2, AppendProperties
  <2> QED
    BY <2>1 DEF Extends
<1> QED
  BY <1>1, <1>2

\* One result for each read.
LEMMA EndReadsProperties ==
  ASSUME PortTypeOK, NEW h \in Handles, NEW q \in Seq(Packets),
         NEW s \in {"changes", "empty", "enum_dir", "aborted", "failed"},
         EndReads(h, s, q)
  PROVE  /\ reads' \in [Handles -> Nat] /\ reads' = [reads EXCEPT ![h] = 0]
         /\ Extends(q) /\ Len(port') = Len(q) + reads[h]
         /\ \A n \in 1..Len(port') : n > Len(q) => port'[n] = Packet(h, s)
<1> DEFINE x == Packet(h, s)
           r == [n \in 1..reads[h] |-> x]
<1>1. x \in Packets
  BY PacketTypes
<1>2. reads' = [reads EXCEPT ![h] = 0] /\ port' = q \o r
  BY DEF EndReads
<1>3. reads \in [Handles -> Nat] /\ reads[h] \in Nat
  BY DEF PortTypeOK
<1>4. reads' \in [Handles -> Nat]
  BY <1>2, <1>3
<1> HIDE DEF x
<1>5. r \in Seq(Packets) /\ Len(r) = reads[h] /\ \A n \in 1..Len(r) : r[n] = x
  <2>1. r \in [1..reads[h] -> Packets]
    BY <1>1
  <2>2. r \in Seq(Packets)
    BY <1>3, <2>1, SeqDef
  <2>3. Len(r) = reads[h]
    BY <1>3, <2>1, <2>2, LenProperties
  <2> QED
    BY <2>2, <2>3
<1> HIDE DEF r
<1>6. /\ port' \in Seq(Packets) /\ Len(port') = Len(q) + Len(r)
      /\ \A n \in 1..Len(q) + Len(r) : port'[n] = IF n <= Len(q) THEN q[n] ELSE r[n - Len(q)]
  BY <1>2, <1>5, ConcatProperties
<1>7. Len(q) \in Nat
  OBVIOUS
<1>8. Extends(q)
  BY <1>3, <1>5, <1>6, <1>7 DEF Extends
<1>9. \A n \in 1..Len(port') : n > Len(q) => port'[n] = x
  <2> SUFFICES ASSUME NEW n \in 1..Len(port'), n > Len(q) PROVE port'[n] = x
    OBVIOUS
  <2>1. n - Len(q) \in 1..Len(r)
    BY <1>3, <1>5, <1>6, <1>7
  <2>2. port'[n] = r[n - Len(q)]
    BY <1>3, <1>5, <1>6, <1>7
  <2> QED
    BY <1>5, <2>1, <2>2
<1> QED
  BY <1>2, <1>4, <1>5, <1>6, <1>8, <1>9 DEF x

LEMMA FsNextProperties ==
  ASSUME PortTypeOK, FsNext
  PROVE  PortTypeOK' /\ PortExtended /\ UNCHANGED portOpen
<1> USE DEF FsOp
<1>f. ASSUME NEW op, FsOp(op) PROVE fsOps' \in 0..MaxFsOps
  BY <1>f, PortAssumption DEF PortTypeOK
<1>p. port \in Seq(Packets) /\ reads \in [Handles -> Nat]
  BY DEF PortTypeOK
<1>s. UNCHANGED <<reads, port>> => reads' \in [Handles -> Nat] /\ PortExtended
  BY <1>p DEF PortExtended, Extends
<1>e. ASSUME NEW h \in Handles,
             NEW s \in {"changes", "empty", "enum_dir", "aborted", "failed"},
             EndReads(h, s, port)
      PROVE  reads' \in [Handles -> Nat] /\ PortExtended
  BY <1>e, <1>p, EndReadsProperties DEF PortExtended
<1>r. \A h \in Handles : \A v \in {"nothing", "some", "too_many"} :
        [recorded EXCEPT ![h] = v] \in [Handles -> {"nothing", "some", "too_many"}]
  BY DEF PortTypeOK
<1>1. ASSUME NEW h \in Handles, Change(h)
      PROVE  PortTypeOK' /\ PortExtended /\ UNCHANGED portOpen
  <2>1. reads' \in [Handles -> Nat] /\ PortExtended
    <3>1. CASE h \in reading /\ reads' = [reads EXCEPT ![h] = @ - 1]
               /\ port' = Append(port, Packet(h, "changes"))
      <4>1. reads[h] \in Nat /\ reads[h] > 0
        BY <1>p, <3>1 DEF reading
      <4>2. reads[h] - 1 \in Nat
        BY <4>1
      <4>3. Packet(h, "changes") \in Packets
        BY PacketTypes
      <4> QED
        BY <1>p, <3>1, <4>2, <4>3, ExtendsProperties DEF PortExtended
    <3> QED
      BY <1>1, <1>s, <3>1 DEF Change
  <2>2. recorded' \in [Handles -> {"nothing", "some", "too_many"}]
    BY <1>1 DEF Change, PortTypeOK
  <2>3. UNCHANGED <<dirs, openOn, gone, portOpen>> /\ FsOp("change")
    BY <1>1 DEF Change
  <2> QED
    BY <1>f, <2>1, <2>2, <2>3 DEF PortTypeOK, PortExtended, Extends
<1>2. ASSUME NEW h \in Handles, Burst(h)
      PROVE  PortTypeOK' /\ PortExtended /\ UNCHANGED portOpen
  <2>1. reads' \in [Handles -> Nat] /\ PortExtended
    BY <1>2, <1>e DEF Burst
  <2>2. recorded' \in [Handles -> {"nothing", "some", "too_many"}]
    BY <1>2, <1>r DEF Burst
  <2>3. UNCHANGED <<dirs, openOn, gone, portOpen>> /\ FsOp("burst")
    BY <1>2 DEF Burst
  <2> QED
    BY <1>f, <2>1, <2>2, <2>3 DEF PortTypeOK, PortExtended, Extends
<1>3. ASSUME NEW p \in Paths, DeleteDirectory(p)
      PROVE  PortTypeOK' /\ PortExtended /\ UNCHANGED portOpen
  <2>1. reads' \in [Handles -> Nat] /\ PortExtended
    BY <1>3, <1>s, <1>e DEF DeleteDirectory
  <2>2. /\ UNCHANGED <<openOn, recorded, portOpen>>
        /\ FsOp("delete")
        /\ dirs' = dirs \ {p}
        /\ gone' = gone \cup {h \in Handles : openOn[h] = p}
    BY <1>3 DEF DeleteDirectory
  <2>3. dirs' \in SUBSET Paths /\ gone' \in SUBSET Handles
    BY <2>2 DEF PortTypeOK
  <2> QED
    BY <1>f, <2>1, <2>2, <2>3 DEF PortTypeOK, PortExtended, Extends
<1>4. ASSUME NEW p \in Paths, CreateDirectory(p)
      PROVE  PortTypeOK' /\ PortExtended /\ UNCHANGED portOpen
  <2>1. UNCHANGED <<handleVars, portOpen, port>> /\ FsOp("create") /\ dirs' = dirs \cup {p}
    BY <1>4 DEF CreateDirectory
  <2> QED
    BY <1>f, <1>p, <2>1 DEF PortTypeOK, PortExtended, Extends, handleVars
<1> QED
  BY <1>1, <1>2, <1>3, <1>4 DEF FsNext

LEMMA OpenProperties ==
  ASSUME PortTypeOK, UNCHANGED <<dirs, fsOps>>, NEW p \in Paths, NEW h \in Handles,
         OpenAndRead(p, h) \/ OpenAndReadFails(p, h)
  PROVE  PortTypeOK' /\ UNCHANGED <<portOpen, port>>
<1>1. CASE OpenAndRead(p, h)
  BY <1>1 DEF OpenAndRead, PortTypeOK
<1>2. CASE OpenAndReadFails(p, h)
  BY <1>2 DEF OpenAndReadFails, PortTypeOK, handleVars
<1> QED
  BY <1>1, <1>2

LEMMA ReadProperties ==
  ASSUME PortTypeOK, UNCHANGED <<dirs, fsOps>>, NEW rest \in Seq(Packets), NEW h,
         Read(h, rest) \/ ReadFails(h, rest)
  PROVE  PortTypeOK' /\ UNCHANGED portOpen
<1>1. CASE Read(h, rest)
  <2>1. h \in Handles
    BY <1>1 DEF Read
  <2>2. reads' \in [Handles -> Nat]
    BY <1>1, <2>1 DEF Read, PortTypeOK
  <2>3. port' \in Seq(Packets)
    BY <1>1, <2>1, PacketTypes DEF Read
  <2>4. recorded' \in [Handles -> {"nothing", "some", "too_many"}]
    BY <1>1, <2>1 DEF Read, PortTypeOK
  <2>5. UNCHANGED <<openOn, gone, portOpen>>
    BY <1>1 DEF Read
  <2> QED
    BY <2>2, <2>3, <2>4, <2>5 DEF PortTypeOK
<1>2. CASE ReadFails(h, rest)
  BY <1>2 DEF ReadFails, PortTypeOK, handleVars
<1> QED
  BY <1>1, <1>2

LEMMA CloseProperties ==
  ASSUME PortTypeOK, UNCHANGED <<dirs, fsOps>>, NEW rest \in Seq(Packets),
         NEW h \in Handles, CloseHandle(h, rest)
  PROVE  /\ PortTypeOK'
         /\ UNCHANGED portOpen
         /\ Extends(rest)
<1>1. Extends(rest) /\ reads' \in [Handles -> Nat]
  BY EndReadsProperties DEF CloseHandle
<1>2. openOn' \in [Handles -> Paths \cup {NoPath}]
  BY DEF CloseHandle, PortTypeOK
<1>3. recorded' \in [Handles -> {"nothing", "some", "too_many"}]
  BY DEF CloseHandle, PortTypeOK
<1>4. gone' \in SUBSET Handles /\ UNCHANGED portOpen
  BY DEF CloseHandle, PortTypeOK
<1>5. PortTypeOK'
  BY <1>1, <1>2, <1>3, <1>4 DEF PortTypeOK, Extends
<1> QED
  BY <1>1, <1>4, <1>5

LEMMA ClosePortProperties ==
  ASSUME PortTypeOK, UNCHANGED <<dirs, fsOps>>, NEW hs \in SUBSET Handles, ClosePort(hs)
  PROVE  PortTypeOK' /\ ~portOpen'
<1>1. /\ openOn' \in [Handles -> Paths \cup {NoPath}]
      /\ recorded' \in [Handles -> {"nothing", "some", "too_many"}]
  BY DEF ClosePort, PortTypeOK
<1>2. reads' \in [Handles -> Nat] /\ gone' \in SUBSET Handles
  BY DEF ClosePort, PortTypeOK
<1>3. portOpen' = FALSE /\ port' = <<>>
  BY DEF ClosePort
<1>4. port' \in Seq(Packets)
  BY <1>3
<1> QED
  BY <1>1, <1>2, <1>3, <1>4 DEF PortTypeOK

LEMMA PostPacketProperties ==
  ASSUME PortTypeOK, UNCHANGED <<dirs, fsOps>>, PostPacket
  PROVE  PortTypeOK' /\ PortExtended /\ UNCHANGED portOpen
<1>1. PortExtended
  BY PacketTypes, ExtendsProperties DEF PostPacket, PortExtended, PortTypeOK
<1> QED
  BY <1>1 DEF PostPacket, PortTypeOK, PortExtended, Extends, handleVars

-----------------------------------------------------------------------------
(***************************************************************************)
(* Types of the initial state and of the main thread's steps.              *)
(***************************************************************************)
LEMMA InitTypes == Init => TypeOK
<1> SUFFICES ASSUME Init PROVE TypeOK
  OBVIOUS
<1>1. PortTypeOK
  <2>1. fsOps = 0 /\ port = <<>>
    BY DEF Init, PortInit
  <2>2. fsOps \in 0..MaxFsOps /\ port \in Seq(Packets)
    BY <2>1, PortAssumption
  <2>3. dirs \in SUBSET Paths
    BY PortAssumption DEF Init, PortInit
  <2>4. /\ openOn \in [Handles -> Paths \cup {NoPath}]
        /\ recorded \in [Handles -> {"nothing", "some", "too_many"}]
        /\ gone \in SUBSET Handles /\ reads \in [Handles -> Nat]
        /\ portOpen \in BOOLEAN
    BY DEF Init, PortInit
  <2> QED
    BY <2>2, <2>3, <2>4 DEF PortTypeOK
<1>2. ServiceTypeOK
  <2>1. calls = 0
    BY DEF Init
  <2>2. calls \in 0..MaxCalls
    BY <2>1, WatcherAssumption
  <2> QED
    BY <2>2 DEF Init, ServiceTypeOK
<1>3. TableTypeOK
  BY DEF Init, TableTypeOK
<1>4. QueueTypeOK
  <2>1. ioq = <<>> /\ mainq = <<>> /\ postFailures = 0
    BY DEF Init
  <2>2. ioq \in Seq(Tasks) /\ mainq \in Seq(Posts) /\ postFailures \in 0..MaxPostFailures
    BY <2>1, WatcherAssumption
  <2> QED
    BY <2>2 DEF Init, QueueTypeOK
<1> QED
  BY <1>1, <1>2, <1>3, <1>4 DEF TypeOK

\* What a step leaves alone keeps its type.
LEMMA Frame ==
  ASSUME TypeOK
  PROVE  /\ UNCHANGED portVars => PortTypeOK'
         /\ UNCHANGED mainVars => ServiceTypeOK'
         /\ UNCHANGED tableVars => TableTypeOK'
         /\ UNCHANGED <<ioq, mainq, postFailures, runVars, mShuttingDown, crash>>
              => QueueTypeOK'
<1>1. UNCHANGED portVars => PortTypeOK'
  BY DEF TypeOK, PortTypeOK, portVars, handleVars
<1>2. UNCHANGED mainVars => ServiceTypeOK'
  BY DEF TypeOK, ServiceTypeOK, mainVars
<1>3. UNCHANGED tableVars => TableTypeOK'
  BY DEF TypeOK, TableTypeOK, tableVars
<1>4. UNCHANGED <<ioq, mainq, postFailures, runVars, mShuttingDown, crash>> => QueueTypeOK'
  BY DEF TypeOK, QueueTypeOK, runVars
<1> QED
  BY <1>1, <1>2, <1>3, <1>4

LEMMA ServiceInitTypes == TypeOK /\ ServiceInit => TypeOK'
<1> SUFFICES ASSUME TypeOK, ServiceInit PROVE TypeOK'
  OBVIOUS
<1>1. UNCHANGED <<portVars, tableVars, runVars, mainq, mShuttingDown, crash, postFailures>>
  BY DEF ServiceInit
<1>2. ServiceTypeOK'
  BY DEF ServiceInit, TypeOK, ServiceTypeOK
<1>3. ioq' \in Seq(Tasks)
  <2>1. ioq \in Seq(Tasks) /\ RunTask \in Tasks
    BY DEF TypeOK, QueueTypeOK, Tasks
  <2>2. ioq' = ioq \/ ioq' = <<RunTask>>
    BY DEF ServiceInit
  <2>3. \A x \in Tasks : <<x>> \in Seq(Tasks)
    OBVIOUS
  <2> QED
    BY <2>1, <2>2, <2>3
<1>4. QueueTypeOK'
  BY <1>1, <1>3 DEF TypeOK, QueueTypeOK, runVars
<1> QED
  BY <1>1, <1>2, <1>4, Frame DEF TypeOK

LEMMA DispatchTypes ==
  ASSUME TypeOK, NEW t \in Tasks, Dispatch(t), calls' \in 0..MaxCalls, mIOThread' \in BOOLEAN
  PROVE  TypeOK'
<1>1. /\ UNCHANGED <<portVars, tableVars, runVars, mainq, mShuttingDown, crash, postFailures>>
      /\ UNCHANGED <<initialised, thread>>
      /\ ioq' = Append(ioq, t) /\ waking' = TRUE
  BY DEF Dispatch
<1>2. ServiceTypeOK'
  BY <1>1 DEF TypeOK, ServiceTypeOK
<1>3. ioq' \in Seq(Tasks)
  BY <1>1 DEF TypeOK, QueueTypeOK
<1>4. QueueTypeOK'
  BY <1>1, <1>3 DEF TypeOK, QueueTypeOK, runVars
<1> QED
  BY <1>1, <1>2, <1>4, Frame DEF TypeOK

LEMMA DispatchCallTypes ==
  ASSUME TypeOK, NEW op \in {"add", "remove"}, NEW p \in Paths, NEW c \in Cbs,
         NEW e \in Errs, DispatchCall(op, p, c, e)
  PROVE  TypeOK'
<1> DEFINE r == [op |-> op, id |-> calls + 1, path |-> p, cb |-> c, err |-> e]
<1>1. calls + 1 \in 1..MaxCalls /\ calls' = calls + 1 /\ mIOThread' \in BOOLEAN
  BY WatcherAssumption DEF DispatchCall, TypeOK, ServiceTypeOK
<1>2. calls' \in 0..MaxCalls
  BY <1>1, WatcherAssumption
<1>3. r \in Tasks
  BY <1>1 DEF Tasks, Calls
<1>4. Dispatch(r)
  BY DEF DispatchCall
<1> HIDE DEF r
<1> QED
  BY <1>1, <1>2, <1>3, <1>4, DispatchTypes

LEMMA UninitTypes == TypeOK /\ Uninit => TypeOK'
<1> SUFFICES ASSUME TypeOK, Uninit PROVE TypeOK'
  OBVIOUS
<1>1. Dispatch(DeactivateTask) /\ mIOThread' = FALSE /\ UNCHANGED calls
  BY DEF Uninit
<1>2. DeactivateTask \in Tasks
  BY DEF Tasks
<1>3. calls' \in 0..MaxCalls
  BY <1>1 DEF TypeOK, ServiceTypeOK
<1> QED
  BY <1>1, <1>2, <1>3, DispatchTypes

LEMMA WakeUpTypes == TypeOK /\ WakeUpWorkerThread => TypeOK'
<1> SUFFICES ASSUME TypeOK, WakeUpWorkerThread PROVE TypeOK'
  OBVIOUS
<1>1. /\ UNCHANGED <<tableVars, runVars, mainq, ioq, mShuttingDown, crash, postFailures>>
      /\ UNCHANGED <<initialised, mIOThread, calls, thread>>
      /\ UNCHANGED <<dirs, fsOps>>
      /\ PostPacket /\ waking' = FALSE
  BY DEF WakeUpWorkerThread
<1>2. PortTypeOK'
  BY <1>1, PostPacketProperties DEF TypeOK
<1>3. ServiceTypeOK'
  BY <1>1 DEF TypeOK, ServiceTypeOK
<1> QED
  BY <1>1, <1>2, <1>3, Frame DEF TypeOK

\* The main thread takes posts of the right type off its queue.
LEMMA DeliverTypes == TypeOK /\ DeliverNext => TypeOK'
<1> SUFFICES ASSUME TypeOK, DeliverNext PROVE TypeOK'
  OBVIOUS
<1> USE DEF Delivered
<1>1. mainq \in Seq(Posts) /\ mainq # <<>>
  BY DEF DeliverNext, DeliverCallback, DeliverSuccess, DeliverShutdown, TypeOK, QueueTypeOK
<1>2. Head(mainq) \in Posts /\ Tail(mainq) \in Seq(Posts)
  BY <1>1
<1>3. /\ UNCHANGED <<portVars, tableVars, runVars, ioq, mShuttingDown, crash, postFailures>>
      /\ UNCHANGED <<initialised, mIOThread, calls, waking>>
      /\ thread' = thread \/ thread' = "shutdown"
  BY DEF DeliverNext, DeliverCallback, DeliverSuccess, DeliverShutdown
<1>4. mainq' \in Seq(Posts)
  <2>1. ASSUME NEW c \in Cbs \cup Errs, DeliverCallback(c) PROVE mainq' \in Seq(Posts)
    <3> DEFINE m == Head(mainq)
               rest == [m EXCEPT !.cbs = @ \ {c}]
    <3>1. CASE m.cbs = {c}
      BY <1>2, <2>1, <3>1 DEF DeliverCallback
    <3>2. CASE m.cbs # {c}
      <4>1. (m \in Changes \/ m \in Errors) /\ c \in m.cbs
        BY <1>2, <2>1 DEF DeliverCallback, Posts, Changes, Successes, Errors, ShutdownTask
      <4>2. m \in Changes => rest \in Changes
        <5>1. m \in Changes => m.cbs \ {c} \in (SUBSET Cbs) \ {{}}
          BY <4>1, <3>2 DEF Changes
        <5> QED
          BY <5>1 DEF Changes
      <4>3. m \in Errors => rest \in Errors
        <5>1. m \in Errors => m.cbs \ {c} \in (SUBSET Errs) \ {{}}
          BY <4>1, <3>2 DEF Errors
        <5> QED
          BY <5>1 DEF Errors
      <4>4. mainq' = [mainq EXCEPT ![1] = [mainq[1] EXCEPT !.cbs = mainq[1].cbs \ {c}]]
        BY <2>1, <3>2 DEF DeliverCallback
      <4>5. mainq[1] = m
        BY <1>1
      <4>6. mainq' = [mainq EXCEPT ![1] = rest]
        BY <4>4, <4>5
      <4>7. rest \in Posts
        BY <4>1, <4>2, <4>3 DEF Posts
      <4> HIDE DEF rest
      <4> QED
        BY <1>1, <4>6, <4>7
    <3> QED
      BY <3>1, <3>2
  <2>2. CASE DeliverSuccess \/ DeliverShutdown
    BY <1>2, <2>2 DEF DeliverSuccess, DeliverShutdown
  <2> QED
    BY <2>1, <2>2 DEF DeliverNext
<1>5. ServiceTypeOK'
  BY <1>3 DEF TypeOK, ServiceTypeOK
<1>6. QueueTypeOK'
  BY <1>3, <1>4 DEF TypeOK, QueueTypeOK, runVars
<1> QED
  BY <1>3, <1>5, <1>6, Frame DEF TypeOK

-----------------------------------------------------------------------------
(***************************************************************************)
(* Types of the IO thread's posts and calls.                               *)
(***************************************************************************)
\* What an event of the kind may carry.
CallbacksOf(kind) == IF kind = "change" THEN Cbs ELSE Errs

LEMMA PostedTypes ==
  ASSUME NEW q \in Seq(Posts), NEW kind \in {"change", "error"}, NEW p \in Paths,
         NEW cbs \in SUBSET CallbacksOf(kind)
  PROVE  Posted(q, kind, p, cbs) \in Seq(Posts)
<1> DEFINE x == [kind |-> kind, path |-> p, cbs |-> cbs]
<1>1. cbs # {} => x \in Posts
  BY DEF CallbacksOf, Posts, Changes, Errors
<1>2. Posted(q, kind, p, cbs) = IF cbs = {} THEN q ELSE Append(q, x)
  BY DEF Posted
<1> HIDE DEF x
<1> QED
  BY <1>1, <1>2

LEMMA DispatchesTypes ==
  ASSUME TypeOK, NEW q \in Seq(Posts), NEW kind \in {"change", "error"}, NEW p \in Paths,
         NEW cbs \in SUBSET CallbacksOf(kind),
         DispatchesTo(q, kind, p, cbs) \/ DispatchFails(q, kind, p, cbs)
  PROVE  mainq' \in Seq(Posts) /\ postFailures' \in 0..MaxPostFailures
<1>1. CASE DispatchesTo(q, kind, p, cbs)
  BY <1>1, PostedTypes DEF DispatchesTo, TypeOK, QueueTypeOK
<1>2. CASE DispatchFails(q, kind, p, cbs)
  <2>1. PICK some \in SUBSET cbs : mainq' = Posted(q, kind, p, some)
    BY <1>2 DEF DispatchFails
  <2>2. mainq' \in Seq(Posts)
    BY <2>1, PostedTypes
  <2>3. postFailures < MaxPostFailures /\ postFailures' = postFailures + 1
    BY <1>2 DEF DispatchFails, PostFails
  <2>4. postFailures \in 0..MaxPostFailures
    BY DEF TypeOK, QueueTypeOK
  <2> QED
    BY <2>2, <2>3, <2>4, WatcherAssumption
<1> QED
  BY <1>1, <1>2

LEMMA ReportTypes ==
  ASSUME TypeOK, NEW x \in Posts, Report(x)
  PROVE  mainq' \in Seq(Posts) /\ postFailures' \in 0..MaxPostFailures
<1>1. mainq \in Seq(Posts) /\ postFailures \in 0..MaxPostFailures
  BY DEF TypeOK, QueueTypeOK
<1>2. mainq' = Append(mainq, x) \/ mainq' = mainq
  BY DEF Report, PostFails
<1>3. mainq' \in Seq(Posts)
  BY <1>1, <1>2
<1>4. postFailures' = postFailures
        \/ (postFailures < MaxPostFailures /\ postFailures' = postFailures + 1)
  BY DEF Report, PostFails
<1>5. postFailures' \in 0..MaxPostFailures
  BY <1>1, <1>4, WatcherAssumption
<1> QED
  BY <1>3, <1>5

\* The runnable at the head of the queue.
LEMMA TakesProperties ==
  ASSUME TypeOK, NEW op \in {"run", "add", "remove", "deactivate"}, Takes(op)
  PROVE  /\ ioq # <<>> /\ ioq \in Seq(Tasks) /\ Tail(ioq) \in Seq(Tasks)
         /\ op \in {"add", "remove"} => /\ Current \in Calls
                                        /\ Current.path \in Paths
                                        /\ Current.cb \in Cbs
                                        /\ Current.err \in Errs
<1>1. ioq \in Seq(Tasks) /\ ioq # <<>> /\ Head(ioq).op = op
  BY DEF TypeOK, QueueTypeOK, Takes
<1>2. Head(ioq) \in Tasks /\ Tail(ioq) \in Seq(Tasks)
  BY <1>1
<1>3. op \in {"add", "remove"} => Head(ioq) \in Calls
  BY <1>1, <1>2 DEF Tasks, RunTask, DeactivateTask
<1> QED
  BY <1>1, <1>2, <1>3 DEF Current, Calls

LEMMA CurrentPosts ==
  ASSUME Current \in Calls
  PROVE  Success(Current) \in Posts /\ Failure(Current) \in Posts
<1>1. Success(Current) \in Successes
  BY DEF Success, Successes
<1>2. Failure(Current) \in Errors
  BY DEF Failure, Errors, Calls
<1> QED
  BY <1>1, <1>2 DEF Posts

\* The entry of the call's path, and the tables that are open to it.
LEMMA CallbackTypes ==
  ASSUME TypeOK, NEW p \in Paths, NEW c \in Cbs, NEW e \in Errs,
         AppendCallbacks(p, c, e) \/ RemoveCallbacks(p, c, e)
  PROVE  /\ mChangeCallbacksTable' \in [Paths -> SUBSET Cbs]
         /\ mErrorCallbacksTable' \in [Paths -> SUBSET Errs]
<1>1. /\ mChangeCallbacksTable \in [Paths -> SUBSET Cbs]
      /\ mErrorCallbacksTable \in [Paths -> SUBSET Errs]
  BY DEF TypeOK, TableTypeOK
<1>2. CASE AppendCallbacks(p, c, e)
  BY <1>1, <1>2 DEF AppendCallbacks
<1>3. CASE RemoveCallbacks(p, c, e)
  BY <1>1, <1>3 DEF RemoveCallbacks
<1> QED
  BY <1>2, <1>3

\* The end of a call's runnable.
LEMMA EndsTypes ==
  ASSUME TypeOK, NEW op \in {"add", "remove"}, Takes(op), Ends, PortTypeOK', TableTypeOK',
         mainq' \in Seq(Posts), postFailures' \in 0..MaxPostFailures,
         silenced' \in SUBSET Handles, crash' \in {"none", "unregistered", "unknown_resource"}
  PROVE  TypeOK'
<1>1. ioq' = Tail(ioq) /\ UNCHANGED <<mainVars, waiting, stopped, mShuttingDown>>
  BY DEF Ends, CallFrame
<1>2. ioq' \in Seq(Tasks)
  BY <1>1, TakesProperties
<1>3. ServiceTypeOK'
  BY <1>1, Frame
<1>4. QueueTypeOK'
  BY <1>1, <1>2 DEF TypeOK, QueueTypeOK
<1> QED
  BY <1>3, <1>4 DEF TypeOK

\* The frames of the kernel and of the indexes keep their types.
LEMMA FrameTypes ==
  ASSUME TypeOK
  PROVE  /\ UNCHANGED <<dirs, fsOps>> /\ KernelFrame => PortTypeOK'
         /\ IndexFrame /\ mChangeCallbacksTable' \in [Paths -> SUBSET Cbs]
                       /\ mErrorCallbacksTable' \in [Paths -> SUBSET Errs] => TableTypeOK'
<1>1. UNCHANGED <<dirs, fsOps>> /\ KernelFrame => PortTypeOK'
  BY DEF TypeOK, PortTypeOK, KernelFrame, handleVars
<1>2. IndexFrame /\ mChangeCallbacksTable' \in [Paths -> SUBSET Cbs]
                 /\ mErrorCallbacksTable' \in [Paths -> SUBSET Errs] => TableTypeOK'
  BY DEF TypeOK, TableTypeOK, IndexFrame
<1> QED
  BY <1>1, <1>2

LEMMA AddTypes == TypeOK /\ AddPathRunnable => TypeOK'
<1> SUFFICES ASSUME TypeOK, AddPathRunnable PROVE TypeOK'
  OBVIOUS
<1>1. Adds /\ Ends
  BY DEF AddPathRunnable, AddKnown, AddRefused, AddUnreadable, AddWatched
<1>2. /\ Takes("add") /\ Ends /\ UNCHANGED <<crash, dirs, fsOps>>
  BY <1>1 DEF Adds, Ends, CallFrame
<1>3. /\ Current \in Calls /\ Current.path \in Paths /\ Current.cb \in Cbs
      /\ Current.err \in Errs
  BY <1>2, TakesProperties
<1>4. Success(Current) \in Posts /\ Failure(Current) \in Posts
  BY <1>3, CurrentPosts
<1>5. /\ mainq \in Seq(Posts) /\ postFailures \in 0..MaxPostFailures
      /\ silenced \in SUBSET Handles
      /\ crash' \in {"none", "unregistered", "unknown_resource"}
  BY <1>2 DEF TypeOK, QueueTypeOK
<1>6. /\ mErrorCallbacksTable \in [Paths -> SUBSET Errs] /\ PortTypeOK
      /\ mWatchedResourcesByPath \in [Paths -> Handles \cup {NoHandle, InvalidHandle}]
      /\ mWatchedResourcesByHandle \in [Handles -> Paths \cup {NoPath}]
  BY DEF TypeOK, TableTypeOK
<1>7. CASE AddKnown
  <2>1. /\ AppendCallbacks(Current.path, Current.cb, Current.err)
        /\ KernelFrame /\ IndexFrame
        /\ UNCHANGED <<mainq, postFailures, silenced>>
    BY <1>7 DEF AddKnown
  <2>2. TableTypeOK' /\ PortTypeOK'
    BY <1>2, <1>3, <2>1, CallbackTypes, FrameTypes
  <2> QED
    BY <1>2, <1>5, <2>1, <2>2, EndsTypes
<1>8. CASE AddRefused
  <2>1. /\ Report(Failure(Current))
        /\ KernelFrame
        /\ UNCHANGED <<tableVars, silenced>>
    BY <1>8 DEF AddRefused
  <2>2. TableTypeOK' /\ PortTypeOK'
    BY <1>2, <2>1, Frame, FrameTypes
  <2>3. mainq' \in Seq(Posts) /\ postFailures' \in 0..MaxPostFailures
    BY <1>4, <2>1, ReportTypes
  <2> QED
    BY <1>2, <1>5, <2>1, <2>2, <2>3, EndsTypes
<1>9. CASE AddUnreadable
  <2> DEFINE errs == mErrorCallbacksTable[Current.path] \cup {Current.err}
  <2>1. /\ \E h \in Handles : OpenAndReadFails(Current.path, h)
        /\ RemoveCallbacks(Current.path, Current.cb, Current.err)
        /\ IndexFrame
        /\ UNCHANGED silenced
    BY <1>9 DEF AddUnreadable
  <2>2. \/ DispatchesTo(mainq, "error", Current.path, errs)
        \/ DispatchFails(mainq, "error", Current.path, errs)
    BY <1>9 DEF AddUnreadable
  <2>3. errs \in SUBSET CallbacksOf("error")
    BY <1>3, <1>6 DEF CallbacksOf
  <2>4. mainq' \in Seq(Posts) /\ postFailures' \in 0..MaxPostFailures
    <3> HIDE DEF errs
    <3> QED
      BY <1>3, <1>5, <2>2, <2>3, DispatchesTypes
  <2>5. TableTypeOK'
    BY <1>3, <2>1, CallbackTypes, FrameTypes
  <2>6. PortTypeOK'
    BY <1>2, <1>3, <1>6, <2>1, OpenProperties
  <2> QED
    BY <1>2, <1>5, <2>1, <2>4, <2>5, <2>6, EndsTypes
<1>10. CASE AddWatched
  <2>1. PICK h \in Handles : /\ OpenAndRead(Current.path, h)
                             /\ Enter(Current.path, h)
                             /\ silenced' = silenced \ {h}
    BY <1>10 DEF AddWatched
  <2>2. /\ AppendCallbacks(Current.path, Current.cb, Current.err)
        /\ Report(Success(Current))
    BY <1>10 DEF AddWatched
  <2>3. mainq' \in Seq(Posts) /\ postFailures' \in 0..MaxPostFailures
    BY <1>4, <2>2, ReportTypes
  <2>4. /\ mWatchedResourcesByPath' \in [Paths -> Handles \cup {NoHandle, InvalidHandle}]
        /\ mWatchedResourcesByHandle' \in [Handles -> Paths \cup {NoPath}]
    BY <1>3, <1>6, <2>1 DEF Enter
  <2>8. overwritten' \in [Handles -> SUBSET Paths]
    BY <1>6, <2>1 DEF Enter, TypeOK, TableTypeOK
  <2>5. TableTypeOK'
    BY <1>3, <2>2, <2>4, <2>8, CallbackTypes DEF TableTypeOK
  <2>6. PortTypeOK'
    BY <1>2, <1>3, <1>6, <2>1, OpenProperties
  <2>7. silenced' \in SUBSET Handles
    BY <1>5, <2>1
  <2> QED
    BY <1>2, <1>5, <2>3, <2>5, <2>6, <2>7, EndsTypes
<1> QED
  BY <1>7, <1>8, <1>9, <1>10 DEF AddPathRunnable

LEMMA RemoveTypes == TypeOK /\ RemovePathRunnable => TypeOK'
<1> SUFFICES ASSUME TypeOK, RemovePathRunnable PROVE TypeOK'
  OBVIOUS
<1>1. Removes
  BY DEF RemovePathRunnable, RemoveUnwatched, RemoveUnregistered, RemoveOne, RemoveLast
<1>2. Takes("remove") /\ Ends /\ UNCHANGED <<silenced, dirs, fsOps>>
  BY <1>1 DEF Removes, Ends, CallFrame
<1>3. /\ Current \in Calls /\ Current.path \in Paths /\ Current.cb \in Cbs
      /\ Current.err \in Errs
  BY <1>2, TakesProperties
<1>4. Success(Current) \in Posts
  BY <1>3, CurrentPosts
<1>5. /\ mainq \in Seq(Posts) /\ postFailures \in 0..MaxPostFailures
      /\ silenced' \in SUBSET Handles
      /\ crash \in {"none", "unregistered", "unknown_resource"}
  BY <1>2 DEF TypeOK, QueueTypeOK
<1>6. /\ PortTypeOK /\ port \in Seq(Packets)
      /\ mWatchedResourcesByPath \in [Paths -> Handles \cup {NoHandle, InvalidHandle}]
      /\ mWatchedResourcesByHandle \in [Handles -> Paths \cup {NoPath}]
  BY DEF TypeOK, TableTypeOK, PortTypeOK
<1>7. CASE RemoveUnwatched
  <2>1. Report(Success(Current)) /\ KernelFrame /\ UNCHANGED <<tableVars, crash>>
    BY <1>7 DEF RemoveUnwatched
  <2>2. TableTypeOK' /\ PortTypeOK'
    BY <1>2, <2>1, Frame, FrameTypes
  <2>3. mainq' \in Seq(Posts) /\ postFailures' \in 0..MaxPostFailures
    BY <1>4, <2>1, ReportTypes
  <2> QED
    BY <1>2, <1>5, <2>1, <2>2, <2>3, EndsTypes
<1>8. CASE RemoveUnregistered
  <2>1. /\ crash' = "unregistered" /\ KernelFrame
        /\ UNCHANGED <<tableVars, mainq, postFailures>>
    BY <1>8 DEF RemoveUnregistered
  <2>2. TableTypeOK' /\ PortTypeOK'
    BY <1>2, <2>1, Frame, FrameTypes
  <2> QED
    BY <1>2, <1>5, <2>1, <2>2, EndsTypes
<1>9. CASE RemoveOne
  <2>1. /\ RemoveCallbacks(Current.path, Current.cb, Current.err)
        /\ Report(Success(Current)) /\ KernelFrame /\ IndexFrame /\ UNCHANGED crash
    BY <1>9 DEF RemoveOne
  <2>2. TableTypeOK' /\ PortTypeOK'
    BY <1>2, <1>3, <2>1, CallbackTypes, FrameTypes
  <2>3. mainq' \in Seq(Posts) /\ postFailures' \in 0..MaxPostFailures
    BY <1>4, <2>1, ReportTypes
  <2> QED
    BY <1>2, <1>5, <2>1, <2>2, <2>3, EndsTypes
<1>10. CASE RemoveLast
  <2>1. /\ RemoveCallbacks(Current.path, Current.cb, Current.err)
        /\ Report(Success(Current)) /\ Dispose(Current.path) /\ UNCHANGED crash
    BY <1>10 DEF RemoveLast
  <2>2. \/ Entry \in Handles /\ CloseHandle(Entry, port)
        \/ Entry = InvalidHandle /\ KernelFrame
    BY <1>10 DEF RemoveLast
  <2>3. PortTypeOK'
    BY <1>2, <1>6, <2>2, CloseProperties, FrameTypes
  <2>4. /\ mWatchedResourcesByPath' \in [Paths -> Handles \cup {NoHandle, InvalidHandle}]
        /\ mWatchedResourcesByHandle' \in [Handles -> Paths \cup {NoPath}]
    BY <1>6, <2>1 DEF Dispose
  <2>7. overwritten' \in [Handles -> SUBSET Paths]
    BY <2>1 DEF Dispose, TypeOK, TableTypeOK
  <2>5. TableTypeOK'
    BY <1>3, <2>1, <2>4, <2>7, CallbackTypes DEF TableTypeOK
  <2>6. mainq' \in Seq(Posts) /\ postFailures' \in 0..MaxPostFailures
    BY <1>4, <2>1, ReportTypes
  <2> QED
    BY <1>2, <1>5, <2>1, <2>3, <2>5, <2>6, EndsTypes
<1> QED
  BY <1>7, <1>8, <1>9, <1>10 DEF RemovePathRunnable

LEMMA DeactivateTypes == TypeOK /\ DeactivateRunnable => TypeOK'
<1> SUFFICES ASSUME TypeOK, DeactivateRunnable PROVE TypeOK'
  OBVIOUS
<1>1. /\ Takes("deactivate") /\ ioq' = Tail(ioq) /\ mShuttingDown' = TRUE
      /\ UNCHANGED <<mainVars, runVars, dirs, fsOps, crash>>
      /\ CloseEverything /\ ScheduleShutdown
  BY DEF DeactivateRunnable
<1>2. TableTypeOK'
  BY DEF DeactivateRunnable, TypeOK, TableTypeOK
<1>3. PortTypeOK'
  BY <1>1, ClosePortProperties DEF CloseEverything, TypeOK
<1>4. ShutdownTask \in Posts
  BY DEF Posts
<1>5. mainq' \in Seq(Posts) /\ postFailures' \in 0..MaxPostFailures
  BY <1>1, <1>4, ReportTypes DEF ScheduleShutdown
<1>6. ioq' \in Seq(Tasks)
  BY <1>1, TakesProperties
<1>7. QueueTypeOK'
  BY <1>1, <1>5, <1>6 DEF TypeOK, QueueTypeOK, runVars
<1> QED
  BY <1>1, <1>2, <1>3, <1>7, Frame DEF TypeOK

-----------------------------------------------------------------------------
(***************************************************************************)
(* Types of Run.                                                           *)
(***************************************************************************)
\* What GetQueuedCompletionStatus returns, and the entry its handle leads to.
LEMMA ReturnsProperties ==
  ASSUME TypeOK, NEW statuses, Returns(statuses)
  PROVE  /\ Received \in Packets /\ Rest \in Seq(Packets)
         /\ Received.status \in statuses
         /\ Received.status # "empty" => /\ Received.key \in Handles
                                         /\ Resource \in Paths \cup {NoPath}
         /\ UNCHANGED <<mainVars, mShuttingDown, dirs, fsOps>> /\ waiting' = FALSE
<1>1. port \in Seq(Packets) /\ port # <<>> /\ Received.status \in statuses
  BY DEF TypeOK, PortTypeOK, Returns
<1>2. Received \in Packets /\ Rest \in Seq(Packets)
  BY <1>1 DEF Received, Rest
<1>3. Received.status # "empty" => Received.key \in Handles
  BY <1>2, ResultFromHandle
<1>4. Received.key \in Handles => Resource \in Paths \cup {NoPath}
  BY DEF Resource, TypeOK, TableTypeOK
<1>5. UNCHANGED <<mainVars, mShuttingDown, dirs, fsOps>> /\ waiting' = FALSE
  BY DEF Returns, RunFrame
<1> QED
  BY <1>1, <1>2, <1>3, <1>4, <1>5

LEMMA ReceivedTaken ==
  ASSUME TypeOK, NEW statuses, Returns(statuses), PacketTaken
  PROVE  PortTypeOK'
<1>1. port' \in Seq(Packets)
  BY ReturnsProperties DEF PacketTaken
<1>2. UNCHANGED <<dirs, fsOps, handleVars, portOpen>>
  BY ReturnsProperties DEF PacketTaken
<1> QED
  BY <1>1, <1>2 DEF TypeOK, PortTypeOK, handleVars

\* How a pass of Run ends: it is queued again, it stops, or the process dies.
RunEnds ==
  \/ Reschedule
  \/ Stop
  \/ UNCHANGED <<ioq, stopped>> /\ crash' = "unknown_resource"

LEMMA RunEndsTypes ==
  ASSUME TypeOK, NEW statuses, Returns(statuses), RunEnds, PortTypeOK', TableTypeOK',
         mainq' \in Seq(Posts), postFailures' \in 0..MaxPostFailures,
         silenced' \in SUBSET Handles
  PROVE  TypeOK'
<1>1. UNCHANGED <<mainVars, mShuttingDown>> /\ waiting' = FALSE
  BY ReturnsProperties
<1>2. ServiceTypeOK'
  BY <1>1, Frame
<1>3. /\ ioq \in Seq(Tasks) /\ RunTask \in Tasks /\ stopped \in BOOLEAN
      /\ mShuttingDown \in BOOLEAN /\ crash \in {"none", "unregistered", "unknown_resource"}
  BY DEF TypeOK, QueueTypeOK, Tasks
<1>4. ioq' = ioq \/ ioq' = Append(ioq, RunTask)
  BY DEF RunEnds, Reschedule, Stop
<1>5. ioq' \in Seq(Tasks)
  BY <1>3, <1>4
<1>6. stopped' \in BOOLEAN /\ crash' \in {"none", "unregistered", "unknown_resource"}
  BY <1>3 DEF RunEnds, Reschedule, Stop
<1>7. QueueTypeOK'
  BY <1>1, <1>3, <1>5, <1>6 DEF QueueTypeOK
<1> QED
  BY <1>2, <1>7 DEF TypeOK

LEMMA ChangedTypes ==
  ASSUME TypeOK, Changed
  PROVE  /\ Resource \in Paths /\ Received.key \in Handles
         /\ Notified \in SUBSET CallbacksOf("change")
         /\ mErrorCallbacksTable[Resource] \in SUBSET CallbacksOf("error")
         /\ ChangesPosted \in SUBSET Seq(Posts)
<1>1. Returns({"changes"}) /\ Resource # NoPath
  BY DEF Changed
<1>2. Received.status \in {"changes"}
  BY <1>1, ReturnsProperties
<1>3. Resource \in Paths /\ Received.key \in Handles
  BY <1>1, <1>2, ReturnsProperties
<1>4. Notified \in SUBSET CallbacksOf("change")
  BY <1>3 DEF Notified, CallbacksOf, TypeOK, TableTypeOK
<1>5. mErrorCallbacksTable[Resource] \in SUBSET CallbacksOf("error")
  BY <1>3 DEF CallbacksOf, TypeOK, TableTypeOK
<1>6. mainq \in Seq(Posts)
  BY DEF TypeOK, QueueTypeOK
<1>7. Posted(mainq, "change", Resource, Notified) \in Seq(Posts)
  BY <1>3, <1>4, <1>6, PostedTypes
<1> QED
  BY <1>3, <1>4, <1>5, <1>6, <1>7 DEF ChangesPosted

LEMMA RunTypes == TypeOK /\ Run => TypeOK'
<1> SUFFICES ASSUME TypeOK, Run PROVE TypeOK'
  OBVIOUS
<1>0. /\ mainq \in Seq(Posts) /\ postFailures \in 0..MaxPostFailures
      /\ silenced \in SUBSET Handles
  BY DEF TypeOK, QueueTypeOK
<1>1. CASE RunInShutdown \/ RunWaits
  <2>1. /\ Takes("run") /\ ioq' = Tail(ioq) /\ RunFrame /\ KernelFrame
        /\ UNCHANGED <<tableVars, stopped, silenced, mainq, crash, postFailures>>
        /\ waiting' = waiting \/ waiting' = TRUE
    BY <1>1 DEF RunInShutdown, RunWaits, runVars
  <2>2. ioq' \in Seq(Tasks)
    BY <2>1, TakesProperties
  <2>3. QueueTypeOK'
    BY <2>1, <2>2 DEF TypeOK, QueueTypeOK, RunFrame
  <2>4. PortTypeOK' /\ ServiceTypeOK' /\ TableTypeOK'
    BY <2>1, FrameTypes, Frame DEF RunFrame
  <2> QED
    BY <2>3, <2>4 DEF TypeOK
<1>2. CASE NoBytes
  <2>1. /\ Returns({"empty"}) /\ PacketTaken /\ UNCHANGED <<tableVars, mainq, postFailures>>
        /\ RunEnds /\ silenced' = silenced \cup ({Received.key} \cap Handles)
    BY <1>2 DEF NoBytes, RunEnds
  <2>2. PortTypeOK' /\ TableTypeOK' /\ silenced' \in SUBSET Handles
    BY <1>0, <2>1, ReceivedTaken, Frame
  <2> QED
    BY <1>0, <2>1, <2>2, RunEndsTypes
<1>3. CASE Overflowed
  <2> DEFINE cbs == mChangeCallbacksTable[Resource]
  <2>1. /\ Returns({"enum_dir"}) /\ PacketTaken /\ UNCHANGED tableVars /\ Resource # NoPath
        /\ RunEnds /\ silenced' = silenced \cup {Received.key}
    BY <1>3 DEF Overflowed, RunEnds
  <2>2. \/ DispatchesTo(mainq, "change", Resource, cbs)
        \/ DispatchFails(mainq, "change", Resource, cbs)
    BY <1>3 DEF Overflowed
  <2>3. Received.key \in Handles /\ Resource \in Paths
    <3>1. Received.status \in {"enum_dir"}
      BY <2>1, ReturnsProperties
    <3> QED
      BY <2>1, <3>1, ReturnsProperties
  <2>4. cbs \in SUBSET CallbacksOf("change")
    BY <2>3 DEF CallbacksOf, TypeOK, TableTypeOK
  <2>5. mainq' \in Seq(Posts) /\ postFailures' \in 0..MaxPostFailures
    <3> HIDE DEF cbs
    <3> QED
      BY <1>0, <2>2, <2>3, <2>4, DispatchesTypes
  <2>6. PortTypeOK' /\ TableTypeOK' /\ silenced' \in SUBSET Handles
    BY <1>0, <2>1, <2>3, ReceivedTaken, Frame
  <2> QED
    BY <2>1, <2>5, <2>6, RunEndsTypes
<1>4. CASE Aborted
  <2>1. /\ Returns({"aborted"}) /\ RunEnds
        /\ UNCHANGED <<mChangeCallbacksTable, mErrorCallbacksTable, silenced, mainq,
                       postFailures>>
    BY <1>4 DEF Aborted, RunEnds
  <2>2. /\ Received.key \in Handles /\ Resource \in Paths \cup {NoPath}
        /\ Rest \in Seq(Packets) /\ UNCHANGED <<dirs, fsOps>>
    <3>1. Received.status \in {"aborted"}
      BY <2>1, ReturnsProperties
    <3> QED
      BY <2>1, <3>1, ReturnsProperties
  <2>3. TableTypeOK' /\ PortTypeOK'
    <3>1. CASE Resource = NoPath
      <4>1. PacketTaken /\ IndexFrame
        BY <1>4, <3>1 DEF Aborted
      <4> QED
        BY <2>1, <4>1, ReceivedTaken DEF IndexFrame, TypeOK, TableTypeOK
    <3>2. CASE Resource # NoPath
      <4> DEFINE h == mWatchedResourcesByPath[Resource]
      <4>1. /\ FreeResource(Received.key, Resource)
            /\ \/ h \in Handles /\ CloseHandle(h, Rest)
               \/ h = InvalidHandle /\ PacketTaken
        BY <1>4, <3>2 DEF Aborted
      <4>2. TableTypeOK'
        BY <2>1, <2>2, <4>1 DEF FreeResource, TypeOK, TableTypeOK
      <4>3. PortTypeOK'
        <5> HIDE DEF h
        <5> QED
          BY <2>1, <2>2, <4>1, ReceivedTaken, CloseProperties DEF TypeOK
      <4> QED
        BY <4>2, <4>3
    <3> QED
      BY <3>1, <3>2
  <2> QED
    BY <1>0, <2>1, <2>3, RunEndsTypes
<1>5. CASE UnknownError
  <2>1. /\ Returns({"failed"}) /\ PacketTaken /\ RunEnds
        /\ UNCHANGED <<tableVars, silenced, mainq, postFailures>>
    BY <1>5 DEF UnknownError, RunEnds
  <2> QED
    BY <1>0, <2>1, ReceivedTaken, Frame, RunEndsTypes
<1>6. CASE UnknownResource
  <2>1. /\ Returns({"changes", "enum_dir"}) /\ PacketTaken /\ RunEnds
        /\ UNCHANGED <<tableVars, silenced, mainq, postFailures>>
    BY <1>6 DEF UnknownResource, RunEnds
  <2> QED
    BY <1>0, <2>1, ReceivedTaken, Frame, RunEndsTypes
<1>7. CASE ChangeUndelivered
  <2>1. /\ Changed /\ PacketTaken /\ RunEnds /\ UNCHANGED silenced
        /\ DispatchFails(mainq, "change", Resource, Notified)
    BY <1>7 DEF ChangeUndelivered, RunEnds
  <2>2. Returns({"changes"}) /\ UNCHANGED tableVars
    BY <2>1 DEF Changed
  <2>3. mainq' \in Seq(Posts) /\ postFailures' \in 0..MaxPostFailures
    BY <1>0, <2>1, ChangedTypes, DispatchesTypes
  <2> QED
    BY <1>0, <2>1, <2>2, <2>3, ReceivedTaken, Frame, RunEndsTypes
<1>8. CASE ChangeDispatched \/ ErrorUndelivered
  <2> DEFINE h == mWatchedResourcesByPath[Resource]
             errs == mErrorCallbacksTable[Resource]
  <2>1. /\ Changed /\ RunEnds
        /\ \/ /\ Read(h, Rest)
              /\ mainq' \in ChangesPosted
              /\ UNCHANGED <<postFailures, silenced>>
           \/ /\ ReadFails(h, Rest)
              /\ silenced' = silenced \cup {Received.key}
              /\ \E q \in ChangesPosted : \/ DispatchesTo(q, "error", Resource, errs)
                                          \/ DispatchFails(q, "error", Resource, errs)
    BY <1>8 DEF ChangeDispatched, ErrorUndelivered, ReadAgain, RunEnds
  <2>2. Returns({"changes"}) /\ UNCHANGED tableVars
    BY <2>1 DEF Changed
  <2>3. Rest \in Seq(Packets) /\ UNCHANGED <<dirs, fsOps>>
    BY <2>2, ReturnsProperties
  <2>4. /\ Resource \in Paths /\ Received.key \in Handles
        /\ errs \in SUBSET CallbacksOf("error")
        /\ ChangesPosted \in SUBSET Seq(Posts)
    BY <2>1, ChangedTypes
  <2> HIDE DEF h, errs
  <2>5. PortTypeOK'
    BY <2>1, <2>3, ReadProperties DEF TypeOK
  <2>6. mainq' \in Seq(Posts) /\ postFailures' \in 0..MaxPostFailures
    BY <1>0, <2>1, <2>4, DispatchesTypes
  <2>7. silenced' \in SUBSET Handles /\ TableTypeOK'
    BY <1>0, <2>1, <2>2, <2>4, Frame
  <2> QED
    BY <2>1, <2>2, <2>5, <2>6, <2>7, RunEndsTypes
<1> QED
  BY <1>1, <1>2, <1>3, <1>4, <1>5, <1>6, <1>7, <1>8 DEF Run

-----------------------------------------------------------------------------
(***************************************************************************)
(* Types of the whole system.                                              *)
(***************************************************************************)
LEMMA NextTypes == TypeOK /\ [Next]_vars => TypeOK'
<1> SUFFICES ASSUME TypeOK, [Next]_vars PROVE TypeOK'
  OBVIOUS
<1>1. CASE MainThread
  <2>1. ASSUME NEW p \in Paths, NEW c \in Cbs, NEW e \in Errs,
               AddPath(p, c, e) \/ RemovePath(p, c, e)
        PROVE  TypeOK'
    BY <2>1, DispatchCallTypes DEF AddPath, RemovePath
  <2> QED
    BY <1>1, <2>1, ServiceInitTypes, UninitTypes, WakeUpTypes DEF MainThread
<1>2. CASE DeliverNext
  BY <1>2, DeliverTypes
<1>3. CASE IOThread
  BY <1>3, RunTypes, AddTypes, RemoveTypes, DeactivateTypes DEF IOThread
<1>4. CASE ThreadEnds
  <2>1. /\ UNCHANGED <<portVars, tableVars, runVars, initialised, mIOThread, calls, waking,
                       mainq, ioq, mShuttingDown, crash, postFailures>>
        /\ thread' = "ended"
    BY <1>4 DEF ThreadEnds
  <2>2. ServiceTypeOK'
    BY <2>1 DEF TypeOK, ServiceTypeOK
  <2> QED
    BY <2>1, <2>2, Frame DEF TypeOK
<1>5. CASE FileSystem
  <2>1. /\ FsNext
        /\ UNCHANGED <<tableVars, mainVars, runVars, mainq, ioq, mShuttingDown, crash,
                       postFailures>>
    BY <1>5 DEF FileSystem
  <2> QED
    BY <2>1, FsNextProperties, Frame DEF TypeOK
<1>6. CASE UNCHANGED vars
  <2>1. /\ UNCHANGED <<portVars, tableVars, mainVars, runVars>>
        /\ UNCHANGED <<mainq, ioq, mShuttingDown, crash, postFailures>>
    BY <1>6 DEF vars
  <2> QED
    BY <2>1, Frame DEF TypeOK
<1> QED
  BY <1>1, <1>2, <1>3, <1>4, <1>5, <1>6 DEF Next

\* Every variable of the service, of the IO thread and of the system keeps its
\* type, whatever the number of paths, handles, callbacks and calls.
THEOREM TypeCorrect == Spec => []TypeOK
<1> QED
  BY InitTypes, NextTypes, PTL DEF Spec

-----------------------------------------------------------------------------
(***************************************************************************)
(* The wake-up protocol.                                                   *)
(***************************************************************************)
\* A wake-up packet is queued, or the main thread is about to post it.
Coming == waking \/ \E n \in 1..Len(port) : port[n] = WakeUpPacket

IsRun(n) == ioq[n].op = "run"

NotStarted == initialised # "ok" => ioq = <<>> /\ ~waiting /\ ~mIOThread

\* Run is in its blocking call, or once in the queue, or gone.
RunOnce ==
  /\ waiting => \A n \in 1..Len(ioq) : ~IsRun(n)
  /\ \A m, n \in 1..Len(ioq) : IsRun(m) /\ IsRun(n) => m = n

PortInUse ==
  /\ portOpen <=> ~mShuttingDown
  /\ waiting => portOpen

\* What NoCallStuck says of Run in its blocking call holds before it gets
\* there: a packet is coming for what is queued behind it.
RunWoken ==
  portOpen => \A n \in 1..Len(ioq) : IsRun(n) /\ n < Len(ioq) => Coming

WakeInv == NotStarted /\ RunOnce /\ PortInUse /\ RunWoken /\ NoCallStuck

LEMMA TailIndex ==
  ASSUME NEW S, NEW q \in Seq(S), q # <<>>
  PROVE  /\ Len(Tail(q)) = Len(q) - 1
         /\ \A n \in 1..Len(Tail(q)) : n + 1 \in 1..Len(q) /\ Tail(q)[n] = q[n + 1]
  OBVIOUS

LEMMA AppendIndex ==
  ASSUME NEW S, NEW q \in Seq(S), NEW x \in S
  PROVE  /\ Append(q, x) \in Seq(S)
         /\ Len(Append(q, x)) = Len(q) + 1
         /\ \A n \in 1..Len(q) : Append(q, x)[n] = q[n]
         /\ Append(q, x)[Len(q) + 1] = x
  OBVIOUS

\* A queued packet stays while the port's queue only grows.
LEMMA ComingStays ==
  ASSUME TypeOK, PortExtended, waking => waking', Coming
  PROVE  Coming'
<1>1. port \in Seq(Packets)
  BY DEF TypeOK, PortTypeOK
<1>2. CASE waking
  BY <1>2 DEF Coming
<1>3. ASSUME NEW n \in 1..Len(port), port[n] = WakeUpPacket PROVE Coming'
  <2>1. n \in 1..Len(port') /\ port'[n] = port[n]
    BY <1>1 DEF PortExtended, Extends
  <2>2. WakeUpPacket' = WakeUpPacket
    BY DEF WakeUpPacket, Packet
  <2> QED
    BY <1>3, <2>1, <2>2 DEF Coming
<1> QED
  BY <1>2, <1>3 DEF Coming

\* The variables of the protocol, and those besides the queues.
ServiceSteady == UNCHANGED <<initialised, mIOThread, mShuttingDown, portOpen>>

\* Steps that touch neither the IO thread's queue nor its blocking call.
LEMMA WakeElsewhere ==
  ASSUME TypeOK, WakeInv, UNCHANGED <<ioq, waiting>>, ServiceSteady, Coming => Coming'
  PROVE  WakeInv'
<1>1. NotStarted' /\ RunOnce' /\ PortInUse'
  BY DEF WakeInv, NotStarted, RunOnce, PortInUse, ServiceSteady, IsRun
<1>2. RunWoken'
  BY DEF WakeInv, RunWoken, ServiceSteady, IsRun
<1>3. NoCallStuck'
  BY DEF WakeInv, NoCallStuck, Coming
<1> QED
  BY <1>1, <1>2, <1>3 DEF WakeInv

LEMMA WakeDispatch ==
  ASSUME TypeOK, WakeInv, NEW t \in Tasks, t.op # "run", Dispatch(t)
  PROVE  WakeInv'
<1>1. /\ mIOThread /\ ioq' = Append(ioq, t) /\ waking' = TRUE
      /\ UNCHANGED <<initialised, mShuttingDown, portOpen, waiting>>
  BY DEF Dispatch, portVars, runVars
<1>2. ioq \in Seq(Tasks) /\ initialised = "ok"
  BY <1>1 DEF TypeOK, QueueTypeOK, WakeInv, NotStarted
<1>3. /\ Len(ioq') = Len(ioq) + 1
      /\ \A n \in 1..Len(ioq) : ioq'[n] = ioq[n]
      /\ ioq'[Len(ioq) + 1] = t
  BY <1>1, <1>2, AppendIndex
<1>4. \A n \in 1..Len(ioq') : IsRun(n)' => n \in 1..Len(ioq) /\ IsRun(n)
  BY <1>2, <1>3 DEF IsRun
<1>5. RunOnce'
  BY <1>1, <1>4 DEF WakeInv, RunOnce
<1>6. NotStarted' /\ PortInUse'
  BY <1>1, <1>2 DEF WakeInv, NotStarted, PortInUse
<1>7. Coming'
  BY <1>1 DEF Coming
<1>8. RunWoken' /\ NoCallStuck'
  BY <1>7 DEF RunWoken, NoCallStuck, Coming
<1> QED
  BY <1>5, <1>6, <1>8 DEF WakeInv

LEMMA WakeMainThread == TypeOK /\ WakeInv /\ MainThread => WakeInv'
<1> SUFFICES ASSUME TypeOK, WakeInv, MainThread PROVE WakeInv'
  OBVIOUS
<1>1. CASE ServiceInit
  <2>1. /\ initialised = "no" /\ ioq = <<>> /\ ~waiting
        /\ UNCHANGED <<mShuttingDown, portOpen, waiting>>
    BY <1>1 DEF ServiceInit, portVars, runVars, WakeInv, NotStarted
  <2>2. CASE initialised' = "ok" /\ ioq' = <<RunTask>>
    <3>1. Len(ioq') = 1
      BY <2>2
    <3>2. RunOnce' /\ RunWoken'
      BY <2>1, <3>1 DEF RunOnce, RunWoken
    <3>3. NotStarted' /\ PortInUse' /\ NoCallStuck'
      BY <2>1, <2>2 DEF WakeInv, NotStarted, PortInUse, NoCallStuck
    <3> QED
      BY <3>2, <3>3 DEF WakeInv
  <2>3. CASE initialised' = "failed" /\ UNCHANGED <<mIOThread, ioq>>
    BY <2>1, <2>3
    DEF WakeInv, NotStarted, RunOnce, RunWoken, PortInUse, NoCallStuck
  <2> QED
    BY <1>1, <2>2, <2>3 DEF ServiceInit
<1>2. ASSUME NEW op \in {"add", "remove"}, NEW p \in Paths, NEW c \in Cbs, NEW e \in Errs,
             DispatchCall(op, p, c, e)
      PROVE  WakeInv'
  <2> DEFINE r == [op |-> op, id |-> calls + 1, path |-> p, cb |-> c, err |-> e]
  <2>1. calls + 1 \in 1..MaxCalls
    BY <1>2, WatcherAssumption DEF DispatchCall, TypeOK, ServiceTypeOK
  <2>2. r \in Tasks /\ r.op # "run" /\ Dispatch(r)
    BY <1>2, <2>1 DEF Tasks, Calls, DispatchCall
  <2> HIDE DEF r
  <2> QED
    BY <2>2, WakeDispatch
<1>3. CASE Uninit
  <2>1. DeactivateTask \in Tasks /\ DeactivateTask.op # "run" /\ Dispatch(DeactivateTask)
    BY <1>3 DEF Tasks, DeactivateTask, Uninit
  <2> QED
    BY <2>1, WakeDispatch
<1>4. CASE WakeUpWorkerThread
  <2>1. /\ UNCHANGED <<initialised, mIOThread, mShuttingDown, ioq, waiting>>
        /\ PostPacket
    BY <1>4 DEF WakeUpWorkerThread, runVars
  <2>2. port \in Seq(Packets) /\ WakeUpPacket \in Packets
    BY PacketTypes DEF TypeOK, PortTypeOK
  <2>3. portOpen' = portOpen
    BY <2>1 DEF PostPacket
  <2>4. portOpen => Coming'
    <3> SUFFICES ASSUME portOpen PROVE Coming'
      OBVIOUS
    <3>1. port' = Append(port, WakeUpPacket)
      BY <2>1 DEF PostPacket
    <3>2. Len(port') = Len(port) + 1 /\ port'[Len(port) + 1] = WakeUpPacket
      BY <2>2, <3>1, AppendIndex
    <3>3. Len(port) + 1 \in 1..Len(port')
      BY <2>2, <3>2
    <3>4. WakeUpPacket' = WakeUpPacket
      BY DEF WakeUpPacket, Packet
    <3> QED
      BY <3>2, <3>3, <3>4 DEF Coming
  <2>5. NotStarted' /\ RunOnce' /\ PortInUse'
    BY <2>1, <2>3 DEF WakeInv, NotStarted, RunOnce, PortInUse, IsRun
  <2>6. RunWoken'
    BY <2>3, <2>4 DEF RunWoken
  <2>7. NoCallStuck'
    BY <2>4, <2>5, <2>3 DEF NoCallStuck, Coming, PortInUse
  <2> QED
    BY <2>5, <2>6, <2>7 DEF WakeInv
<1> QED
  BY <1>1, <1>2, <1>3, <1>4 DEF MainThread, AddPath, RemovePath

\* A runnable is taken while Run is not in its blocking call.
LEMMA WakeTaken ==
  ASSUME TypeOK, WakeInv, ioq # <<>>, ioq' = Tail(ioq), ~waiting, ~waiting',
         UNCHANGED <<initialised, mIOThread>>, portOpen' <=> ~mShuttingDown',
         portOpen' => portOpen /\ (Coming => Coming')
  PROVE  WakeInv'
<1>1. /\ Len(ioq') = Len(ioq) - 1
      /\ \A n \in 1..Len(ioq') : n + 1 \in 1..Len(ioq) /\ ioq'[n] = ioq[n + 1]
  BY TailIndex DEF TypeOK, QueueTypeOK
<1>2. Len(ioq) \in Nat
  BY DEF TypeOK, QueueTypeOK
<1>3. \A n \in 1..Len(ioq') : n \in Nat /\ (IsRun(n)' => IsRun(n + 1))
  BY <1>1 DEF IsRun
<1>4. RunOnce'
  <2> SUFFICES ASSUME NEW m \in 1..Len(ioq'), NEW n \in 1..Len(ioq'), IsRun(m)', IsRun(n)'
               PROVE  m = n
    BY DEF RunOnce
  <2>1. m + 1 = n + 1
    BY <1>1, <1>3 DEF WakeInv, RunOnce
  <2> QED
    BY <1>3, <2>1
<1>5. RunWoken'
  <2> SUFFICES ASSUME portOpen', NEW n \in 1..Len(ioq'), IsRun(n)', n < Len(ioq')
               PROVE  Coming'
    BY DEF RunWoken
  <2>1. IsRun(n + 1) /\ n + 1 \in 1..Len(ioq)
    BY <1>1, <1>3
  <2>2. n + 1 < Len(ioq)
    BY <1>1, <1>2, <1>3
  <2>3. Coming
    BY <2>1, <2>2 DEF WakeInv, RunWoken
  <2> QED
    BY <2>3
<1>6. NotStarted' /\ PortInUse' /\ NoCallStuck'
  BY DEF WakeInv, NotStarted, PortInUse, NoCallStuck
<1> QED
  BY <1>4, <1>5, <1>6 DEF WakeInv

\* The calls' runnables do not touch the service, and the port's queue grows.
LEMMA CallSteps ==
  ASSUME TypeOK, AddPathRunnable \/ RemovePathRunnable
  PROVE  /\ ~waiting /\ ioq # <<>> /\ ioq' = Tail(ioq)
         /\ UNCHANGED <<mainVars, waiting, mShuttingDown, portOpen>>
         /\ ~mShuttingDown
         /\ PortExtended
<1>1. (Adds /\ Ends) \/ Removes
  BY DEF AddPathRunnable, AddKnown, AddRefused, AddUnreadable, AddWatched,
         RemovePathRunnable, RemoveUnwatched, RemoveUnregistered, RemoveOne, RemoveLast
<1>2. Takes("add") \/ Takes("remove")
  BY <1>1 DEF Adds, Removes
<1>3. /\ ioq' = Tail(ioq) /\ ~mShuttingDown
      /\ UNCHANGED <<mainVars, waiting, mShuttingDown, dirs, fsOps>>
  BY <1>1 DEF Adds, Removes, Ends, CallFrame
<1>4. ~waiting /\ ioq # <<>>
  BY <1>2 DEF Takes
<1>p. port \in Seq(Packets)
  BY DEF TypeOK, PortTypeOK
<1>5. KernelFrame => UNCHANGED portOpen /\ PortExtended
  BY <1>p DEF KernelFrame, PortExtended, Extends
<1>6. UNCHANGED portOpen /\ PortExtended
  <2>1. CASE AddKnown \/ AddRefused
    BY <1>5, <2>1 DEF AddKnown, AddRefused
  <2>2. CASE AddUnreadable \/ AddWatched
    BY <1>p, <2>2
    DEF AddUnreadable, AddWatched, OpenAndRead, OpenAndReadFails, PortExtended, Extends
  <2>3. CASE RemoveUnwatched \/ RemoveUnregistered \/ RemoveOne
    BY <1>5, <2>3 DEF RemoveUnwatched, RemoveUnregistered, RemoveOne
  <2>4. CASE RemoveLast
    <3>1. \/ Entry \in Handles /\ CloseHandle(Entry, port)
          \/ Entry = InvalidHandle /\ KernelFrame
      BY <2>4 DEF RemoveLast
    <3>2. CASE Entry \in Handles /\ CloseHandle(Entry, port)
      <4>1. PortTypeOK /\ port \in Seq(Packets)
        BY DEF TypeOK, PortTypeOK
      <4> QED
        BY <1>3, <3>2, <4>1, CloseProperties DEF PortExtended
    <3> QED
      BY <1>5, <3>1, <3>2
  <2> QED
    BY <2>1, <2>2, <2>3, <2>4 DEF AddPathRunnable, RemovePathRunnable
<1> QED
  BY <1>3, <1>4, <1>6

\* A pass of Run that got a packet: Run goes back to the end of the queue, or
\* nowhere.
LEMMA PassSteps ==
  ASSUME TypeOK,
         \/ NoBytes \/ Overflowed \/ Aborted \/ UnknownError \/ UnknownResource
         \/ ChangeUndelivered \/ ChangeDispatched \/ ErrorUndelivered
  PROVE  /\ waiting /\ ~waiting'
         /\ ioq' = ioq \/ ioq' = Append(ioq, RunTask)
         /\ UNCHANGED <<mainVars, mShuttingDown, portOpen>>
<1> DEFINE Statuses == {{"empty"}, {"enum_dir"}, {"aborted"}, {"failed"}, {"changes"},
                        {"changes", "enum_dir"}}
<1>1. PICK statuses \in Statuses : Returns(statuses)
  BY DEF NoBytes, Overflowed, Aborted, UnknownError, UnknownResource, ChangeUndelivered,
         ChangeDispatched, ErrorUndelivered, Changed
<1>2. waiting /\ ~waiting' /\ UNCHANGED <<mainVars, mShuttingDown>>
  BY <1>1 DEF Returns, RunFrame
<1>3. ioq' = ioq \/ ioq' = Append(ioq, RunTask)
  BY DEF NoBytes, Overflowed, Aborted, UnknownError, UnknownResource, ChangeUndelivered,
         ChangeDispatched, ErrorUndelivered, Reschedule, Stop
<1>4. PacketTaken => UNCHANGED portOpen
  BY DEF PacketTaken
<1>5. UNCHANGED portOpen
  <2>1. CASE NoBytes \/ Overflowed \/ UnknownError \/ UnknownResource \/ ChangeUndelivered
    BY <1>4, <2>1 DEF NoBytes, Overflowed, UnknownError, UnknownResource, ChangeUndelivered
  <2>2. CASE Aborted
    BY <1>4, <2>2 DEF Aborted, CloseHandle, EndReads
  <2>3. CASE ChangeDispatched \/ ErrorUndelivered
    BY <2>3 DEF ChangeDispatched, ErrorUndelivered, ReadAgain, Read, ReadFails
  <2> QED
    BY <2>1, <2>2, <2>3
<1> QED
  BY <1>2, <1>3, <1>5

LEMMA WakeRun == TypeOK /\ WakeInv /\ Run => WakeInv'
<1> SUFFICES ASSUME TypeOK, WakeInv, Run PROVE WakeInv'
  OBVIOUS
<1>1. CASE RunInShutdown
  <2>1. /\ ioq # <<>> /\ ioq' = Tail(ioq) /\ ~waiting /\ ~waiting' /\ mShuttingDown
        /\ UNCHANGED <<initialised, mIOThread, mShuttingDown, portOpen>>
    BY <1>1 DEF RunInShutdown, Takes, RunFrame, KernelFrame, runVars, mainVars
  <2>2. ~portOpen'
    BY <2>1 DEF WakeInv, PortInUse
  <2> QED
    BY <2>1, <2>2, WakeTaken
<1>2. CASE RunWaits
  <2>1. /\ ioq # <<>> /\ ioq' = Tail(ioq) /\ IsRun(1) /\ waiting' /\ ~mShuttingDown
        /\ UNCHANGED <<initialised, mIOThread, waking, mShuttingDown, portOpen, port>>
    BY <1>2 DEF RunWaits, Takes, RunFrame, KernelFrame, mainVars, IsRun
  <2>2. /\ Len(ioq') = Len(ioq) - 1
        /\ \A n \in 1..Len(ioq') : n + 1 \in 1..Len(ioq) /\ ioq'[n] = ioq[n + 1]
    BY <2>1, TailIndex DEF TypeOK, QueueTypeOK
  <2>3. ioq' \in Seq(Tasks) /\ Len(ioq) \in Nat \ {0}
    BY <2>1 DEF TypeOK, QueueTypeOK
  <2>4. \A n \in 1..Len(ioq') : ~IsRun(n)'
    <3> SUFFICES ASSUME NEW n \in 1..Len(ioq'), IsRun(n)' PROVE FALSE
      OBVIOUS
    <3>1. IsRun(n + 1) /\ n + 1 \in 1..Len(ioq)
      BY <2>2 DEF IsRun
    <3>2. n + 1 = 1
      BY <2>1, <2>3, <3>1 DEF WakeInv, RunOnce
    <3> QED
      BY <3>2
  <2>5. RunOnce' /\ RunWoken'
    BY <2>4 DEF RunOnce, RunWoken
  <2>6. NotStarted' /\ PortInUse'
    BY <2>1 DEF WakeInv, NotStarted, PortInUse
  <2>7. NoCallStuck'
    <3> SUFFICES ASSUME ioq' # <<>> PROVE Coming'
      BY DEF NoCallStuck, Coming
    <3>1. 1 \in 1..Len(ioq) /\ 1 < Len(ioq)
      <4>1. Len(ioq') # 0
        BY <2>3
      <4> QED
        BY <2>2, <2>3, <4>1
    <3>2. portOpen
      BY <2>1 DEF WakeInv, PortInUse
    <3>3. Coming
      BY <2>1, <3>1, <3>2 DEF WakeInv, RunWoken
    <3> QED
      BY <2>1, <3>3 DEF Coming, WakeUpPacket, Packet
  <2> QED
    BY <2>5, <2>6, <2>7 DEF WakeInv
<1>3. CASE \/ NoBytes \/ Overflowed \/ Aborted \/ UnknownError \/ UnknownResource
           \/ ChangeUndelivered \/ ChangeDispatched \/ ErrorUndelivered
  <2>1. /\ waiting /\ ~waiting'
        /\ ioq' = ioq \/ ioq' = Append(ioq, RunTask)
        /\ UNCHANGED <<initialised, mIOThread, mShuttingDown, portOpen>>
    BY <1>3, PassSteps DEF mainVars
  <2>2. ioq \in Seq(Tasks) /\ RunTask \in Tasks /\ Len(ioq) \in Nat
    BY DEF TypeOK, QueueTypeOK, Tasks
  <2>3. \A n \in 1..Len(ioq') : IsRun(n)' => n = Len(ioq) + 1 /\ Len(ioq') = Len(ioq) + 1
    <3>1. \A n \in 1..Len(ioq) : ~IsRun(n)
      BY <2>1 DEF WakeInv, RunOnce
    <3>2. CASE ioq' = ioq
      BY <3>1, <3>2 DEF IsRun
    <3>3. CASE ioq' = Append(ioq, RunTask)
      <4>1. Len(ioq') = Len(ioq) + 1 /\ \A n \in 1..Len(ioq) : ioq'[n] = ioq[n]
        BY <2>2, <3>3, AppendIndex
      <4>2. \A n \in 1..Len(ioq) : ~IsRun(n)'
        BY <3>1, <4>1 DEF IsRun
      <4> QED
        BY <2>2, <4>1, <4>2
    <3> QED
      BY <2>1, <3>2, <3>3
  <2>4. RunOnce'
    BY <2>1, <2>3 DEF RunOnce
  <2>5. RunWoken'
    BY <2>2, <2>3 DEF RunWoken
  <2>6. NotStarted' /\ PortInUse' /\ NoCallStuck'
    BY <2>1 DEF WakeInv, NotStarted, PortInUse, NoCallStuck
  <2> QED
    BY <2>4, <2>5, <2>6 DEF WakeInv
<1> QED
  BY <1>1, <1>2, <1>3 DEF Run

LEMMA WakeNext == TypeOK /\ WakeInv /\ [Next]_vars => WakeInv'
<1> SUFFICES ASSUME TypeOK, WakeInv, [Next]_vars PROVE WakeInv'
  OBVIOUS
<1>1. CASE MainThread
  BY <1>1, WakeMainThread
<1>2. CASE Run
  BY <1>2, WakeRun
<1>3. CASE AddPathRunnable \/ RemovePathRunnable
  <2>1. /\ ~waiting /\ ~waiting' /\ ioq # <<>> /\ ioq' = Tail(ioq)
        /\ UNCHANGED <<initialised, mIOThread, waking, mShuttingDown, portOpen>>
        /\ PortExtended
    BY <1>3, CallSteps DEF mainVars
  <2>2. Coming => Coming'
    BY <2>1, ComingStays
  <2>3. portOpen' <=> ~mShuttingDown'
    BY <2>1 DEF WakeInv, PortInUse
  <2> QED
    BY <2>1, <2>2, <2>3, WakeTaken
<1>4. CASE DeactivateRunnable
  <2>1. /\ ~waiting /\ ~waiting' /\ ioq # <<>> /\ ioq' = Tail(ioq)
        /\ UNCHANGED <<initialised, mIOThread>>
        /\ mShuttingDown' = TRUE /\ portOpen' = FALSE
    BY <1>4 DEF DeactivateRunnable, Takes, CloseEverything, ClosePort, mainVars, runVars
  <2> QED
    BY <2>1, WakeTaken
<1>5. CASE DeliverNext \/ ThreadEnds \/ UNCHANGED vars
  <2>1. /\ UNCHANGED <<ioq, waiting, initialised, mIOThread, mShuttingDown>>
        /\ UNCHANGED <<waking, portOpen, port>>
    BY <1>5
    DEF DeliverNext, DeliverCallback, DeliverSuccess, DeliverShutdown, Delivered,
        ThreadEnds, vars, portVars, mainVars, runVars
  <2>2. Coming => Coming'
    BY <2>1 DEF Coming, WakeUpPacket, Packet
  <2> QED
    BY <2>1, <2>2, WakeElsewhere DEF ServiceSteady
<1>6. CASE FileSystem
  <2>1. /\ UNCHANGED <<ioq, waiting, initialised, mIOThread, waking, mShuttingDown>>
        /\ FsNext
    BY <1>6 DEF FileSystem, mainVars, runVars
  <2>2. PortExtended /\ UNCHANGED portOpen
    BY <2>1, FsNextProperties DEF TypeOK
  <2>3. Coming => Coming'
    BY <2>1, <2>2, ComingStays
  <2> QED
    BY <2>1, <2>2, <2>3, WakeElsewhere DEF ServiceSteady
<1> QED
  BY <1>1, <1>2, <1>3, <1>4, <1>5, <1>6 DEF Next, IOThread

LEMMA WakeInit == Init => WakeInv
<1> SUFFICES ASSUME Init PROVE WakeInv
  OBVIOUS
<1>1. initialised = "no" /\ ioq = <<>> /\ ~waiting /\ ~mIOThread /\ ~mShuttingDown /\ portOpen
  BY DEF Init, PortInit
<1> QED
  BY <1>1 DEF WakeInv, NotStarted, RunOnce, RunWoken, PortInUse, NoCallStuck

\* Run never blocks without a timeout while a call is queued behind it and no
\* packet is coming: AddPath, RemovePath and Uninit queue first and wake up
\* second, and Run goes behind what is queued before it blocks again.
THEOREM CallsWakeRun == Spec => []NoCallStuck
<1>1. WakeInv => NoCallStuck
  BY DEF WakeInv
<1> QED
  BY <1>1, WakeInit, WakeNext, TypeCorrect, PTL DEF Spec

=============================================================================
