-------------------------- MODULE WinHandles_proofs --------------------------
(***************************************************************************)
(* Proofs about the handles of WinWatcher and the tables that lead to      *)
(* them, for every value of the constants.  The value of a closed handle   *)
(* may be given out again at any time, so an entry that waits for its last *)
(* packet may be replaced in the second index by the entry of another      *)
(* path; what is said of the packets of a handle is said of those values   *)
(* for which this did not happen.                                          *)
(***************************************************************************)
EXTENDS WinWatcher_proofs

-----------------------------------------------------------------------------
(***************************************************************************)
(* The kinds of steps, by what they do to the indexes, to the handles and  *)
(* to the packets.                                                         *)
(***************************************************************************)
\* Nothing, or a wake-up packet.
Quiet ==
  /\ IndexFrame
  /\ UNCHANGED <<openOn, reads>>
  /\ port' = port \/ port' = Append(port, WakeUpPacket)

\* Reads of a handle end, and q, the queue of the port, grows by their results.
Results(h, s, q) ==
  /\ reads' \in [Handles -> Nat]
  /\ \A k \in Handles \ {h} : reads'[k] = reads[k]
  /\ reads'[h] <= reads[h]
  /\ Extends(q)
  /\ Len(port') = Len(q) + (reads[h] - reads'[h])
  /\ \A n \in 1..Len(port') : n > Len(q) => port'[n] = Packet(h, s)

\* The file system completes reads.
Completed(h, s) == IndexFrame /\ UNCHANGED openOn /\ Results(h, s, port)

\* AddPath opens a handle.
Opened(p, h) ==
  mWatchedResourcesByPath[p] = NoHandle /\ OpenAndRead(p, h) /\ Enter(p, h)

\* RemovePath closes one.
Closed(p) ==
  /\ mWatchedResourcesByPath[p] \in Handles
  /\ CloseHandle(mWatchedResourcesByPath[p], port)
  /\ Dispose(p)

\* Run takes a packet off the port, and does nothing to the handles: the
\* directory of the packet is not read again.
Passed ==
  /\ port # <<>>
  /\ PacketTaken
  /\ IndexFrame
  /\ Received.key \in Handles =>
       Received.key \in silenced' \/ stopped' \/ Resource = NoPath

\* Run reads a directory again.
Reread ==
  /\ port # <<>>
  /\ Received.status = "changes"
  /\ Resource # NoPath
  /\ Read(mWatchedResourcesByPath[Resource], Rest)
  /\ IndexFrame

LEMMA EndReadsResults ==
  ASSUME TypeOK, NEW h \in Handles, NEW q \in Seq(Packets),
         NEW s \in {"changes", "empty", "enum_dir", "aborted", "failed"},
         EndReads(h, s, q)
  PROVE  Results(h, s, q) /\ reads'[h] = 0
<1>1. PortTypeOK /\ reads \in [Handles -> Nat]
  BY DEF TypeOK, PortTypeOK
<1>2. /\ reads' \in [Handles -> Nat] /\ reads' = [reads EXCEPT ![h] = 0]
      /\ Extends(q) /\ Len(port') = Len(q) + reads[h]
      /\ \A n \in 1..Len(port') : n > Len(q) => port'[n] = Packet(h, s)
  BY <1>1, EndReadsProperties
<1>3. reads'[h] = 0 /\ reads[h] \in Nat /\ \A k \in Handles \ {h} : reads'[k] = reads[k]
  BY <1>1, <1>2
<1> QED
  BY <1>2, <1>3 DEF Results

LEMMA ChangeResults ==
  ASSUME TypeOK, NEW h \in Handles, reads[h] > 0, reads' = [reads EXCEPT ![h] = @ - 1],
         port' = Append(port, Packet(h, "changes"))
  PROVE  Results(h, "changes", port)
<1> DEFINE x == Packet(h, "changes")
<1>1. reads \in [Handles -> Nat] /\ reads[h] \in Nat /\ port \in Seq(Packets)
  BY DEF TypeOK, PortTypeOK
<1>2. x \in Packets
  BY PacketTypes
<1>3. /\ reads' \in [Handles -> Nat] /\ reads'[h] = reads[h] - 1
      /\ \A k \in Handles \ {h} : reads'[k] = reads[k]
  BY <1>1
<1> HIDE DEF x
<1>4. Len(port') = Len(port) + 1 /\ port'[Len(port) + 1] = x /\ Extends(port)
  BY <1>1, <1>2, AppendProperties, ExtendsProperties DEF x
<1>5. Len(port) \in Nat
  BY <1>1
<1>6. \A n \in 1..Len(port') : n > Len(port) => port'[n] = x
  BY <1>4, <1>5
<1> QED
  BY <1>1, <1>3, <1>4, <1>5, <1>6 DEF Results, x

LEMMA Steps ==
  ASSUME TypeOK, [Next]_vars
  PROVE  \/ Quiet \/ Passed \/ Reread \/ Aborted \/ DeactivateRunnable
         \/ \E h \in Handles, s \in {"changes", "failed"} : Completed(h, s)
         \/ \E p \in Paths, h \in Handles : Opened(p, h)
         \/ \E p \in Paths : Closed(p)
<1>q. \/ UNCHANGED <<openOn, reads, port>>
      \/ KernelFrame
      \/ UNCHANGED handleVars /\ UNCHANGED port
      => (IndexFrame => Quiet)
  BY DEF Quiet, KernelFrame, handleVars
<1>1. CASE MainThread
  <2>1. CASE WakeUpWorkerThread
    BY <2>1 DEF WakeUpWorkerThread, PostPacket, Quiet, handleVars, tableVars, IndexFrame
  <2>2. CASE ~WakeUpWorkerThread
    BY <1>1, <2>2, <1>q
    DEF MainThread, ServiceInit, AddPath, RemovePath, DispatchCall, Dispatch, Uninit,
        portVars, tableVars, handleVars, IndexFrame
  <2> QED
    BY <2>1, <2>2
<1>2. CASE DeliverNext \/ ThreadEnds \/ UNCHANGED vars
  BY <1>2, <1>q
  DEF DeliverNext, DeliverCallback, DeliverSuccess, DeliverShutdown, Delivered, ThreadEnds,
      vars, portVars, tableVars, handleVars, IndexFrame
<1>3. CASE FileSystem
  <2>1. FsNext /\ IndexFrame
    BY <1>3 DEF FileSystem, tableVars, IndexFrame
  <2>p. port \in Seq(Packets)
    BY DEF TypeOK, PortTypeOK
  <2>2. ASSUME NEW h \in Handles, Change(h) \/ Burst(h)
        PROVE  Quiet \/ Completed(h, "changes")
    <3>1. UNCHANGED openOn
      BY <2>2 DEF Change, Burst
    <3>2. CASE reads' = [reads EXCEPT ![h] = @ - 1] /\ h \in reading
               /\ port' = Append(port, Packet(h, "changes"))
      BY <2>1, <3>1, <3>2, ChangeResults DEF Completed, reading
    <3>3. CASE EndReads(h, "changes", port)
      BY <2>1, <2>p, <3>1, <3>3, EndReadsResults DEF Completed
    <3>4. CASE UNCHANGED <<reads, port>>
      BY <2>1, <3>1, <3>4, <1>q
    <3> QED
      BY <2>2, <3>2, <3>3, <3>4 DEF Change, Burst
  <2>3. ASSUME NEW p \in Paths, DeleteDirectory(p)
        PROVE  Quiet \/ \E h \in Handles : Completed(h, "failed")
    <3>1. UNCHANGED openOn
      BY <2>3 DEF DeleteDirectory
    <3>2. CASE \E h \in Handles : EndReads(h, "failed", port)
      BY <2>1, <2>p, <3>1, <3>2, EndReadsResults DEF Completed
    <3>3. CASE UNCHANGED <<reads, port>>
      BY <2>1, <3>1, <3>3, <1>q
    <3> QED
      BY <2>3, <3>2, <3>3 DEF DeleteDirectory
  <2>4. ASSUME NEW p \in Paths, CreateDirectory(p) PROVE Quiet
    BY <2>1, <2>4, <1>q DEF CreateDirectory
  <2> QED
    BY <2>1, <2>2, <2>3, <2>4 DEF FsNext
<1>4. CASE AddPathRunnable
  <2>1. CASE AddKnown \/ AddRefused
    BY <2>1, <1>q DEF AddKnown, AddRefused, tableVars, IndexFrame
  <2>2. CASE AddUnreadable
    BY <2>2, <1>q DEF AddUnreadable, OpenAndReadFails
  <2>3. CASE AddWatched
    <3>1. Takes("add")
      BY <2>3 DEF AddWatched, Adds
    <3>2. Current.path \in Paths
      BY <3>1, TakesProperties
    <3>3. PICK h \in Handles : OpenAndRead(Current.path, h) /\ Enter(Current.path, h)
      BY <2>3 DEF AddWatched
    <3>4. Opened(Current.path, h)
      BY <2>3, <3>3 DEF AddWatched, Opened, Entry
    <3> QED
      BY <3>2, <3>4
  <2> QED
    BY <1>4, <2>1, <2>2, <2>3 DEF AddPathRunnable
<1>5. CASE RemovePathRunnable
  <2>1. CASE RemoveUnwatched \/ RemoveUnregistered \/ RemoveOne
    BY <2>1, <1>q DEF RemoveUnwatched, RemoveUnregistered, RemoveOne, tableVars, IndexFrame
  <2>2. CASE RemoveLast
    <3>1. Takes("remove")
      BY <2>2 DEF RemoveLast, Removes
    <3>2. Current.path \in Paths
      BY <3>1, TakesProperties
    <3>3. Dispose(Current.path)
      BY <2>2 DEF RemoveLast
    <3>4. CASE Entry \in Handles /\ CloseHandle(Entry, port)
      BY <3>2, <3>3, <3>4 DEF Closed, Entry
    <3>5. CASE Entry = InvalidHandle /\ KernelFrame
      <4>1. IndexFrame
        BY <3>2, <3>3, <3>5 DEF Dispose, Entry, IndexFrame, TypeOK, TableTypeOK
      <4> QED
        BY <3>5, <4>1, <1>q
    <3> QED
      BY <2>2, <3>4, <3>5 DEF RemoveLast
  <2> QED
    BY <1>5, <2>1, <2>2 DEF RemovePathRunnable
<1>6. CASE Run
  <2>1. CASE RunInShutdown \/ RunWaits
    BY <2>1, <1>q DEF RunInShutdown, RunWaits, tableVars, IndexFrame
  <2>2. CASE NoBytes \/ Overflowed \/ UnknownError \/ UnknownResource \/ ChangeUndelivered
    BY <2>2
    DEF NoBytes, Overflowed, UnknownError, UnknownResource, ChangeUndelivered, Changed,
        Returns, Passed, Stop, tableVars, IndexFrame
  <2>3. CASE ChangeDispatched \/ ErrorUndelivered
    <3>1. /\ port # <<>> /\ Received.status = "changes" /\ Resource # NoPath
          /\ IndexFrame
      BY <2>3
      DEF ChangeDispatched, ErrorUndelivered, Changed, Returns, tableVars, IndexFrame
    <3>2. \/ Read(mWatchedResourcesByPath[Resource], Rest)
          \/ /\ ReadFails(mWatchedResourcesByPath[Resource], Rest)
             /\ silenced' = silenced \cup {Received.key}
      BY <2>3 DEF ChangeDispatched, ErrorUndelivered, ReadAgain
    <3>3. ReadFails(mWatchedResourcesByPath[Resource], Rest) => PacketTaken
      BY DEF ReadFails, PacketTaken
    <3> QED
      BY <3>1, <3>2, <3>3 DEF Passed, Reread
  <2> QED
    BY <1>6, <2>1, <2>2, <2>3 DEF Run
<1> QED
  BY <1>1, <1>2, <1>3, <1>4, <1>5, <1>6 DEF Next, IOThread

-----------------------------------------------------------------------------
(***************************************************************************)
(* Open handles are held, reads are of open handles.                       *)
(***************************************************************************)
ReadsOpen == \A h \in Handles : reads[h] # 0 => openOn[h] # NoPath

OpenInv == NoHandleLeaked /\ ReadsOpen

\* What closing a handle leaves.
LEMMA CloseEffect ==
  ASSUME TypeOK, NEW g \in Handles, NEW rest \in Seq(Packets), CloseHandle(g, rest)
  PROVE  /\ openOn'[g] = NoPath
         /\ \A h \in Handles \ {g} : openOn'[h] = openOn[h]
         /\ Results(g, "aborted", rest) /\ reads'[g] = 0
<1>1. Results(g, "aborted", rest) /\ reads'[g] = 0
  BY EndReadsResults DEF CloseHandle
<1> QED
  BY <1>1 DEF CloseHandle, TypeOK, PortTypeOK

\* Facts about constants and types that the steps below use.
LEMMA HandleTypes ==
  ASSUME TypeOK
  PROVE  /\ mWatchedResourcesByPath \in [Paths -> Handles \cup {NoHandle, InvalidHandle}]
         /\ mWatchedResourcesByHandle \in [Handles -> Paths \cup {NoPath}]
         /\ overwritten \in [Handles -> SUBSET Paths]
         /\ openOn \in [Handles -> Paths \cup {NoPath}]
         /\ reads \in [Handles -> Nat]
         /\ port \in Seq(Packets)
         /\ NoHandle \notin Handles /\ InvalidHandle \notin Handles
         /\ InvalidHandle # NoHandle /\ NoPath \notin Paths
  BY PortAssumption, WatcherAssumption DEF TypeOK, TableTypeOK, PortTypeOK

\* The queue of the port when its oldest packet is taken.
LEMMA RestPackets ==
  ASSUME TypeOK, port # <<>>
  PROVE  /\ Rest \in Seq(Packets) /\ Received \in Packets
         /\ \A n \in 1..Len(Rest) : n + 1 \in 1..Len(port) /\ Rest[n] = port[n + 1]
         /\ 1 \in 1..Len(port) /\ port[1] = Received
<1>1. port \in Seq(Packets)
  BY DEF TypeOK, PortTypeOK
<1> QED
  BY <1>1, TailIndex DEF Rest, Received

LEMMA OpenStep ==
  ASSUME TypeOK, OpenInv, [Next]_vars
  PROVE  OpenInv'
<1>0. /\ mWatchedResourcesByPath \in [Paths -> Handles \cup {NoHandle, InvalidHandle}]
      /\ openOn \in [Handles -> Paths \cup {NoPath}]
      /\ reads \in [Handles -> Nat] /\ port \in Seq(Packets)
      /\ NoHandle \notin Handles /\ InvalidHandle \notin Handles /\ NoPath \notin Paths
  BY PortAssumption, WatcherAssumption DEF TypeOK, TableTypeOK, PortTypeOK
<1>1. CASE Quiet
  BY <1>1 DEF Quiet, IndexFrame, OpenInv, NoHandleLeaked, ReadsOpen
<1>2. CASE Passed
  BY <1>2 DEF Passed, PacketTaken, IndexFrame, handleVars, OpenInv, NoHandleLeaked, ReadsOpen
<1>3. CASE Reread
  <2>1. /\ UNCHANGED <<openOn, mWatchedResourcesByPath>>
        /\ \A h \in Handles \ {mWatchedResourcesByPath[Resource]} : reads'[h] = reads[h]
        /\ openOn[mWatchedResourcesByPath[Resource]] # NoPath
    BY <1>0, <1>3 DEF Reread, Read, Watching, IndexFrame
  <2> QED
    BY <2>1 DEF OpenInv, NoHandleLeaked, ReadsOpen
<1>4. ASSUME NEW h \in Handles, NEW s, Completed(h, s)
      PROVE  OpenInv'
  <2>1. /\ UNCHANGED <<openOn, mWatchedResourcesByPath>>
        /\ \A g \in Handles : reads'[g] # 0 => reads[g] # 0
    BY <1>0, <1>4 DEF Completed, Results, IndexFrame
  <2> QED
    BY <2>1 DEF OpenInv, NoHandleLeaked, ReadsOpen
<1>5. ASSUME NEW p \in Paths, NEW h \in Handles, Opened(p, h)
      PROVE  OpenInv'
  <2>1. /\ mWatchedResourcesByPath[p] = NoHandle
        /\ openOn' = [openOn EXCEPT ![h] = p]
        /\ reads' = [reads EXCEPT ![h] = 1]
        /\ mWatchedResourcesByPath' = [mWatchedResourcesByPath EXCEPT ![p] = h]
    BY <1>5 DEF Opened, OpenAndRead, Enter
  <2>2. \A g \in Handles : openOn[g] # p
    BY <1>0, <2>1 DEF OpenInv, NoHandleLeaked
  <2>3. NoHandleLeaked'
    BY <1>0, <2>1, <2>2 DEF OpenInv, NoHandleLeaked
  <2>4. ReadsOpen'
    BY <1>0, <2>1 DEF OpenInv, ReadsOpen
  <2> QED
    BY <2>3, <2>4 DEF OpenInv
<1>6. ASSUME NEW p \in Paths, Closed(p)
      PROVE  OpenInv'
  <2> DEFINE g == mWatchedResourcesByPath[p]
  <2>1. g \in Handles /\ CloseHandle(g, port)
    BY <1>6 DEF Closed
  <2>2. /\ openOn'[g] = NoPath
        /\ \A h \in Handles \ {g} : openOn'[h] = openOn[h]
        /\ reads'[g] = 0 /\ \A h \in Handles \ {g} : reads'[h] = reads[h]
    BY <1>0, <2>1, CloseEffect DEF Results
  <2>3. mWatchedResourcesByPath' = [mWatchedResourcesByPath EXCEPT ![p] = InvalidHandle]
    BY <1>6 DEF Closed, Dispose
  <2>4. \A h \in Handles \ {g} : openOn[h] # p
    BY <1>0 DEF OpenInv, NoHandleLeaked
  <2>5. NoHandleLeaked'
    BY <1>0, <2>2, <2>3, <2>4 DEF OpenInv, NoHandleLeaked
  <2>6. ReadsOpen'
    BY <1>0, <2>2 DEF OpenInv, ReadsOpen
  <2> QED
    BY <2>5, <2>6 DEF OpenInv
<1>7. CASE Aborted
  <2>1. CASE Resource = NoPath
    <3>1. PacketTaken /\ IndexFrame
      BY <1>7, <2>1 DEF Aborted
    <3> QED
      BY <3>1 DEF PacketTaken, IndexFrame, handleVars, OpenInv, NoHandleLeaked, ReadsOpen
  <2>2. CASE Resource # NoPath
    <3> DEFINE g == mWatchedResourcesByPath[Resource]
    <3>1. /\ FreeResource(Received.key, Resource)
          /\ \/ g \in Handles /\ CloseHandle(g, Rest)
             \/ g = InvalidHandle /\ PacketTaken
      BY <1>7, <2>2 DEF Aborted
    <3>2. mWatchedResourcesByPath' = [mWatchedResourcesByPath EXCEPT ![Resource] = NoHandle]
      BY <3>1 DEF FreeResource
    <3>3. CASE g \in Handles /\ CloseHandle(g, Rest)
      <4>1. /\ openOn'[g] = NoPath
            /\ \A h \in Handles \ {g} : openOn'[h] = openOn[h]
            /\ reads'[g] = 0 /\ \A h \in Handles \ {g} : reads'[h] = reads[h]
        <5>1. Rest \in Seq(Packets)
          BY <1>7, RestPackets DEF Aborted, Returns
        <5> QED
          BY <3>3, <5>1, CloseEffect DEF Results
      <4>2. \A h \in Handles \ {g} : openOn[h] # Resource
        BY <2>2 DEF OpenInv, NoHandleLeaked
      <4>3. NoHandleLeaked'
        BY <1>0, <3>2, <4>1, <4>2 DEF OpenInv, NoHandleLeaked
      <4>4. ReadsOpen'
        BY <1>0, <4>1 DEF OpenInv, ReadsOpen
      <4> QED
        BY <4>3, <4>4 DEF OpenInv
    <3>4. CASE g = InvalidHandle /\ PacketTaken
      <4>1. UNCHANGED <<openOn, reads>>
        BY <3>4 DEF PacketTaken, handleVars
      <4>2. \A h \in Handles : openOn[h] # Resource
        BY <1>0, <2>2, <3>4 DEF OpenInv, NoHandleLeaked
      <4> QED
        BY <1>0, <3>2, <4>1, <4>2 DEF OpenInv, NoHandleLeaked, ReadsOpen
    <3> QED
      BY <3>1, <3>3, <3>4
  <2> QED
    BY <2>1, <2>2
<1>8. CASE DeactivateRunnable
  <2>1. \A h \in Handles : openOn'[h] = NoPath
    BY <1>0, <1>8 DEF DeactivateRunnable, CloseEverything, ClosePort, OpenInv, NoHandleLeaked
  <2>2. \A h \in Handles : reads'[h] = 0
    <3>1. \A h \in Handles :
            reads[h] # 0 => h \in {mWatchedResourcesByPath[p] : p \in Paths} \cap Handles
      BY <1>0 DEF OpenInv, NoHandleLeaked, ReadsOpen
    <3> QED
      BY <1>0, <1>8, <3>1 DEF DeactivateRunnable, CloseEverything, ClosePort
  <2> QED
    BY <2>1, <2>2 DEF OpenInv, NoHandleLeaked, ReadsOpen
<1> QED
  BY <1>1, <1>2, <1>3, <1>4, <1>5, <1>6, <1>7, <1>8, Steps

LEMMA AlwaysOpenInv == Spec => []OpenInv
<1>1. Init => OpenInv
  BY DEF Init, PortInit, OpenInv, NoHandleLeaked, ReadsOpen
<1> QED
  BY <1>1, OpenStep, TypeCorrect, PTL DEF Spec

\* No handle is lost: whatever CreateFileW returned is in the entry of its path
\* until it is closed, handles that are reused included.
THEOREM HandlesHeld == Spec => []NoHandleLeaked
<1>1. OpenInv => NoHandleLeaked
  BY DEF OpenInv
<1> QED
  BY <1>1, AlwaysOpenInv, PTL

-----------------------------------------------------------------------------
(***************************************************************************)
(* Entries without change callbacks.                                       *)
(***************************************************************************)
LEMMA EmptyEntryStep ==
  ASSUME TypeOK, EmptyEntryIsDisposed, [Next]_vars
  PROVE  EmptyEntryIsDisposed'
<1>0. /\ mWatchedResourcesByPath \in [Paths -> Handles \cup {NoHandle, InvalidHandle}]
      /\ mChangeCallbacksTable \in [Paths -> SUBSET Cbs]
  BY DEF TypeOK, TableTypeOK
<1>1. CASE AddPathRunnable
  <2>1. Takes("add")
    BY <1>1 DEF AddPathRunnable, AddKnown, AddRefused, AddUnreadable, AddWatched, Adds
  <2>2. Current.path \in Paths /\ Current.cb \in Cbs
    BY <2>1, TakesProperties
  <2>3. CASE AddKnown
    BY <1>0, <2>2, <2>3 DEF AddKnown, AppendCallbacks, IndexFrame, EmptyEntryIsDisposed
  <2>4. CASE AddRefused
    BY <2>4 DEF AddRefused, tableVars, EmptyEntryIsDisposed
  <2>5. CASE AddUnreadable
    BY <1>0, <2>2, <2>5
    DEF AddUnreadable, RemoveCallbacks, IndexFrame, Entry, EmptyEntryIsDisposed
  <2>6. CASE AddWatched
    BY <1>0, <2>2, <2>6 DEF AddWatched, AppendCallbacks, Enter, EmptyEntryIsDisposed
  <2> QED
    BY <1>1, <2>3, <2>4, <2>5, <2>6 DEF AddPathRunnable
<1>2. CASE RemovePathRunnable
  <2>1. Takes("remove")
    BY <1>2
    DEF RemovePathRunnable, RemoveUnwatched, RemoveUnregistered, RemoveOne, RemoveLast, Removes
  <2>2. Current.path \in Paths /\ Current.cb \in Cbs
    BY <2>1, TakesProperties
  <2>3. CASE RemoveUnwatched \/ RemoveUnregistered
    BY <2>3 DEF RemoveUnwatched, RemoveUnregistered, tableVars, EmptyEntryIsDisposed
  <2>4. CASE RemoveOne
    BY <1>0, <2>2, <2>4
    DEF RemoveOne, RemoveCallbacks, Registered, LastCallback, IndexFrame, EmptyEntryIsDisposed
  <2>5. CASE RemoveLast
    BY <1>0, <2>2, <2>5 DEF RemoveLast, RemoveCallbacks, Dispose, EmptyEntryIsDisposed
  <2> QED
    BY <1>2, <2>3, <2>4, <2>5 DEF RemovePathRunnable
<1>3. CASE DeactivateRunnable
  BY <1>3 DEF DeactivateRunnable, EmptyEntryIsDisposed
<1>4. CASE Run
  <2>1. CASE Aborted
    <3>1. \/ IndexFrame
          \/ mWatchedResourcesByPath' = [mWatchedResourcesByPath EXCEPT ![Resource] = NoHandle]
      BY <2>1 DEF Aborted, FreeResource
    <3>2. mChangeCallbacksTable' = mChangeCallbacksTable
      BY <2>1 DEF Aborted
    <3> QED
      BY <1>0, <3>1, <3>2 DEF IndexFrame, EmptyEntryIsDisposed
  <2>2. CASE ~Aborted
    <3>1. UNCHANGED tableVars
      BY <1>4, <2>2
      DEF Run, RunInShutdown, RunWaits, NoBytes, Overflowed, UnknownError, UnknownResource,
          ChangeUndelivered, ChangeDispatched, ErrorUndelivered, Changed
    <3> QED
      BY <3>1 DEF tableVars, EmptyEntryIsDisposed
  <2> QED
    BY <2>1, <2>2
<1>5. CASE MainThread \/ DeliverNext \/ ThreadEnds \/ FileSystem \/ UNCHANGED vars
  <2>1. UNCHANGED tableVars
    BY <1>5
    DEF MainThread, ServiceInit, AddPath, RemovePath, DispatchCall, Dispatch, Uninit,
        WakeUpWorkerThread, DeliverNext, DeliverCallback, DeliverSuccess, DeliverShutdown,
        Delivered, ThreadEnds, FileSystem, vars
  <2> QED
    BY <2>1 DEF tableVars, EmptyEntryIsDisposed
<1> QED
  BY <1>1, <1>2, <1>3, <1>4, <1>5 DEF Next, IOThread

\* Removing the last change callback of a path disposes of its entry, and only
\* callbacks that are added later can give such an entry clients again.
THEOREM EmptyEntriesAreDisposed == Spec => []EmptyEntryIsDisposed
<1>1. Init => EmptyEntryIsDisposed
  BY DEF Init, EmptyEntryIsDisposed
<1> QED
  BY <1>1, EmptyEntryStep, TypeCorrect, PTL DEF Spec

-----------------------------------------------------------------------------
(***************************************************************************)
(* The indexes, and the packets of the handles whose value was not given   *)
(* out again too early.                                                    *)
(***************************************************************************)
\* The indexes; an entry's handle is open until the entry is disposed of.
EntriesHeld ==
  \A h \in Handles : mWatchedResourcesByHandle[h] # NoPath =>
     mWatchedResourcesByPath[mWatchedResourcesByHandle[h]] \in {h, InvalidHandle}

EntriesApart ==
  \A g, h \in Handles :
     mWatchedResourcesByHandle[g] # NoPath
       /\ mWatchedResourcesByHandle[g] = mWatchedResourcesByHandle[h] => g = h

\* A disposed entry waits for its last packet, or lost its place in the index.
EntriesIndexed ==
  \A p \in Paths : mWatchedResourcesByPath[p] = InvalidHandle =>
     \E h \in Handles : mWatchedResourcesByHandle[h] = p \/ p \in overwritten[h]

HandlesAgree ==
  /\ \A p \in Paths : mWatchedResourcesByPath[p] \in Handles =>
        openOn[mWatchedResourcesByPath[p]] = p
  /\ \A h \in Handles : openOn[h] # NoPath => mWatchedResourcesByHandle[h] = openOn[h]

IndexInv == EntriesHeld /\ EntriesApart /\ EntriesIndexed /\ HandlesAgree

\* A handle has a read outstanding or a packet queued, and never two.
Single(k, q, r) ==
  /\ r <= 1
  /\ \A m, n \in 1..Len(q) : q[m].key = k /\ q[n].key = k => m = n
  /\ r # 0 => \A n \in 1..Len(q) : q[n].key # k

\* Its packets lead to its entry, and aborted ones come from a closed handle.
PacketsLead(k) ==
  \A n \in 1..Len(port) : port[n].key = k =>
     /\ mWatchedResourcesByHandle[k] # NoPath
     /\ port[n].status = "aborted" => openOn[k] = NoPath

ResultInv ==
  \A k \in Handles : overwritten[k] = {} => Single(k, port, reads[k]) /\ PacketsLead(k)

HandleInv == OpenInv /\ IndexInv /\ ResultInv

-----------------------------------------------------------------------------
(***************************************************************************)
(* What a queue of packets keeps.                                          *)
(***************************************************************************)
\* It grows by packets of other handles.
LEMMA SingleOthers ==
  ASSUME NEW k, NEW q \in Seq(Packets), NEW r, Single(k, q, r), Extends(q),
         \A n \in 1..Len(port') : n > Len(q) => port'[n].key # k
  PROVE  Single(k, port', r)
<1>1. Len(q) \in Nat /\ Len(port') \in Nat
  BY DEF Extends
<1>2. \A n \in 1..Len(port') : port'[n].key = k => n \in 1..Len(q) /\ q[n].key = k
  BY <1>1 DEF Extends
<1> QED
  BY <1>2 DEF Single

\* A read becomes a packet.
LEMMA SingleOwn ==
  ASSUME NEW k, NEW q \in Seq(Packets), NEW r \in Nat, NEW t \in Nat, Single(k, q, r),
         Extends(q), t <= r, Len(port') = Len(q) + (r - t)
  PROVE  Single(k, port', t)
<1>1. Len(q) \in Nat /\ r <= 1
  BY DEF Single
<1>2. CASE t = r
  <2>1. Len(port') = Len(q) /\ \A n \in 1..Len(q) : port'[n] = q[n]
    BY <1>1, <1>2 DEF Extends
  <2> QED
    BY <1>2, <2>1 DEF Single
<1>3. CASE t # r
  <2>1. t = 0 /\ r = 1
    BY <1>1, <1>3
  <2>2. \A n \in 1..Len(q) : port'[n].key # k
    BY <2>1 DEF Single, Extends
  <2>3. \A n \in 1..Len(port') : port'[n].key = k => n = Len(q) + 1
    BY <1>1, <2>1, <2>2
  <2> QED
    BY <2>1, <2>3 DEF Single
<1> QED
  BY <1>2, <1>3

\* Its oldest packet is taken.
LEMMA SingleTaken ==
  ASSUME TypeOK, port # <<>>, NEW k, NEW r, Single(k, port, r)
  PROVE  /\ Single(k, Rest, r)
         /\ Received.key = k => r = 0 /\ \A n \in 1..Len(Rest) : Rest[n].key # k
<1>1. \A n \in 1..Len(Rest) : n + 1 \in 1..Len(port) /\ Rest[n] = port[n + 1]
  BY RestPackets
<1>2. 1 \in 1..Len(port) /\ port[1] = Received
  BY RestPackets
<1>3. ASSUME NEW m \in 1..Len(Rest), NEW n \in 1..Len(Rest), Rest[m].key = k, Rest[n].key = k
      PROVE  m = n
  <2>1. m + 1 = n + 1
    BY <1>1, <1>3 DEF Single
  <2> QED
    BY <2>1
<1>4. r # 0 => \A n \in 1..Len(Rest) : Rest[n].key # k
  BY <1>1 DEF Single
<1>5. Single(k, Rest, r)
  BY <1>3, <1>4 DEF Single
<1>6. ASSUME Received.key = k PROVE r = 0 /\ \A n \in 1..Len(Rest) : Rest[n].key # k
  <2>1. r = 0
    BY <1>2, <1>6 DEF Single
  <2>2. ASSUME NEW n \in 1..Len(Rest), Rest[n].key = k PROVE FALSE
    <3>1. n + 1 = 1
      BY <1>1, <1>2, <1>6, <2>2 DEF Single
    <3> QED
      BY <3>1
  <2> QED
    BY <2>1, <2>2
<1> QED
  BY <1>5, <1>6

\* Steps that leave the handle k and its place in the second index alone, and
\* queue nothing for it.
LEMMA OtherHandle ==
  ASSUME TypeOK, NEW k \in Handles, NEW q \in Seq(Packets),
         q = port \/ (port # <<>> /\ q = Rest),
         Single(k, port, reads[k]), PacketsLead(k), reads'[k] = reads[k], Extends(q),
         \A n \in 1..Len(port') : n > Len(q) => port'[n].key # k,
         mWatchedResourcesByHandle'[k] = mWatchedResourcesByHandle[k],
         openOn'[k] = openOn[k]
  PROVE  Single(k, port', reads'[k]) /\ PacketsLead(k)'
<1>1. Single(k, q, reads[k])
  BY SingleTaken
<1>2. Single(k, port', reads'[k])
  BY <1>1, SingleOthers
<1>3. Len(q) \in Nat /\ Len(port') \in Nat
  BY DEF Extends
<1>4. \A n \in 1..Len(port') : port'[n].key = k => n \in 1..Len(q) /\ port'[n] = q[n]
  BY <1>3 DEF Extends
<1>5. \A n \in 1..Len(q) : q[n].key = k =>
        /\ mWatchedResourcesByHandle'[k] # NoPath
        /\ q[n].status = "aborted" => openOn'[k] = NoPath
  BY RestPackets DEF PacketsLead
<1> QED
  BY <1>2, <1>4, <1>5 DEF PacketsLead

-----------------------------------------------------------------------------
(***************************************************************************)
(* The invariant, step by step.                                            *)
(***************************************************************************)
\* What the steps that leave the indexes and the open handles alone keep.
LEMMA IndexStays ==
  ASSUME IndexInv, IndexFrame, UNCHANGED openOn
  PROVE  IndexInv'
  BY DEF IndexFrame, IndexInv, EntriesHeld, EntriesApart, EntriesIndexed, HandlesAgree

LEMMA HandleQuiet == TypeOK /\ HandleInv /\ Quiet => IndexInv' /\ ResultInv'
<1> SUFFICES ASSUME TypeOK, HandleInv, Quiet PROVE IndexInv' /\ ResultInv'
  OBVIOUS
<1>1. /\ IndexFrame /\ UNCHANGED <<openOn, reads>>
      /\ port' = port \/ port' = Append(port, WakeUpPacket)
      /\ UNCHANGED <<mWatchedResourcesByHandle, overwritten>>
  BY DEF Quiet, IndexFrame
<1>2. IndexInv'
  BY <1>1, IndexStays DEF HandleInv
<1>3. WakeUpPacket \in Packets /\ port \in Seq(Packets) /\ WakeUpPacket.key = NoHandle
  BY PacketTypes, HandleTypes DEF WakeUpPacket, Packet
<1>4. Extends(port)
  BY <1>1, <1>3, ExtendsProperties
<1>5. \A n \in 1..Len(port') : n > Len(port) => port'[n].key \notin Handles
  <2>1. CASE port' = port
    BY <1>3, <2>1
  <2>2. CASE port' = Append(port, WakeUpPacket)
    <3>1. Len(port') = Len(port) + 1 /\ port'[Len(port) + 1] = WakeUpPacket
      BY <1>3, <2>2, AppendProperties
    <3>2. Len(port) \in Nat
      BY <1>3
    <3>3. \A n \in 1..Len(port') : n > Len(port) => n = Len(port) + 1
      BY <3>1, <3>2
    <3> QED
      BY <1>3, <3>1, <3>3, HandleTypes
  <2> QED
    BY <1>1, <2>1, <2>2
<1>6. ASSUME NEW k \in Handles, overwritten'[k] = {}
      PROVE  Single(k, port', reads'[k]) /\ PacketsLead(k)'
  BY <1>1, <1>3, <1>4, <1>5, <1>6, OtherHandle DEF HandleInv, ResultInv
<1> QED
  BY <1>2, <1>6 DEF ResultInv, Single

\* The results of a handle's reads, queued behind q.
LEMMA OwnResults ==
  ASSUME TypeOK, HandleInv, NEW h \in Handles,
         NEW s \in {"changes", "empty", "enum_dir", "aborted", "failed"},
         Results(h, s, port), overwritten[h] = {},
         mWatchedResourcesByHandle'[h] = mWatchedResourcesByHandle[h],
         openOn[h] # NoPath \/ reads'[h] = reads[h],
         openOn'[h] = openOn[h] \/ openOn'[h] = NoPath,
         s = "aborted" => openOn'[h] = NoPath
  PROVE  Single(h, port', reads'[h]) /\ PacketsLead(h)'
<1>1. Single(h, port, reads[h]) /\ PacketsLead(h)
  BY DEF HandleInv, ResultInv
<1>2. port \in Seq(Packets) /\ reads[h] \in Nat /\ reads'[h] \in Nat
  BY HandleTypes DEF Results
<1>3. Single(h, port', reads'[h])
  BY <1>1, <1>2, SingleOwn DEF Results
<1>4. Len(port) \in Nat /\ Len(port') \in Nat
  BY <1>2 DEF Results, Extends
<1>5. openOn[h] # NoPath => mWatchedResourcesByHandle[h] # NoPath
  BY DEF HandleInv, IndexInv, HandlesAgree
<1>6. ASSUME NEW n \in 1..Len(port'), port'[n].key = h
      PROVE  /\ mWatchedResourcesByHandle'[h] # NoPath
             /\ port'[n].status = "aborted" => openOn'[h] = NoPath
  <2>1. CASE n <= Len(port)
    <3>1. n \in 1..Len(port) /\ port'[n] = port[n]
      BY <1>4, <2>1 DEF Results, Extends
    <3> QED
      BY <1>1, <1>6, <3>1 DEF PacketsLead
  <2>2. CASE n > Len(port)
    <3>1. reads'[h] # reads[h]
      BY <1>2, <1>4, <2>2 DEF Results
    <3>2. port'[n].status = s
      BY <2>2 DEF Results, Packet
    <3> QED
      BY <1>5, <3>1, <3>2
  <2> QED
    BY <1>4, <2>1, <2>2
<1> QED
  BY <1>3, <1>6 DEF PacketsLead

LEMMA HandleCompleted ==
  ASSUME TypeOK, HandleInv, NEW h \in Handles, NEW s \in {"changes", "failed"},
         Completed(h, s)
  PROVE  IndexInv' /\ ResultInv'
<1>1. /\ IndexFrame /\ UNCHANGED openOn /\ Results(h, s, port)
      /\ UNCHANGED <<mWatchedResourcesByHandle, overwritten>>
  BY DEF Completed, IndexFrame
<1>2. IndexInv'
  BY <1>1, IndexStays DEF HandleInv
<1>3. ASSUME NEW k \in Handles, overwritten'[k] = {}
      PROVE  Single(k, port', reads'[k]) /\ PacketsLead(k)'
  <2>1. CASE k = h
    <3>1. openOn[h] # NoPath \/ reads'[h] = reads[h]
      BY <1>1, HandleTypes DEF HandleInv, OpenInv, ReadsOpen, Results
    <3> QED
      BY <1>1, <1>3, <2>1, <3>1, OwnResults
  <2>2. CASE k # h
    <3>1. \A n \in 1..Len(port') : n > Len(port) => port'[n].key # k
      BY <1>1, <2>2 DEF Results, Packet
    <3> QED
      BY <1>1, <1>3, <2>2, <3>1, HandleTypes, OtherHandle DEF HandleInv, ResultInv, Results
  <2> QED
    BY <2>1, <2>2
<1> QED
  BY <1>2, <1>3 DEF ResultInv, Single

LEMMA HandlePassed == TypeOK /\ HandleInv /\ port # <<>> /\ PacketTaken /\ IndexFrame
                        => IndexInv' /\ ResultInv'
<1> SUFFICES ASSUME TypeOK, HandleInv, port # <<>>, PacketTaken, IndexFrame
             PROVE  IndexInv' /\ ResultInv'
  OBVIOUS
<1>1. /\ UNCHANGED <<mWatchedResourcesByHandle, overwritten, openOn, reads>>
      /\ port' = Rest
  BY DEF PacketTaken, IndexFrame, handleVars
<1>2. IndexInv'
  BY <1>1, IndexStays DEF HandleInv
<1>3. Rest \in Seq(Packets) /\ Extends(Rest) /\ \A n \in 1..Len(port') : ~(n > Len(Rest))
  BY <1>1, RestPackets DEF Extends
<1>4. ASSUME NEW k \in Handles, overwritten'[k] = {}
      PROVE  Single(k, port', reads'[k]) /\ PacketsLead(k)'
  BY <1>1, <1>3, <1>4, OtherHandle DEF HandleInv, ResultInv
<1> QED
  BY <1>2, <1>4 DEF ResultInv, Single

\* The entry that a packet of changes leads to holds the packet's handle.
LEMMA HandleReread == TypeOK /\ HandleInv /\ Reread => IndexInv' /\ ResultInv'
<1> SUFFICES ASSUME TypeOK, HandleInv, Reread PROVE IndexInv' /\ ResultInv'
  OBVIOUS
<1> DEFINE h == mWatchedResourcesByPath[Resource]
<1>1. /\ IndexFrame /\ UNCHANGED <<mWatchedResourcesByHandle, overwritten, openOn>>
      /\ port # <<>> /\ Received.status = "changes" /\ Resource # NoPath
      /\ h \in Handles /\ openOn[h] # NoPath /\ Read(h, Rest)
  BY DEF Reread, Read, Watching, IndexFrame
<1>2. Received.key \in Handles
  <2>1. Received \in Packets /\ Received.status # "empty"
    BY <1>1, RestPackets
  <2> QED
    BY <2>1, ResultFromHandle
<1>3. h = Received.key
  BY <1>1, <1>2, HandleTypes DEF HandleInv, IndexInv, EntriesHeld, Resource
<1>4. mWatchedResourcesByHandle[h] # NoPath
  BY <1>1 DEF HandleInv, IndexInv, HandlesAgree
<1>5. IndexInv'
  BY <1>1, IndexStays DEF HandleInv
<1>6. /\ \A k \in Handles \ {h} : reads'[k] = reads[k]
      /\ \/ reads'[h] = reads[h] + 1 /\ port' = Rest
         \/ /\ reads'[h] = reads[h]
            /\ \E s \in {"changes", "empty", "enum_dir"} : port' = Append(Rest, Packet(h, s))
  BY <1>1, HandleTypes DEF Read
<1> HIDE DEF h
<1>7. Rest \in Seq(Packets) /\ Len(Rest) \in Nat
  BY <1>1, RestPackets
<1> DEFINE Queued ==
             /\ Extends(Rest)
             /\ \A n \in 1..Len(port') : n > Len(Rest) => /\ n = Len(Rest) + 1
                                                          /\ port'[n].key = h
                                                          /\ port'[n].status # "aborted"
             /\ port' # Rest => reads'[h] = reads[h]
<1>8. Queued
  <2>1. CASE port' = Rest
    BY <1>7, <2>1 DEF Extends
  <2>2. ASSUME NEW s \in {"changes", "empty", "enum_dir"}, port' = Append(Rest, Packet(h, s)),
               reads'[h] = reads[h]
        PROVE  Queued
    <3> DEFINE x == Packet(h, s)
    <3>1. x \in Packets /\ x.key = h /\ x.status = s
      BY <1>1, PacketTypes DEF Packet
    <3> HIDE DEF x
    <3>2. port' = Append(Rest, x)
      BY <2>2 DEF x
    <3>3. Extends(Rest) /\ Len(port') = Len(Rest) + 1 /\ port'[Len(Rest) + 1] = x
      BY <1>7, <3>1, <3>2, AppendProperties, ExtendsProperties
    <3>4. \A n \in 1..Len(port') : n > Len(Rest) => n = Len(Rest) + 1
      BY <1>7, <3>3
    <3> QED
      BY <2>2, <3>1, <3>3, <3>4
  <2> QED
    BY <1>6, <2>1, <2>2
<1>9. ASSUME NEW k \in Handles, overwritten'[k] = {}
      PROVE  Single(k, port', reads'[k]) /\ PacketsLead(k)'
  <2>1. Single(k, port, reads[k]) /\ PacketsLead(k)
    BY <1>1, <1>9 DEF HandleInv, ResultInv
  <2>2. CASE k # h
    BY <1>1, <1>6, <1>7, <1>8, <1>9, <2>1, <2>2, OtherHandle
  <2>3. CASE k = h
    <3>1. reads[h] = 0 /\ \A n \in 1..Len(Rest) : Rest[n].key # h
      BY <1>1, <1>3, <2>1, <2>3, SingleTaken
    <3>2. \A n \in 1..Len(port') : port'[n].key = h => n = Len(Rest) + 1
      BY <1>7, <1>8, <3>1 DEF Extends
    <3>3. Single(h, port', reads'[h])
      <4>1. CASE port' = Rest
        BY <1>6, <3>1, <4>1 DEF Single
      <4>2. CASE port' # Rest
        BY <1>8, <3>1, <3>2, <4>2 DEF Single
      <4> QED
        BY <4>1, <4>2
    <3>4. \A n \in 1..Len(port') : port'[n].key = h => port'[n].status # "aborted"
      BY <1>7, <1>8, <3>2
    <3> QED
      BY <1>1, <1>4, <2>3, <3>3, <3>4 DEF PacketsLead
  <2> QED
    BY <2>2, <2>3
<1> QED
  BY <1>5, <1>9 DEF ResultInv, Single

\* The handle is new, or its value was closed before.  If an entry is left under
\* it in the second index, the new entry replaces it; if not, then no packet of
\* the former use is queued that could be mistaken for one of the present.
LEMMA HandleOpened ==
  ASSUME TypeOK, HandleInv, NEW p \in Paths, NEW h \in Handles, Opened(p, h)
  PROVE  IndexInv' /\ ResultInv'
<1>1. /\ mWatchedResourcesByPath[p] = NoHandle
      /\ openOn[h] = NoPath
      /\ openOn' = [openOn EXCEPT ![h] = p]
      /\ reads' = [reads EXCEPT ![h] = 1]
      /\ port' = port
      /\ mWatchedResourcesByPath' = [mWatchedResourcesByPath EXCEPT ![p] = h]
      /\ mWatchedResourcesByHandle' = [mWatchedResourcesByHandle EXCEPT ![h] = p]
      /\ overwritten' =
           [overwritten EXCEPT ![h] = @ \cup ({mWatchedResourcesByHandle[h]} \ {NoPath})]
  BY DEF Opened, OpenAndRead, Free, Enter
<1>2. \A q \in Paths : mWatchedResourcesByPath[q] # h
  BY <1>1, HandleTypes DEF HandleInv, IndexInv, HandlesAgree
<1>3. \A g \in Handles : mWatchedResourcesByHandle[g] # p
  BY <1>1, HandleTypes DEF HandleInv, IndexInv, EntriesHeld
<1>4. EntriesHeld' /\ EntriesApart'
  BY <1>1, <1>3, HandleTypes DEF HandleInv, IndexInv, EntriesHeld, EntriesApart
<1>5. EntriesIndexed'
  <2> SUFFICES ASSUME NEW q \in Paths, mWatchedResourcesByPath'[q] = InvalidHandle
               PROVE  \E g \in Handles :
                        mWatchedResourcesByHandle'[g] = q \/ q \in overwritten'[g]
    BY DEF EntriesIndexed
  <2>1. q # p /\ mWatchedResourcesByPath[q] = InvalidHandle
    BY <1>1, HandleTypes
  <2>2. PICK g \in Handles : mWatchedResourcesByHandle[g] = q \/ q \in overwritten[g]
    BY <2>1 DEF HandleInv, IndexInv, EntriesIndexed
  <2>3. overwritten[g] \subseteq overwritten'[g]
    BY <1>1, HandleTypes
  <2>4. CASE g # h
    BY <1>1, <2>2, <2>3, <2>4, HandleTypes
  <2>5. CASE g = h
    <3>1. mWatchedResourcesByHandle[h] \in overwritten'[h] \/ mWatchedResourcesByHandle[h] = NoPath
      BY <1>1, HandleTypes
    <3> QED
      BY <2>2, <2>3, <2>5, <3>1, HandleTypes
  <2> QED
    BY <2>4, <2>5
<1>6. HandlesAgree'
  <2>1. ASSUME NEW q \in Paths, mWatchedResourcesByPath'[q] \in Handles
        PROVE  openOn'[mWatchedResourcesByPath'[q]] = q
    <3>1. CASE q = p
      BY <1>1, <3>1, HandleTypes
    <3>2. CASE q # p
      <4>1. mWatchedResourcesByPath'[q] = mWatchedResourcesByPath[q]
        BY <1>1, <3>2, HandleTypes
      <4>2. openOn[mWatchedResourcesByPath[q]] = q
        BY <2>1, <4>1 DEF HandleInv, IndexInv, HandlesAgree
      <4> QED
        BY <1>1, <1>2, <2>1, <4>1, <4>2, HandleTypes
    <3> QED
      BY <3>1, <3>2
  <2>2. ASSUME NEW g \in Handles, openOn'[g] # NoPath
        PROVE  mWatchedResourcesByHandle'[g] = openOn'[g]
    BY <1>1, <2>2, HandleTypes DEF HandleInv, IndexInv, HandlesAgree
  <2> QED
    BY <2>1, <2>2 DEF HandlesAgree
<1>7. ASSUME NEW k \in Handles, overwritten'[k] = {}
      PROVE  Single(k, port', reads'[k]) /\ PacketsLead(k)'
  <2>1. overwritten[k] = {}
    BY <1>1, <1>7, HandleTypes
  <2>2. Single(k, port, reads[k]) /\ PacketsLead(k)
    BY <2>1 DEF HandleInv, ResultInv
  <2>3. CASE k # h
    <3>1. /\ reads'[k] = reads[k] /\ openOn'[k] = openOn[k]
          /\ mWatchedResourcesByHandle'[k] = mWatchedResourcesByHandle[k]
      BY <1>1, <2>3, HandleTypes
    <3> QED
      BY <1>1, <2>2, <3>1 DEF PacketsLead
  <2>4. CASE k = h
    <3>1. mWatchedResourcesByHandle[h] = NoPath
      BY <1>1, <1>7, <2>4, HandleTypes
    <3>2. \A n \in 1..Len(port) : port[n].key # h
      BY <2>2, <2>4, <3>1 DEF PacketsLead
    <3>3. reads'[h] = 1
      BY <1>1, HandleTypes
    <3> QED
      BY <1>1, <2>4, <3>2, <3>3 DEF Single, PacketsLead
  <2> QED
    BY <2>3, <2>4
<1> QED
  BY <1>4, <1>5, <1>6, <1>7 DEF IndexInv, ResultInv, Single

\* Both indexes keep an entry whose handle is closed, for its last packet.
LEMMA HandleClosed ==
  ASSUME TypeOK, HandleInv, NEW p \in Paths, Closed(p)
  PROVE  IndexInv' /\ ResultInv'
<1> DEFINE g == mWatchedResourcesByPath[p]
<1>1. g \in Handles /\ CloseHandle(g, port)
  BY DEF Closed
<1>2. /\ openOn'[g] = NoPath
      /\ \A h \in Handles \ {g} : openOn'[h] = openOn[h]
      /\ Results(g, "aborted", port)
  BY <1>1, HandleTypes, CloseEffect
<1>3. /\ mWatchedResourcesByPath' = [mWatchedResourcesByPath EXCEPT ![p] = InvalidHandle]
      /\ UNCHANGED <<mWatchedResourcesByHandle, overwritten>>
  BY DEF Closed, Dispose
<1>4. openOn[g] = p /\ mWatchedResourcesByHandle[g] = p
  BY <1>1, HandleTypes DEF HandleInv, IndexInv, HandlesAgree
<1> HIDE DEF g
<1>5. EntriesHeld'
  BY <1>3, HandleTypes DEF HandleInv, IndexInv, EntriesHeld
<1>6. EntriesApart'
  BY <1>3 DEF HandleInv, IndexInv, EntriesApart
<1>7. EntriesIndexed'
  BY <1>1, <1>3, <1>4, HandleTypes DEF HandleInv, IndexInv, EntriesIndexed
<1>8. HandlesAgree'
  <2>1. ASSUME NEW q \in Paths, mWatchedResourcesByPath'[q] \in Handles
        PROVE  openOn'[mWatchedResourcesByPath'[q]] = q
    <3>1. q # p /\ mWatchedResourcesByPath'[q] = mWatchedResourcesByPath[q]
      BY <1>3, <2>1, HandleTypes
    <3>2. openOn[mWatchedResourcesByPath[q]] = q
      BY <2>1, <3>1 DEF HandleInv, IndexInv, HandlesAgree
    <3>3. mWatchedResourcesByPath[q] # g
      BY <1>4, <3>1, <3>2
    <3> QED
      BY <1>2, <2>1, <3>1, <3>2, <3>3
  <2>2. ASSUME NEW h \in Handles, openOn'[h] # NoPath
        PROVE  mWatchedResourcesByHandle'[h] = openOn'[h]
    BY <1>2, <1>3, <2>2 DEF HandleInv, IndexInv, HandlesAgree
  <2> QED
    BY <2>1, <2>2 DEF HandlesAgree
<1>9. ASSUME NEW k \in Handles, overwritten'[k] = {}
      PROVE  Single(k, port', reads'[k]) /\ PacketsLead(k)'
  <2>1. CASE k = g
    <3>1. openOn[g] # NoPath
      BY <1>4, HandleTypes
    <3> QED
      BY <1>2, <1>3, <1>9, <2>1, <3>1, OwnResults
  <2>2. CASE k # g
    <3>1. \A n \in 1..Len(port') : n > Len(port) => port'[n].key # k
      BY <1>2, <2>2 DEF Results, Packet
    <3>2. reads'[k] = reads[k] /\ Extends(port) /\ openOn'[k] = openOn[k]
      BY <1>2, <2>2 DEF Results
    <3> QED
      BY <1>3, <1>9, <3>1, <3>2, HandleTypes, OtherHandle DEF HandleInv, ResultInv
  <2> QED
    BY <2>1, <2>2
<1> QED
  BY <1>5, <1>6, <1>7, <1>8, <1>9 DEF IndexInv, ResultInv, Single

\* The aborted packet of a closed handle frees the entry that was disposed of.
\* After the value of the handle was given out again it frees the entry of the
\* path that has it now, and closes that path's handle.
LEMMA AbortedEffect ==
  ASSUME TypeOK, HandleInv, Aborted, Resource # NoPath
  PROVE  /\ port # <<>> /\ Received.key \in Handles
         /\ Resource \in Paths /\ Resource = mWatchedResourcesByHandle[Received.key]
         /\ mWatchedResourcesByHandle' =
              [mWatchedResourcesByHandle EXCEPT ![Received.key] = NoPath]
         /\ mWatchedResourcesByPath' = [mWatchedResourcesByPath EXCEPT ![Resource] = NoHandle]
         /\ UNCHANGED overwritten
         /\ openOn'[Received.key] = NoPath
         /\ \A h \in Handles \ {Received.key} : openOn'[h] = openOn[h] /\ reads'[h] = reads[h]
         /\ Extends(Rest)
         /\ \A n \in 1..Len(port') : n > Len(Rest) => port'[n].key = Received.key
         /\ overwritten[Received.key] = {} => port' = Rest /\ UNCHANGED reads
<1> DEFINE k == Received.key
           r == Resource
<1>1. port # <<>> /\ Received.status = "aborted"
  BY DEF Aborted, Returns
<1>2. k \in Handles
  <2>1. Received \in Packets /\ Received.status # "empty"
    BY <1>1, RestPackets
  <2> QED
    BY <2>1, ResultFromHandle
<1>3. r = mWatchedResourcesByHandle[k] /\ r # NoPath
  BY DEF Resource
<1>4. r \in Paths /\ mWatchedResourcesByPath[r] \in {k, InvalidHandle}
  BY <1>2, <1>3, HandleTypes DEF HandleInv, IndexInv, EntriesHeld
<1>5. /\ mWatchedResourcesByHandle' = [mWatchedResourcesByHandle EXCEPT ![k] = NoPath]
      /\ mWatchedResourcesByPath' = [mWatchedResourcesByPath EXCEPT ![r] = NoHandle]
      /\ UNCHANGED overwritten
  BY <1>3 DEF Aborted, FreeResource
<1>6. Rest \in Seq(Packets) /\ port[1] = Received /\ 1 \in 1..Len(port)
  BY <1>1, RestPackets
<1>7. CASE mWatchedResourcesByPath[r] = InvalidHandle
  <2>1. port' = Rest /\ UNCHANGED <<openOn, reads>>
    BY <1>3, <1>7, HandleTypes DEF Aborted, PacketTaken, handleVars
  <2>2. openOn[k] = NoPath
    BY <1>2, <1>3, <1>7, HandleTypes
    DEF HandleInv, IndexInv, HandlesAgree, OpenInv, NoHandleLeaked
  <2>3. Extends(Rest) /\ \A n \in 1..Len(port') : ~(n > Len(Rest))
    BY <1>6, <2>1 DEF Extends
  <2> QED
    BY <1>1, <1>2, <1>3, <1>4, <1>5, <2>1, <2>2, <2>3
<1>8. CASE mWatchedResourcesByPath[r] = k
  <2>1. CloseHandle(k, Rest)
    BY <1>2, <1>3, <1>8, HandleTypes DEF Aborted
  <2>2. /\ openOn'[k] = NoPath
        /\ \A h \in Handles \ {k} : openOn'[h] = openOn[h]
        /\ Results(k, "aborted", Rest)
    BY <1>2, <1>6, <2>1, CloseEffect
  <2>3. openOn[k] # NoPath
    BY <1>2, <1>4, <1>8, HandleTypes DEF HandleInv, IndexInv, HandlesAgree
  <2>4. overwritten[k] # {}
    BY <1>1, <1>2, <1>6, <2>3 DEF HandleInv, ResultInv, PacketsLead
  <2>5. \A n \in 1..Len(port') : n > Len(Rest) => port'[n].key = k
    BY <2>2 DEF Results, Packet
  <2> QED
    BY <1>1, <1>2, <1>3, <1>4, <1>5, <2>2, <2>4, <2>5 DEF Results
<1> QED
  BY <1>4, <1>7, <1>8

\* There is no other packet for an entry that was disposed of.
LEMMA HandleAborted == TypeOK /\ HandleInv /\ Aborted => IndexInv' /\ ResultInv'
<1> SUFFICES ASSUME TypeOK, HandleInv, Aborted PROVE IndexInv' /\ ResultInv'
  OBVIOUS
<1>1. CASE Resource = NoPath
  <2>1. port # <<>> /\ PacketTaken /\ IndexFrame
    BY <1>1 DEF Aborted, Returns
  <2> QED
    BY <2>1, HandlePassed
<1>2. CASE Resource # NoPath
  <2> DEFINE k == Received.key
             r == Resource
  <2>1. /\ port # <<>> /\ k \in Handles /\ openOn'[k] = NoPath
        /\ r \in Paths /\ r = mWatchedResourcesByHandle[k]
    BY <1>2, AbortedEffect
  <2>2. /\ mWatchedResourcesByHandle' = [mWatchedResourcesByHandle EXCEPT ![k] = NoPath]
        /\ mWatchedResourcesByPath' = [mWatchedResourcesByPath EXCEPT ![r] = NoHandle]
        /\ UNCHANGED overwritten
    BY <1>2, AbortedEffect
  <2>3. /\ \A h \in Handles \ {k} : openOn'[h] = openOn[h] /\ reads'[h] = reads[h]
        /\ Extends(Rest)
        /\ \A n \in 1..Len(port') : n > Len(Rest) => port'[n].key = k
        /\ overwritten[k] = {} => port' = Rest /\ UNCHANGED reads
    BY <1>2, AbortedEffect
  <2>4. Rest \in Seq(Packets)
    BY <2>1, RestPackets
  <2> HIDE DEF k, r
  <2>5. \A h \in Handles : h # k => mWatchedResourcesByHandle[h] # r
    BY <2>1, HandleTypes DEF HandleInv, IndexInv, EntriesApart
  <2>6. EntriesHeld' /\ EntriesApart'
    BY <2>1, <2>2, <2>5, HandleTypes DEF HandleInv, IndexInv, EntriesHeld, EntriesApart
  <2>7. EntriesIndexed'
    <3> SUFFICES ASSUME NEW q \in Paths, mWatchedResourcesByPath'[q] = InvalidHandle
                 PROVE  \E g \in Handles :
                          mWatchedResourcesByHandle'[g] = q \/ q \in overwritten'[g]
      BY DEF EntriesIndexed
    <3>1. q # r /\ mWatchedResourcesByPath[q] = InvalidHandle
      BY <2>1, <2>2, HandleTypes
    <3>2. PICK g \in Handles : mWatchedResourcesByHandle[g] = q \/ q \in overwritten[g]
      BY <3>1 DEF HandleInv, IndexInv, EntriesIndexed
    <3> QED
      BY <2>1, <2>2, <3>1, <3>2, HandleTypes
  <2>8. HandlesAgree'
    <3>1. ASSUME NEW q \in Paths, mWatchedResourcesByPath'[q] \in Handles
          PROVE  openOn'[mWatchedResourcesByPath'[q]] = q
      <4>1. q # r /\ mWatchedResourcesByPath'[q] = mWatchedResourcesByPath[q]
        BY <2>1, <2>2, <3>1, HandleTypes
      <4>2. openOn[mWatchedResourcesByPath[q]] = q
        BY <3>1, <4>1 DEF HandleInv, IndexInv, HandlesAgree
      <4>3. mWatchedResourcesByHandle[mWatchedResourcesByPath[q]] = q
        BY <3>1, <4>1, <4>2, HandleTypes DEF HandleInv, IndexInv, HandlesAgree
      <4>4. mWatchedResourcesByPath[q] # k
        BY <2>1, <4>1, <4>3
      <4> QED
        BY <2>3, <3>1, <4>1, <4>2, <4>4
    <3>2. ASSUME NEW h \in Handles, openOn'[h] # NoPath
          PROVE  mWatchedResourcesByHandle'[h] = openOn'[h]
      <4>1. h # k /\ openOn[h] = openOn'[h]
        BY <2>1, <2>3, <3>2
      <4> QED
        BY <2>2, <3>2, <4>1, HandleTypes DEF HandleInv, IndexInv, HandlesAgree
    <3> QED
      BY <3>1, <3>2 DEF HandlesAgree
  <2>9. ASSUME NEW g \in Handles, overwritten'[g] = {}
        PROVE  Single(g, port', reads'[g]) /\ PacketsLead(g)'
    <3>1. Single(g, port, reads[g]) /\ PacketsLead(g)
      BY <2>2, <2>9 DEF HandleInv, ResultInv
    <3>2. CASE g # k
      <4>1. \A n \in 1..Len(port') : n > Len(Rest) => port'[n].key # g
        BY <2>3, <3>2
      <4>2. mWatchedResourcesByHandle'[g] = mWatchedResourcesByHandle[g]
        BY <2>2, <3>2, HandleTypes
      <4> QED
        BY <2>1, <2>3, <2>4, <3>1, <3>2, <4>1, <4>2, OtherHandle
    <3>3. CASE g = k
      <4>1. port' = Rest /\ reads' = reads
        BY <2>2, <2>3, <2>9, <3>3
      <4>2. /\ Single(g, Rest, reads[g])
            /\ \A n \in 1..Len(Rest) : Rest[n].key # g
        BY <2>1, <3>1, <3>3, SingleTaken DEF k
      <4> QED
        BY <4>1, <4>2 DEF PacketsLead
    <3> QED
      BY <3>2, <3>3
  <2> QED
    BY <2>6, <2>7, <2>8, <2>9 DEF IndexInv, ResultInv, Single
<1> QED
  BY <1>1, <1>2

LEMMA HandleDeactivate ==
  ASSUME TypeOK, HandleInv, DeactivateRunnable
  PROVE  IndexInv' /\ ResultInv'
<1>1. /\ mWatchedResourcesByHandle' = [h \in Handles |-> NoPath]
      /\ mWatchedResourcesByPath' = [p \in Paths |-> NoHandle]
      /\ port' = <<>>
  BY DEF DeactivateRunnable, CloseEverything, ClosePort
<1>2. \A h \in Handles : openOn'[h] = NoPath
  BY HandleTypes
  DEF DeactivateRunnable, CloseEverything, ClosePort, HandleInv, OpenInv, NoHandleLeaked
<1>3. IndexInv'
  BY <1>1, <1>2, HandleTypes
  DEF IndexInv, EntriesHeld, EntriesApart, EntriesIndexed, HandlesAgree
<1>4. \A h \in Handles : reads'[h] = 0
  <2>1. OpenInv' /\ TypeOK'
    BY OpenStep, NextTypes DEF HandleInv, Next, IOThread
  <2> QED
    BY <1>2, <2>1 DEF OpenInv, ReadsOpen
<1>5. ResultInv'
  BY <1>1, <1>4 DEF ResultInv, Single, PacketsLead
<1> QED
  BY <1>3, <1>5

LEMMA HandleStep ==
  ASSUME TypeOK, HandleInv, [Next]_vars
  PROVE  HandleInv'
<1>1. OpenInv'
  BY OpenStep DEF HandleInv
<1>2. Passed => IndexInv' /\ ResultInv'
  BY HandlePassed DEF Passed
<1>3. IndexInv' /\ ResultInv'
  BY <1>2, Steps, HandleQuiet, HandleCompleted, HandleReread, HandleOpened,
     HandleClosed, HandleAborted, HandleDeactivate
<1> QED
  BY <1>1, <1>3 DEF HandleInv

LEMMA AlwaysHandleInv == Spec => []HandleInv
<1>1. Init => HandleInv
  <2>1. Init => OpenInv
    BY DEF Init, PortInit, OpenInv, NoHandleLeaked, ReadsOpen
  <2>2. Init => IndexInv
    BY PortAssumption, WatcherAssumption
    DEF Init, PortInit, IndexInv, EntriesHeld, EntriesApart, EntriesIndexed, HandlesAgree
  <2>3. Init => ResultInv
    BY DEF Init, PortInit, ResultInv, Single, PacketsLead
  <2> QED
    BY <2>1, <2>2, <2>3 DEF HandleInv
<1>2. TypeOK /\ HandleInv /\ [Next]_vars => HandleInv'
  BY HandleStep
<1> QED
  BY <1>1, <1>2, TypeCorrect, PTL DEF Spec

\* The two indexes hold the same entries under the same handles, whatever values
\* the system gives to new handles; a disposed entry that is not in the second
\* index any more was replaced there by the entry of another path.
THEOREM TablesAgree == Spec => []IndexesAgree
<1>1. TypeOK /\ HandleInv => IndexesAgree
  <2> SUFFICES ASSUME TypeOK, HandleInv PROVE IndexesAgree
    OBVIOUS
  <2>1. ASSUME NEW h \in Handles, mWatchedResourcesByHandle[h] # NoPath
        PROVE  /\ mWatchedResourcesByPath[mWatchedResourcesByHandle[h]] \in {h, InvalidHandle}
               /\ \A g \in Handles :
                    mWatchedResourcesByHandle[g] = mWatchedResourcesByHandle[h] => g = h
    BY <2>1 DEF HandleInv, IndexInv, EntriesHeld, EntriesApart
  <2>2. ASSUME NEW p \in Paths, mWatchedResourcesByPath[p] # NoHandle
        PROVE  \/ /\ mWatchedResourcesByPath[p] \in Handles
                  /\ mWatchedResourcesByHandle[mWatchedResourcesByPath[p]] = p
               \/ /\ mWatchedResourcesByPath[p] = InvalidHandle
                  /\ \E h \in Handles : mWatchedResourcesByHandle[h] = p \/ p \in overwritten[h]
    <3>1. CASE mWatchedResourcesByPath[p] \in Handles
      BY <3>1, HandleTypes DEF HandleInv, IndexInv, HandlesAgree
    <3>2. CASE mWatchedResourcesByPath[p] = InvalidHandle
      BY <3>2 DEF HandleInv, IndexInv, EntriesIndexed
    <3> QED
      BY <2>2, <3>1, <3>2, HandleTypes
  <2> QED
    BY <2>1, <2>2 DEF IndexesAgree
<1> QED
  BY <1>1, AlwaysHandleInv, TypeCorrect, PTL

\* While the kernel may write to the buffer of an entry the entry is not freed,
\* and while a packet about it is queued neither, unless the value of its handle
\* was given out again: RemovePathRunnableMethod leaves that to the aborted packet.
THEOREM BuffersSafe == Spec => []BuffersOutliveReads
<1>1. TypeOK /\ HandleInv => BuffersOutliveReads
  <2> SUFFICES ASSUME TypeOK, HandleInv PROVE BuffersOutliveReads
    OBVIOUS
  <2>1. \A h \in reading : mWatchedResourcesByHandle[h] # NoPath
    BY HandleTypes DEF HandleInv, OpenInv, ReadsOpen, IndexInv, HandlesAgree, reading
  <2>2. ASSUME NEW n \in 1..Len(port), port[n] # WakeUpPacket
        PROVE  mWatchedResourcesByHandle[port[n].key] # NoPath \/ overwritten[port[n].key] # {}
    <3>1. port[n] \in Packets
      BY HandleTypes
    <3>2. port[n].key \in Handles
      BY <2>2, <3>1 DEF Packets, WakeUpPacket, Packet
    <3> QED
      BY <3>2 DEF HandleInv, ResultInv, PacketsLead
  <2> QED
    BY <2>1, <2>2 DEF BuffersOutliveReads
<1> QED
  BY <1>1, AlwaysHandleInv, TypeCorrect, PTL

-----------------------------------------------------------------------------
(***************************************************************************)
(* Open watches are read.                                                  *)
(***************************************************************************)
\* A watch stays silenced until its handle is opened, and Run stays stopped.
LEMMA SilencedFrame ==
  ASSUME TypeOK, [Next]_vars
  PROVE  /\ stopped => stopped'
         /\ \A h \in silenced : h \in silenced' \/ h \in reading'
<1>1. CASE MainThread \/ DeliverNext \/ ThreadEnds \/ FileSystem \/ UNCHANGED vars
  <2>1. UNCHANGED <<stopped, silenced>>
    BY <1>1
    DEF MainThread, ServiceInit, AddPath, RemovePath, DispatchCall, Dispatch, Uninit,
        WakeUpWorkerThread, DeliverNext, DeliverCallback, DeliverSuccess, DeliverShutdown,
        Delivered, ThreadEnds, FileSystem, runVars, vars
  <2> QED
    BY <2>1
<1>2. CASE AddPathRunnable
  <2>1. UNCHANGED stopped
    BY <1>2
    DEF AddPathRunnable, AddKnown, AddRefused, AddUnreadable, AddWatched, Ends, CallFrame
  <2>2. CASE AddWatched
    <3>1. PICK h \in Handles : reads' = [reads EXCEPT ![h] = 1] /\ silenced' = silenced \ {h}
      BY <2>2 DEF AddWatched, OpenAndRead
    <3>2. h \in reading'
      BY <3>1, HandleTypes DEF reading
    <3> QED
      BY <2>1, <3>1, <3>2
  <2>3. CASE ~AddWatched
    <3>1. UNCHANGED silenced
      BY <1>2, <2>3 DEF AddPathRunnable, AddKnown, AddRefused, AddUnreadable
    <3> QED
      BY <2>1, <3>1
  <2> QED
    BY <2>2, <2>3
<1>3. CASE RemovePathRunnable \/ DeactivateRunnable
  <2>1. UNCHANGED <<stopped, silenced>>
    BY <1>3
    DEF RemovePathRunnable, RemoveUnwatched, RemoveUnregistered, RemoveOne, RemoveLast, Removes,
        Ends, CallFrame, DeactivateRunnable, runVars
  <2> QED
    BY <2>1
<1>4. CASE Run
  <2>1. stopped => stopped'
    BY <1>4
    DEF Run, RunInShutdown, RunWaits, NoBytes, Overflowed, Aborted, UnknownError,
        UnknownResource, ChangeUndelivered, ChangeDispatched, ErrorUndelivered, Reschedule,
        Stop, runVars
  <2>2. silenced \subseteq silenced'
    BY <1>4
    DEF Run, RunInShutdown, RunWaits, NoBytes, Overflowed, Aborted, UnknownError,
        UnknownResource, ChangeUndelivered, ChangeDispatched, ReadAgain, ErrorUndelivered,
        runVars
  <2> QED
    BY <2>1, <2>2
<1> QED
  BY <1>1, <1>2, <1>3, <1>4 DEF Next, IOThread

\* A queued packet stays queued, the one that Run takes apart.
LEMMA PacketedStays ==
  ASSUME TypeOK, NEW h \in Handles, Packeted(h)
  PROVE  /\ PortExtended => Packeted(h)'
         /\ port # <<>> /\ h # Received.key /\ Extends(Rest) => Packeted(h)'
<1>1. port \in Seq(Packets)
  BY HandleTypes
<1>2. PICK n \in 1..Len(port) : port[n].key = h
  BY DEF Packeted
<1>3. ASSUME PortExtended PROVE Packeted(h)'
  <2>1. n \in 1..Len(port') /\ port'[n] = port[n]
    BY <1>1, <1>3 DEF PortExtended, Extends
  <2> QED
    BY <1>2, <2>1 DEF Packeted
<1>4. ASSUME port # <<>>, h # Received.key, Extends(Rest) PROVE Packeted(h)'
  <2>1. n # 1 /\ Rest \in Seq(Packets)
    BY <1>2, <1>4, RestPackets
  <2>2. Len(Rest) = Len(port) - 1 /\ \A m \in 1..Len(Rest) : Rest[m] = port[m + 1]
    BY <1>1, <1>4, TailIndex DEF Rest
  <2>3. n - 1 \in 1..Len(Rest) /\ Rest[n - 1] = port[n]
    BY <1>1, <2>1, <2>2
  <2>4. n - 1 \in 1..Len(port') /\ port'[n - 1] = port[n]
    BY <1>4, <2>1, <2>3 DEF Extends
  <2> QED
    BY <1>2, <2>4 DEF Packeted
<1> QED
  BY <1>3, <1>4

\* A packet that the port got is one of its handle.
LEMMA PacketedNow ==
  ASSUME NEW q \in Seq(Packets), NEW h \in Handles, NEW s, Results(h, s, q),
         reads \in [Handles -> Nat], reads'[h] # reads[h]
  PROVE  Packeted(h)'
<1>1. Len(q) \in Nat /\ reads[h] \in Nat /\ reads'[h] \in Nat
  BY DEF Results
<1>2. Len(q) + 1 \in 1..Len(port')
  BY <1>1 DEF Results
<1>3. port'[Len(q) + 1] = Packet(h, s)
  BY <1>1, <1>2 DEF Results
<1> QED
  BY <1>2, <1>3 DEF Packeted, Packet

LEMMA OpenWatchStep ==
  ASSUME TypeOK, HandleInv, OpenWatchIsRead, [Next]_vars
  PROVE  OpenWatchIsRead'
<1> SUFFICES ASSUME NEW h \in Handles, openOn'[h] # NoPath
             PROVE  h \in reading' \/ Packeted(h)' \/ h \in silenced' \/ stopped'
  BY DEF OpenWatchIsRead
<1> DEFINE IsRead == h \in reading' \/ Packeted(h)' \/ h \in silenced' \/ stopped'
<1>s. /\ stopped => stopped'
      /\ \A g \in silenced : g \in silenced' \/ g \in reading'
  BY SilencedFrame
<1>w. openOn[h] # NoPath => h \in reading \/ Packeted(h) \/ h \in silenced \/ stopped
  BY DEF OpenWatchIsRead
<1>t. port \in Seq(Packets) /\ reads \in [Handles -> Nat]
  BY HandleTypes
\* The handle is still open and its reads are outstanding.
<1>p. ASSUME openOn'[h] = openOn[h], reads'[h] = reads[h], PortExtended PROVE IsRead
  BY <1>s, <1>w, <1>p, PacketedStays DEF reading
<1>r. ASSUME openOn'[h] = openOn[h], reads'[h] = reads[h], port # <<>>, h # Received.key,
             Extends(Rest)
      PROVE  IsRead
  BY <1>s, <1>w, <1>r, PacketedStays DEF reading
<1>1. CASE Quiet
  <2>1. UNCHANGED <<openOn, reads>> /\ PortExtended
    BY <1>1, <1>t, PacketTypes, ExtendsProperties DEF Quiet, PortExtended
  <2> QED
    BY <1>p, <2>1
<1>2. ASSUME NEW g \in Handles, NEW s \in {"changes", "failed"}, Completed(g, s)
      PROVE  IsRead
  <2>1. UNCHANGED openOn /\ Results(g, s, port) /\ PortExtended
    BY <1>2 DEF Completed, Results, PortExtended
  <2>2. CASE reads'[h] = reads[h]
    BY <1>p, <2>1, <2>2
  <2>3. CASE reads'[h] # reads[h]
    <3>1. h = g
      BY <2>1, <2>3 DEF Results
    <3> QED
      BY <1>t, <2>1, <2>3, <3>1, PacketedNow
  <2> QED
    BY <2>2, <2>3
<1>3. CASE Passed
  <2>1. /\ port # <<>> /\ port' = Rest /\ UNCHANGED <<openOn, reads>>
        /\ Received.key \in Handles =>
             Received.key \in silenced' \/ stopped' \/ Resource = NoPath
    BY <1>3 DEF Passed, PacketTaken, handleVars
  <2>2. Extends(Rest)
    BY <2>1, RestPackets DEF Extends
  <2>3. Resource = NoPath => h # Received.key
    BY <2>1 DEF HandleInv, IndexInv, HandlesAgree, Resource
  <2> QED
    BY <1>r, <2>1, <2>2, <2>3
<1>4. CASE Reread
  <2>0. mWatchedResourcesByPath[Resource] \in Handles
    BY <1>4 DEF Reread, Read
  <2>g. PICK g \in Handles : g = mWatchedResourcesByPath[Resource]
    BY <2>0
  <2>1. /\ port # <<>> /\ Received.status = "changes" /\ Resource # NoPath
        /\ UNCHANGED openOn /\ Read(g, Rest)
    BY <1>4, <2>g DEF Reread, Read
  <2>2. Received.key \in Handles /\ Rest \in Seq(Packets)
    <3>1. Received \in Packets /\ Received.status # "empty" /\ Rest \in Seq(Packets)
      BY <2>1, RestPackets
    <3> QED
      BY <3>1, ResultFromHandle
  <2>3. g = Received.key
    BY <2>g, <2>1, <2>2, HandleTypes DEF HandleInv, IndexInv, EntriesHeld, Resource
  <2>4. \/ reads' = [reads EXCEPT ![g] = @ + 1] /\ port' = Rest
        \/ \E s \in {"changes", "empty", "enum_dir"} :
             reads' = reads /\ port' = Append(Rest, Packet(g, s))
    BY <2>1 DEF Read
  <2>5. CASE reads' = [reads EXCEPT ![g] = @ + 1] /\ port' = Rest
    <3>1. Extends(Rest)
      BY <2>2, <2>5 DEF Extends
    <3>2. CASE h = g
      BY <1>t, <2>5, <3>2 DEF reading
    <3>3. CASE h # g
      BY <1>r, <1>t, <2>1, <2>3, <2>5, <3>1, <3>3
    <3> QED
      BY <3>2, <3>3
  <2>6. ASSUME NEW s \in {"changes", "empty", "enum_dir"},
               reads' = reads, port' = Append(Rest, Packet(g, s))
        PROVE  IsRead
    <3> DEFINE x == Packet(g, s)
    <3>1. x \in Packets /\ x.key = g /\ port' = Append(Rest, x)
      BY <2>1, <2>6, PacketTypes DEF Packet
    <3> HIDE DEF x
    <3>2. Len(Rest) + 1 \in 1..Len(port') /\ port'[Len(Rest) + 1] = x
      <4>1. Len(port') = Len(Rest) + 1 /\ port'[Len(Rest) + 1] = x
        BY <2>2, <3>1, AppendIndex
      <4>2. Len(Rest) \in Nat
        BY <2>2
      <4> QED
        BY <4>1, <4>2
    <3>3. Packeted(g)'
      BY <3>1, <3>2 DEF Packeted
    <3>4. Extends(Rest)
      BY <2>2, <3>1, ExtendsProperties
    <3> QED
      BY <1>r, <2>1, <2>3, <2>6, <3>3, <3>4
  <2> QED
    BY <2>4, <2>5, <2>6
<1>5. CASE Aborted
  <2>1. CASE Resource = NoPath
    <3>1. port # <<>> /\ port' = Rest /\ UNCHANGED <<openOn, reads>>
      BY <1>5, <2>1 DEF Aborted, Returns, PacketTaken, handleVars
    <3>2. Extends(Rest)
      BY <3>1, RestPackets DEF Extends
    <3>3. h # Received.key
      BY <2>1, <3>1 DEF HandleInv, IndexInv, HandlesAgree, Resource
    <3> QED
      BY <1>r, <3>1, <3>2, <3>3
  <2>2. CASE Resource # NoPath
    <3>1. /\ port # <<>> /\ openOn'[Received.key] = NoPath /\ Extends(Rest)
          /\ \A g \in Handles \ {Received.key} : openOn'[g] = openOn[g] /\ reads'[g] = reads[g]
      BY <1>5, <2>2, AbortedEffect
    <3> QED
      BY <1>r, <3>1
  <2> QED
    BY <2>1, <2>2
<1>6. ASSUME NEW p \in Paths, NEW g \in Handles, Opened(p, g)
      PROVE  IsRead
  <2>1. /\ openOn' = [openOn EXCEPT ![g] = p] /\ reads' = [reads EXCEPT ![g] = 1]
        /\ port' = port
    BY <1>6 DEF Opened, OpenAndRead
  <2>2. PortExtended
    BY <1>t, <2>1 DEF PortExtended, Extends
  <2>3. CASE h = g
    BY <1>t, <2>1, <2>3 DEF reading
  <2>4. CASE h # g
    BY <1>p, <1>t, <2>1, <2>2, <2>4, HandleTypes
  <2> QED
    BY <2>3, <2>4
<1>7. ASSUME NEW p \in Paths, Closed(p)
      PROVE  IsRead
  <2> DEFINE g == mWatchedResourcesByPath[p]
  <2>1. g \in Handles /\ CloseHandle(g, port)
    BY <1>7 DEF Closed
  <2>2. /\ openOn'[g] = NoPath
        /\ \A f \in Handles \ {g} : openOn'[f] = openOn[f]
        /\ Results(g, "aborted", port)
    BY <1>t, <2>1, CloseEffect
  <2> HIDE DEF g
  <2> QED
    BY <1>p, <2>1, <2>2 DEF Results, PortExtended
<1>8. CASE DeactivateRunnable
  <2>1. openOn'[h] = NoPath
    BY <1>8, HandleTypes
    DEF DeactivateRunnable, CloseEverything, ClosePort, HandleInv, OpenInv, NoHandleLeaked
  <2> QED
    BY <2>1
<1> QED
  BY <1>1, <1>2, <1>3, <1>4, <1>5, <1>6, <1>7, <1>8, Steps

\* The directory of an open watch is being read, or has a packet that makes Run
\* read it again, unless an overflow, a failed read or the end of Run silenced it;
\* that holds of the watch that has the value of a closed handle as well.
THEOREM OpenWatchesAreRead == Spec => []OpenWatchIsRead
<1>1. Init => OpenWatchIsRead
  BY DEF Init, PortInit, OpenWatchIsRead
<1>2. TypeOK /\ HandleInv /\ OpenWatchIsRead /\ [Next]_vars => OpenWatchIsRead'
  BY OpenWatchStep
<1> QED
  BY <1>1, <1>2, AlwaysHandleInv, TypeCorrect, PTL DEF Spec

-----------------------------------------------------------------------------
(***************************************************************************)
(* The shutdown.                                                           *)
(***************************************************************************)
NoCalls(q) == \A n \in 1..Len(q) : q[n].op = "run"
NoShutdown(q) == \A n \in 1..Len(q) : q[n].op # "deactivate"
Ordered(q) ==
    \A m, n \in 1..Len(q) : m < n /\ q[m].op = "deactivate" => q[n].op = "run"

TablesCleared ==
    \A p \in Paths : /\ mWatchedResourcesByPath[p] = NoHandle
                     /\ mChangeCallbacksTable[p] = {}
                     /\ mErrorCallbacksTable[p] = {}

\* Calls are queued while mIOThread is set, and the shutdown then is neither
\* queued nor done.
ShutdownInv ==
    /\ initialised # "ok" => ~mShuttingDown
    /\ mIOThread => ~mShuttingDown /\ NoShutdown(ioq)
    /\ Ordered(ioq)
    /\ mShuttingDown => NoCalls(ioq) /\ TablesCleared

\* What a queue keeps when its oldest runnable is taken, or one is appended.
LEMMA QueueProperties ==
  ASSUME NEW q \in Seq(Tasks)
  PROVE  /\ NoCalls(q) => NoCalls(Append(q, RunTask))
         /\ NoShutdown(q) => NoShutdown(Append(q, RunTask))
         /\ q # <<>> /\ NoCalls(q) => NoCalls(Tail(q))
         /\ q # <<>> /\ NoShutdown(q) => NoShutdown(Tail(q))
  BY DEF NoCalls, NoShutdown, RunTask

LEMMA OrderedProperties ==
  ASSUME NEW q \in Seq(Tasks), Ordered(q)
  PROVE  /\ Ordered(Append(q, RunTask))
         /\ NoShutdown(q) => Ordered(Append(q, DeactivateTask))
         /\ q # <<>> => Ordered(Tail(q))
         /\ q # <<>> /\ Head(q).op = "deactivate" => NoCalls(Tail(q))
<1>1. Ordered(Append(q, RunTask))
  BY DEF Ordered, RunTask
<1>2. NoShutdown(q) => Ordered(Append(q, DeactivateTask))
  BY DEF Ordered, NoShutdown
<1>3. ASSUME q # <<>> PROVE Ordered(Tail(q))
  BY <1>3 DEF Ordered
<1>4. ASSUME q # <<>>, Head(q).op = "deactivate" PROVE NoCalls(Tail(q))
  BY <1>4 DEF Ordered, NoCalls
<1> QED
  BY <1>1, <1>2, <1>3, <1>4

\* Steps that leave the service alone, and take a runnable off the queue, or put
\* Run behind it, or neither.
LEMMA ShutdownFrame ==
  ASSUME TypeOK, ShutdownInv, UNCHANGED <<initialised, mIOThread, mShuttingDown>>,
         mShuttingDown => UNCHANGED tableVars,
         \/ ioq' = ioq
         \/ ioq' = Append(ioq, RunTask)
         \/ ioq # <<>> /\ ioq' = Tail(ioq)
  PROVE  ShutdownInv'
<1>1. ioq \in Seq(Tasks)
  BY DEF TypeOK, QueueTypeOK
<1>2. Ordered(ioq')
  BY <1>1, OrderedProperties DEF ShutdownInv
<1>3. NoShutdown(ioq) => NoShutdown(ioq')
  BY <1>1, QueueProperties
<1>4. NoCalls(ioq) => NoCalls(ioq')
  BY <1>1, QueueProperties
<1>5. mShuttingDown /\ TablesCleared => TablesCleared'
  BY DEF TablesCleared, tableVars
<1>6. /\ Ordered(ioq)' = Ordered(ioq')
      /\ NoShutdown(ioq)' = NoShutdown(ioq')
      /\ NoCalls(ioq)' = NoCalls(ioq')
  BY DEF Ordered, NoShutdown, NoCalls
<1> QED
  BY <1>2, <1>3, <1>4, <1>5, <1>6 DEF ShutdownInv

LEMMA ShutdownStep ==
  ASSUME TypeOK, WakeInv, ShutdownInv, [Next]_vars
  PROVE  ShutdownInv'
<1>0. ioq \in Seq(Tasks)
  BY DEF TypeOK, QueueTypeOK
<1>1. CASE ServiceInit
  <2>1. /\ initialised = "no" /\ ~mIOThread /\ ~mShuttingDown /\ ioq = <<>>
        /\ mShuttingDown' = mShuttingDown
        /\ ioq' = <<RunTask>> \/ ioq' = ioq
    BY <1>1 DEF ServiceInit, ShutdownInv, WakeInv, NotStarted
  <2>2. Ordered(<<>>) /\ NoShutdown(<<>>)
    BY DEF Ordered, NoShutdown
  <2>3. Ordered(<<RunTask>>) /\ NoShutdown(<<RunTask>>)
    BY DEF Ordered, NoShutdown, RunTask
  <2>4. Ordered(ioq')
    BY <2>1, <2>2, <2>3
  <2>5. NoShutdown(ioq')
    BY <2>1, <2>2, <2>3
  <2> QED
    BY <2>1, <2>4, <2>5 DEF ShutdownInv, Ordered, NoShutdown
<1>2. ASSUME NEW op \in {"add", "remove"}, NEW p \in Paths, NEW c \in Cbs, NEW e \in Errs,
             DispatchCall(op, p, c, e)
      PROVE  ShutdownInv'
  <2> DEFINE r == [op |-> op, id |-> calls + 1, path |-> p, cb |-> c, err |-> e]
  <2>1. /\ mIOThread /\ ~mShuttingDown /\ NoShutdown(ioq)
        /\ UNCHANGED <<initialised, mIOThread, mShuttingDown>>
        /\ ioq' = Append(ioq, r)
    BY <1>2 DEF DispatchCall, Dispatch, ShutdownInv
  <2>2. r.op # "deactivate"
    OBVIOUS
  <2> HIDE DEF r
  <2>3. NoShutdown(ioq')
    BY <1>0, <2>1, <2>2 DEF NoShutdown
  <2>4. Ordered(ioq')
    BY <2>3 DEF NoShutdown, Ordered
  <2> QED
    BY <2>1, <2>3, <2>4 DEF ShutdownInv, Ordered, NoShutdown
<1>3. CASE Uninit
  <2>1. /\ ~mShuttingDown /\ ~mIOThread' /\ NoShutdown(ioq)
        /\ UNCHANGED <<initialised, mShuttingDown>>
        /\ ioq' = Append(ioq, DeactivateTask)
    BY <1>3 DEF Uninit, Dispatch, ShutdownInv
  <2>2. Ordered(ioq')
    BY <1>0, <2>1, OrderedProperties DEF ShutdownInv
  <2> QED
    BY <2>1, <2>2 DEF ShutdownInv, Ordered
<1>4. CASE DeactivateRunnable
  <2>1. /\ ioq # <<>> /\ Head(ioq).op = "deactivate" /\ ioq' = Tail(ioq)
        /\ UNCHANGED <<initialised, mIOThread>>
    BY <1>4 DEF DeactivateRunnable, Takes, mainVars
  <2>2. ~mIOThread /\ initialised = "ok"
    <3>1. ioq[1] = Head(ioq) /\ 1 \in 1..Len(ioq)
      BY <1>0, <2>1
    <3> QED
      BY <2>1, <3>1 DEF ShutdownInv, NoShutdown, WakeInv, NotStarted
  <2>3. NoCalls(ioq') /\ Ordered(ioq')
    BY <1>0, <2>1, OrderedProperties DEF ShutdownInv
  <2>4. TablesCleared'
    BY <1>4 DEF DeactivateRunnable, TablesCleared
  <2> QED
    BY <2>1, <2>2, <2>3, <2>4 DEF ShutdownInv, Ordered, NoCalls
<1>5. CASE AddPathRunnable \/ RemovePathRunnable
  <2>1. /\ ~mShuttingDown /\ ioq # <<>> /\ ioq' = Tail(ioq)
        /\ UNCHANGED <<initialised, mIOThread, mShuttingDown>>
    BY <1>5, CallSteps DEF mainVars
  <2> QED
    BY <2>1, ShutdownFrame
<1>6. CASE RunInShutdown \/ RunWaits
  <2>1. /\ ioq # <<>> /\ ioq' = Tail(ioq)
        /\ UNCHANGED <<tableVars, initialised, mIOThread, mShuttingDown>>
    BY <1>6 DEF RunInShutdown, RunWaits, Takes, RunFrame, mainVars
  <2> QED
    BY <2>1, ShutdownFrame
<1>7. CASE \/ NoBytes \/ Overflowed \/ Aborted \/ UnknownError \/ UnknownResource
           \/ ChangeUndelivered \/ ChangeDispatched \/ ErrorUndelivered
  <2>1. /\ waiting
        /\ ioq' = ioq \/ ioq' = Append(ioq, RunTask)
        /\ UNCHANGED <<initialised, mIOThread, mShuttingDown>>
    BY <1>7, PassSteps DEF mainVars
  <2>2. ~mShuttingDown
    BY <2>1 DEF WakeInv, PortInUse
  <2> QED
    BY <2>1, <2>2, ShutdownFrame
<1>8. CASE WakeUpWorkerThread \/ DeliverNext \/ ThreadEnds \/ FileSystem \/ UNCHANGED vars
  <2>1. UNCHANGED <<tableVars, ioq, initialised, mIOThread, mShuttingDown>>
    BY <1>8
    DEF WakeUpWorkerThread, DeliverNext, DeliverCallback, DeliverSuccess, DeliverShutdown,
        Delivered, ThreadEnds, FileSystem, mainVars, vars
  <2> QED
    BY <2>1, ShutdownFrame
<1> QED
  BY <1>1, <1>2, <1>3, <1>4, <1>5, <1>6, <1>7, <1>8
  DEF Next, MainThread, IOThread, Run, AddPath, RemovePath

\* The shutdown comes behind every call the service took: when it is done no
\* call waits in the queue, no callback is registered, no handle is open and no
\* read is outstanding.
THEOREM ShutdownClean == Spec => []ShutdownIsClean
<1>1. Init => ShutdownInv
  BY DEF Init, ShutdownInv, Ordered
<1>2. Init => WakeInv
  BY WakeInit
<1>3. TypeOK /\ WakeInv /\ ShutdownInv /\ [Next]_vars => ShutdownInv'
  BY ShutdownStep
<1>4. TypeOK /\ WakeInv /\ [Next]_vars => WakeInv'
  BY WakeNext
<1>5. TypeOK /\ OpenInv /\ ShutdownInv => ShutdownIsClean
  <2> SUFFICES ASSUME TypeOK, OpenInv, ShutdownInv, mShuttingDown PROVE ShutdownIsClean
    BY DEF ShutdownIsClean
  <2>1. \A n \in 1..Len(ioq) : ioq[n].op = "run"
    BY DEF ShutdownInv, NoCalls
  <2>2. \A p \in Paths : mChangeCallbacksTable[p] = {} /\ mErrorCallbacksTable[p] = {}
    BY DEF ShutdownInv, TablesCleared
  <2>3. \A h \in Handles : openOn[h] = NoPath
    BY HandleTypes DEF ShutdownInv, TablesCleared, OpenInv, NoHandleLeaked
  <2>4. reading = {}
    BY <2>3, HandleTypes DEF OpenInv, ReadsOpen, reading
  <2> QED
    BY <2>1, <2>2, <2>3, <2>4 DEF ShutdownIsClean
<1> QED
  BY <1>1, <1>2, <1>3, <1>4, <1>5, AlwaysOpenInv, TypeCorrect, PTL DEF Spec

=============================================================================
