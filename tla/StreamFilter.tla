---------------------------- MODULE StreamFilter ----------------------------
(***************************************************************************)
(* A stream filter: StreamFilterParent and StreamFilterChild, over the two *)
(* queues of PStreamFilter.                                                *)
(***************************************************************************)
EXTENDS StreamFilterChild, StreamFilterParent

vars == <<ipcVars, childVars, parentVars>>

Init == IpcInit /\ ChildInit /\ ParentInit

Child == Script \/ Recv \/ EventEnds \/ FinishConnect
ChildEnd == PageGone \/ Collect \/ ChildActorDestroy \/ ChildDies
Parent == ActorThread \/ QueueThreads \/ Channel \/ Listener

Next ==
    \/ (Child \/ ChildEnd) /\ UNCHANGED parentVars
    \/ Parent /\ UNCHANGED childVars

Spec == Init /\ [][Next]_vars

\* The threads run and messages arrive; script and the channel may do nothing.
FairSpec ==
    /\ Spec
    /\ WF_vars((Recv \/ EventEnds \/ FinishConnect) /\ UNCHANGED parentVars)
    /\ WF_vars(ActorThread /\ UNCHANGED childVars)
    /\ WF_vars(QueueThreads /\ UNCHANGED childVars)
    /\ WF_vars(Listener /\ UNCHANGED childVars)

(***************************************************************************)
(* Properties.                                                             *)
(***************************************************************************)
Elements(q) == {q[k] : k \in 1..Len(q)}
QueueWill(name) == \E k \in 1..Len(mQueue) : mQueue[k].name = name
ActorWill(name) == \E k \in 1..Len(actorq) : actorq[k].name = name

\* The state is of the kind that the code declares.
TypeOK == IpcTypeOK /\ ChildTypeOK /\ ParentTypeOK

\* The channel's listener gets OnStopRequest at most once and no data behind it,
\* whether the stop comes from the channel, from close() or from the flush.
StopIsLast == \A k \in 1..Len(output) : output[k] = 0 => k = Len(output)

Ascending(q) == \A j, k \in 1..Len(q) : (j < k /\ q[k] # 0) => q[j] < q[k]

\* Script sees the chunks in the order of the channel, each once, and so does the
\* listener, through the buffers of the child and of the parent, the data that
\* script writes and the data that passes the filter.  On a retargeted channel a
\* chunk in flight passes those that were buffered before the resume.
OrderKept == ~retargeted => Ascending(kept) /\ Ascending(output)

Expected(m) ==
    CASE m.name = "StartRequest" -> In(child, {"Initialized"})
      [] m.name = "Suspended" -> In(child, {"Suspending"})
      [] m.name = "Resumed" -> In(child, {"Resuming"})
      [] m.name = "Closed" -> In(child, {"Closing"})
      [] m.name = "FlushData" -> In(child, {"Disconnecting"})
      [] m.name = "Data" -> /\ ~child.mReceivedOnStop
                           /\ In(child, {"TransferringData", "Suspending", "Suspended",
                                         "Resuming", "Disconnecting", "Closing"})
      [] OTHER -> TRUE

\* What the handlers of both sides assert of the state they are called in: an
\* answer finds the child waiting for it, data comes in a state that knows what to
\* do with it, never after the stop, and FlushedData finds the parent Disconnecting.
HandshakesMatch ==
    /\ (toChild # <<>> /\ emitting = "no" /\ ~In(child, {"Uninitialized", "Dead"}))
         => Expected(Head(toChild))
    /\ (toParent # <<>> /\ Head(toParent).name = "FlushedData") => mState = "Disconnecting"

\* RecvSuspend and the two ways to resume pair up: the channel is suspended at most
\* once, and while it is, the actor knows or will be told, or a resume is queued.
\* A filter that is closed, or broken, leaves its channel as it is.
ChannelNotStranded ==
    /\ suspends \in 0..1
    /\ (suspends = 1 /\ mState # "Closed" /\ ~cancelled)
         => \/ mState = "Suspended" \/ ActorWill("suspended")
            \/ QueueWill("resume") \/ QueueWill("resumeOnly")

Held ==
    UNION {Elements(output), ChunksIn(mQueue), ChunksIn(actorq), {oda}, Elements(kept),
           ChunksIn(toChild), ChunksIn(toParent), Elements(child.mBufferedData)}

\* A filter that script only suspends and resumes loses no chunk; none stays in the
\* child's buffer once the data flows again, and none comes after the stop event.
\* On a retargeted channel DoSendData drops what was in flight at the suspension.
SuspendKeepsData ==
    (~retargeted /\ ~ended /\ script = "running" /\ ipc = "open" /\ emitting = "no")
    => /\ 1..delivered \subseteq Held
       /\ In(child, {"TransferringData", "FinishedTransferringData"})
            => child.mBufferedData = <<>>
       /\ In(child, {"FinishedTransferringData"}) => ChunksIn(toChild) = {}

\* The child died while it was disconnecting: Broken does nothing then.
Abandoned == mState = "Disconnecting" /\ In(child, {"Dead"}) /\ ~cancelled

\* Once the channel has stopped, a filter that closes, disconnects or dies lets the
\* load finish: the listener gets its OnStopRequest and the filter leaves the load
\* group.  Two windows are left out: the child's death in the middle of a
\* disconnect, and a stop that comes between the last flush and mDisconnected.
LoadFinishes ==
    (mReceivedStop /\ In(child, {"Closing", "Disconnecting", "Dead"}))
    ~> ((mSentStop /\ ~grouped) \/ Abandoned \/ stopMissed)

\* StreamFilterParent.h of Disconnecting: what is in transit to the child, or
\* buffered by it, will be written to the listener.  So nothing is thrown away while
\* the parent is Disconnecting, unless the filter broke.
DisconnectKeepsData ==
    (mState = "Disconnecting" /\ ~cancelled)
    => 1..delivered \subseteq Held \cup Elements(mBufferedData)
=============================================================================
