---------------------------- MODULE PStreamFilter ----------------------------
(***************************************************************************)
(* The actor pair of PStreamFilter.ipdl: two queues between the filter of  *)
(* an extension (the child) and the channel whose data it filters (the     *)
(* parent).  The data of a channel is cut into chunks, each of which is    *)
(* known by its number.                                                    *)
(***************************************************************************)
EXTENDS Integers, Sequences, FiniteSets

CONSTANT
    MaxChunks   \* bound: chunks of the channel

ASSUME ChunksAssumption == MaxChunks \in Nat

Chunks == 1..MaxChunks

VARIABLES
    toParent, \* messages on their way to the parent
    toChild,  \* messages on their way to the child
    ipc       \* the parent's side: "open", "error" (the child is gone) or "closed"

ipcVars == <<toParent, toChild, ipc>>

\* A message, or an event of the threads of the parent; 0 stands for no data.
Msg(name) == [name |-> name, data |-> 0]
Carrying(name, n) == [name |-> name, data |-> n]

ToParent ==
    {Msg(name) : name \in {"FlushedData", "Suspend", "Resume", "Close", "Disconnect", "Destroy"}}
    \cup {Carrying("Write", n) : n \in Chunks}
ToChild ==
    {Msg(name) : name \in {"Resumed", "Suspended", "Closed", "Error", "FlushData",
                           "StartRequest", "StopRequest"}}
    \cup {Carrying("Data", n) : n \in Chunks}

ChunksIn(q) == {q[k].data : k \in 1..Len(q)} \ {0}

IpcInit ==
    /\ toParent = <<>>
    /\ toChild = <<>>
    /\ ipc = "open"

IpcTypeOK ==
    /\ toParent \in Seq(ToParent)
    /\ toChild \in Seq(ToChild)
    /\ ipc \in {"open", "error", "closed"}
=============================================================================
