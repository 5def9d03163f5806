--------------------------- MODULE CompletionPort ---------------------------
(***************************************************************************)
(* The part of Windows that NativeFileWatcherWin.cpp runs against:         *)
(* directories, the handles opened on them, overlapped calls of            *)
(* ReadDirectoryChangesW, and the completion port their results are queued *)
(* on.  None of this code is in the repository; it is modelled from the    *)
(* calls the watcher makes and from what it does with their results.       *)
(***************************************************************************)
EXTENDS Integers, Sequences, FiniteSets

CONSTANTS
    Paths,         \* the path names clients use
    InitialDirs,   \* those that lead to a directory at start
    Handles,       \* the values the system has for handles: a closed one is free again
    NoHandle,      \* the null handle
    NoPath,        \* what a closed handle is open on
    MayFail,       \* which calls may fail for reasons of their own
    FsOps,         \* which of AllFsOps the environment performs
    MaxFsOps       \* bound: how many of them

AllFsOps == {"change", "burst", "delete", "create"}

ASSUME PortAssumption ==
    /\ InitialDirs \subseteq Paths
    /\ NoHandle \notin Handles
    /\ NoPath \notin Paths
    /\ MayFail \subseteq {"open", "read", "name"}
    /\ FsOps \subseteq AllFsOps
    /\ MaxFsOps \in Nat

VARIABLES
    dirs,        \* the paths that lead to a directory
    openOn,      \* handle -> the path it was opened on, or NoPath
    gone,        \* open handles whose directory was deleted
    reads,       \* per handle: how many reads are outstanding
    recorded,    \* per handle: what changed while no read was outstanding
    portOpen,
    port,        \* packets queued on the completion port
    fsOps        \* file system operations performed so far

handleVars == <<openOn, gone, reads, recorded>>
portVars == <<dirs, handleVars, portOpen, port, fsOps>>

(***************************************************************************)
(* Packets, by what GetQueuedCompletionStatus makes of them: changes in    *)
(* the buffer; no bytes transferred; ERROR_NOTIFY_ENUM_DIR;                *)
(* ERROR_OPERATION_ABORTED; another error.  A wake-up packet has no bytes  *)
(* and no handle.                                                          *)
(***************************************************************************)
Packets == [key : Handles, status : {"changes", "empty", "enum_dir", "aborted", "failed"}]
             \cup [key : {NoHandle}, status : {"empty"}]

Packet(h, s) == [key |-> h, status |-> s]
WakeUpPacket == Packet(NoHandle, "empty")

PortInit ==
    /\ dirs = InitialDirs
    /\ openOn = [h \in Handles |-> NoPath]
    /\ gone = {}
    /\ reads = [h \in Handles |-> 0]
    /\ recorded = [h \in Handles |-> "nothing"]
    /\ portOpen = TRUE
    /\ port = <<>>
    /\ fsOps = 0

(***************************************************************************)
(* The environment changes the file system.  A read completes with the     *)
(* first change; later ones are recorded for the next read, as long as     *)
(* they fit.                                                               *)
(***************************************************************************)
FsOp(op) ==
    /\ op \in FsOps
    /\ fsOps < MaxFsOps
    /\ fsOps' = fsOps + 1

Watching(h) == openOn[h] # NoPath /\ h \notin gone

\* A handle is read twice at once when Run takes a packet of its former use for
\* one of the present.
reading == {h \in Handles : reads[h] > 0}

\* All reads of a handle end in the same way.
EndReads(h, s, q) ==
    /\ reads' = [reads EXCEPT ![h] = 0]
    /\ port' = q \o [n \in 1..reads[h] |-> Packet(h, s)]

Change(h) ==
    /\ FsOp("change")
    /\ Watching(h)
    /\ \/ /\ h \in reading
          /\ reads' = [reads EXCEPT ![h] = @ - 1]
          /\ port' = Append(port, Packet(h, "changes"))
          /\ UNCHANGED recorded
       \/ /\ h \notin reading
          /\ recorded' = [recorded EXCEPT ![h] = IF @ = "nothing" THEN "some" ELSE @]
          /\ UNCHANGED <<reads, port>>
    /\ UNCHANGED <<dirs, openOn, gone, portOpen>>

\* More changes than the buffer of the handle holds.
Burst(h) ==
    /\ FsOp("burst")
    /\ Watching(h)
    /\ EndReads(h, "changes", port)
    /\ recorded' = [recorded EXCEPT ![h] = "too_many"]
    /\ UNCHANGED <<dirs, openOn, gone, portOpen>>

\* The watcher never has two handles open on one path.
DeleteDirectory(p) ==
    /\ FsOp("delete")
    /\ p \in dirs
    /\ dirs' = dirs \ {p}
    /\ gone' = gone \cup {h \in Handles : openOn[h] = p}
    /\ \/ \E h \in Handles : openOn[h] = p /\ EndReads(h, "failed", port)
       \/ (\A h \in Handles : openOn[h] # p) /\ UNCHANGED <<reads, port>>
    /\ UNCHANGED <<openOn, recorded, portOpen>>

CreateDirectory(p) ==
    /\ FsOp("create")
    /\ p \notin dirs
    /\ dirs' = dirs \cup {p}
    /\ UNCHANGED <<handleVars, portOpen, port>>

FsNext ==
    \/ \E h \in Handles : Change(h) \/ Burst(h)
    \/ \E p \in Paths : DeleteDirectory(p) \/ CreateDirectory(p)

(***************************************************************************)
(* System calls of the watcher.  rest is the port's queue as the caller    *)
(* left it.                                                                *)
(***************************************************************************)
Free(h) == openOn[h] = NoPath

CreateFileFails(p) == p \notin dirs \/ "open" \in MayFail \/ \A h \in Handles : ~Free(h)

\* CreateFileW and the first ReadDirectoryChangesW of the handle.
OpenAndRead(p, h) ==
    /\ p \in dirs
    /\ Free(h)
    /\ openOn' = [openOn EXCEPT ![h] = p]
    /\ reads' = [reads EXCEPT ![h] = 1]
    /\ UNCHANGED <<gone, recorded, portOpen, port>>

\* The same, but the read fails and the handle is closed again.
OpenAndReadFails(p, h) ==
    /\ p \in dirs
    /\ Free(h)
    /\ "read" \in MayFail
    /\ UNCHANGED <<handleVars, portOpen, port>>

\* ReadDirectoryChangesW on a handle that was read before.
Read(h, rest) ==
    /\ h \in Handles
    /\ Watching(h)
    /\ \/ /\ recorded[h] = "nothing"
          /\ reads' = [reads EXCEPT ![h] = @ + 1]
          /\ port' = rest
       \/ /\ recorded[h] = "some"
          /\ port' = Append(rest, Packet(h, "changes"))
          /\ UNCHANGED reads
       \/ /\ recorded[h] = "too_many"
          /\ \E s \in {"empty", "enum_dir"} : port' = Append(rest, Packet(h, s))
          /\ UNCHANGED reads
    /\ recorded' = [recorded EXCEPT ![h] = "nothing"]
    /\ UNCHANGED <<openOn, gone, portOpen>>

ReadFails(h, rest) ==
    /\ h \in Handles => ~Watching(h) \/ "read" \in MayFail
    /\ port' = rest
    /\ UNCHANGED <<handleVars, portOpen>>

\* CancelIo and CloseHandle: what is outstanding is aborted.
CloseHandle(h, rest) ==
    /\ EndReads(h, "aborted", rest)
    /\ openOn' = [openOn EXCEPT ![h] = NoPath]
    /\ gone' = gone \ {h}
    /\ recorded' = [recorded EXCEPT ![h] = "nothing"]
    /\ UNCHANGED portOpen

\* Every handle of the set is closed, and then the port with its packets.
ClosePort(hs) ==
    /\ openOn' = [h \in Handles |-> IF h \in hs THEN NoPath ELSE openOn[h]]
    /\ gone' = gone \ hs
    /\ reads' = [h \in Handles |-> IF h \in hs THEN 0 ELSE reads[h]]
    /\ recorded' = [h \in Handles |-> IF h \in hs THEN "nothing" ELSE recorded[h]]
    /\ portOpen' = FALSE
    /\ port' = <<>>

\* PostQueuedCompletionStatus; it fails once the port is closed.
PostPacket ==
    /\ port' = IF portOpen THEN Append(port, WakeUpPacket) ELSE port
    /\ UNCHANGED <<handleVars, portOpen>>

PortTypeOK ==
    /\ dirs \in SUBSET Paths
    /\ openOn \in [Handles -> Paths \cup {NoPath}]
    /\ gone \in SUBSET Handles
    /\ reads \in [Handles -> Nat]
    /\ recorded \in [Handles -> {"nothing", "some", "too_many"}]
    /\ portOpen \in BOOLEAN
    /\ port \in Seq(Packets)
    /\ fsOps \in 0..MaxFsOps
=============================================================================
