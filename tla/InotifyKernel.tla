--------------------------- MODULE InotifyKernel ---------------------------
(***************************************************************************)
(* The part of Linux that NativeFileWatcherLnx.cpp runs against: a small   *)
(* file system of directories, and one inotify instance with its watches,  *)
(* its bounded event queue and the SIGIO it raises (O_ASYNC on the         *)
(* descriptor).  None of this code is in the repository; it is modelled    *)
(* from the calls the watcher makes (inotify_init, inotify_add_watch,      *)
(* inotify_rm_watch, read, fcntl) and from what they return to it.         *)
(***************************************************************************)
EXTENDS Integers, Sequences, FiniteSets

CONSTANTS
    Paths,        \* the path names clients use
    Inodes,       \* the directories those names can lead to
    NoInode,      \* what a missing path leads to
    InitialDir,   \* the file system at start: path -> inode; two paths may
                  \* share an inode (a symbolic link, another spelling)
    FsOps,        \* which of AllFsOps the environment performs
    MaxFsOps,     \* bound: how many of them
    NameSizes,    \* sizes of events that carry a name, in 16-byte units
    BufSize,      \* the reader's buffer, in 16-byte units (17 in the code)
    MaxQueued,    \* fs.inotify.max_queued_events
    WatchMayFail, \* whether inotify_add_watch may fail on a live path
    MaxWd         \* bound: watch descriptors the kernel can hand out

AllFsOps == {"change", "touch", "delete", "create", "rename"}

(***************************************************************************)
(* A bare struct inotify_event is one unit; a name adds one to sixteen.    *)
(***************************************************************************)
ASSUME KernelAssumption ==
    /\ NoInode \notin Inodes
    /\ InitialDir \in [Paths -> Inodes \cup {NoInode}]
    /\ FsOps \subseteq AllFsOps
    /\ MaxFsOps \in Nat
    /\ BufSize \in Nat \ {0}
    /\ NameSizes \subseteq 2..BufSize
    /\ MaxQueued \in Nat
    /\ WatchMayFail \in BOOLEAN
    /\ MaxWd \in Nat

VARIABLES
    dir,          \* path -> inode or NoInode
    kwatch,       \* inode -> its live watch descriptor, or NoWd
    nextWd,       \* the next descriptor; descriptors are never reused
    kq,           \* events queued on the inotify descriptor
    sigPending,   \* SIGIO is pending for the process (a standard signal: one)
    fsOps         \* file system operations performed so far

kernelVars == <<dir, kwatch, nextWd, kq, sigPending, fsOps>>

NoWd == 0
Wds == 1..MaxWd

(***************************************************************************)
(* "entry" events name a file of the watched directory.  "self" events are *)
(* about the directory (opened, deleted, moved) and carry no name.         *)
(* "ignored" says that a watch is gone, "overflow" that events were        *)
(* dropped; neither bit is part of IN_ALL_EVENTS.                          *)
(***************************************************************************)
Kinds == {"entry", "self", "ignored", "overflow"}
KernelEvents == [wd : Wds \cup {NoWd}, kind : Kinds, size : 1..BufSize]

Entry(w, s) == [wd |-> w, kind |-> "entry", size |-> s]
Self(w) == [wd |-> w, kind |-> "self", size |-> 1]
Ignored(w) == [wd |-> w, kind |-> "ignored", size |-> 1]
Overflow == [wd |-> NoWd, kind |-> "overflow", size |-> 1]

LiveWds == {kwatch[i] : i \in Inodes} \ {NoWd}

KernelInit ==
    /\ dir = InitialDir
    /\ kwatch = [i \in Inodes |-> NoWd]
    /\ nextWd = 1
    /\ kq = <<>>
    /\ sigPending = FALSE
    /\ fsOps = 0

(***************************************************************************)
(* Queueing: a full queue turns into one overflow event, and whatever      *)
(* comes after that is dropped.  Every event that is queued raises SIGIO.  *)
(***************************************************************************)
Queued(q, e) ==
    IF Len(q) < MaxQueued THEN Append(q, e)
    ELSE IF \E n \in 1..Len(q) : q[n] = Overflow THEN q
    ELSE Append(q, Overflow)

Notify(q) ==
    /\ kq' = q
    /\ sigPending' = (sigPending \/ Len(q) > Len(kq))

(***************************************************************************)
(* The environment changes the file system.                                *)
(***************************************************************************)
FsOp(op) ==
    /\ op \in FsOps
    /\ fsOps < MaxFsOps
    /\ fsOps' = fsOps + 1

\* A file in the watched directory i is created, written, read or removed.
ChangeEntry(i) ==
    /\ FsOp("change")
    /\ kwatch[i] # NoWd
    /\ \E s \in NameSizes : Notify(Queued(kq, Entry(kwatch[i], s)))
    /\ UNCHANGED <<dir, kwatch, nextWd>>

\* The watched directory itself is opened, listed or has its mode changed.
TouchDirectory(i) ==
    /\ FsOp("touch")
    /\ kwatch[i] # NoWd
    /\ Notify(Queued(kq, Self(kwatch[i])))
    /\ UNCHANGED <<dir, kwatch, nextWd>>

\* The directory p leads to is removed, and its watch with it.
DeleteDirectory(p) ==
    LET i == dir[p]
        w == kwatch[i]
    IN  /\ FsOp("delete")
        /\ i # NoInode
        /\ dir' = [q \in Paths |-> IF dir[q] = i THEN NoInode ELSE dir[q]]
        /\ kwatch' = [kwatch EXCEPT ![i] = NoWd]
        /\ Notify(IF w = NoWd THEN kq
                  ELSE Queued(Queued(kq, Self(w)), Ignored(w)))
        /\ UNCHANGED nextWd

\* A directory is created at p, on a free inode.
CreateDirectory(p) ==
    /\ FsOp("create")
    /\ dir[p] = NoInode
    /\ \E i \in Inodes :
        /\ \A q \in Paths : dir[q] # i
        /\ kwatch[i] = NoWd
        /\ dir' = [dir EXCEPT ![p] = i]
    /\ UNCHANGED <<kwatch, nextWd, kq, sigPending>>

\* The directory p leads to is renamed to q.  A watch follows the inode.
RenameDirectory(p, q) ==
    LET i == dir[p]
        w == kwatch[i]
    IN  /\ FsOp("rename")
        /\ i # NoInode
        /\ dir[q] = NoInode
        /\ dir' = [r \in Paths |-> IF r = q THEN i
                                   ELSE IF dir[r] = i THEN NoInode ELSE dir[r]]
        /\ Notify(IF w = NoWd THEN kq ELSE Queued(kq, Self(w)))
        /\ UNCHANGED <<kwatch, nextWd>>

FsNext ==
    \/ \E i \in Inodes : ChangeEntry(i)
    \/ \E i \in Inodes : TouchDirectory(i)
    \/ \E p \in Paths : DeleteDirectory(p)
    \/ \E p \in Paths : CreateDirectory(p)
    \/ \E p, q \in Paths : RenameDirectory(p, q)

(***************************************************************************)
(* System calls of the watcher.                                            *)
(***************************************************************************)
\* inotify_add_watch on inode i returns w: the watch i has, or a new one.
InotifyAddWatch(i, w) ==
    \/ /\ kwatch[i] # NoWd
       /\ w = kwatch[i]
       /\ UNCHANGED <<kwatch, nextWd>>
    \/ /\ kwatch[i] = NoWd
       /\ nextWd \in Wds
       /\ w = nextWd
       /\ kwatch' = [kwatch EXCEPT ![i] = w]
       /\ nextWd' = nextWd + 1

\* It returns -1: no descriptor is left, no memory, the path went away.
InotifyAddWatchFails(i) ==
    /\ WatchMayFail \/ (kwatch[i] = NoWd /\ nextWd \notin Wds)
    /\ UNCHANGED <<kwatch, nextWd>>

\* inotify_rm_watch of a live descriptor.  Events of w stay in the queue.
InotifyRmWatch(w) ==
    /\ kwatch' = [i \in Inodes |-> IF kwatch[i] = w THEN NoWd ELSE kwatch[i]]
    /\ Notify(Queued(kq, Ignored(w)))
    /\ UNCHANGED nextWd

\* read fills the buffer with the k oldest events, as many as fit.
Bytes(q, k) ==
    LET total[n \in 0..k] == IF n = 0 THEN 0 ELSE total[n - 1] + q[n].size
    IN  total[k]

FillsBuffer(q, k) ==
    /\ k \in 1..Len(q)
    /\ Bytes(q, k) <= BufSize
    /\ k < Len(q) => Bytes(q, k + 1) > BufSize

InotifyRead(k) ==
    /\ FillsBuffer(kq, k)
    /\ kq' = SubSeq(kq, k + 1, Len(kq))

\* close on the inotify descriptor drops its watches and its events.
InotifyClose ==
    /\ kwatch' = [i \in Inodes |-> NoWd]
    /\ kq' = <<>>
    /\ UNCHANGED nextWd

KernelTypeOK ==
    /\ dir \in [Paths -> Inodes \cup {NoInode}]
    /\ kwatch \in [Inodes -> Wds \cup {NoWd}]
    /\ nextWd \in 1..(MaxWd + 1)
    /\ kq \in Seq(KernelEvents)
    /\ sigPending \in BOOLEAN
    /\ fsOps \in 0..MaxFsOps
=============================================================================
