---------------------------- MODULE WatchService ----------------------------
(***************************************************************************)
(* What nsINativeFileWatcherService promises, whatever the port does to    *)
(* keep it: calls are taken until the service is closed and are executed   *)
(* in the order in which they were made; a callback is told of a change of *)
(* a path only while it is registered for it; an answer is posted after    *)
(* the call took effect and before anything that happens later.            *)
(***************************************************************************)
EXTENDS Integers, Sequences

CONSTANTS
    Paths,    \* the paths that clients name
    Cbs,      \* change callbacks
    Errs,     \* error callbacks
    MaxCalls, \* bound: calls
    Changes   \* posts of a change: which path, what callbacks, what a port adds

VARIABLES
    service,    \* "new", "open" or "closed"
    calls,      \* calls taken so far
    requests,   \* calls that still have to be executed
    registered, \* who wants to be told of which path
    posts,      \* what the main thread still has to run
    alive       \* whether the process lives

serviceVars == <<service, calls, requests, registered, posts, alive>>

Calls == [op : {"add", "remove"}, id : 1..MaxCalls, path : Paths, cb : Cbs, err : Errs]

Success(r) == [kind |-> "success", call |-> r]
Failure(r) == [kind |-> "error", call |-> r]

Init ==
    /\ service = "new"
    /\ calls = 0
    /\ requests = {}
    /\ registered = {}
    /\ posts = <<>>
    /\ alive = TRUE

Open ==
    /\ service = "new"
    /\ service' = "open"
    /\ UNCHANGED <<calls, requests, registered, posts, alive>>

Call(r) ==
    /\ alive
    /\ service = "open"
    /\ r.id = calls + 1
    /\ calls' = calls + 1
    /\ requests' = requests \cup {r}
    /\ UNCHANGED <<service, registered, posts, alive>>

\* No call can follow.
Close ==
    /\ alive
    /\ service = "open"
    /\ service' = "closed"
    /\ UNCHANGED <<calls, requests, registered, posts, alive>>

Executes(r) ==
    /\ alive
    /\ r \in requests
    /\ \A s \in requests : r.id <= s.id
    /\ requests' = requests \ {r}
    /\ UNCHANGED <<service, calls, alive>>

\* At most one answer; it may get lost.
Answers(m) == posts' = posts \/ posts' = Append(posts, m)

AddRegisters(r) ==
    /\ r.op = "add"
    /\ Executes(r)
    /\ registered' = registered \cup {<<r.path, r.cb>>}
    /\ Answers(Success(r))

AddFails(r) ==
    /\ r.op = "add"
    /\ Executes(r)
    /\ Answers(Failure(r))
    /\ UNCHANGED registered

RemoveUnregisters(r) ==
    /\ r.op = "remove"
    /\ Executes(r)
    /\ registered' = registered \ {<<r.path, r.cb>>}
    /\ Answers(Success(r))

\* A change of a path is announced to callbacks that are registered for it.
Announce(m) ==
    /\ alive
    /\ \A c \in m.cbs : <<m.path, c>> \in registered
    /\ posts' = Append(posts, m)
    /\ UNCHANGED <<service, calls, requests, registered, alive>>

\* The main thread runs one callback of the oldest post.
Deliver ==
    /\ alive
    /\ posts # <<>>
    /\ \/ /\ Head(posts).kind # "change"
          /\ posts' = Tail(posts)
       \/ /\ Head(posts).kind = "change"
          /\ \E c \in Head(posts).cbs :
                posts' = IF Head(posts).cbs = {c} THEN Tail(posts)
                         ELSE [posts EXCEPT ![1].cbs = @ \ {c}]
    /\ UNCHANGED <<service, calls, requests, registered, alive>>

\* Behind all the calls: nobody is told of anything any more.
Shutdown ==
    /\ alive
    /\ service = "closed"
    /\ requests = {}
    /\ registered' = {}
    /\ UNCHANGED <<service, calls, requests, posts, alive>>

\* The process crashes in the middle of a call.
Die ==
    /\ alive
    /\ alive' = FALSE
    /\ requests' \subseteq requests
    /\ registered' \subseteq registered
    /\ UNCHANGED <<service, calls, posts>>

Next ==
    \/ Open \/ Close \/ Deliver \/ Shutdown \/ Die
    \/ \E r \in Calls : Call(r) \/ AddRegisters(r) \/ AddFails(r) \/ RemoveUnregisters(r)
    \/ \E m \in Changes : Announce(m)

Spec == Init /\ [][Next]_serviceVars
=============================================================================
