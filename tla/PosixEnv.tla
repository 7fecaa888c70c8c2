------------------------------ MODULE PosixEnv ------------------------------
(* Two services of util/env_posix.cc that databases share: the lock on a    *)
(* database's LOCK file and the queue of the background thread.  A user is  *)
(* one attempt to open the database; a process has several of them, with    *)
(* one Env.  fcntl's locks belong to the process, and every close of the    *)
(* file by the process gives them up.                                       *)
EXTENDS Integers, Sequences, FiniteSets

CONSTANTS
    Users_,         \* the attempts to open one database
    ProcessOf(_),
    MaxQueue        \* bound: calls of Schedule waiting at once

VARIABLES
    locked_files_,  \* the processes whose lock table holds the file
    osLock,         \* the processes that hold the system's lock: none or one
    opener,         \* what each user has done with the lock
    queue_,
    bgthread,       \* "none", "running", "waiting", "woken" or in a call
    started_bgthread_

envVars == <<locked_files_, osLock, opener, queue_, bgthread, started_bgthread_>>
lockVars == <<locked_files_, osLock, opener>>
queueVars == <<queue_, bgthread, started_bgthread_>>

EnvInit ==
    /\ locked_files_ = {} /\ osLock = {} /\ opener = [u \in Users_ |-> "closed"]
    /\ queue_ = <<>> /\ bgthread = "none" /\ started_bgthread_ = FALSE

-----------------------------------------------------------------------------
(* LockFile and UnlockFile. *)

(* close(fd), after open(): the process' lock goes with any descriptor.     *)
CloseDrops(p) == osLock' = osLock \ {p}

(* open(), then locks_.Insert(fname). *)
LockTableInsert(u) ==
    /\ opener[u] = "closed"
    /\ LET p == ProcessOf(u)
       IN  \/ p \in locked_files_ /\ CloseDrops(p) /\ UNCHANGED <<opener, locked_files_>>
           \/ /\ p \notin locked_files_ /\ locked_files_' = locked_files_ \cup {p}
              /\ opener' = [opener EXCEPT ![u] = "listed"] /\ UNCHANGED osLock
    /\ UNCHANGED queueVars

(* fcntl(F_SETLK): refused while another process holds the lock. *)
LockOrUnlock(u) ==
    /\ opener[u] = "listed"
    /\ LET p == ProcessOf(u)
       IN  \/ osLock \subseteq {p} /\ osLock' = {p} /\ opener' = [opener EXCEPT ![u] = "open"] /\ UNCHANGED locked_files_
           \/ /\ ~(osLock \subseteq {p}) /\ CloseDrops(p)
              /\ opener' = [opener EXCEPT ![u] = "closed"] /\ locked_files_' = locked_files_ \ {p}
    /\ UNCHANGED queueVars

(* UnlockFile: fcntl(F_UNLCK), locks_.Remove and close(fd), in this order.  *)
UnlockSystem(u) ==
    /\ opener[u] = "open"
    /\ osLock' = osLock \ {ProcessOf(u)} /\ opener' = [opener EXCEPT ![u] = "unlocked"]
    /\ UNCHANGED locked_files_ /\ UNCHANGED queueVars

UnlockTable(u) ==
    /\ opener[u] = "unlocked"
    /\ locked_files_' = locked_files_ \ {ProcessOf(u)} /\ opener' = [opener EXCEPT ![u] = "delisted"]
    /\ UNCHANGED osLock /\ UNCHANGED queueVars

UnlockClose(u) ==
    /\ opener[u] = "delisted"
    /\ CloseDrops(ProcessOf(u)) /\ opener' = [opener EXCEPT ![u] = "closed"]
    /\ UNCHANGED locked_files_ /\ UNCHANGED queueVars

-----------------------------------------------------------------------------
(* Schedule and BGThread. *)

(* The signal is sent for the call that finds the queue empty. *)
SignalNeededLate == queue_ # <<>>         \* tested after the call was queued
SignalNeeded == queue_ = <<>>

Schedule(u) ==
    /\ Len(queue_) < MaxQueue
    /\ queue_' = Append(queue_, u)
    /\ started_bgthread_' = TRUE
    /\ bgthread' = IF ~started_bgthread_ THEN "running"
                   ELSE IF SignalNeeded /\ bgthread = "waiting" THEN "woken" ELSE bgthread
    /\ UNCHANGED lockVars

(* Taking the mutex, at the loop's start or after a wake-up: an empty queue *)
(* is waited on, or its first call taken.                                   *)
BGThreadTake ==
    /\ bgthread \in {"running", "woken"}
    /\ \/ queue_ = <<>> /\ bgthread' = "waiting" /\ UNCHANGED queue_
       \/ queue_ # <<>> /\ bgthread' = "calling" /\ queue_' = Tail(queue_)
    /\ UNCHANGED started_bgthread_ /\ UNCHANGED lockVars

(* The call returns, or the wait ends without a signal. *)
BGThreadReturn ==
    /\ \/ bgthread = "calling" /\ bgthread' = "running"
       \/ bgthread = "waiting" /\ bgthread' = "woken"
    /\ UNCHANGED <<queue_, started_bgthread_>> /\ UNCHANGED lockVars

EnvNext ==
    \/ \E u \in Users_ : LockTableInsert(u)
    \/ \E u \in Users_ : LockOrUnlock(u)
    \/ \E u \in Users_ : UnlockSystem(u)
    \/ \E u \in Users_ : UnlockTable(u)
    \/ \E u \in Users_ : UnlockClose(u)
    \/ \E u \in Users_ : Schedule(u)
    \/ BGThreadTake
    \/ BGThreadReturn

EnvSpec == EnvInit /\ [][EnvNext]_envVars

-----------------------------------------------------------------------------
(* Work handed to Schedule never waits for a thread that waits for work,    *)
(* and inside a process the lock table keeps a second opener out, whatever  *)
(* the system's lock does.                                                  *)
EnvSound ==
    /\ queue_ # <<>> => bgthread \in {"running", "woken", "calling"}
    /\ \A u, v \in Users_ :
           opener[u] = "open" /\ opener[v] = "open" /\ u # v => ProcessOf(u) # ProcessOf(v)

(* "A database may only be opened by one process at a time": two processes  *)
(* never have the database open together.                                   *)
OneProcessOpensIt ==
    \A u, v \in Users_ : opener[u] = "open" /\ opener[v] = "open" => ProcessOf(u) = ProcessOf(v)
=============================================================================
