------------------------------ MODULE JobSlots ------------------------------
(***************************************************************************)
(* The two job slots of kernel/src/syscall.rs: FS_JOB (file system calls)  *)
(* and SVC_JOB (sys_service_ctl).  A process submits a job and polls for   *)
(* its result in system calls, which run with interrupts off and are one   *)
(* step each; task_svc_worker carries jobs out with interrupts on, so that *)
(* system calls and the desktop run between any two of its steps.          *)
(***************************************************************************)
EXTENDS Naturals

CONSTANTS
    Clients,     \* processes that use the slots
    Ops,         \* what a job asks for
    MAX_POLLS    \* polls before a client gives up

ASSUME MaxPollsIsPositive == MAX_POLLS \in Nat \ {0}

Slots == {"fs", "svc"}

\* No owner, operation or result yet; and the ENOENT of a poll that finds no job.
None == "none"
NoSuchJob == "no such job"

VARIABLES
    job,         \* FS_JOB and SVC_JOB; "owner" is history, the code keeps none
    lock,        \* the worker holds the slot's mutex
    worker,      \* where task_svc_worker is
    pending,     \* what has_pending_job() has seen so far
    controller,  \* who holds nvme::CONTROLLER
    client       \* what each process is waiting for and last got

vars == <<job, lock, worker, pending, controller, client>>

\* A result, an errno or a count with its data, is named by the operation
\* whose outcome it is.
Results == Ops \cup {None, NoSuchJob}

Job == [state : {"none", "queued", "done"}, owner : Clients \cup {None},
        op : Ops \cup {None}, result : Results]

NoJob == [state |-> "none", owner |-> None, op |-> None, result |-> None]

Client == [at : {"ready", "polling"}, slot : Slots, op : Ops \cup {None},
           polls : 0..MAX_POLLS, got : Results]

WorkerAt ==
    {"fs_service", "fs_job", "fs_work", "svc_service", "svc_job", "svc_work",
     "pending_fs", "pending_fs_read", "pending_svc", "pending_svc_read", "asleep"}

TypeOK ==
    /\ job \in [Slots -> Job]
    /\ lock \in [Slots -> BOOLEAN]
    /\ worker \in WorkerAt
    /\ pending \in BOOLEAN
    /\ controller \in {"free", "worker", "desktop"}
    /\ client \in [Clients -> Client]

Init ==
    /\ job = [s \in Slots |-> NoJob]
    /\ lock = [s \in Slots |-> FALSE]
    /\ worker = "fs_service"
    /\ pending = FALSE
    /\ controller = "free"
    /\ client = [c \in Clients |->
                    [at |-> "ready", slot |-> "fs", op |-> None, polls |-> 0, got |-> None]]

-----------------------------------------------------------------------------
(* System calls of a client. *)

\* Mutant: a finished job may be overwritten.
SlotFreeOrDone(s) == ~lock[s] /\ job[s].state # "queued"

\* try_lock() succeeds and the slot is empty; else EAGAIN or EBUSY.
SlotFree(s) == ~lock[s] /\ job[s].state = "none"

Submit(c, s, op) ==
    /\ client[c].at = "ready"
    /\ IF SlotFree(s)
       THEN /\ job' = [job EXCEPT ![s] = [state |-> "queued", owner |-> c,
                                          op |-> op, result |-> None]]
            /\ client' = [client EXCEPT ![c] = [at |-> "polling", slot |-> s, op |-> op,
                                                polls |-> 0, got |-> None]]
       ELSE UNCHANGED <<job, client>>
    /\ UNCHANGED <<lock, worker, pending, controller>>

submit_fs_job(c, op) == Submit(c, "fs", op)
sys_service_ctl(c, op) == Submit(c, "svc", op)

\* EAGAIN or EBUSY, and the client waits for a tick to ask again.
poll_again(c) ==
    LET s == client[c].slot IN
    /\ client[c].at = "polling" /\ client[c].polls < MAX_POLLS
    /\ lock[s] \/ job[s].state = "queued"
    /\ client' = [client EXCEPT ![c].polls = @ + 1]
    /\ UNCHANGED <<job, lock, worker, pending, controller>>

\* Mutant: the result is taken before the job is done.
sys_pollEarly(c) ==
    LET s == client[c].slot IN
    /\ client[c].at = "polling" /\ client[c].polls < MAX_POLLS
    /\ ~lock[s]
    /\ client' = [client EXCEPT ![c].at = "ready", ![c].got = job[s].result]
    /\ job' = [job EXCEPT ![s] = NoJob]
    /\ UNCHANGED <<lock, worker, pending, controller>>

\* sys_fs_poll() and sys_service_poll(): the result, if there is a job at all.
sys_poll(c) ==
    LET s == client[c].slot IN
    /\ client[c].at = "polling" /\ client[c].polls < MAX_POLLS
    /\ ~lock[s] /\ job[s].state # "queued"
    /\ client' = [client EXCEPT ![c].at = "ready",
                                ![c].got = IF job[s].state = "done" THEN job[s].result
                                           ELSE NoSuchJob]
    /\ job' = [job EXCEPT ![s] = NoJob]
    /\ UNCHANGED <<lock, worker, pending, controller>>

\* poll_until_done() of the clients ends after MAX_POLLS rounds.
give_up(c) ==
    /\ client[c].at = "polling" /\ client[c].polls = MAX_POLLS
    /\ client' = [client EXCEPT ![c].at = "ready"]
    /\ UNCHANGED <<job, lock, worker, pending, controller>>

ClientStep(c) == poll_again(c) \/ sys_poll(c) \/ give_up(c)

-----------------------------------------------------------------------------
(* task_svc_worker(): fs_service(), svc_service(), has_pending_job(). *)

Acquire(s, from, to) ==
    /\ worker = from
    /\ worker' = to
    /\ lock' = [lock EXCEPT ![s] = TRUE]
    /\ UNCHANGED <<job, pending, controller, client>>

fs_service_lock == Acquire("fs", "fs_service", "fs_job")
svc_service_lock == Acquire("svc", "svc_service", "svc_job")

\* Nothing to do, or CONTROLLER.try_lock() failed: unlock and go on.
fs_service_return ==
    /\ worker = "fs_job"
    /\ job["fs"].state # "queued" \/ controller # "free"
    /\ worker' = "svc_service"
    /\ lock' = [lock EXCEPT !["fs"] = FALSE]
    /\ UNCHANGED <<job, pending, controller, client>>

fs_service_take ==
    /\ worker = "fs_job" /\ job["fs"].state = "queued" /\ controller = "free"
    /\ worker' = "fs_work"
    /\ controller' = "worker"
    /\ UNCHANGED <<job, lock, pending, client>>

svc_service_return ==
    /\ worker = "svc_job" /\ job["svc"].state # "queued"
    /\ worker' = "pending_fs"
    /\ lock' = [lock EXCEPT !["svc"] = FALSE]
    /\ UNCHANGED <<job, pending, controller, client>>

svc_service_take ==
    /\ worker = "svc_job" /\ job["svc"].state = "queued"
    /\ worker' = "svc_work"
    /\ UNCHANGED <<job, lock, pending, controller, client>>

\* job.done = true, and the guards go out of scope.
Finish(s, result) ==
    /\ job' = [job EXCEPT ![s].state = "done", ![s].result = result]
    /\ lock' = [lock EXCEPT ![s] = FALSE]

\* The HepFS calls of the job, or ENOENT where there is no disk: every path sets
\* the job's result and done.
fs_service_done ==
    /\ worker = "fs_work"
    /\ worker' = "svc_service"
    /\ Finish("fs", job["fs"].op)
    /\ controller' = "free"
    /\ UNCHANGED <<pending, client>>

\* start_service() or stop_service() of a driver.
svc_service_done ==
    /\ worker = "svc_work"
    /\ worker' = "pending_fs"
    /\ Finish("svc", job["svc"].op)
    /\ UNCHANGED <<pending, controller, client>>

has_pending_fs == Acquire("fs", "pending_fs", "pending_fs_read")
has_pending_svc == Acquire("svc", "pending_svc", "pending_svc_read")

has_pending_fs_read ==
    /\ worker = "pending_fs_read"
    /\ worker' = "pending_svc"
    /\ pending' = (job["fs"].state = "queued")
    /\ lock' = [lock EXCEPT !["fs"] = FALSE]
    /\ UNCHANGED <<job, controller, client>>

\* Mutant: the worker sleeps for good unless a job is pending.
has_pending_readSleeps ==
    /\ worker = "pending_svc_read"
    /\ worker' = IF pending \/ job["svc"].state = "queued" THEN "fs_service" ELSE "pending_svc_read"
    /\ lock' = [lock EXCEPT !["svc"] = FALSE]
    /\ UNCHANGED <<job, pending, controller, client>>

has_pending_svc_read ==
    /\ worker = "pending_svc_read"
    /\ worker' = IF pending \/ job["svc"].state = "queued" THEN "fs_service" ELSE "asleep"
    /\ lock' = [lock EXCEPT !["svc"] = FALSE]
    /\ UNCHANGED <<job, pending, controller, client>>

\* sleep_ms(10) returns.
wake ==
    /\ worker = "asleep"
    /\ worker' = "fs_service"
    /\ UNCHANGED <<job, lock, pending, controller, client>>

WorkerStep ==
    \/ fs_service_lock \/ fs_service_return \/ fs_service_take \/ fs_service_done
    \/ svc_service_lock \/ svc_service_return \/ svc_service_take \/ svc_service_done
    \/ has_pending_fs \/ has_pending_fs_read \/ has_pending_svc \/ has_pending_svc_read
    \/ wake

-----------------------------------------------------------------------------
(* task_blink locks CONTROLLER for its own file operations. *)

desktop_lock ==
    /\ controller = "free"
    /\ controller' = "desktop"
    /\ UNCHANGED <<job, lock, worker, pending, client>>

desktop_unlock ==
    /\ controller = "desktop"
    /\ controller' = "free"
    /\ UNCHANGED <<job, lock, worker, pending, client>>

-----------------------------------------------------------------------------
Next ==
    \/ \E c \in Clients :
         \/ \E op \in Ops : submit_fs_job(c, op) \/ sys_service_ctl(c, op)
         \/ ClientStep(c)
    \/ WorkerStep
    \/ desktop_lock \/ desktop_unlock

Spec == Init /\ [][Next]_vars

\* The worker and the clients are scheduled round robin, and task_blink lets go
\* of CONTROLLER once its file operation is over.
Fairness ==
    /\ WF_vars(WorkerStep)
    /\ WF_vars(desktop_unlock)
    /\ \A c \in Clients : WF_vars(ClientStep(c))

FairSpec == Spec /\ Fairness

-----------------------------------------------------------------------------
(* Properties. *)

\* The slots record no owner, yet a process that polls is always asking for
\* the job it submitted itself: submit refuses until the result is collected,
\* and only a process whose submit succeeded polls.
PollsOwnJob ==
    \A c \in Clients : client[c].at = "polling" =>
        LET j == job[client[c].slot]
        IN j.state # "none" /\ j.owner = c /\ j.op = client[c].op

\* A process that has stopped polling, other than by giving up, holds the
\* outcome of the very operation it asked for: never that of another process's
\* job, never an unfinished one, and never "no such job".
OwnResult ==
    \A c \in Clients :
        client[c].at = "ready" /\ client[c].polls < MAX_POLLS => client[c].got = client[c].op

\* A queued job is carried out.  A service job waits for nobody; a file job is
\* put off each time CONTROLLER.try_lock() fails, and is carried out unless the
\* desktop keeps coming back to the disk for ever.
JobsFinish ==
    /\ job["svc"].state = "queued" ~> job["svc"].state = "done"
    /\ <>[](controller # "desktop") =>
          (job["fs"].state = "queued" ~> job["fs"].state = "done")
=============================================================================
