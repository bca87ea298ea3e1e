--------------------------- MODULE JobSlotsProofs ---------------------------
(* Proofs that the job slots never cross the results of two processes. *)
EXTENDS JobSlots, TLAPS

\* How long, in seconds, a prover may take over one leaf.
USE SMTT(60)

\* A finished job carries the outcome of its own operation.
DoneResult == \A s \in Slots : job[s].state = "done" => job[s].result = job[s].op

\* PollsOwnJob keeps a submit away from the slot of a polling process, and with
\* DoneResult it gives the poll its result.
JInv == TypeOK /\ PollsOwnJob /\ OwnResult /\ DoneResult

\* The empty slots and ready clients of the boot state satisfy the invariant.
LEMMA JInvInit == Init => JInv
  <1> SUFFICES ASSUME Init PROVE JInv OBVIOUS
  <1>1. NoJob \in Job BY DEF NoJob, Job, Results
  <1> DEFINE ready == [at |-> "ready", slot |-> "fs", op |-> None, polls |-> 0, got |-> None]
  <1>r. ready \in Client BY MaxPollsIsPositive DEF Client, Slots, Results
  <1>c. client = [c \in Clients |-> ready] BY DEF Init
  <1> HIDE DEF ready
  <1>2. TypeOK BY <1>1, <1>r, <1>c, ZenonT(60) DEF Init, TypeOK, WorkerAt
  <1>3. PollsOwnJob /\ OwnResult BY MaxPollsIsPositive DEF Init, PollsOwnJob, OwnResult
  <1>4. DoneResult BY DEF Init, DoneResult, NoJob
  <1> QED BY <1>2, <1>3, <1>4 DEF JInv

\* submit_fs_job() and sys_service_ctl() only fill an empty slot, which nobody polls.
LEMMA SubmitKeeps ==
    ASSUME JInv, NEW c \in Clients, NEW s \in Slots, NEW op \in Ops, Submit(c, s, op)
    PROVE JInv'
  <1> USE DEF JInv
  <1>1. CASE ~SlotFree(s)
    <2>1. UNCHANGED vars BY <1>1 DEF Submit, vars
    <2> QED BY <2>1 DEF vars, TypeOK, PollsOwnJob, OwnResult, DoneResult
  <1>2. CASE SlotFree(s)
    <2> DEFINE j == [state |-> "queued", owner |-> c, op |-> op, result |-> None]
               k == [at |-> "polling", slot |-> s, op |-> op, polls |-> 0, got |-> None]
    <2>1. job' = [job EXCEPT ![s] = j] /\ client' = [client EXCEPT ![c] = k]
      BY <1>2 DEF Submit
    <2>2. j \in Job /\ k \in Client BY MaxPollsIsPositive DEF Job, Client, Results
    <2>3. TypeOK' BY <2>1, <2>2 DEF TypeOK, Submit
    <2>4. job'[s] = j /\ \A r \in Slots : r # s => job'[r] = job[r] BY <2>1 DEF TypeOK
    <2>5. client'[c] = k /\ \A e \in Clients : e # c => client'[e] = client[e]
      BY <2>1 DEF TypeOK
    <2>6. \A e \in Clients : client[e].at = "polling" => client[e].slot # s
      BY <1>2 DEF PollsOwnJob, SlotFree
    <2>7. \A e \in Clients : client[e].slot \in Slots BY DEF TypeOK, Client
    <2>8. PollsOwnJob' BY <2>4, <2>5, <2>6, <2>7 DEF PollsOwnJob
    <2>9. OwnResult' BY <2>5 DEF OwnResult
    <2>10. DoneResult' BY <2>4 DEF DoneResult
    <2> QED BY <2>3, <2>8, <2>9, <2>10
  <1> QED BY <1>1, <1>2

\* A poll that finds a result clears the slot of the polling process alone.
LEMMA PollKeeps ==
    ASSUME JInv, NEW c \in Clients, sys_poll(c)
    PROVE JInv'
  <1> USE DEF JInv
  <1> DEFINE s == client[c].slot
             k == [client[c] EXCEPT !.at = "ready", !.got = job[s].result]
  <1>1. s \in Slots /\ client[c] \in Client /\ job[s] \in Job BY DEF TypeOK, Client
  <1>2. job[s].state = "done" /\ job[s].owner = c /\ job[s].op = client[c].op
    BY <1>1 DEF sys_poll, PollsOwnJob, Job
  <1>3. job[s].result = client[c].op BY <1>1, <1>2 DEF DoneResult
  <1>4. client' = [client EXCEPT ![c] = k] BY <1>1, <1>2, ZenonT(60) DEF sys_poll, TypeOK, Client
  <1>5. job' = [job EXCEPT ![s] = NoJob] BY DEF sys_poll
  <1>6. k \in Client BY <1>1, ZenonT(60) DEF Client, Job
  <1>7. NoJob \in Job BY DEF NoJob, Job, Results
  <1>k. k.at = "ready" /\ k.got = k.op BY <1>1, <1>3 DEF Client
  <1> HIDE DEF k
  <1>8. TypeOK'
    <2>1. client' \in [Clients -> Client] BY <1>4, <1>6 DEF TypeOK
    <2>2. job' \in [Slots -> Job] BY <1>1, <1>5, <1>7 DEF TypeOK
    <2>3. UNCHANGED <<lock, worker, pending, controller>> BY DEF sys_poll
    <2> QED BY <2>1, <2>2, <2>3 DEF TypeOK
  <1>9. client'[c] = k /\ \A e \in Clients : e # c => client'[e] = client[e]
    BY <1>4 DEF TypeOK
  <1>10. job'[s] = NoJob /\ \A r \in Slots : r # s => job'[r] = job[r] BY <1>5, <1>1 DEF TypeOK
  <1>12. \A e \in Clients : e # c /\ client[e].at = "polling" => client[e].slot # s
    BY <1>2 DEF PollsOwnJob
  <1>13. \A e \in Clients : client[e].slot \in Slots BY DEF TypeOK, Client
  <1>14. PollsOwnJob' BY <1>9, <1>10, <1>k, <1>12, <1>13 DEF PollsOwnJob
  <1>15. OwnResult' BY <1>9, <1>k DEF OwnResult
  <1>16. DoneResult' BY <1>10 DEF DoneResult, NoJob
  <1> QED BY <1>8, <1>14, <1>15, <1>16

\* Asking again and giving up change the client alone.
LEMMA WaitKeeps ==
    ASSUME JInv, NEW c \in Clients, poll_again(c) \/ give_up(c)
    PROVE JInv'
  <1> USE DEF JInv
  <1> DEFINE k == client'[c]
  <1>1. client[c] \in Client BY DEF TypeOK
  <1>2. job' = job /\ \A e \in Clients : e # c => client'[e] = client[e]
    BY DEF poll_again, give_up, TypeOK
  <1>3. CASE poll_again(c)
    <2>1. k = [client[c] EXCEPT !.polls = @ + 1] BY <1>3 DEF poll_again, TypeOK
    <2>2. k \in Client BY <2>1, <1>1, <1>3, MaxPollsIsPositive DEF Client, poll_again
    <2>3. k.at = "polling" /\ k.slot = client[c].slot /\ k.op = client[c].op
      BY <2>1, <1>1, <1>3 DEF Client, poll_again
    <2>4. TypeOK' BY <2>2, <1>3 DEF TypeOK, poll_again
    <2>5. PollsOwnJob' /\ OwnResult' /\ DoneResult'
      BY <2>3, <1>2, <1>3 DEF PollsOwnJob, OwnResult, DoneResult, poll_again
    <2> QED BY <2>4, <2>5
  <1>4. CASE give_up(c)
    <2>1. k = [client[c] EXCEPT !.at = "ready"] BY <1>4 DEF give_up, TypeOK
    <2>2. k \in Client BY <2>1, <1>1 DEF Client
    <2>3. k.at = "ready" /\ k.polls = MAX_POLLS BY <2>1, <1>1, <1>4 DEF Client, give_up
    <2>4. TypeOK' BY <2>2, <1>4 DEF TypeOK, give_up
    <2>5. PollsOwnJob' /\ OwnResult' /\ DoneResult'
      BY <2>3, <1>2, MaxPollsIsPositive DEF PollsOwnJob, OwnResult, DoneResult
    <2> QED BY <2>4, <2>5
  <1> QED BY <1>3, <1>4

\* The worker changes no client, and keeps the owner and the operation of a job.
LEMMA WorkerKeeps ==
    ASSUME JInv, WorkerStep
    PROVE JInv'
  <1> USE DEF JInv
  <1>1. CASE job' = job
    <2>1. client' = client
      BY <1>1 DEF WorkerStep, fs_service_lock, svc_service_lock, has_pending_fs,
        has_pending_svc, Acquire, fs_service_return, fs_service_take, fs_service_done,
        svc_service_return, svc_service_take, svc_service_done, has_pending_fs_read,
        has_pending_svc_read, wake
    <2>2. lock' \in [Slots -> BOOLEAN]
      BY ZenonT(60) DEF TypeOK, Slots, WorkerStep, fs_service_lock, svc_service_lock, has_pending_fs,
        has_pending_svc, Acquire, fs_service_return, fs_service_take, fs_service_done,
        svc_service_return, svc_service_take, svc_service_done, has_pending_fs_read,
        has_pending_svc_read, wake, Finish
    <2>3. worker' \in WorkerAt /\ pending' \in BOOLEAN
          /\ controller' \in {"free", "worker", "desktop"}
      BY ZenonT(60) DEF TypeOK, WorkerAt, WorkerStep, fs_service_lock, svc_service_lock, has_pending_fs,
        has_pending_svc, Acquire, fs_service_return, fs_service_take, fs_service_done,
        svc_service_return, svc_service_take, svc_service_done, has_pending_fs_read,
        has_pending_svc_read, wake
    <2> QED BY <1>1, <2>1, <2>2, <2>3 DEF TypeOK, PollsOwnJob, OwnResult, DoneResult
  <1>2. ASSUME NEW s \in Slots, Finish(s, job[s].op), UNCHANGED <<pending, client>>,
               worker' \in WorkerAt, controller' \in {"free", "worker", "desktop"}
        PROVE JInv'
    <2> DEFINE j == [job[s] EXCEPT !.state = "done", !.result = job[s].op]
    <2>1. job[s] \in Job BY DEF TypeOK
    <2>2. job' = [job EXCEPT ![s] = j] BY <1>2, <2>1, ZenonT(60) DEF Finish, TypeOK, Job
    <2>3. j \in Job BY <2>1, ZenonT(60) DEF Job, Results
    <2>4. TypeOK' BY <1>2, <2>2, <2>3 DEF TypeOK, Finish
    <2>5. job'[s] = j /\ \A r \in Slots : r # s => job'[r] = job[r] BY <2>2 DEF TypeOK
    <2>6. j.state = "done" /\ j.owner = job[s].owner /\ j.op = job[s].op /\ j.result = j.op
      BY <2>1 DEF Job
    <2>7. \A e \in Clients : client[e].slot \in Slots BY DEF TypeOK, Client
    <2> HIDE DEF j
    <2>8. PollsOwnJob' BY <1>2, <2>5, <2>6, <2>7 DEF PollsOwnJob
    <2>9. OwnResult' BY <1>2 DEF OwnResult
    <2>10. DoneResult' BY <2>5, <2>6 DEF DoneResult
    <2> QED BY <2>4, <2>8, <2>9, <2>10
  <1>3. CASE fs_service_done
    BY <1>2, <1>3 DEF fs_service_done, Slots, WorkerAt
  <1>4. CASE svc_service_done
    BY <1>2, <1>4 DEF svc_service_done, Slots, WorkerAt, TypeOK
  <1>5. job' = job \/ fs_service_done \/ svc_service_done
    BY DEF WorkerStep, fs_service_lock, svc_service_lock, has_pending_fs,
      has_pending_svc, Acquire, fs_service_return, fs_service_take,
      svc_service_return, svc_service_take, has_pending_fs_read,
      has_pending_svc_read, wake
  <1> QED BY <1>1, <1>3, <1>4, <1>5

\* A process that polls to the end holds the outcome of the operation it asked
\* for (sys_fs_poll(), sys_service_poll()), for all clients, operations and bounds.
THEOREM OwnResultHolds == Spec => [](PollsOwnJob /\ OwnResult)
  <1>1. JInv /\ [Next]_vars => JInv'
    <2> SUFFICES ASSUME JInv, [Next]_vars PROVE JInv' OBVIOUS
    <2>1. CASE \E c \in Clients, op \in Ops : submit_fs_job(c, op) \/ sys_service_ctl(c, op)
      BY <2>1, SubmitKeeps DEF submit_fs_job, sys_service_ctl, Slots
    <2>2. CASE \E c \in Clients : ClientStep(c)
      BY <2>2, PollKeeps, WaitKeeps DEF ClientStep
    <2>3. CASE WorkerStep BY <2>3, WorkerKeeps
    <2>4. CASE desktop_lock \/ desktop_unlock
      BY <2>4 DEF desktop_lock, desktop_unlock, JInv, TypeOK, PollsOwnJob, OwnResult, DoneResult
    <2>5. CASE UNCHANGED vars
      BY <2>5 DEF vars, JInv, TypeOK, PollsOwnJob, OwnResult, DoneResult
    <2> QED BY <2>1, <2>2, <2>3, <2>4, <2>5 DEF Next
  <1> QED BY JInvInit, <1>1, PTL DEF Spec, JInv

\* The slots record no owner, and yet who polls finds a job of their own, for
\* all clients, operations and bounds (take_fs_job(), sys_fs_poll()).
THEOREM PollsAreOwn == Spec => []PollsOwnJob
  BY OwnResultHolds, PTL
=============================================================================
