----------------------------- MODULE NvmeMailbox -----------------------------
(***************************************************************************)
(* Block I/O of the boot disk: read_blocks() and write_blocks() of the     *)
(* kernel's nvme.rs, first on the I/O queue itself (the direct path), and  *)
(* after the hand-over through a mailbox page to the ring-3 driver nvmed,  *)
(* which goes on with the same queue.  The kernel and nvmed are two tasks  *)
(* that preempt each other; the device runs on its own.                    *)
(*                                                                         *)
(* Requests come one after the other, for every caller holds CONTROLLER.   *)
(***************************************************************************)
EXTENDS Naturals

CONSTANTS
    QD,      \* entries of the submission and of the completion queue
    CIDS,    \* command identifiers, 2^16 in the code
    Lbas,    \* addresses on the disk
    Values   \* contents of a block

ASSUME QDIsPlural == QD \in Nat /\ QD > 1
ASSUME CidsIsPositive == CIDS \in Nat \ {0}

Blank == "blank"
Blocks == Values \cup {Blank}

VARIABLES
    sq, cq,    \* the two rings of the I/O queue
    device,    \* the device's positions in them
    disk,      \* what is on the disk
    buf,       \* memory the device reaches: the caller's buffer and mailbox.data
    io,        \* the kernel's position in the queue, with its cid counter
    mb,        \* the mailbox
    kernel,    \* the request being carried out and how far it is; early is
               \* history: nvmed had yet to clear op when op was set
    nvmed,     \* the driver process
    written    \* history: what each block was last told to hold

vars == <<sq, cq, device, disk, buf, io, mb, kernel, nvmed, written>>

Index == 0..(QD - 1)
Cid == 0..(CIDS - 1)
Status == {"ok", "error"}
Request == [op : {"read", "write"}, lba : Lbas]
Command == Request \cup {[op |-> "none"]}
Position == [tail : Index, head : Index, phase : BOOLEAN, cid : Cid]

TypeOK ==
    /\ sq \in [Index -> [cid : Cid, request : Command, prp : {"caller", "mailbox"}]]
    /\ cq \in [Index -> [cid : Cid, phase : BOOLEAN, status : Status]]
    /\ device \in [head : Index, doorbell : Index, tail : Index, phase : BOOLEAN]
    /\ disk \in [Lbas -> Blocks]
    /\ buf \in [{"caller", "mailbox"} -> Blocks]
    /\ io \in Position
    /\ mb \in [active : BOOLEAN, op : Command, arg : Command, queue : Position,
               status : Status \cup {"pending"}]
    /\ kernel \in [at : {"idle", "direct", "direct_wait", "post", "op", "wait", "copy",
                         "launch", "done", "failed"},
                   request : Command, ok : BOOLEAN, handed_off : BOOLEAN, early : BOOLEAN]
    /\ nvmed \in [at : {"absent", "start", "loop", "submit", "wait", "status", "clear",
                        "persist"},
                  queue : Position, request : Command, result : Status]
    /\ written \in [Lbas -> Blocks]

None == [op |-> "none"]
FirstPosition == [tail |-> 0, head |-> 0, phase |-> TRUE, cid |-> 0]

\* After init(): queues created and empty, nothing submitted.
Init ==
    /\ sq = [i \in Index |-> [cid |-> 0, request |-> None, prp |-> "caller"]]
    /\ cq = [i \in Index |-> [cid |-> 0, phase |-> FALSE, status |-> "ok"]]
    /\ device = [head |-> 0, doorbell |-> 0, tail |-> 0, phase |-> TRUE]
    /\ disk = [b \in Lbas |-> Blank]
    /\ buf = [p \in {"caller", "mailbox"} |-> Blank]
    /\ io = FirstPosition
    /\ mb = [active |-> FALSE, op |-> None, arg |-> None, queue |-> FirstPosition,
             status |-> "pending"]
    /\ kernel = [at |-> "idle", request |-> None, ok |-> FALSE, handed_off |-> FALSE,
                 early |-> FALSE]
    /\ nvmed = [at |-> "absent", queue |-> FirstPosition, request |-> None, result |-> "ok"]
    /\ written = disk

-----------------------------------------------------------------------------
(* The queue code, which nvme.rs and nvmed have in common. *)

Advance(i) == (i + 1) % QD

\* The position after q_submit() of one more command.
Submitted(q) == [q EXCEPT !.tail = Advance(@), !.cid = (@ + 1) % CIDS]

\* q_submit(): write the entry, advance, ring the doorbell.
q_submit(q, request, prp) ==
    /\ sq' = [sq EXCEPT ![q.tail] = [cid |-> Submitted(q).cid, request |-> request, prp |-> prp]]
    /\ device' = [device EXCEPT !.doorbell = Submitted(q).tail]

\* q_wait() finds the completion of the command at the head.
Completed(q) == cq[q.head].phase = q.phase /\ cq[q.head].cid = q.cid

\* Mutant: the phase is not inverted when the head wraps around.
ConsumedSamePhase(q) == [q EXCEPT !.head = Advance(@)]

\* The position after q_wait().
Consumed(q) ==
    [q EXCEPT !.head = Advance(@), !.phase = IF Advance(q.head) = 0 THEN ~@ ELSE @]

\* The device carries out the next command, or fails it, and completes it.
device_step ==
    LET e == sq[device.head] IN
    /\ device.head # device.doorbell
    /\ \E s \in Status :
         /\ cq' = [cq EXCEPT ![device.tail] = [cid |-> e.cid, phase |-> device.phase,
                                               status |-> s]]
         /\ buf' = IF s = "ok" /\ e.request.op = "read"
                   THEN [buf EXCEPT ![e.prp] = disk[e.request.lba]] ELSE buf
         /\ disk' = IF s = "ok" /\ e.request.op = "write"
                    THEN [disk EXCEPT ![e.request.lba] = buf[e.prp]] ELSE disk
    /\ device' = [device EXCEPT !.head = Advance(@), !.tail = Advance(@),
                                !.phase = IF Advance(device.tail) = 0 THEN ~@ ELSE @]
    /\ UNCHANGED <<sq, io, mb, kernel, nvmed, written>>

-----------------------------------------------------------------------------
(* The kernel: one request. *)

\* A caller fills its buffer and calls read_blocks() or write_blocks().
call(request, v) ==
    /\ kernel.at \in {"idle", "done"}
    /\ kernel' = [kernel EXCEPT !.at = IF mb.active THEN "post" ELSE "direct",
                                !.request = request]
    /\ buf' = [buf EXCEPT !["caller"] = v]
    /\ written' = IF request.op = "write" THEN [written EXCEPT ![request.lba] = v] ELSE written
    /\ UNCHANGED <<sq, cq, device, disk, io, mb, nvmed>>

\* read_blocks_direct(), write_blocks_direct().
direct_submit ==
    /\ kernel.at = "direct"
    /\ q_submit(io, kernel.request, "caller")
    /\ io' = Submitted(io)
    /\ kernel' = [kernel EXCEPT !.at = "direct_wait"]
    /\ UNCHANGED <<cq, disk, buf, mb, nvmed, written>>

direct_done ==
    /\ kernel.at = "direct_wait" /\ Completed(io)
    /\ io' = Consumed(io)
    /\ kernel' = [kernel EXCEPT !.at = IF cq[io.head].status = "ok" THEN "done" ELSE "failed"]
    /\ UNCHANGED <<sq, cq, device, disk, buf, mb, nvmed, written>>

\* q_wait() or the wait for the mailbox runs out of spins, and the assertion on
\* the outcome fails.
give_up ==
    /\ kernel.at \in {"direct_wait", "wait"}
    /\ kernel' = [kernel EXCEPT !.at = "failed"]
    /\ UNCHANGED <<sq, cq, device, disk, buf, io, mb, nvmed, written>>

\* The arguments, with the data of a write, and status.
mailbox_post ==
    /\ kernel.at = "post"
    /\ mb' = [mb EXCEPT !.arg = kernel.request, !.status = "pending"]
    /\ buf' = IF kernel.request.op = "write" THEN [buf EXCEPT !["mailbox"] = buf["caller"]]
              ELSE buf
    /\ kernel' = [kernel EXCEPT !.at = "op"]
    /\ UNCHANGED <<sq, cq, device, disk, io, nvmed, written>>

\* op, which hands the request to nvmed.
mailbox_op ==
    /\ kernel.at = "op"
    /\ mb' = [mb EXCEPT !.op = kernel.request]
    /\ kernel' = [kernel EXCEPT !.at = "wait", !.early = nvmed.at = "clear"]
    /\ UNCHANGED <<sq, cq, device, disk, buf, io, nvmed, written>>

mailbox_answer ==
    /\ kernel.at = "wait" /\ mb.status # "pending"
    /\ kernel' = [kernel EXCEPT !.at = "copy", !.ok = mb.status = "ok"]
    /\ UNCHANGED <<sq, cq, device, disk, buf, io, mb, nvmed, written>>

\* The data of a read, and status back to 0; then the assertion.
mailbox_copy ==
    /\ kernel.at = "copy"
    /\ buf' = IF kernel.ok /\ kernel.request.op = "read"
              THEN [buf EXCEPT !["caller"] = buf["mailbox"]] ELSE buf
    /\ mb' = [mb EXCEPT !.status = "pending"]
    /\ kernel' = [kernel EXCEPT !.at = IF kernel.ok THEN "done" ELSE "failed"]
    /\ UNCHANGED <<sq, cq, device, disk, io, nvmed, written>>

\* handoff_to_nvmed(), from spawn_pending_driver(): the mailbox receives the
\* live position of the queue, and nvmed is launched.
handoff_to_nvmed ==
    /\ kernel.at \in {"idle", "done"} /\ ~kernel.handed_off
    /\ mb' = [active |-> FALSE, op |-> None, arg |-> None, queue |-> [io EXCEPT !.cid = 0],
              status |-> "pending"]
    /\ nvmed' = [nvmed EXCEPT !.at = "start"]
    /\ kernel' = [kernel EXCEPT !.at = "launch", !.handed_off = TRUE]
    /\ UNCHANGED <<sq, cq, device, disk, buf, io, written>>

\* nvmed is in the process table: it has the queue from now on.
handoff_done ==
    /\ kernel.at = "launch"
    /\ mb' = [mb EXCEPT !.active = TRUE]
    /\ kernel' = [kernel EXCEPT !.at = "idle"]
    /\ UNCHANGED <<sq, cq, device, disk, buf, io, nvmed, written>>

\* It did not come up in time; should it start later, nobody talks to it.
handoff_failed ==
    /\ kernel.at = "launch"
    /\ kernel' = [kernel EXCEPT !.at = "idle"]
    /\ UNCHANGED <<sq, cq, device, disk, buf, io, mb, nvmed, written>>

-----------------------------------------------------------------------------
(* nvmed. *)

nvmed_start ==
    /\ nvmed.at = "start"
    /\ nvmed' = [nvmed EXCEPT !.at = "loop", !.queue = mb.queue]
    /\ UNCHANGED <<sq, cq, device, disk, buf, io, mb, kernel, written>>

\* The top of the loop: a request, or nothing to do.
nvmed_poll ==
    /\ nvmed.at = "loop"
    /\ nvmed' = IF mb.op = None THEN [nvmed EXCEPT !.at = "persist"]
                ELSE [nvmed EXCEPT !.at = "submit",
                                   !.request = [op |-> mb.op.op, lba |-> mb.arg.lba]]
    /\ UNCHANGED <<sq, cq, device, disk, buf, io, mb, kernel, written>>

nvmed_submit ==
    /\ nvmed.at = "submit"
    /\ q_submit(nvmed.queue, nvmed.request, "mailbox")
    /\ nvmed' = [nvmed EXCEPT !.at = "wait", !.queue = Submitted(@)]
    /\ UNCHANGED <<cq, disk, buf, io, mb, kernel, written>>

nvmed_complete ==
    /\ nvmed.at = "wait" /\ Completed(nvmed.queue)
    /\ nvmed' = [nvmed EXCEPT !.at = "status", !.queue = Consumed(@),
                              !.result = cq[nvmed.queue.head].status]
    /\ UNCHANGED <<sq, cq, device, disk, buf, io, mb, kernel, written>>

\* Mutant: a command that timed out is not reported.
nvmed_timeoutSilent ==
    /\ nvmed.at = "wait"
    /\ nvmed' = [nvmed EXCEPT !.at = "clear", !.result = "error"]
    /\ UNCHANGED <<sq, cq, device, disk, buf, io, mb, kernel, written>>

nvmed_timeout ==
    /\ nvmed.at = "wait"
    /\ nvmed' = [nvmed EXCEPT !.at = "status", !.result = "error"]
    /\ UNCHANGED <<sq, cq, device, disk, buf, io, mb, kernel, written>>

\* Mutant: a failed command is reported as done.
nvmed_statusOk ==
    /\ nvmed.at = "status"
    /\ mb' = [mb EXCEPT !.status = "ok"]
    /\ nvmed' = [nvmed EXCEPT !.at = "clear"]
    /\ UNCHANGED <<sq, cq, device, disk, buf, io, kernel, written>>

nvmed_status ==
    /\ nvmed.at = "status"
    /\ mb' = [mb EXCEPT !.status = nvmed.result]
    /\ nvmed' = [nvmed EXCEPT !.at = "clear"]
    /\ UNCHANGED <<sq, cq, device, disk, buf, io, kernel, written>>

nvmed_clear ==
    /\ nvmed.at = "clear"
    /\ mb' = [mb EXCEPT !.op = None]
    /\ nvmed' = [nvmed EXCEPT !.at = "persist"]
    /\ UNCHANGED <<sq, cq, device, disk, buf, io, kernel, written>>

\* The position goes back to the mailbox, and nvmed waits for a tick.
nvmed_persist ==
    /\ nvmed.at = "persist"
    /\ mb' = [mb EXCEPT !.queue = [nvmed.queue EXCEPT !.cid = 0]]
    /\ nvmed' = [nvmed EXCEPT !.at = "loop"]
    /\ UNCHANGED <<sq, cq, device, disk, buf, io, kernel, written>>

-----------------------------------------------------------------------------
\* A failed assertion panics with CONTROLLER locked: there are no more requests.
Panicked == kernel.at = "failed" /\ UNCHANGED vars

Kernel ==
    \/ \E r \in Request, v \in Values : call(r, v)
    \/ direct_submit \/ direct_done \/ give_up
    \/ mailbox_post \/ mailbox_op \/ mailbox_answer \/ mailbox_copy
    \/ handoff_to_nvmed \/ handoff_done \/ handoff_failed

Nvmed ==
    \/ nvmed_start \/ nvmed_poll \/ nvmed_submit \/ nvmed_complete \/ nvmed_timeout
    \/ nvmed_status \/ nvmed_clear \/ nvmed_persist

Next == Kernel \/ Nvmed \/ device_step \/ Panicked

Spec == Init /\ [][Next]_vars

-----------------------------------------------------------------------------
(* Properties. *)

\* A read that returns has the contents last written to that address, through
\* the direct path and the mailbox, over any number of laps of the queue and
\* across the hand-over of the queue to nvmed.
ReadsLastWrite ==
    kernel.at = "done" =>
        /\ disk = written
        /\ kernel.request.op = "read" => buf["caller"] = written[kernel.request.lba]

\* Whoever drives the queue and the device agree on it: with no command under
\* way their positions and phases are the same, and a command under way is the
\* one at the device's head or the one it has just completed.  (A time-out ends
\* in the kernel's assertion, so the queue is not used again.)  Indices and
\* identifiers stay in their ranges.
QueuesAgree ==
    LET q == IF mb.active /\ nvmed.at # "start" THEN nvmed.queue
             ELSE IF mb.active THEN mb.queue ELSE io
        busy == kernel.at = "direct_wait" \/ nvmed.at = "wait"
    IN TypeOK /\ (kernel.at # "failed" /\ nvmed.result = "ok" =>
        /\ device.doorbell = q.tail
        /\ device.head = device.doorbell =>
             IF busy THEN Completed(q) /\ Consumed(q).head = device.tail
                          /\ Consumed(q).phase = device.phase
             ELSE q.head = device.tail /\ q.phase = device.phase
        /\ device.head # device.doorbell =>
             busy /\ Advance(device.head) = device.doorbell /\ ~Completed(q))

\* Mailbox::status is documented as "0 = request still pending": while the
\* kernel waits on it, the request is in the mailbox or in nvmed's hands.  The
\* exception is a request made before nvmed has cleared the op of the one it
\* has just answered (nvmed main.rs:183): that request may be cleared with it,
\* and the kernel then waits in vain.
RequestKept ==
    kernel.at = "wait" /\ mb.status = "pending" /\ ~kernel.early =>
        \/ mb.op # None
        \/ nvmed.at \in {"submit", "wait", "status"}
=============================================================================
