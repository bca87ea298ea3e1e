----------------------------- MODULE NvmeProofs -----------------------------
(***************************************************************************)
(* Proofs about NvmeMailbox, for every depth of the queue, every number of *)
(* command identifiers and any number of laps: the driver and the device   *)
(* agree on the queue, reads return what was last written, and a request   *)
(* is not lost but for the early one.                                      *)
(*                                                                         *)
(* The invariant says who has the queue and how far the request is.  It    *)
(* says nothing of a kernel that has panicked.                             *)
(***************************************************************************)
EXTENDS NvmeMailbox, TLAPS

\* How long, in seconds, a prover may take over one leaf.
USE ZenonT(60)

Waiting == {"start", "loop", "persist"}
KernelT == [at : {"idle", "direct", "direct_wait", "post", "op", "wait", "copy", "launch", "done",
                  "failed"},
            request : Command, ok : BOOLEAN, handed_off : BOOLEAN, early : BOOLEAN]
MailboxT == [active : BOOLEAN, op : Command, arg : Command, queue : Position,
             status : Status \cup {"pending"}]
NvmedT == [at : {"absent", "start", "loop", "submit", "wait", "status", "clear", "persist"},
           queue : Position, request : Command, result : Status]

\* The kernel has the queue until nvmed is known to be up.
Roles ==
    /\ mb.active => kernel.handed_off
    /\ kernel.handed_off <=> nvmed.at # "absent"
    /\ kernel.at = "launch" => kernel.handed_off /\ ~mb.active
    /\ kernel.at \in {"direct", "direct_wait"} => ~mb.active
    /\ kernel.at \in {"post", "op", "wait", "copy"} => mb.active
    /\ ~mb.active => /\ mb.op = None /\ nvmed.at \in {"absent"} \cup Waiting
                     /\ nvmed.result = "ok"
    /\ mb.op # None => mb.arg \in Request
    /\ kernel.at \notin {"idle", "launch", "failed"} => kernel.request \in Request

\* nvmed works on the request the kernel waits for, and on no other.
Protocol ==
    kernel.at # "failed" /\ mb.active =>
        /\ nvmed.at \in {"submit", "wait", "status"} =>
              kernel.at = "wait" /\ mb.status = "pending" /\ nvmed.request = kernel.request
        /\ nvmed.at \in Waiting /\ mb.op # None =>
              kernel.at = "wait" /\ mb.status = "pending" /\ mb.op = kernel.request
        /\ kernel.at \in {"op", "wait"} => mb.arg = kernel.request
        /\ kernel.at = "op" => mb.status = "pending"
        /\ kernel.at = "wait" /\ mb.status # "pending" =>
              nvmed.at \in {"clear", "persist", "loop"} /\ mb.status = nvmed.result
        /\ kernel.at = "copy" => (kernel.ok <=> nvmed.result = "ok")

\* An error of nvmed is on its way to the kernel's assertion.
Errors ==
    kernel.at # "failed" /\ nvmed.result = "error" =>
        \/ kernel.at = "wait" /\ nvmed.at = "status"
        \/ kernel.at = "wait" /\ mb.status = "error" /\ nvmed.at \in {"clear", "persist", "loop"}
        \/ kernel.at = "copy" /\ nvmed.at \in {"clear", "persist", "loop"}

\* A request that was not early has not been overlooked.
NotOverlooked ==
    kernel.at = "wait" /\ mb.status = "pending" /\ ~kernel.early =>
        nvmed.at \in {"submit", "wait", "status"} \/ (nvmed.at \in Waiting /\ mb.op # None)

\* The completions of this lap have its phase, the others that of the last.
Phases ==
    /\ device.tail = device.head
    /\ \A i \in Index : cq[i].phase = (IF i < device.tail THEN device.phase ELSE ~device.phase)

Owner == IF ~mb.active THEN io ELSE IF nvmed.at = "start" THEN mb.queue ELSE nvmed.queue
Buffer == IF mb.active THEN "mailbox" ELSE "caller"
Busy == kernel.at = "direct_wait" \/ nvmed.at = "wait"

\* The queue at rest, with a command for the device, with its completion.
AtRest(q) ==
    /\ device.doorbell = device.head /\ q.tail = device.head
    /\ q.head = device.tail /\ q.phase = device.phase
Submits(q, r, prp) ==
    /\ device.doorbell = Advance(device.head) /\ q.tail = Advance(device.head)
    /\ q.head = device.tail /\ q.phase = device.phase
    /\ sq[device.head] = [cid |-> q.cid, request |-> r, prp |-> prp]
Answered(q) ==
    /\ device.doorbell = device.head /\ q.tail = device.head
    /\ Consumed(q).head = device.tail /\ Consumed(q).phase = device.phase
    /\ Completed(q)

\* What is on the disk before and after the request is carried out.
Before(r, b) ==
    IF r.op = "write" THEN written = [disk EXCEPT ![r.lba] = buf[b]] ELSE disk = written
After(r, b) == disk = written /\ (r.op = "read" => buf[b] = written[r.lba])

Queue ==
    kernel.at # "failed" /\ nvmed.result = "ok" =>
        /\ ~Busy => AtRest(Owner)
        /\ Busy => \/ Submits(Owner, kernel.request, Buffer) /\ Before(kernel.request, Buffer)
                   \/ /\ Answered(Owner)
                      /\ cq[Owner.head].status = "ok" => After(kernel.request, Buffer)
        /\ kernel.at = "launch" =>
             LET q == IF nvmed.at = "start" THEN mb.queue ELSE nvmed.queue
             IN  q.tail = io.tail /\ q.head = io.head /\ q.phase = io.phase

Data ==
    kernel.at # "failed" /\ nvmed.result = "ok" =>
        /\ kernel.at \in {"direct", "post"} => Before(kernel.request, "caller")
        /\ kernel.at = "op" => Before(kernel.request, "mailbox")
        /\ kernel.at = "wait" /\ mb.status = "pending" /\ nvmed.at \notin {"wait", "status"} =>
              Before(kernel.request, "mailbox")
        /\ kernel.at = "wait" /\ (nvmed.at = "status" \/ mb.status = "ok") =>
              After(kernel.request, "mailbox")
        /\ kernel.at = "copy" => After(kernel.request, "mailbox")
        /\ kernel.at \in {"idle", "launch", "done"} => disk = written
        /\ kernel.at = "done" => After(kernel.request, "caller")

NvmeInv == TypeOK /\ Roles /\ Protocol /\ Errors /\ NotOverlooked /\ Phases /\ Queue /\ Data

-----------------------------------------------------------------------------
(* The rings *)

\* Positions stay inside the ring, and a ring has more than one place.
LEMMA AdvanceFacts ==
    ASSUME NEW i \in Index
    PROVE  /\ Advance(i) = IF i = QD - 1 THEN 0 ELSE i + 1
           /\ Advance(i) \in Index /\ Advance(i) # i
  <1>1. Advance(i) = IF i = QD - 1 THEN 0 ELSE i + 1
    <2>1. CASE i = QD - 1
      <3>1. i + 1 = QD
        BY <2>1, QDIsPlural, SMTT(60)
      <3>2. QD % QD = 0
        BY QDIsPlural, SMTT(60)
      <3> QED
        BY <2>1, <3>1, <3>2 DEF Advance
    <2>2. CASE i # QD - 1
      BY <2>2, QDIsPlural, SMTT(60) DEF Advance, Index
    <2> QED
      BY <2>1, <2>2
  <1> QED
    BY <1>1, QDIsPlural, SMTT(60) DEF Index

\* The position after a command.
LEMMA SubmittedFacts ==
    ASSUME NEW q \in Position
    PROVE  /\ Submitted(q) \in Position
           /\ Submitted(q).tail = Advance(q.tail) /\ Submitted(q).head = q.head
           /\ Submitted(q).phase = q.phase
  <1>1. (q.cid + 1) % CIDS \in Cid
    <2>1. q.cid \in Nat
      BY SMTT(60) DEF Position, Cid
    <2> QED
      BY <2>1, CidsIsPositive, SMTT(60) DEF Cid
  <1>2. Advance(q.tail) \in Index
    BY AdvanceFacts DEF Position
  <1> QED
    BY <1>1, <1>2, ZenonT(60) DEF Submitted, Position

\* The position after its completion.
LEMMA ConsumedFacts ==
    ASSUME NEW q \in Position
    PROVE  /\ Consumed(q) \in Position
           /\ Consumed(q).tail = q.tail /\ Consumed(q).head = Advance(q.head)
           /\ Consumed(q).phase = (IF Advance(q.head) = 0 THEN ~q.phase ELSE q.phase)
           /\ Consumed(q).cid = q.cid
  <1>1. Advance(q.head) \in Index
    BY AdvanceFacts DEF Position
  <1> QED
    BY <1>1, ZenonT(60) DEF Consumed, Position

\* The types of the fields.
LEMMA Fields ==
    ASSUME TypeOK
    PROVE  /\ io \in Position /\ mb.queue \in Position /\ nvmed.queue \in Position
           /\ device.head \in Index /\ device.tail \in Index /\ device.doorbell \in Index
           /\ device.phase \in BOOLEAN
           /\ nvmed.result \in {"ok", "error"} /\ mb.status \in {"ok", "error", "pending"}
           /\ mb.active \in BOOLEAN /\ kernel.handed_off \in BOOLEAN
           /\ kernel.ok \in BOOLEAN /\ kernel.early \in BOOLEAN
           /\ kernel.request \in Command /\ mb.op \in Command /\ mb.arg \in Command
           /\ nvmed.request \in Command
  BY DEF TypeOK, Status

\* A request is not None, and says what it is and where.
LEMMA Requests ==
    ASSUME NEW r \in Request
    PROVE  /\ r \in Command /\ r # None /\ r.lba \in Lbas /\ (r.op = "read" \/ r.op = "write")
           /\ r = [op |-> r.op, lba |-> r.lba]
  BY SMTT(60) DEF Request, Command, None

\* A kernel that has not panicked finds no error of nvmed unless it waits.
LEMMA NoError ==
    ASSUME TypeOK, Errors, kernel.at \notin {"wait", "copy", "failed"}
    PROVE  nvmed.result = "ok"
  BY Fields DEF Errors

-----------------------------------------------------------------------------
(* The kernel *)

\* A call finds the queue at rest and the disk as it was last written.
LEMMA CallStep ==
    ASSUME NvmeInv, NEW r \in Request, NEW v \in Values, call(r, v)
    PROVE  NvmeInv'
  <1>i. TypeOK /\ Roles /\ Protocol /\ Errors /\ NotOverlooked /\ Phases /\ Queue /\ Data
    BY DEF NvmeInv
  <1>u. sq' = sq /\ cq' = cq /\ device' = device /\ disk' = disk /\ io' = io /\ mb' = mb /\ nvmed' = nvmed
    BY DEF call
  <1>k. /\ kernel.at \in {"idle", "done"}
        /\ kernel'.at = (IF mb.active THEN "post" ELSE "direct") /\ kernel'.request = r
        /\ kernel'.ok = kernel.ok /\ kernel'.handed_off = kernel.handed_off
        /\ kernel'.early = kernel.early
    BY <1>i DEF call, TypeOK
  <1>e. nvmed.result = "ok"
    BY <1>i, <1>k, NoError
  <1>d. /\ disk = written /\ buf'["caller"] = v
        /\ written' = IF r.op = "write" THEN [written EXCEPT ![r.lba] = v] ELSE written
    BY <1>i, <1>k, <1>e DEF call, Data, TypeOK
  <1>b. Before(r, "caller")'
    BY <1>d, <1>u DEF Before
  <1>1. TypeOK'
    <2>1. kernel' \in KernelT
      BY <1>i, Requests, ZenonT(60) DEF call, TypeOK, KernelT
    <2>2. buf' \in [{"caller", "mailbox"} -> Blocks] /\ written' \in [Lbas -> Blocks]
      BY <1>i, Requests DEF call, TypeOK, Blocks
    <2> QED
      BY <1>i, <1>u, <2>1, <2>2 DEF TypeOK, KernelT
  <1>2. Roles'
    BY <1>i, <1>u, <1>k DEF Roles
  <1>3. Protocol'
    BY <1>i, <1>u, <1>k DEF Protocol
  <1>4. Errors' /\ NotOverlooked' /\ Phases'
    BY <1>i, <1>u, <1>k, <1>e DEF Errors, NotOverlooked, Phases
  <1>5. Queue'
    <2>1. Owner' = Owner /\ Buffer' = Buffer /\ (Busy' <=> Busy) /\ ~Busy
      BY <1>i, <1>u, <1>k DEF Owner, Buffer, Busy, Roles, Protocol, Waiting
    <2>2. AtRest(Owner)
      BY <1>i, <1>k, <1>e, <2>1 DEF Queue
    <2> QED
      BY <1>k, <1>u, <2>1, <2>2 DEF Queue, AtRest
  <1>6. Data'
    BY <1>k, <1>b DEF Data
  <1> QED
    BY <1>1, <1>2, <1>3, <1>4, <1>5, <1>6 DEF NvmeInv

\* The direct path submits on the queue at rest.
LEMMA DirectSubmitStep ==
    ASSUME NvmeInv, direct_submit
    PROVE  NvmeInv'
  <1>i. TypeOK /\ Roles /\ Protocol /\ Errors /\ NotOverlooked /\ Phases /\ Queue /\ Data
    BY DEF NvmeInv
  <1>u. cq' = cq /\ disk' = disk /\ buf' = buf /\ mb' = mb /\ nvmed' = nvmed /\ written' = written
    BY DEF direct_submit
  <1>k. /\ kernel.at = "direct" /\ kernel'.at = "direct_wait" /\ kernel'.request = kernel.request
        /\ kernel'.ok = kernel.ok /\ kernel'.handed_off = kernel.handed_off
        /\ kernel'.early = kernel.early
    BY <1>i DEF direct_submit, TypeOK
  <1>a. ~mb.active /\ nvmed.result = "ok" /\ kernel.request \in Request /\ nvmed.at # "wait"
    BY <1>i, <1>k DEF Roles, Waiting
  <1>q. /\ io' = Submitted(io) /\ io' \in Position /\ io'.tail = Advance(io.tail) /\ io'.head = io.head
        /\ io'.phase = io.phase /\ io.tail \in Index /\ Advance(io.tail) \in Index
    BY <1>i, Fields, SubmittedFacts, AdvanceFacts DEF direct_submit, Position
  <1>r. AtRest(io) /\ Before(kernel.request, "caller")
    BY <1>i, <1>k, <1>a DEF Queue, Data, Busy, Owner
  <1>s. /\ sq' = [sq EXCEPT ![io.tail] = [cid |-> io'.cid, request |-> kernel.request, prp |-> "caller"]]
        /\ device' = [device EXCEPT !.doorbell = io'.tail]
    BY <1>q DEF direct_submit, q_submit
  <1>v. /\ device'.doorbell = io'.tail /\ device'.head = device.head /\ device'.tail = device.tail
        /\ device'.phase = device.phase
    BY <1>i, <1>s DEF TypeOK
  <1>1. TypeOK'
    <2>1. kernel' \in KernelT
      BY <1>i DEF direct_submit, TypeOK, KernelT
    <2>2. sq' \in [Index -> [cid : Cid, request : Command, prp : {"caller", "mailbox"}]]
      BY <1>i, <1>a, <1>q, <1>s, Requests DEF TypeOK, Position
    <2>3. device' \in [head : Index, doorbell : Index, tail : Index, phase : BOOLEAN]
      BY <1>i, <1>q, <1>s DEF TypeOK
    <2> QED
      BY <1>i, <1>u, <1>q, <2>1, <2>2, <2>3 DEF TypeOK, KernelT
  <1>2. Roles'
    BY <1>i, <1>u, <1>k DEF Roles
  <1>3. Protocol' /\ Errors' /\ NotOverlooked' /\ Phases'
    BY <1>i, <1>u, <1>k, <1>a, <1>v DEF Protocol, Errors, NotOverlooked, Phases
  <1>4. Queue'
    <2>1. sq'[device.head] = [cid |-> io'.cid, request |-> kernel.request, prp |-> "caller"]
      BY <1>i, <1>q, <1>r, <1>s DEF AtRest, TypeOK
    <2>2. Owner' = io' /\ Buffer' = "caller" /\ Busy'
      BY <1>u, <1>k, <1>a DEF Owner, Buffer, Busy
    <2>3. Submits(io, kernel.request, "caller")'
      BY <1>k, <1>q, <1>r, <1>v, <2>1 DEF Submits, AtRest
    <2>4. Before(kernel.request, "caller")'
      BY <1>k, <1>u, <1>r DEF Before
    <2> QED
      BY <1>k, <2>2, <2>3, <2>4 DEF Queue
  <1>5. Data'
    BY <1>k DEF Data
  <1> QED
    BY <1>1, <1>2, <1>3, <1>4, <1>5 DEF NvmeInv

\* The direct path finds the completion of its command.
LEMMA DirectDoneStep ==
    ASSUME NvmeInv, direct_done
    PROVE  NvmeInv'
  <1>i. TypeOK /\ Roles /\ Protocol /\ Errors /\ NotOverlooked /\ Phases /\ Queue /\ Data
    BY DEF NvmeInv
  <1>u. /\ sq' = sq /\ cq' = cq /\ device' = device /\ disk' = disk /\ buf' = buf /\ mb' = mb
        /\ nvmed' = nvmed /\ written' = written
    BY DEF direct_done
  <1>k. /\ kernel.at = "direct_wait" /\ kernel'.request = kernel.request
        /\ kernel'.at = (IF cq[io.head].status = "ok" THEN "done" ELSE "failed")
        /\ kernel'.ok = kernel.ok /\ kernel'.handed_off = kernel.handed_off
        /\ kernel'.early = kernel.early
    BY <1>i DEF direct_done, TypeOK
  <1>a. ~mb.active /\ nvmed.result = "ok" /\ kernel.request \in Request /\ nvmed.at # "wait"
    BY <1>i, <1>k DEF Roles, Waiting
  <1>q. io' = Consumed(io) /\ io' \in Position /\ io'.tail = io.tail
    BY <1>i, Fields, ConsumedFacts DEF direct_done
  <1>c. Completed(io) /\ ~(Submits(io, kernel.request, "caller"))
    <2>1. Completed(io)
      BY DEF direct_done
    <2>2. ASSUME Submits(io, kernel.request, "caller") PROVE FALSE
      <3>1. device.tail \in Index /\ device.phase \in BOOLEAN /\ cq[device.tail].phase = device.phase
        BY <1>i, <2>1, <2>2, Fields DEF Submits, Completed
      <3>2. ~(device.tail < device.tail)
        BY <3>1, SMTT(60) DEF Index
      <3> QED
        BY <1>i, <3>1, <3>2 DEF Phases
    <2> QED
      BY <2>1, <2>2
  <1>r. Answered(io) /\ (cq[io.head].status = "ok" => After(kernel.request, "caller"))
    BY <1>i, <1>k, <1>a, <1>c DEF Queue, Busy, Owner, Buffer
  <1>1. TypeOK'
    <2>1. kernel' \in KernelT
      BY <1>i DEF direct_done, TypeOK, KernelT
    <2> QED
      BY <1>i, <1>u, <1>q, <2>1 DEF TypeOK, KernelT
  <1>2. Roles'
    BY <1>i, <1>u, <1>k DEF Roles
  <1>3. Protocol' /\ Errors' /\ NotOverlooked' /\ Phases'
    BY <1>i, <1>u, <1>k, <1>a DEF Protocol, Errors, NotOverlooked, Phases
  <1>4. Queue'
    <2>1. Owner' = io' /\ ~Busy'
      BY <1>u, <1>k, <1>a DEF Owner, Busy
    <2>2. AtRest(io)'
      BY <1>u, <1>q, <1>r DEF AtRest, Answered
    <2> QED
      BY <1>k, <2>1, <2>2 DEF Queue
  <1>5. Data'
    <2>1. ASSUME cq[io.head].status = "ok" PROVE After(kernel.request, "caller")' /\ disk' = written'
      BY <1>k, <1>u, <1>r, <2>1 DEF After
    <2> QED
      BY <1>k, <2>1 DEF Data
  <1> QED
    BY <1>1, <1>2, <1>3, <1>4, <1>5 DEF NvmeInv

\* Nothing is claimed of a kernel that gave up.
LEMMA GiveUpStep ==
    ASSUME NvmeInv, give_up
    PROVE  NvmeInv'
  <1>i. TypeOK /\ Roles /\ Phases
    BY DEF NvmeInv
  <1>u. /\ sq' = sq /\ cq' = cq /\ device' = device /\ disk' = disk /\ buf' = buf /\ io' = io
        /\ mb' = mb /\ nvmed' = nvmed /\ written' = written
    BY DEF give_up
  <1>k. /\ kernel.at \in {"direct_wait", "wait"} /\ kernel'.at = "failed"
        /\ kernel'.handed_off = kernel.handed_off
    BY <1>i DEF give_up, TypeOK
  <1>1. TypeOK'
    <2>1. kernel' \in KernelT
      BY <1>i, ZenonT(60) DEF give_up, TypeOK, KernelT
    <2> QED
      BY <1>i, <1>u, <2>1 DEF TypeOK, KernelT
  <1>2. Roles'
    BY <1>i, <1>u, <1>k DEF Roles
  <1>3. Phases'
    BY <1>i, <1>u DEF Phases
  <1> QED
    BY <1>k, <1>1, <1>2, <1>3 DEF NvmeInv, Protocol, Errors, NotOverlooked, Queue, Data

\* The arguments are posted while nvmed is not at work.
LEMMA MailboxPostStep ==
    ASSUME NvmeInv, mailbox_post
    PROVE  NvmeInv'
  <1>i. TypeOK /\ Roles /\ Protocol /\ Errors /\ NotOverlooked /\ Phases /\ Queue /\ Data
    BY DEF NvmeInv
  <1>u. /\ sq' = sq /\ cq' = cq /\ device' = device /\ disk' = disk /\ io' = io /\ nvmed' = nvmed
        /\ written' = written
    BY DEF mailbox_post
  <1>k. /\ kernel.at = "post" /\ kernel'.at = "op" /\ kernel'.request = kernel.request
        /\ kernel'.ok = kernel.ok /\ kernel'.handed_off = kernel.handed_off
        /\ kernel'.early = kernel.early
    BY <1>i DEF mailbox_post, TypeOK
  <1>m. /\ mb'.arg = kernel.request /\ mb'.status = "pending" /\ mb'.op = mb.op
        /\ mb'.active = mb.active /\ mb'.queue = mb.queue
    BY <1>i DEF mailbox_post, TypeOK
  <1>a. /\ mb.active /\ nvmed.result = "ok" /\ kernel.request \in Request
        /\ nvmed.at \notin {"submit", "wait", "status"}
    BY <1>i, <1>k, NoError DEF Roles, Protocol
  <1>d. Before(kernel.request, "mailbox")'
    <2>1. Before(kernel.request, "caller")
      BY <1>i, <1>k, <1>a DEF Data
    <2>2. kernel.request.op = "write" => buf'["mailbox"] = buf["caller"]
      BY <1>i DEF mailbox_post, TypeOK
    <2> QED
      BY <1>k, <1>u, <2>1, <2>2 DEF Before
  <1>1. TypeOK'
    <2>1. kernel' \in KernelT
      BY <1>i DEF mailbox_post, TypeOK, KernelT
    <2>2. mb' \in MailboxT
      BY <1>i, ZenonT(60) DEF mailbox_post, TypeOK, MailboxT
    <2>3. buf' \in [{"caller", "mailbox"} -> Blocks]
      BY <1>i DEF mailbox_post, TypeOK
    <2> QED
      BY <1>i, <1>u, <2>1, <2>2, <2>3 DEF TypeOK, KernelT, MailboxT
  <1>2. Roles'
    BY <1>i, <1>u, <1>k, <1>m, <1>a DEF Roles
  <1>3. Protocol'
    BY <1>i, <1>u, <1>k, <1>m, <1>a DEF Protocol
  <1>4. Errors' /\ NotOverlooked' /\ Phases'
    BY <1>i, <1>u, <1>k, <1>a DEF Errors, NotOverlooked, Phases
  <1>5. Queue'
    <2>1. Owner' = Owner /\ ~Busy /\ ~Busy'
      BY <1>u, <1>k, <1>m, <1>a DEF Owner, Busy
    <2>2. AtRest(Owner)
      BY <1>i, <1>k, <1>a, <2>1 DEF Queue
    <2> QED
      BY <1>k, <1>u, <2>1, <2>2 DEF Queue, AtRest
  <1>6. Data'
    BY <1>k, <1>d DEF Data
  <1> QED
    BY <1>1, <1>2, <1>3, <1>4, <1>5, <1>6 DEF NvmeInv

\* With op the request is nvmed's, unless nvmed has yet to clear the last one.
LEMMA MailboxOpStep ==
    ASSUME NvmeInv, mailbox_op
    PROVE  NvmeInv'
  <1>i. TypeOK /\ Roles /\ Protocol /\ Errors /\ NotOverlooked /\ Phases /\ Queue /\ Data
    BY DEF NvmeInv
  <1>u. /\ sq' = sq /\ cq' = cq /\ device' = device /\ disk' = disk /\ buf' = buf /\ io' = io
        /\ nvmed' = nvmed /\ written' = written
    BY DEF mailbox_op
  <1>k. /\ kernel.at = "op" /\ kernel'.at = "wait" /\ kernel'.request = kernel.request
        /\ kernel'.ok = kernel.ok /\ kernel'.handed_off = kernel.handed_off
        /\ kernel'.early = (nvmed.at = "clear")
    BY <1>i DEF mailbox_op, TypeOK
  <1>m. /\ mb'.op = kernel.request /\ mb'.status = mb.status /\ mb'.arg = mb.arg
        /\ mb'.active = mb.active /\ mb'.queue = mb.queue
    BY <1>i DEF mailbox_op, TypeOK
  <1>a. /\ mb.active /\ nvmed.result = "ok" /\ kernel.request \in Request /\ kernel.request # None
        /\ nvmed.at \in Waiting \cup {"clear"} /\ mb.status = "pending" /\ mb.arg = kernel.request
    <2>1. mb.active /\ nvmed.result = "ok" /\ kernel.request \in Request
      BY <1>i, <1>k, NoError DEF Roles
    <2> QED
      BY <1>i, <1>k, <2>1, Requests DEF Roles, Protocol, TypeOK, Waiting
  <1>1. TypeOK'
    <2>1. kernel' \in KernelT
      BY <1>i, ZenonT(60) DEF mailbox_op, TypeOK, KernelT
    <2>2. mb' \in MailboxT
      BY <1>i DEF mailbox_op, TypeOK, MailboxT
    <2> QED
      BY <1>i, <1>u, <2>1, <2>2 DEF TypeOK, KernelT, MailboxT
  <1>2. Roles'
    BY <1>i, <1>u, <1>k, <1>m, <1>a DEF Roles
  <1>3. Protocol'
    BY <1>i, <1>u, <1>k, <1>m, <1>a DEF Protocol, Waiting
  <1>4. Errors' /\ NotOverlooked' /\ Phases'
    BY <1>i, <1>u, <1>k, <1>m, <1>a, ZenonT(60) DEF Errors, NotOverlooked, Phases
  <1>5. Queue'
    <2>1. Owner' = Owner /\ ~Busy /\ ~Busy'
      BY <1>u, <1>k, <1>m, <1>a DEF Owner, Busy, Waiting
    <2>2. AtRest(Owner)
      BY <1>i, <1>k, <1>a, <2>1 DEF Queue
    <2> QED
      BY <1>k, <1>u, <2>1, <2>2 DEF Queue, AtRest
  <1>6. Data'
    <2>1. Before(kernel.request, "mailbox")'
      BY <1>i, <1>k, <1>u, <1>a DEF Data, Before
    <2> QED
      BY <1>k, <1>m, <1>a, <1>u, <2>1 DEF Data, Waiting
  <1> QED
    BY <1>1, <1>2, <1>3, <1>4, <1>5, <1>6 DEF NvmeInv

\* The answer is that of nvmed's last command.
LEMMA MailboxAnswerStep ==
    ASSUME NvmeInv, mailbox_answer
    PROVE  NvmeInv'
  <1>i. TypeOK /\ Roles /\ Protocol /\ Errors /\ NotOverlooked /\ Phases /\ Queue /\ Data
    BY DEF NvmeInv
  <1>u. /\ sq' = sq /\ cq' = cq /\ device' = device /\ disk' = disk /\ buf' = buf /\ io' = io
        /\ mb' = mb /\ nvmed' = nvmed /\ written' = written
    BY DEF mailbox_answer
  <1>k. /\ kernel.at = "wait" /\ kernel'.at = "copy" /\ kernel'.request = kernel.request
        /\ kernel'.ok = (mb.status = "ok") /\ kernel'.handed_off = kernel.handed_off
        /\ kernel'.early = kernel.early /\ mb.status # "pending"
    BY <1>i DEF mailbox_answer, TypeOK
  <1>a. /\ mb.active /\ kernel.request \in Request /\ nvmed.at \in {"clear", "persist", "loop"}
        /\ mb.status = nvmed.result
    BY <1>i, <1>k DEF Roles, Protocol
  <1>1. TypeOK'
    <2>1. kernel' \in KernelT
      BY <1>i, ZenonT(60) DEF mailbox_answer, TypeOK, KernelT
    <2> QED
      BY <1>i, <1>u, <2>1 DEF TypeOK, KernelT
  <1>2. Roles'
    BY <1>i, <1>u, <1>k, <1>a DEF Roles
  <1>3. Protocol'
    BY <1>i, <1>u, <1>k, <1>a, ZenonT(60) DEF Protocol, Waiting
  <1>4. Errors' /\ NotOverlooked' /\ Phases'
    BY <1>i, <1>u, <1>k, <1>a DEF Errors, NotOverlooked, Phases
  <1>5. Queue'
    <2>1. Owner' = Owner /\ ~Busy /\ ~Busy'
      BY <1>u, <1>k, <1>a DEF Owner, Busy
    <2>2. nvmed.result = "ok" => AtRest(Owner)
      BY <1>i, <1>k, <1>a, <2>1 DEF Queue
    <2> QED
      BY <1>k, <1>u, <2>1, <2>2 DEF Queue, AtRest
  <1>6. Data'
    <2>1. nvmed.result = "ok" => After(kernel.request, "mailbox")'
      BY <1>i, <1>k, <1>u, <1>a DEF Data, After
    <2> QED
      BY <1>k, <1>u, <2>1 DEF Data
  <1> QED
    BY <1>1, <1>2, <1>3, <1>4, <1>5, <1>6 DEF NvmeInv

\* The data of a read reaches the caller.
LEMMA MailboxCopyStep ==
    ASSUME NvmeInv, mailbox_copy
    PROVE  NvmeInv'
  <1>i. TypeOK /\ Roles /\ Protocol /\ Errors /\ NotOverlooked /\ Phases /\ Queue /\ Data
    BY DEF NvmeInv
  <1>u. /\ sq' = sq /\ cq' = cq /\ device' = device /\ disk' = disk /\ io' = io
        /\ nvmed' = nvmed /\ written' = written
    BY DEF mailbox_copy
  <1>k. /\ kernel.at = "copy" /\ kernel'.at = (IF kernel.ok THEN "done" ELSE "failed")
        /\ kernel'.request = kernel.request /\ kernel'.ok = kernel.ok
        /\ kernel'.handed_off = kernel.handed_off /\ kernel'.early = kernel.early
    BY <1>i DEF mailbox_copy, TypeOK
  <1>m. /\ mb'.status = "pending" /\ mb'.op = mb.op /\ mb'.arg = mb.arg
        /\ mb'.active = mb.active /\ mb'.queue = mb.queue
    BY <1>i DEF mailbox_copy, TypeOK
  <1>a. /\ mb.active /\ kernel.request \in Request
        /\ nvmed.at \notin {"submit", "wait", "status"} /\ (kernel.ok <=> nvmed.result = "ok")
        /\ nvmed.at \in Waiting => mb.op = None
    BY <1>i, <1>k DEF Roles, Protocol
  <1>1. TypeOK'
    <2>1. kernel' \in KernelT
      BY <1>i DEF mailbox_copy, TypeOK, KernelT
    <2>2. mb' \in MailboxT
      BY <1>i DEF mailbox_copy, TypeOK, MailboxT
    <2>3. buf' \in [{"caller", "mailbox"} -> Blocks]
      BY <1>i DEF mailbox_copy, TypeOK
    <2> QED
      BY <1>i, <1>u, <2>1, <2>2, <2>3 DEF TypeOK, KernelT, MailboxT
  <1>2. Roles'
    BY <1>i, <1>u, <1>k, <1>m, <1>a DEF Roles
  <1>3. Protocol'
    BY <1>i, <1>u, <1>k, <1>m, <1>a DEF Protocol, Waiting
  <1>4. Errors' /\ NotOverlooked' /\ Phases'
    <2>1. nvmed.result \in {"ok", "error"}
      BY <1>i, Fields
    <2> QED
      BY <1>i, <1>u, <1>k, <1>m, <1>a, <2>1 DEF Errors, NotOverlooked, Phases
  <1>5. Queue'
    <2>1. Owner' = Owner /\ ~Busy /\ ~Busy'
      BY <1>u, <1>k, <1>m, <1>a DEF Owner, Busy
    <2>2. nvmed.result = "ok" => AtRest(Owner)
      BY <1>i, <1>k, <1>a, <2>1 DEF Queue
    <2> QED
      BY <1>k, <1>u, <2>1, <2>2 DEF Queue, AtRest
  <1>6. Data'
    <2>1. nvmed.result = "ok" => After(kernel.request, "mailbox")
      BY <1>i, <1>k DEF Data
    <2>2. kernel.ok /\ kernel.request.op = "read" => buf'["caller"] = buf["mailbox"]
      BY <1>i DEF mailbox_copy, TypeOK
    <2>3. kernel.ok => After(kernel.request, "caller")' /\ disk' = written'
      BY <1>a, <1>k, <1>u, <2>1, <2>2 DEF After
    <2> QED
      BY <1>k, <1>a, <2>3 DEF Data
  <1> QED
    BY <1>1, <1>2, <1>3, <1>4, <1>5, <1>6 DEF NvmeInv

-----------------------------------------------------------------------------
(* The hand-over *)

\* nvmed gets the position at which the kernel left the queue.
LEMMA HandoffStep ==
    ASSUME NvmeInv, handoff_to_nvmed
    PROVE  NvmeInv'
  <1>i. TypeOK /\ Roles /\ Protocol /\ Errors /\ NotOverlooked /\ Phases /\ Queue /\ Data
    BY DEF NvmeInv
  <1>u. /\ sq' = sq /\ cq' = cq /\ device' = device /\ disk' = disk /\ buf' = buf /\ io' = io
        /\ written' = written
    BY DEF handoff_to_nvmed
  <1>k. /\ kernel.at \in {"idle", "done"} /\ ~kernel.handed_off
        /\ kernel'.at = "launch" /\ kernel'.handed_off = TRUE
    BY <1>i DEF handoff_to_nvmed, TypeOK
  <1>q. /\ [io EXCEPT !.cid = 0] \in Position
        /\ [io EXCEPT !.cid = 0].tail = io.tail /\ [io EXCEPT !.cid = 0].head = io.head
        /\ [io EXCEPT !.cid = 0].phase = io.phase
    <2>1. 0 \in Cid
      BY CidsIsPositive, SMTT(60) DEF Cid
    <2> QED
      BY <1>i, <2>1, Fields DEF Position
  <1>m. /\ mb'.status = "pending" /\ mb'.op = None /\ mb'.arg = None
        /\ mb'.active = FALSE /\ mb'.queue = [io EXCEPT !.cid = 0]
    BY DEF handoff_to_nvmed
  <1>n. /\ nvmed.at = "absent" /\ nvmed'.at = "start" /\ nvmed'.result = nvmed.result
        /\ nvmed.result = "ok" /\ ~mb.active
    BY <1>i, <1>k DEF handoff_to_nvmed, TypeOK, Roles
  <1>1. TypeOK'
    <2>1. kernel' \in KernelT
      BY <1>i, ZenonT(60) DEF handoff_to_nvmed, TypeOK, KernelT
    <2>2. mb' \in MailboxT
      BY <1>i, <1>q DEF handoff_to_nvmed, MailboxT, Command, None
    <2>3. nvmed' \in NvmedT
      BY <1>i DEF handoff_to_nvmed, TypeOK, NvmedT
    <2> QED
      BY <1>i, <1>u, <2>1, <2>2, <2>3 DEF TypeOK, KernelT, MailboxT, NvmedT
  <1>2. Roles'
    BY <1>k, <1>m, <1>n DEF Roles, Waiting
  <1>3. Protocol' /\ Errors' /\ NotOverlooked' /\ Phases'
    BY <1>i, <1>u, <1>k, <1>m, <1>n DEF Protocol, Errors, NotOverlooked, Phases
  <1>4. Queue'
    <2>1. Owner = io /\ Owner' = io /\ ~Busy /\ ~Busy'
      BY <1>u, <1>k, <1>m, <1>n DEF Owner, Busy
    <2>2. AtRest(io)
      BY <1>i, <1>k, <1>n, <2>1 DEF Queue
    <2> QED
      BY <1>k, <1>u, <1>m, <1>n, <1>q, <2>1, <2>2 DEF Queue, AtRest
  <1>5. Data'
    BY <1>i, <1>k, <1>u, <1>n DEF Data
  <1> QED
    BY <1>1, <1>2, <1>3, <1>4, <1>5 DEF NvmeInv

\* From now on nvmed's position is the one that counts.
LEMMA HandoffDoneStep ==
    ASSUME NvmeInv, handoff_done
    PROVE  NvmeInv'
  <1>i. TypeOK /\ Roles /\ Protocol /\ Errors /\ NotOverlooked /\ Phases /\ Queue /\ Data
    BY DEF NvmeInv
  <1>u. /\ sq' = sq /\ cq' = cq /\ device' = device /\ disk' = disk /\ buf' = buf /\ io' = io
        /\ nvmed' = nvmed /\ written' = written
    BY DEF handoff_done
  <1>k. /\ kernel.at = "launch" /\ kernel'.at = "idle" /\ kernel'.handed_off = kernel.handed_off
    BY <1>i DEF handoff_done, TypeOK
  <1>m. /\ mb'.active = TRUE /\ mb'.op = mb.op /\ mb'.arg = mb.arg /\ mb'.status = mb.status
        /\ mb'.queue = mb.queue
    BY <1>i DEF handoff_done, TypeOK
  <1>a. /\ ~mb.active /\ mb.op = None /\ nvmed.at \in Waiting /\ nvmed.result = "ok"
        /\ kernel.handed_off
    BY <1>i, <1>k DEF Roles
  <1>1. TypeOK'
    <2>1. kernel' \in KernelT
      BY <1>i DEF handoff_done, TypeOK, KernelT
    <2>2. mb' \in MailboxT
      BY <1>i, ZenonT(60) DEF handoff_done, TypeOK, MailboxT
    <2> QED
      BY <1>i, <1>u, <2>1, <2>2 DEF TypeOK, KernelT, MailboxT
  <1>2. Roles'
    BY <1>k, <1>u, <1>m, <1>a DEF Roles, Waiting
  <1>3. Protocol' /\ Errors' /\ NotOverlooked' /\ Phases'
    BY <1>i, <1>u, <1>k, <1>m, <1>a DEF Protocol, Errors, NotOverlooked, Phases, Waiting
  <1>4. Queue'
    <2>1. Owner = io /\ ~Busy /\ ~Busy'
      BY <1>u, <1>k, <1>a DEF Owner, Busy, Waiting
    <2>2. AtRest(io)
      BY <1>i, <1>k, <1>a, <2>1 DEF Queue
    <2>3. Owner'.tail = io.tail /\ Owner'.head = io.head /\ Owner'.phase = io.phase
      BY <1>i, <1>k, <1>u, <1>m, <1>a DEF Queue, Owner
    <2> QED
      BY <1>k, <1>u, <2>1, <2>2, <2>3 DEF Queue, AtRest
  <1>5. Data'
    BY <1>i, <1>k, <1>u, <1>a DEF Data
  <1> QED
    BY <1>1, <1>2, <1>3, <1>4, <1>5 DEF NvmeInv

\* The kernel keeps the queue.
LEMMA HandoffFailedStep ==
    ASSUME NvmeInv, handoff_failed
    PROVE  NvmeInv'
  <1>i. TypeOK /\ Roles /\ Protocol /\ Errors /\ NotOverlooked /\ Phases /\ Queue /\ Data
    BY DEF NvmeInv
  <1>u. /\ sq' = sq /\ cq' = cq /\ device' = device /\ disk' = disk /\ buf' = buf /\ io' = io
        /\ mb' = mb /\ nvmed' = nvmed /\ written' = written
    BY DEF handoff_failed
  <1>k. /\ kernel.at = "launch" /\ kernel'.at = "idle" /\ kernel'.handed_off = kernel.handed_off
    BY <1>i DEF handoff_failed, TypeOK
  <1>a. ~mb.active /\ nvmed.at \in Waiting /\ nvmed.result = "ok"
    BY <1>i, <1>k DEF Roles
  <1>1. TypeOK'
    <2>1. kernel' \in KernelT
      BY <1>i DEF handoff_failed, TypeOK, KernelT
    <2> QED
      BY <1>i, <1>u, <2>1 DEF TypeOK, KernelT
  <1>2. Roles'
    BY <1>i, <1>k, <1>u, <1>a DEF Roles
  <1>3. Protocol' /\ Errors' /\ NotOverlooked' /\ Phases'
    BY <1>i, <1>u, <1>k, <1>a DEF Protocol, Errors, NotOverlooked, Phases
  <1>4. Queue'
    <2>1. Owner = io /\ Owner' = io /\ ~Busy /\ ~Busy'
      BY <1>u, <1>k, <1>a DEF Owner, Busy, Waiting
    <2>2. AtRest(io)
      BY <1>i, <1>k, <1>a, <2>1 DEF Queue
    <2> QED
      BY <1>k, <1>u, <2>1, <2>2 DEF Queue, AtRest
  <1>5. Data'
    BY <1>i, <1>k, <1>u, <1>a DEF Data
  <1> QED
    BY <1>1, <1>2, <1>3, <1>4, <1>5 DEF NvmeInv

-----------------------------------------------------------------------------
(* nvmed *)

\* nvmed takes its position from the mailbox.
LEMMA NvmedStartStep ==
    ASSUME NvmeInv, nvmed_start
    PROVE  NvmeInv'
  <1>i. TypeOK /\ Roles /\ Protocol /\ Errors /\ NotOverlooked /\ Phases /\ Queue /\ Data
    BY DEF NvmeInv
  <1>u. /\ sq' = sq /\ cq' = cq /\ device' = device /\ disk' = disk /\ buf' = buf /\ io' = io
        /\ mb' = mb /\ kernel' = kernel /\ written' = written
    BY DEF nvmed_start
  <1>n. /\ nvmed.at = "start" /\ nvmed'.at = "loop" /\ nvmed'.queue = mb.queue
        /\ nvmed'.request = nvmed.request /\ nvmed'.result = nvmed.result
    BY <1>i DEF nvmed_start, TypeOK
  <1>1. TypeOK'
    <2>1. nvmed' \in NvmedT
      BY <1>i, ZenonT(60) DEF nvmed_start, TypeOK, NvmedT
    <2> QED
      BY <1>i, <1>u, <2>1 DEF TypeOK, NvmedT
  <1>2. Roles'
    BY <1>i, <1>u, <1>n DEF Roles, Waiting
  <1>3. Protocol' /\ Errors' /\ NotOverlooked' /\ Phases'
    BY <1>i, <1>u, <1>n DEF Protocol, Errors, NotOverlooked, Phases, Waiting
  <1>4. Queue'
    <2>1. Owner' = Owner /\ Buffer' = Buffer /\ (Busy' <=> Busy)
      BY <1>u, <1>n DEF Owner, Buffer, Busy
    <2> QED
      BY <1>i, <1>u, <1>n, <2>1 DEF Queue, AtRest, Submits, Answered, Completed, Before, After
  <1>5. Data'
    BY <1>i, <1>u, <1>n DEF Data, Before, After
  <1> QED
    BY <1>1, <1>2, <1>3, <1>4, <1>5 DEF NvmeInv

\* nvmed finds the request of the waiting kernel, or none.
LEMMA NvmedPollStep ==
    ASSUME NvmeInv, nvmed_poll
    PROVE  NvmeInv'
  <1>i. TypeOK /\ Roles /\ Protocol /\ Errors /\ NotOverlooked /\ Phases /\ Queue /\ Data
    BY DEF NvmeInv
  <1>u. /\ sq' = sq /\ cq' = cq /\ device' = device /\ disk' = disk /\ buf' = buf /\ io' = io
        /\ mb' = mb /\ kernel' = kernel /\ written' = written
    BY DEF nvmed_poll
  <1>n. /\ nvmed.at = "loop" /\ nvmed'.at = (IF mb.op = None THEN "persist" ELSE "submit")
        /\ nvmed'.queue = nvmed.queue /\ nvmed'.result = nvmed.result
        /\ mb.op # None => nvmed'.request = [op |-> mb.op.op, lba |-> mb.arg.lba]
    BY <1>i DEF nvmed_poll, TypeOK
  <1>r. mb.op # None => mb.active /\ [op |-> mb.op.op, lba |-> mb.arg.lba] \in Request
    BY <1>i DEF Roles, TypeOK, Command, Request, None
  <1>s. mb.op # None /\ kernel.at # "failed" =>
          kernel.at = "wait" /\ mb.status = "pending" /\ nvmed'.request = kernel.request
    <2> SUFFICES ASSUME mb.op # None, kernel.at # "failed"
                 PROVE  kernel.at = "wait" /\ mb.status = "pending" /\ nvmed'.request = kernel.request
      OBVIOUS
    <2>1. kernel.at = "wait" /\ mb.status = "pending" /\ mb.op = kernel.request /\ mb.arg = kernel.request
      BY <1>i, <1>n, <1>r DEF Protocol, Waiting
    <2>2. kernel.request \in Request
      BY <1>i, <2>1 DEF Roles
    <2> QED
      BY <1>n, <2>1, <2>2, Requests
  <1>1. TypeOK'
    <2>1. nvmed' \in NvmedT
      BY <1>i, <1>r, ZenonT(60) DEF nvmed_poll, TypeOK, NvmedT, Command
    <2> QED
      BY <1>i, <1>u, <2>1 DEF TypeOK, NvmedT
  <1>2. Roles'
    BY <1>i, <1>u, <1>n, <1>r DEF Roles, Waiting
  <1>3. Protocol'
    BY <1>i, <1>u, <1>n, <1>r, <1>s DEF Protocol, Waiting
  <1>4. Errors' /\ NotOverlooked' /\ Phases'
    BY <1>i, <1>u, <1>n, <1>s DEF Errors, NotOverlooked, Phases, Waiting
  <1>5. Queue'
    <2>1. Owner' = Owner /\ Buffer' = Buffer /\ (Busy' <=> Busy)
      BY <1>u, <1>n DEF Owner, Buffer, Busy
    <2> QED
      BY <1>i, <1>u, <1>n, <2>1 DEF Queue, AtRest, Submits, Answered, Completed, Before, After
  <1>6. Data'
    BY <1>i, <1>u, <1>n DEF Data, Before, After
  <1> QED
    BY <1>1, <1>2, <1>3, <1>4, <1>5, <1>6 DEF NvmeInv

\* nvmed submits the kernel's request on the queue at rest.
LEMMA NvmedSubmitStep ==
    ASSUME NvmeInv, nvmed_submit
    PROVE  NvmeInv'
  <1>i. TypeOK /\ Roles /\ Protocol /\ Errors /\ NotOverlooked /\ Phases /\ Queue /\ Data
    BY DEF NvmeInv
  <1>u. /\ cq' = cq /\ disk' = disk /\ buf' = buf /\ io' = io /\ mb' = mb /\ kernel' = kernel
        /\ written' = written
    BY DEF nvmed_submit
  <1> DEFINE q == nvmed.queue
             p == Submitted(nvmed.queue)
  <1>q. /\ q \in Position /\ p \in Position /\ p.tail = Advance(q.tail) /\ p.head = q.head
        /\ p.phase = q.phase /\ q.tail \in Index /\ p.tail \in Index /\ p.cid \in Cid
    BY <1>i, Fields, SubmittedFacts DEF Position
  <1>n. /\ nvmed.at = "submit" /\ nvmed'.at = "wait" /\ nvmed'.queue = p
        /\ nvmed'.request = nvmed.request /\ nvmed'.result = nvmed.result
    BY <1>i DEF nvmed_submit, TypeOK
  <1>s. /\ sq' = [sq EXCEPT ![q.tail] = [cid |-> p.cid, request |-> nvmed.request, prp |-> "mailbox"]]
        /\ device' = [device EXCEPT !.doorbell = p.tail]
    BY DEF nvmed_submit, q_submit
  <1> HIDE DEF q, p
  <1>v. /\ device'.doorbell = p.tail /\ device'.head = device.head /\ device'.tail = device.tail
        /\ device'.phase = device.phase
    BY <1>i, <1>s DEF TypeOK
  <1>a. mb.active
    BY <1>i, <1>n DEF Roles, Waiting
  <1>w. kernel.at # "failed" => /\ kernel.at = "wait" /\ mb.status = "pending"
                                /\ nvmed.request = kernel.request /\ nvmed.result = "ok"
    BY <1>i, <1>n, <1>a, Fields DEF Protocol, Errors
  <1>1. TypeOK'
    <2>1. nvmed' \in NvmedT
      BY <1>i, <1>q, ZenonT(60) DEF nvmed_submit, TypeOK, NvmedT, p
    <2>2. sq' \in [Index -> [cid : Cid, request : Command, prp : {"caller", "mailbox"}]]
      BY <1>i, <1>q, <1>s DEF TypeOK
    <2>3. device' \in [head : Index, doorbell : Index, tail : Index, phase : BOOLEAN]
      BY <1>i, <1>q, <1>s, ZenonT(60) DEF TypeOK
    <2> QED
      BY <1>i, <1>u, <2>1, <2>2, <2>3 DEF TypeOK, NvmedT
  <1>2. Roles'
    BY <1>i, <1>u, <1>n, <1>a DEF Roles
  <1>3. Protocol'
    BY <1>i, <1>u, <1>n, <1>w DEF Protocol, Waiting
  <1>4. Errors' /\ NotOverlooked' /\ Phases'
    BY <1>i, <1>u, <1>n, <1>w, <1>v DEF Errors, NotOverlooked, Phases
  <1>5. Queue'
    <2> SUFFICES ASSUME kernel.at # "failed" PROVE Queue'
      BY <1>u DEF Queue
    <2>1. Owner = q /\ Owner' = p /\ Buffer' = "mailbox" /\ Busy' /\ ~Busy
      BY <1>u, <1>n, <1>a, <1>w DEF Owner, Buffer, Busy, q
    <2>2. AtRest(q)
      BY <1>i, <1>w, <2>1 DEF Queue
    <2>3. sq'[device.head] = [cid |-> p.cid, request |-> kernel.request, prp |-> "mailbox"]
      BY <1>i, <1>q, <1>s, <1>w, <2>2 DEF AtRest, TypeOK
    <2>4. Submits(Owner, kernel.request, "mailbox")'
      BY <1>q, <1>u, <1>v, <2>1, <2>2, <2>3 DEF Submits, AtRest
    <2>5. Before(kernel.request, "mailbox")'
      BY <1>i, <1>n, <1>u, <1>w DEF Data, Before
    <2> QED
      BY <1>u, <1>w, <2>1, <2>4, <2>5 DEF Queue
  <1>6. Data'
    BY <1>i, <1>u, <1>n, <1>w DEF Data
  <1> QED
    BY <1>1, <1>2, <1>3, <1>4, <1>5, <1>6 DEF NvmeInv

\* nvmed finds the completion of its command.
LEMMA NvmedCompleteStep ==
    ASSUME NvmeInv, nvmed_complete
    PROVE  NvmeInv'
  <1>i. TypeOK /\ Roles /\ Protocol /\ Errors /\ NotOverlooked /\ Phases /\ Queue /\ Data
    BY DEF NvmeInv
  <1>u. /\ sq' = sq /\ cq' = cq /\ device' = device /\ disk' = disk /\ buf' = buf /\ io' = io
        /\ mb' = mb /\ kernel' = kernel /\ written' = written
    BY DEF nvmed_complete
  <1> DEFINE q == nvmed.queue
  <1>q. /\ q \in Position /\ Consumed(q) \in Position /\ Consumed(q).tail = q.tail
        /\ q.head \in Index /\ cq[q.head].status \in Status
    BY <1>i, Fields, ConsumedFacts DEF Position, TypeOK
  <1>n. /\ nvmed.at = "wait" /\ nvmed'.at = "status" /\ nvmed'.queue = Consumed(q)
        /\ nvmed'.request = nvmed.request /\ nvmed'.result = cq[q.head].status /\ Completed(q)
    BY <1>i DEF nvmed_complete, TypeOK
  <1>a. mb.active
    BY <1>i, <1>n DEF Roles, Waiting
  <1>w. kernel.at # "failed" => /\ kernel.at = "wait" /\ mb.status = "pending"
                                /\ nvmed.request = kernel.request /\ nvmed.result = "ok"
    BY <1>i, <1>n, <1>a, Fields DEF Protocol, Errors
  <1>1. TypeOK'
    <2>1. nvmed' \in NvmedT
      BY <1>i, <1>q, ZenonT(60) DEF nvmed_complete, TypeOK, NvmedT
    <2> QED
      BY <1>i, <1>u, <2>1 DEF TypeOK, NvmedT
  <1> HIDE DEF q
  <1>2. Roles'
    BY <1>i, <1>u, <1>n, <1>a DEF Roles
  <1>3. Protocol'
    BY <1>i, <1>u, <1>n, <1>w DEF Protocol, Waiting
  <1>4. Errors' /\ NotOverlooked' /\ Phases'
    BY <1>i, <1>u, <1>n, <1>w DEF Errors, NotOverlooked, Phases
  <1>c. ASSUME kernel.at # "failed"
        PROVE  Answered(q) /\ (cq[q.head].status = "ok" => After(kernel.request, "mailbox"))
    <2>1. Owner = q /\ Buffer = "mailbox" /\ Busy
      BY <1>n, <1>a DEF Owner, Buffer, Busy, q
    <2>2. ~Submits(q, kernel.request, "mailbox")
      <3> SUFFICES ASSUME Submits(q, kernel.request, "mailbox") PROVE FALSE
        OBVIOUS
      <3>1. device.tail \in Index /\ device.phase \in BOOLEAN /\ cq[device.tail].phase = device.phase
        BY <1>i, <1>n, Fields DEF Submits, Completed
      <3>2. ~(device.tail < device.tail)
        BY <3>1, SMTT(60) DEF Index
      <3> QED
        BY <1>i, <3>1, <3>2 DEF Phases
    <2> QED
      BY <1>c, <1>i, <1>w, <2>1, <2>2 DEF Queue
  <1>5. Queue'
    <2> SUFFICES ASSUME kernel.at # "failed" PROVE Queue'
      BY <1>u DEF Queue
    <2>1. Owner' = Consumed(q) /\ ~Busy'
      BY <1>u, <1>n, <1>a, <1>w DEF Owner, Busy
    <2>2. AtRest(Owner)'
      BY <1>c, <1>u, <1>q, <2>1 DEF AtRest, Answered
    <2> QED
      BY <1>u, <1>w, <2>1, <2>2 DEF Queue
  <1>6. Data'
    <2> SUFFICES ASSUME kernel.at # "failed", nvmed'.result = "ok" PROVE Data'
      BY <1>u DEF Data
    <2>1. After(kernel.request, "mailbox")'
      BY <1>c, <1>n, <1>u DEF After
    <2> QED
      BY <1>u, <1>n, <1>w, <2>1 DEF Data
  <1> QED
    BY <1>1, <1>2, <1>3, <1>4, <1>5, <1>6 DEF NvmeInv

\* A command that is late becomes an error for the kernel.
LEMMA NvmedTimeoutStep ==
    ASSUME NvmeInv, nvmed_timeout
    PROVE  NvmeInv'
  <1>i. TypeOK /\ Roles /\ Protocol /\ Errors /\ NotOverlooked /\ Phases /\ Queue /\ Data
    BY DEF NvmeInv
  <1>u. /\ sq' = sq /\ cq' = cq /\ device' = device /\ disk' = disk /\ buf' = buf /\ io' = io
        /\ mb' = mb /\ kernel' = kernel /\ written' = written
    BY DEF nvmed_timeout
  <1>n. /\ nvmed.at = "wait" /\ nvmed'.at = "status" /\ nvmed'.queue = nvmed.queue
        /\ nvmed'.request = nvmed.request /\ nvmed'.result = "error"
    BY <1>i DEF nvmed_timeout, TypeOK
  <1>a. mb.active
    BY <1>i, <1>n DEF Roles, Waiting
  <1>w. kernel.at # "failed" => /\ kernel.at = "wait" /\ mb.status = "pending"
                                /\ nvmed.request = kernel.request
    BY <1>i, <1>n, <1>a DEF Protocol
  <1>1. TypeOK'
    <2>1. nvmed' \in NvmedT
      BY <1>i, ZenonT(60) DEF nvmed_timeout, TypeOK, NvmedT, Status
    <2> QED
      BY <1>i, <1>u, <2>1 DEF TypeOK, NvmedT
  <1>2. Roles'
    BY <1>i, <1>u, <1>n, <1>a DEF Roles
  <1>3. Protocol'
    BY <1>i, <1>u, <1>n, <1>w DEF Protocol, Waiting
  <1>4. Errors' /\ NotOverlooked' /\ Phases'
    BY <1>i, <1>u, <1>n, <1>w DEF Errors, NotOverlooked, Phases
  <1> QED
    BY <1>n, <1>1, <1>2, <1>3, <1>4 DEF NvmeInv, Queue, Data

\* The outcome goes to the mailbox.
LEMMA NvmedStatusStep ==
    ASSUME NvmeInv, nvmed_status
    PROVE  NvmeInv'
  <1>i. TypeOK /\ Roles /\ Protocol /\ Errors /\ NotOverlooked /\ Phases /\ Queue /\ Data
    BY DEF NvmeInv
  <1>u. /\ sq' = sq /\ cq' = cq /\ device' = device /\ disk' = disk /\ buf' = buf /\ io' = io
        /\ kernel' = kernel /\ written' = written
    BY DEF nvmed_status
  <1>n. /\ nvmed.at = "status" /\ nvmed'.at = "clear" /\ nvmed'.queue = nvmed.queue
        /\ nvmed'.request = nvmed.request /\ nvmed'.result = nvmed.result
    BY <1>i DEF nvmed_status, TypeOK
  <1>m. /\ mb'.status = nvmed.result /\ mb'.op = mb.op /\ mb'.arg = mb.arg
        /\ mb'.active = mb.active /\ mb'.queue = mb.queue
    BY <1>i DEF nvmed_status, TypeOK
  <1>a. mb.active /\ nvmed.result \in {"ok", "error"}
    BY <1>i, <1>n, Fields DEF Roles, Waiting
  <1>w. kernel.at # "failed" => kernel.at = "wait" /\ mb.status = "pending"
    BY <1>i, <1>n, <1>a DEF Protocol
  <1>1. TypeOK'
    <2>1. nvmed' \in NvmedT
      BY <1>i DEF nvmed_status, TypeOK, NvmedT
    <2>2. mb' \in MailboxT
      BY <1>i DEF nvmed_status, TypeOK, MailboxT
    <2> QED
      BY <1>i, <1>u, <2>1, <2>2 DEF TypeOK, NvmedT, MailboxT
  <1>2. Roles'
    BY <1>i, <1>u, <1>n, <1>m, <1>a DEF Roles
  <1>3. Protocol'
    BY <1>i, <1>u, <1>n, <1>m, <1>w, <1>a DEF Protocol, Waiting
  <1>4. Errors' /\ NotOverlooked' /\ Phases'
    BY <1>i, <1>u, <1>n, <1>m, <1>w, <1>a DEF Errors, NotOverlooked, Phases
  <1>5. Queue'
    <2> SUFFICES ASSUME kernel.at # "failed", nvmed.result = "ok" PROVE Queue'
      BY <1>u, <1>n DEF Queue
    <2>1. Owner' = Owner /\ ~Busy /\ ~Busy'
      BY <1>u, <1>m, <1>n, <1>w DEF Owner, Busy
    <2>2. AtRest(Owner)
      BY <1>i, <2>1 DEF Queue
    <2> QED
      BY <1>u, <1>w, <2>1, <2>2 DEF Queue, AtRest
  <1>6. Data'
    <2> SUFFICES ASSUME kernel.at # "failed", nvmed.result = "ok" PROVE Data'
      BY <1>u, <1>n DEF Data
    <2>1. After(kernel.request, "mailbox")'
      BY <1>i, <1>n, <1>u, <1>w DEF Data, After
    <2> QED
      BY <1>u, <1>n, <1>m, <1>w, <2>1 DEF Data
  <1> QED
    BY <1>1, <1>2, <1>3, <1>4, <1>5, <1>6 DEF NvmeInv

\* op is cleared: with it goes a request that was early.
LEMMA NvmedClearStep ==
    ASSUME NvmeInv, nvmed_clear
    PROVE  NvmeInv'
  <1>i. TypeOK /\ Roles /\ Protocol /\ Errors /\ NotOverlooked /\ Phases /\ Queue /\ Data
    BY DEF NvmeInv
  <1>u. /\ sq' = sq /\ cq' = cq /\ device' = device /\ disk' = disk /\ buf' = buf /\ io' = io
        /\ kernel' = kernel /\ written' = written
    BY DEF nvmed_clear
  <1>n. /\ nvmed.at = "clear" /\ nvmed'.at = "persist" /\ nvmed'.queue = nvmed.queue
        /\ nvmed'.request = nvmed.request /\ nvmed'.result = nvmed.result
    BY <1>i DEF nvmed_clear, TypeOK
  <1>m. /\ mb'.status = mb.status /\ mb'.op = None /\ mb'.arg = mb.arg
        /\ mb'.active = mb.active /\ mb'.queue = mb.queue
    BY <1>i DEF nvmed_clear, TypeOK
  <1>a. mb.active
    BY <1>i, <1>n DEF Roles, Waiting
  <1>1. TypeOK'
    <2>1. nvmed' \in NvmedT
      BY <1>i DEF nvmed_clear, TypeOK, NvmedT
    <2>2. mb' \in MailboxT
      BY <1>i, ZenonT(60) DEF nvmed_clear, TypeOK, MailboxT, Command, None
    <2> QED
      BY <1>i, <1>u, <2>1, <2>2 DEF TypeOK, NvmedT, MailboxT
  <1>2. Roles'
    BY <1>i, <1>u, <1>n, <1>m, <1>a DEF Roles
  <1>3. Protocol'
    BY <1>i, <1>u, <1>n, <1>m, <1>a DEF Protocol, Waiting
  <1>4. Errors' /\ NotOverlooked' /\ Phases'
    BY <1>i, <1>u, <1>n, <1>m, <1>a DEF Errors, NotOverlooked, Phases, Waiting
  <1>5. Queue'
    <2> SUFFICES ASSUME kernel.at # "failed", nvmed.result = "ok" PROVE Queue'
      BY <1>u, <1>n DEF Queue
    <2>1. Owner' = Owner /\ ~Busy /\ ~Busy' /\ kernel.at # "launch"
      BY <1>i, <1>u, <1>m, <1>n, <1>a DEF Owner, Busy, Roles
    <2>2. AtRest(Owner)
      BY <1>i, <2>1 DEF Queue
    <2> QED
      BY <1>u, <2>1, <2>2 DEF Queue, AtRest
  <1>6. Data'
    BY <1>i, <1>u, <1>n, <1>m DEF Data, Before, After
  <1> QED
    BY <1>1, <1>2, <1>3, <1>4, <1>5, <1>6 DEF NvmeInv

\* The position in the mailbox is nvmed's own.
LEMMA NvmedPersistStep ==
    ASSUME NvmeInv, nvmed_persist
    PROVE  NvmeInv'
  <1>i. TypeOK /\ Roles /\ Protocol /\ Errors /\ NotOverlooked /\ Phases /\ Queue /\ Data
    BY DEF NvmeInv
  <1>u. /\ sq' = sq /\ cq' = cq /\ device' = device /\ disk' = disk /\ buf' = buf /\ io' = io
        /\ kernel' = kernel /\ written' = written
    BY DEF nvmed_persist
  <1>n. /\ nvmed.at = "persist" /\ nvmed'.at = "loop" /\ nvmed'.queue = nvmed.queue
        /\ nvmed'.request = nvmed.request /\ nvmed'.result = nvmed.result
    BY <1>i DEF nvmed_persist, TypeOK
  <1>m. /\ mb'.status = mb.status /\ mb'.op = mb.op /\ mb'.arg = mb.arg
        /\ mb'.active = mb.active
    BY <1>i DEF nvmed_persist, TypeOK
  <1>1. TypeOK'
    <2>1. nvmed' \in NvmedT
      BY <1>i DEF nvmed_persist, TypeOK, NvmedT
    <2>2. [nvmed.queue EXCEPT !.cid = 0] \in Position
      <3>1. 0 \in Cid
        BY CidsIsPositive, SMTT(60) DEF Cid
      <3> QED
        BY <1>i, <3>1, Fields DEF Position
    <2>3. mb' \in MailboxT
      BY <1>i, <2>2, ZenonT(60) DEF nvmed_persist, TypeOK, MailboxT
    <2> QED
      BY <1>i, <1>u, <2>1, <2>3 DEF TypeOK, NvmedT, MailboxT
  <1>2. Roles'
    BY <1>i, <1>u, <1>n, <1>m DEF Roles, Waiting
  <1>3. Protocol'
    BY <1>i, <1>u, <1>n, <1>m DEF Protocol, Waiting
  <1>4. Errors' /\ NotOverlooked' /\ Phases'
    BY <1>i, <1>u, <1>n, <1>m DEF Errors, NotOverlooked, Phases, Waiting
  <1>5. Queue'
    <2>1. Owner' = Owner /\ Buffer' = Buffer /\ (Busy' <=> Busy)
      BY <1>u, <1>n, <1>m DEF Owner, Buffer, Busy
    <2> QED
      BY <1>i, <1>u, <1>n, <1>m, <2>1 DEF Queue, AtRest, Submits, Answered, Completed, Before, After
  <1>6. Data'
    BY <1>i, <1>u, <1>n, <1>m DEF Data, Before, After
  <1> QED
    BY <1>1, <1>2, <1>3, <1>4, <1>5, <1>6 DEF NvmeInv

-----------------------------------------------------------------------------
(* The device *)

\* The device completes the command at its head, and the lap's phase goes with
\* it.
LEMMA DeviceStep ==
    ASSUME NvmeInv, device_step
    PROVE  NvmeInv'
  <1>i. TypeOK /\ Roles /\ Protocol /\ Errors /\ NotOverlooked /\ Phases /\ Queue /\ Data
    BY DEF NvmeInv
  <1>u. sq' = sq /\ io' = io /\ mb' = mb /\ kernel' = kernel /\ nvmed' = nvmed /\ written' = written
    BY DEF device_step
  <1> DEFINE e == sq[device.head]
  <1>e. /\ e.cid \in Cid /\ e.request \in Command /\ e.prp \in {"caller", "mailbox"}
        /\ device.head # device.doorbell
    BY <1>i, Fields DEF TypeOK, device_step
  <1>s. PICK s \in Status :
          /\ cq' = [cq EXCEPT ![device.tail] = [cid |-> e.cid, phase |-> device.phase, status |-> s]]
          /\ buf' = IF s = "ok" /\ e.request.op = "read"
                    THEN [buf EXCEPT ![e.prp] = disk[e.request.lba]] ELSE buf
          /\ disk' = IF s = "ok" /\ e.request.op = "write"
                     THEN [disk EXCEPT ![e.request.lba] = buf[e.prp]] ELSE disk
    BY ZenonT(60) DEF device_step
  <1>v. /\ device'.head = Advance(device.head) /\ device'.tail = Advance(device.tail)
        /\ device'.doorbell = device.doorbell
        /\ device'.phase = (IF Advance(device.tail) = 0 THEN ~device.phase ELSE device.phase)
    BY <1>i DEF device_step, TypeOK
  <1>x. /\ device.tail \in Index /\ device.head \in Index /\ device.phase \in BOOLEAN
        /\ Advance(device.tail) \in Index /\ Advance(device.head) \in Index
    BY <1>i, Fields, AdvanceFacts
  <1>l. e.request.op \in {"read", "write"} => e.request.lba \in Lbas
    BY <1>e, SMTT(60) DEF Command, Request
  <1>1. TypeOK'
    <2>1. device' \in [head : Index, doorbell : Index, tail : Index, phase : BOOLEAN]
      BY <1>i, <1>x, ZenonT(60) DEF device_step, TypeOK
    <2>2. cq' \in [Index -> [cid : Cid, phase : BOOLEAN, status : Status]]
      BY <1>i, <1>e, <1>s, <1>x DEF TypeOK
    <2>3. buf' \in [{"caller", "mailbox"} -> Blocks] /\ disk' \in [Lbas -> Blocks]
      BY <1>i, <1>e, <1>s, <1>l DEF TypeOK
    <2> QED
      BY <1>i, <1>u, <2>1, <2>2, <2>3, SMTT(60) DEF TypeOK
  <1> HIDE DEF e
  <1>2. Roles' /\ Protocol' /\ Errors' /\ NotOverlooked'
    BY <1>i, <1>u DEF Roles, Protocol, Errors, NotOverlooked
  <1>c. cq'[device.tail] = [cid |-> e.cid, phase |-> device.phase, status |-> s]
    BY <1>i, <1>s, <1>x DEF TypeOK
  <1>3. Phases'
    <2>1. device'.tail = device'.head
      BY <1>i, <1>v DEF Phases
    <2>2. ASSUME NEW i \in Index
          PROVE  cq'[i].phase = (IF i < device'.tail THEN device'.phase ELSE ~device'.phase)
      <3>1. cq'[i].phase = (IF i <= device.tail THEN device.phase ELSE ~device.phase)
        <4>1. CASE i = device.tail
          BY <1>c, <1>x, <4>1, SMTT(60) DEF Index
        <4>2. CASE i # device.tail
          <5>1. cq'[i] = cq[i]
            BY <1>i, <1>s, <4>2 DEF TypeOK
          <5>2. (i < device.tail) <=> (i <= device.tail)
            BY <1>x, <4>2, SMTT(60) DEF Index
          <5> QED
            BY <1>i, <5>1, <5>2 DEF Phases
        <4> QED
          BY <4>1, <4>2
      <3>2. CASE device.tail = QD - 1
        <4>1. device'.tail = 0 /\ device'.phase = ~device.phase
          BY <1>v, <1>x, <3>2, AdvanceFacts
        <4>2. i <= device.tail /\ ~(i < 0)
          BY <3>2, QDIsPlural, SMTT(60) DEF Index
        <4> QED
          BY <1>x, <3>1, <4>1, <4>2, ZenonT(60)
      <3>3. CASE device.tail # QD - 1
        <4>1. device'.tail = device.tail + 1
          BY <1>v, <1>x, <3>3, AdvanceFacts
        <4>2. device'.phase = device.phase
          <5>1. device.tail + 1 # 0
            BY <1>x, SMTT(60) DEF Index
          <5> QED
            BY <1>v, <4>1, <5>1
        <4>3. (i <= device.tail) <=> (i < device'.tail)
          BY <1>x, <4>1, SMTT(60) DEF Index
        <4> QED
          BY <3>1, <4>2, <4>3
      <3> QED
        BY <3>2, <3>3
    <2> QED
      BY <2>1, <2>2 DEF Phases
  <1>q. Owner \in Position /\ Owner' = Owner /\ Buffer' = Buffer /\ (Busy' <=> Busy)
    BY <1>i, <1>u, Fields DEF Owner, Buffer, Busy
  <1>b. ASSUME kernel.at # "failed", nvmed.result = "ok"
        PROVE  /\ Busy /\ Submits(Owner, kernel.request, Buffer) /\ Before(kernel.request, Buffer)
               /\ kernel.at \in {"direct_wait", "wait"} /\ kernel.request \in Request
    <2>1. Busy /\ Submits(Owner, kernel.request, Buffer) /\ Before(kernel.request, Buffer)
      BY <1>i, <1>e, <1>b DEF Queue, AtRest, Answered
    <2>2. kernel.at \in {"direct_wait", "wait"}
      BY <1>i, <1>b, <2>1 DEF Busy, Roles, Protocol, Waiting
    <2> QED
      BY <1>i, <2>1, <2>2 DEF Roles
  <1>4. Queue'
    <2> SUFFICES ASSUME kernel.at # "failed", nvmed.result = "ok" PROVE Queue'
      BY <1>u, ZenonT(60) DEF Queue
    <2>1. /\ Submits(Owner, kernel.request, Buffer) /\ Before(kernel.request, Buffer) /\ Busy
          /\ kernel.at \in {"direct_wait", "wait"} /\ kernel.request \in Request
      BY <1>b
    <2>2. e = [cid |-> Owner.cid, request |-> kernel.request, prp |-> Buffer]
      BY <2>1 DEF Submits, e
    <2>3. /\ Consumed(Owner).head = device'.tail /\ Consumed(Owner).phase = device'.phase
          /\ Owner.head = device.tail /\ Owner.phase = device.phase
      BY <1>q, <1>v, <2>1, ConsumedFacts, SMTT(60) DEF Submits
    <2>4. Answered(Owner)'
      <3>1. Completed(Owner)'
        BY <1>c, <1>q, <2>2, <2>3, SMTT(60) DEF Completed
      <3>2. Consumed(Owner)' = Consumed(Owner)
        BY <1>q DEF Consumed
      <3> QED
        BY <1>q, <1>v, <2>1, <2>3, <3>1, <3>2 DEF Answered, Submits
    <2>5. ASSUME s = "ok" PROVE After(kernel.request, Buffer)'
      <3>1. kernel.request.lba \in Lbas /\ kernel.request.op \in {"read", "write"}
        BY <2>1, Requests
      <3>2. CASE kernel.request.op = "write"
        BY <1>q, <1>s, <1>u, <2>1, <2>2, <2>5, <3>2 DEF After, Before
      <3>3. CASE kernel.request.op = "read"
        <4>1. disk' = disk /\ disk = written
          BY <1>s, <2>1, <2>2, <2>5, <3>3 DEF Before
        <4>2. buf'[Buffer] = disk[kernel.request.lba]
          <5>1. Buffer \in {"caller", "mailbox"}
            BY DEF Buffer
          <5> QED
            BY <1>i, <1>s, <2>2, <2>5, <3>3, <5>1 DEF TypeOK
        <4> QED
          BY <1>q, <1>u, <4>1, <4>2 DEF After
      <3> QED
        BY <3>1, <3>2, <3>3
    <2>6. cq'[Owner'.head].status = s
      BY <1>c, <1>q, <2>3, SMTT(60)
    <2> QED
      BY <1>q, <1>u, <2>1, <2>4, <2>5, <2>6, ZenonT(60) DEF Queue
  <1>5. Data'
    <2> SUFFICES ASSUME kernel.at # "failed", nvmed.result = "ok" PROVE Data'
      BY <1>u DEF Data
    <2>1. kernel.at = "wait" => nvmed.at = "wait" /\ mb.status = "pending"
      BY <1>i, <1>b DEF Busy, Protocol, Roles
    <2> QED
      BY <1>b, <1>u, <2>1 DEF Data
  <1> QED
    BY <1>1, <1>2, <1>3, <1>4, <1>5 DEF NvmeInv

-----------------------------------------------------------------------------
(* The system *)

\* After init() the queue is at rest and the first lap has not begun.
LEMMA NvmeInvInit == Init => NvmeInv
  <1> SUFFICES ASSUME Init PROVE NvmeInv
    OBVIOUS
  <1>z. 0 \in Index /\ 0 \in Cid /\ None \in Command /\ FirstPosition \in Position
    BY QDIsPlural, CidsIsPositive, SMTT(60) DEF Index, Cid, Command, None, FirstPosition, Position
  <1>1. TypeOK
    BY <1>z DEF Init, TypeOK, Status, Blocks, None
  <1>2. Roles /\ Protocol /\ Errors /\ NotOverlooked
    BY DEF Init, Roles, Protocol, Errors, NotOverlooked
  <1>3. Phases
    <2>1. \A i \in Index : ~(i < 0)
      BY QDIsPlural, SMTT(60) DEF Index
    <2> QED
      BY <2>1, ZenonT(60) DEF Init, Phases
  <1>4. Queue
    BY DEF Init, Queue, Busy, Owner, AtRest, FirstPosition
  <1>5. Data
    BY DEF Init, Data
  <1> QED
    BY <1>1, <1>2, <1>3, <1>4, <1>5 DEF NvmeInv

LEMMA NvmeInvNext == NvmeInv /\ [Next]_vars => NvmeInv'
  <1> SUFFICES ASSUME NvmeInv, [Next]_vars PROVE NvmeInv'
    OBVIOUS
  <1>1. CASE Kernel
    BY <1>1, CallStep, DirectSubmitStep, DirectDoneStep, GiveUpStep, MailboxPostStep, MailboxOpStep,
       MailboxAnswerStep, MailboxCopyStep, HandoffStep, HandoffDoneStep, HandoffFailedStep
       DEF Kernel
  <1>2. CASE Nvmed
    BY <1>2, NvmedStartStep, NvmedPollStep, NvmedSubmitStep, NvmedCompleteStep, NvmedTimeoutStep,
       NvmedStatusStep, NvmedClearStep, NvmedPersistStep
       DEF Nvmed
  <1>3. CASE device_step
    BY <1>3, DeviceStep
  <1>4. CASE UNCHANGED vars
    <2>1. /\ sq' = sq /\ cq' = cq /\ device' = device /\ disk' = disk /\ buf' = buf /\ io' = io
          /\ mb' = mb /\ kernel' = kernel /\ nvmed' = nvmed /\ written' = written
      BY <1>4 DEF vars
    <2>2. TypeOK' /\ Roles' /\ Protocol' /\ Errors' /\ NotOverlooked' /\ Phases'
      BY <2>1, SMTT(60) DEF NvmeInv, TypeOK, Roles, Protocol, Errors, NotOverlooked, Phases
    <2>3. Owner' = Owner /\ Buffer' = Buffer /\ (Busy' <=> Busy)
      BY <2>1, ZenonT(60) DEF Owner, Buffer, Busy
    <2>4. Queue' /\ Data'
      BY <2>1, <2>3, ZenonT(60)
         DEF NvmeInv, Queue, Data, AtRest, Submits, Answered, Completed, Before, After
    <2> QED
      BY <2>2, <2>4 DEF NvmeInv
  <1> QED
    BY <1>1, <1>2, <1>3, <1>4 DEF Next, Panicked

\* The invariant holds of nvme.rs, nvmed and the device together, whatever the
\* order of their steps.
THEOREM NvmeInvariant == Spec => []NvmeInv
  BY NvmeInvInit, NvmeInvNext, PTL DEF Spec

\* The queue's user and the device agree on the ring, its phase and the command
\* under way: q_submit() and q_wait() of nvme.rs and of nvmed, over any number
\* of laps and across handoff_to_nvmed().
THEOREM DriversAndDeviceAgree == Spec => []QueuesAgree
  <1>1. NvmeInv => QueuesAgree
    <2> SUFFICES ASSUME NvmeInv PROVE QueuesAgree
      OBVIOUS
    <2>i. TypeOK /\ Phases /\ Queue
      BY DEF NvmeInv
    <2>f. Owner \in Position /\ device.tail \in Index /\ device.phase \in BOOLEAN
          /\ device.head \in Index /\ Advance(device.head) # device.head
      BY <2>i, Fields, AdvanceFacts DEF Owner
    <2>o. Owner = IF mb.active /\ nvmed.at # "start" THEN nvmed.queue
                  ELSE IF mb.active THEN mb.queue ELSE io
      BY <2>i, Fields DEF Owner
    <2>1. ASSUME kernel.at # "failed", nvmed.result = "ok"
          PROVE  /\ device.doorbell = Owner.tail
                 /\ device.head = device.doorbell =>
                      IF Busy THEN /\ Completed(Owner) /\ Consumed(Owner).head = device.tail
                                   /\ Consumed(Owner).phase = device.phase
                      ELSE Owner.head = device.tail /\ Owner.phase = device.phase
                 /\ device.head # device.doorbell =>
                      Busy /\ Advance(device.head) = device.doorbell /\ ~Completed(Owner)
      <3>1. CASE ~Busy
        BY <2>i, <2>1, <3>1, ZenonT(60) DEF Queue, AtRest
      <3>2. CASE Busy /\ Answered(Owner)
        BY <3>2 DEF Answered
      <3>3. CASE Busy /\ Submits(Owner, kernel.request, Buffer)
        <4>1. ~Completed(Owner)
          <5>1. ~(device.tail < device.tail)
            BY <2>f, SMTT(60) DEF Index
          <5>2. cq[device.tail].phase = ~device.phase
            BY <2>i, <2>f, <5>1 DEF Phases
          <5> QED
            BY <2>f, <3>3, <5>2 DEF Submits, Completed
        <4> QED
          BY <2>f, <3>3, <4>1, ZenonT(60) DEF Submits
      <3> QED
        BY <2>i, <2>1, <3>1, <3>2, <3>3, ZenonT(60) DEF Queue
    <2> QED
      BY <2>i, <2>o, <2>1, ZenonT(60) DEF QueuesAgree, Busy
  <1> QED
    BY <1>1, NvmeInvariant, PTL

\* A read_blocks() that returns delivers what write_blocks() last put there, on
\* the direct path, through the mailbox and across the hand-over.
THEOREM ReadsAreCurrent == Spec => []ReadsLastWrite
  <1>1. NvmeInv => ReadsLastWrite
    <2> SUFFICES ASSUME NvmeInv, kernel.at = "done" PROVE ReadsLastWrite
      BY DEF ReadsLastWrite
    <2>1. nvmed.result = "ok"
      BY NoError DEF NvmeInv
    <2> QED
      BY <2>1 DEF NvmeInv, Data, After, ReadsLastWrite
  <1> QED
    BY <1>1, NvmeInvariant, PTL

\* While the kernel waits on Mailbox::status, its request is in the mailbox or
\* with nvmed, unless op was set before nvmed had cleared the one before.
THEOREM RequestsAreKept == Spec => []RequestKept
  <1>1. NvmeInv => RequestKept
    BY DEF NvmeInv, NotOverlooked, RequestKept
  <1> QED
    BY <1>1, NvmeInvariant, PTL
=============================================================================
