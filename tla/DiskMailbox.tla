---------------------------- MODULE DiskMailbox -----------------------------
(***************************************************************************)
(* The SATA disk: read_sectors and write_sectors on the shared mailbox     *)
(* (ahci.rs), under AHCI_IO_LOCK, and the loop of ahcid.  A sector holds a *)
(* number; a request is one sector long.                                   *)
(***************************************************************************)
EXTENDS Services

CONSTANT SECTORS     \* the box's sectors

DiskInit ==
    /\ dev = "ahcid"
    /\ box = [op |-> "none", status |-> "pending", lba |-> 0, data |-> 0, lock |-> "free",
            sector |-> [s \in SECTORS |-> 0], reqs |-> 0, ok |-> TRUE, late |-> FALSE]

ahci_spawn_pending_driver == SpawnPending("ahcid") /\ UNCHANGED box
ahci_start_service(c) == Launch(c, "ahcid") /\ UNCHANGED box

\* stop_service raises the flag under AHCI_IO_LOCK, between two requests.
ahci_stop_service(c) ==
    /\ dev = "ahcid"
    /\ (box.lock = "free" /\ RaiseStop(c, "ahcid")) \/ Stopped(c, "ahcid")
    /\ UNCHANGED box

\* A request takes the lock and fills the mailbox, the operation last.
Request(c, op, s) ==
    /\ dev = "ahcid" /\ box.lock = "free"
    /\ box' = [box EXCEPT !.lock = c, !.reqs = @ + 1, !.lba = s, !.status = "pending",
                            !.data = IF op = "write" THEN box.reqs + 1 ELSE @]
    /\ KernelCall(c, "ahcid", op, s)
read_sectors(c, s) == Request(c, "read", s)
write_sectors(c, s) == Request(c, "write", s)

HandsOver(c) ==
    /\ who[c].at \in {"read", "write"}
    /\ box' = [box EXCEPT !.op = who[c].at]
    /\ KernelStep(c, IF who[c].at = "read" THEN "read_wait" ELSE "write_wait", who[c].x)

\* The answer: a read copies the mailbox's data out.  ok records whether it
\* was the sector asked for, or whether the write is on the box.
Answered(c) ==
    /\ who[c].at \in {"read_wait", "write_wait"} /\ box.status # "pending"
    /\ box' = [box EXCEPT
                  !.lock = "free", !.status = "pending",
                  !.ok = @ /\ (box.status = "ok" => box.sector[who[c].x] = box.data)]
    /\ KernelStep(c, "idle", 0)

\* No answer in time: the request stays in the mailbox.
GivesUp(c) ==
    /\ who[c].at \in {"read_wait", "write_wait"} /\ box.status = "pending"
    /\ box' = [box EXCEPT !.lock = "free", !.late = TRUE]
    /\ KernelStep(c, "idle", 0)

-----------------------------------------------------------------------------
(* ahcid *)

DiskStart(p) == dev = "ahcid" /\ At(p, "entry") /\ boot.maps /\ DriverStep(p, "top", 0) /\ UNCHANGED box
DiskExit(p) == dev = "ahcid" /\ At(p, "top") /\ stop /\ DriverStep(p, "exit", 0) /\ UNCHANGED box

DiskTakes(p) ==
    /\ dev = "ahcid" /\ At(p, "top") /\ ~stop /\ box.op # "none"
    /\ DriverStep(p, "issue", [op |-> box.op, lba |-> box.lba, result |-> "pending"])
    /\ UNCHANGED box

\* Mutant: the command is reported done before it is.
DiskIssues_NotAwaited(p) ==
    /\ dev = "ahcid" /\ At(p, "issue")
    /\ UNCHANGED box
    /\ DriverStep(p, "status", [proc[p].v EXCEPT !.result = "ok"])

\* The command moves the data, or fails.
DiskIssues(p) ==
    LET v == proc[p].v
    IN  /\ dev = "ahcid" /\ At(p, "issue")
        /\ \/ /\ box' = IF v.op = "read" THEN [box EXCEPT !.data = box.sector[v.lba]]
                         ELSE [box EXCEPT !.sector[v.lba] = box.data]
              /\ DriverStep(p, "status", [v EXCEPT !.result = "ok"])
           \/ /\ UNCHANGED box
              /\ DriverStep(p, "status", [v EXCEPT !.result = "error"])

DiskAnswers(p) ==
    /\ dev = "ahcid" /\ At(p, "status")
    /\ box' = [box EXCEPT !.status = proc[p].v.result]
    /\ DriverStep(p, "clear", proc[p].v)

DiskClears(p) ==
    /\ dev = "ahcid" /\ At(p, "clear")
    /\ box' = [box EXCEPT !.op = "none"]
    /\ DriverStep(p, "top", 0)

DiskDriver(p) ==
    \/ DiskStart(p) \/ DiskExit(p) \/ DiskTakes(p) \/ DiskIssues(p) \/ DiskAnswers(p) \/ DiskClears(p)

DiskNext ==
    \/ ahci_spawn_pending_driver
    \/ \E c \in Callers : ahci_start_service(c) \/ ahci_stop_service(c)
    \/ \E c \in Callers, s \in SECTORS : read_sectors(c, s) \/ write_sectors(c, s)
    \/ \E c \in Callers : HandsOver(c) \/ Answered(c) \/ GivesUp(c)
    \/ \E p \in DOMAIN proc : DiskDriver(p)

-----------------------------------------------------------------------------
\* A request that reports success did what was asked: a read returned its
\* sector, a write is on the box.  It may fail once some request gave up
\* waiting, because that one stays in the mailbox (ahci.rs:585-599).  In any
\* case AHCI_IO_LOCK serialises the callers (ahci.rs:560).
AnswersAreOwn ==
    /\ dev = "ahcid" => box.ok \/ box.late \/ slipped
    /\ \A c \in Callers : who[c].at \in {"read", "write", "read_wait", "write_wait"} => box.lock = c
=============================================================================
