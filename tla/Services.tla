------------------------------ MODULE Services ------------------------------
(***************************************************************************)
(* The life of a userspace driver: the launch queue and the process table  *)
(* of process.rs, and the service layer (enable, disable, start, stop,     *)
(* kill) that every driver repeats.  A behaviour follows one driver, dev,  *)
(* next to ordinary programs; what the driver does in its loop, and what   *)
(* the kernel puts into its mailbox, is the subject of the modules that    *)
(* extend this one.                                                        *)
(*                                                                         *)
(* Two tasks call the service layer: task_blink, for the terminal, and     *)
(* task_svc_worker, for system calls.  who[c] is where c stands in the     *)
(* function it is executing, with the value it carries; proc holds the     *)
(* processes in ring 3, by process id, each with its place in its program  *)
(* and its local variables.  A wait that is bounded by a count of spins    *)
(* may give up whenever its condition does not hold.                       *)
(***************************************************************************)
EXTENDS Integers, Sequences

CONSTANTS MAX_PROCS,   \* entries the process table keeps
          CALLS,       \* bound: commands, requests and arrivals of a behaviour
          Callers      \* the tasks that call the service layer

\* The desktop's task calls it; "free" stands for a lock that nobody holds.
ASSUME CallersAssumption == "blink" \in Callers /\ "free" \notin Callers

VARIABLES dev,         \* the driver of this behaviour
          boot,        \* what init found: a device, its driver's ELF, mappable memory
          pend,        \* PENDING_DRIVER_MAILBOX is still Some
          enabled,     \* ENABLED
          starting,    \* STARTING
          stop,        \* the mailbox's stop word
          queue,       \* PENDING_QUEUE
          tab,         \* PROCTAB
          pids,        \* NEXT_PID - 1
          proc,        \* the processes in ring 3
          who,         \* the callers
          box,         \* the driver's mailbox, with the device behind it
          calls,       \* commands, requests and arrivals so far
          slipped      \* history: a start went past its checks beside another instance

serviceVars == <<dev, boot, pend, enabled, starting, stop, queue, tab, pids, proc,
                 who, calls, slipped>>

\* The drivers, and the input path, which has none of its own here.
Followed == {"rtl8139d", "hdad", "ahcid", "xhcid", "gopd", "input"}
Idle == [at |-> "idle", x |-> 0]

\* A step of one of the callers, or of one of the processes, alone.
Moves(c, at, x) == who' = [who EXCEPT ![c] = [at |-> at, x |-> x]]
Steps(p, at, v) == proc' = [proc EXCEPT ![p].at = at, ![p].v = v]
KeepsServices == UNCHANGED <<dev, boot, pend, enabled, starting, stop, queue, tab, pids,
                             slipped>>
KernelStep(c, at, x) == Moves(c, at, x) /\ KeepsServices /\ UNCHANGED <<proc, calls>>
DriverStep(p, at, v) == Steps(p, at, v) /\ KeepsServices /\ UNCHANGED <<who, calls>>
At(p, at) == p \in DOMAIN proc /\ proc[p].name = dev /\ proc[p].at = at

\* is_process_running; the instances that exist, registered or not.
is_running(n) == \E i \in DOMAIN tab : tab[i].name = n /\ tab[i].running
Alive == {p \in DOMAIN proc : proc[p].name = dev}
Waiting == {i \in DOMAIN queue : queue[i] = dev}
Nobody == Alive = {} /\ Waiting = {}
AtMostOne ==
    /\ \A p, q \in Alive : p = q
    /\ \A i, j \in Waiting : i = j
    /\ Alive = {} \/ Waiting = {}

-----------------------------------------------------------------------------
(* process.rs *)

\* Operations on vectors, with the meanings they have in SequencesExt, which
\* is left out, as FiniteSetsExt is, because the prover is slow in a module
\* that reaches many definitions.  Lowest holds the one number that is lowest.
Lowest(S) == {x \in S : \A y \in S : x <= y}
Last(s) == s[Len(s)]
Front(s) == SubSeq(s, 1, Len(s) - 1)
RemoveAt(s, i) == SubSeq(s, 1, i - 1) \o SubSeq(s, i + 1, Len(s))
IsPrefix(s, t) == Len(s) <= Len(t) /\ s = SubSeq(t, 1, Len(s))

exec_async(n) == queue' = Append(queue, n)

\* Mutant: the oldest entry goes, finished or not.
MakeRoom_Oldest(t) == IF Len(t) >= MAX_PROCS THEN {Tail(t)} ELSE {t}

\* A full table forgets its oldest finished entry, and grows if it has none.
MakeRoom(t) ==
    LET old == {i \in DOMAIN t : ~t[i].running}
    IN  IF Len(t) >= MAX_PROCS /\ old # {} THEN {RemoveAt(t, i) : i \in Lowest(old)} ELSE {t}

\* A spawned task takes the newest job and registers its process.
async_task_entry ==
    /\ queue # <<>>
    /\ queue' = Front(queue)
    /\ pids' = pids + 1
    /\ \E room \in MakeRoom(tab) : tab' = Append(room, [pid |-> pids + 1, name |-> Last(queue), running |-> TRUE])
    /\ proc' = [p \in DOMAIN proc \cup {pids + 1} |->
                  IF p \in DOMAIN proc THEN proc[p] ELSE [name |-> Last(queue), at |-> "entry", v |-> 0]]
    /\ UNCHANGED <<dev, boot, pend, enabled, starting, stop, who, calls, slipped>>

\* sys_exit, and what exec_blocking and its task do once run_elf returns.
exec_blocking_returns(p) ==
    /\ p \in DOMAIN proc /\ proc[p].at = "exit"
    /\ proc' = [q \in DOMAIN proc \ {p} |-> proc[q]]
    /\ tab' = [i \in DOMAIN tab |-> IF tab[i].pid = p THEN [tab[i] EXCEPT !.running = FALSE] ELSE tab[i]]
    /\ UNCHANGED <<dev, boot, pend, enabled, starting, stop, queue, pids, who, calls, slipped>>

\* An ordinary program runs, and ends when it likes.
ProgramEnds(p) ==
    /\ p \in DOMAIN proc /\ proc[p].name = "program" /\ proc[p].at = "entry"
    /\ DriverStep(p, "exit", 0)

\* A driver that cannot map what the mailbox names leaves with code 1.
CannotMap(p) == At(p, "entry") /\ ~boot.maps /\ DriverStep(p, "exit", 0)

-----------------------------------------------------------------------------
(* The service layer *)

\* A command typed into a terminal, or a job of the service worker: only
\* once the main loop has made its first pass.
Commands(c) == ~pend /\ who[c] = Idle /\ calls < CALLS
Issued == calls' = calls + 1

\* A caller enters a function of the driver of `what'.
KernelCall(c, what, at, x) ==
    /\ dev = what /\ boot.device /\ Commands(c) /\ Issued
    /\ Moves(c, at, x) /\ KeepsServices /\ UNCHANGED proc

\* The device brings something by itself.
Arrives(what) ==
    /\ dev = what /\ boot.device /\ calls < CALLS /\ Issued
    /\ KeepsServices /\ UNCHANGED <<proc, who>>

\* The terminal's exec: a program joins the queue.
Exec ==
    /\ Commands("blink") /\ Issued /\ exec_async("program")
    /\ UNCHANGED <<dev, boot, pend, enabled, starting, stop, tab, pids, proc, who, slipped>>

set_enabled(c) ==
    /\ Commands(c) /\ Issued /\ enabled' = ~enabled
    /\ UNCHANGED <<dev, boot, pend, starting, stop, queue, tab, pids, proc, who, slipped>>

\* stop_service: the flag is raised only for a running driver.
StopCheck(c) ==
    /\ Commands(c) /\ Issued /\ (c = "blink" \/ dev # "gopd")
    /\ Moves(c, IF is_running(dev) THEN "stop_flag" ELSE "idle", 0)
    /\ UNCHANGED <<dev, boot, pend, enabled, starting, stop, queue, tab, pids, proc, slipped>>

\* kill resolves a running process id to a service and stops that.
kill(pid) ==
    /\ Commands("blink") /\ Issued
    /\ \E i \in DOMAIN tab : tab[i].pid = pid /\ tab[i].running
    /\ Moves("blink", IF \E i \in DOMAIN tab : tab[i].pid = pid /\ tab[i].name = dev
                      THEN "stop_flag" ELSE "idle", 0)
    /\ UNCHANGED <<dev, boot, pend, enabled, starting, stop, queue, tab, pids, proc, slipped>>

\* start_service asks whether it is enabled and not running ...
StartCheck(c) ==
    /\ Commands(c) /\ Issued /\ (c = "blink" \/ dev # "gopd")
    /\ Moves(c, IF enabled /\ ~is_running(dev) THEN "start_cas" ELSE "idle", 0)
    /\ UNCHANGED <<dev, boot, pend, enabled, starting, stop, queue, tab, pids, proc, slipped>>

\* Mutant: the outcome of the exchange is not looked at.
StartCas_Ignored(c) ==
    /\ who[c].at = "start_cas"
    /\ starting' = TRUE
    /\ Moves(c, "start_launch", 0)
    /\ slipped' = (slipped \/ (~starting /\ ~Nobody))
    /\ UNCHANGED <<dev, boot, pend, enabled, stop, queue, tab, pids, proc, calls>>

\* ... then takes STARTING, whatever happened since it asked.
StartCas(c) ==
    /\ who[c].at = "start_cas"
    /\ starting' = TRUE
    /\ Moves(c, IF starting THEN "idle" ELSE "start_launch", 0)
    /\ slipped' = (slipped \/ (~starting /\ ~Nobody))
    /\ UNCHANGED <<dev, boot, pend, enabled, stop, queue, tab, pids, proc, calls>>

StartWait(c) ==
    /\ who[c].at = "start_wait"
    /\ Moves(c, "start_done", 0)
    /\ UNCHANGED <<dev, boot, pend, enabled, starting, stop, queue, tab, pids, proc, calls, slipped>>

StartDone(c) ==
    /\ who[c].at = "start_done"
    /\ starting' = FALSE
    /\ who' = [who EXCEPT ![c] = Idle]
    /\ UNCHANGED <<dev, boot, pend, enabled, stop, queue, tab, pids, proc, calls, slipped>>

StopWaitGivesUp(c) ==
    /\ who[c].at = "stop_wait" /\ is_running(dev)
    /\ who' = [who EXCEPT ![c] = Idle]
    /\ UNCHANGED <<dev, boot, pend, enabled, starting, stop, queue, tab, pids, proc, calls, slipped>>

\* The launch of a driver whose hardware and mailbox stay in place.
Launch(c, what) ==
    /\ dev = what /\ who[c].at = "start_launch"
    /\ IF boot.device /\ boot.elf
       THEN stop' = FALSE /\ exec_async(dev) /\ Moves(c, "start_wait", 0)
       ELSE UNCHANGED <<stop, queue>> /\ Moves(c, "start_done", 0)
    /\ UNCHANGED <<dev, boot, pend, enabled, starting, tab, pids, proc, calls, slipped>>

RaiseStop(c, what) ==
    /\ dev = what /\ who[c].at = "stop_flag"
    /\ stop' = TRUE
    /\ Moves(c, "stop_wait", 0)
    /\ UNCHANGED <<dev, boot, pend, enabled, starting, queue, tab, pids, proc, calls, slipped>>

Stopped(c, what) ==
    /\ dev = what /\ who[c].at = "stop_wait" /\ ~is_running(dev)
    /\ who' = [who EXCEPT ![c] = Idle]
    /\ UNCHANGED <<dev, boot, pend, enabled, starting, stop, queue, tab, pids, proc, calls, slipped>>

\* spawn_pending_driver: once, in the first pass of the main loop.
SpawnPending(what) ==
    /\ dev = what /\ pend
    /\ pend' = FALSE
    /\ IF boot.device /\ boot.elf THEN exec_async(dev) ELSE UNCHANGED queue
    /\ UNCHANGED <<dev, boot, enabled, starting, stop, tab, pids, proc, who, calls, slipped>>

-----------------------------------------------------------------------------
ServicesInit ==
    /\ dev \in Followed
    /\ boot \in [device : BOOLEAN, elf : BOOLEAN, maps : BOOLEAN]
    /\ pend = TRUE /\ enabled = TRUE /\ starting = FALSE /\ stop = FALSE
    /\ queue = <<>> /\ tab = <<>> /\ pids = 0 /\ proc = <<>>
    /\ who = [c \in Callers |-> Idle]
    /\ calls = 0 /\ slipped = FALSE

service_dispatch(c) == set_enabled(c) \/ StopCheck(c) \/ StartCheck(c)

ServiceCall(c) ==
    \/ service_dispatch(c)
    \/ StartCas(c) \/ StartWait(c) \/ StartDone(c) \/ StopWaitGivesUp(c)

ServicesNext ==
    \/ async_task_entry
    \/ \E p \in DOMAIN proc : exec_blocking_returns(p) \/ ProgramEnds(p) \/ CannotMap(p)
    \/ Exec
    \/ \E pid \in DOMAIN proc : kill(pid)
    \/ \E c \in Callers : ServiceCall(c)

-----------------------------------------------------------------------------
(* What the service layer promises, for every driver *)

\* The types of the service layer's state.
TypeOK ==
    /\ dev \in Followed /\ boot \in [device : BOOLEAN, elf : BOOLEAN, maps : BOOLEAN]
    /\ {pend, enabled, starting, stop, slipped} \subseteq BOOLEAN
    /\ \A i \in DOMAIN queue : queue[i] \in {dev, "program"}
    /\ \A i \in DOMAIN tab : tab[i].pid \in 1..pids /\ tab[i].running \in BOOLEAN
    /\ DOMAIN who = Callers

\* The process table tells the truth: a process in ring 3 has a running
\* entry, and a running entry is a process (process.rs:389, is_running).
TableTellsTruth ==
    {tab[i].pid : i \in {j \in DOMAIN tab : tab[j].running}} = DOMAIN proc

\* The process table tells the truth about every driver, whatever the order
\* of launches, exits and callers, and the service layer's state is well
\* formed (process.rs:389).
ProcessesKnown == TypeOK /\ TableTellsTruth

\* At most one instance of a driver is queued or alive, unless a start took
\* STARTING beside one that its checks had not seen (rtl8139.rs:198).
OneInstanceUnlessSlipped == slipped \/ AtMostOne
=============================================================================
