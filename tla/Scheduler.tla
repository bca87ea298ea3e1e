------------------------------ MODULE Scheduler ------------------------------
(***************************************************************************)
(* The preemptive scheduler of kernel/src/scheduler.rs on one CPU: the     *)
(* task table, the timer interrupt, the voluntary switches (sleep_ms,      *)
(* block_on_irq, exit_current), spawn, and the part of a ring-3 process's  *)
(* life that touches the CPU state a switch must carry over (process.rs:   *)
(* run_elf, enter_ring3, do_exit; syscall.rs: syscall_entry).              *)
(*                                                                         *)
(* A "flow" is a thread of control with its own kernel stack.  The table   *)
(* names flows by the stack pointer it saved for them, so a slot's rsp is  *)
(* a flow: the one that runs when the slot is switched to.  What a flow    *)
(* does next is at[f], under isrs[f] stacked frames of timer_stub.         *)
(*                                                                         *)
(* TICK_COUNT is unbounded, so a sleeping task keeps the distance to its   *)
(* wake_at instead (wake_in), which every tick shortens.                   *)
(***************************************************************************)
EXTENDS Integers

CONSTANTS
    Procs,      \* the tasks spawn() may create (each one is created once)
    Vectors,    \* interrupt vectors a process may pass to SYS_WAIT_IRQ
    SleepMs,    \* arguments of sleep_ms()
    MAX_TASKS,  \* the size of PROC_SLOTS
    MaxNest     \* bound on timer_stub frames stacked on one flow

Idle == "idle"
Blink == "blink"
Worker == "svcworker"
KRoot == "kroot"            \* the kernel's own root PML4
Stale == "stale"            \* a saved rsp whose flow has run on since
BootStack == "bootstack"    \* the syscall stack syscall::init() allocates
TimerVector == 32
NoIrq == 0 - 1              \* waiting_irq = None
Forever == 0 - 1            \* wake_at = u64::MAX
Dangling == 0 - 1           \* an old_rsp pointer into a reallocated Vec

BootFlows == {Idle, Blink, Worker}
Flows == BootFlows \cup Procs
Spaces == Procs \cup {KRoot}    \* a process's PML4 is named after it

ASSUME ProcsAssumption == Procs \cap {Idle, Blink, Worker, KRoot, Stale, BootStack} = {}
ASSUME VectorsAssumption == Vectors \subseteq 0..255
ASSUME SleepMsAssumption == SleepMs \subseteq Nat
ASSUME MaxTasksAssumption == MAX_TASKS \in Nat \ {0}
ASSUME MaxNestAssumption == MaxNest \in Nat \ {0}

TaskStates == {"Running", "Ready", "Blocked", "Dead"}
Task == [state : TaskStates, wake_in : Nat \cup {Forever},
         waiting_irq : Vectors \cup {NoIrq, TimerVector},
         cr3 : Spaces, rsp : Flows \cup {Stale}, flow : Flows]

\* Holding SCHEDULER's spin lock.
LockLabels == {"lk_sleep", "lk_exit", "lk_spawn", "lk_index", "lk_cr3"}
\* After next() has released the lock, before context_switch() has switched.
WindowLabels == {"win_sleep", "win_exit"}
Labels == LockLabels \cup WindowLabels \cup
    {"unborn", "gone",                  \* no stack yet / stack freed
     "fresh", "kern",                   \* before task_trampoline / task code
     "sleep", "irq", "exit",            \* inside context_switch()
     "loaded", "cr3w", "enter", "tail", \* run_elf() before and after ring 3
     "user", "sys", "ret3"}             \* ring 3, syscall, on its way back

VARIABLES
    tasks,      \* SCHEDULER.tasks
    len,        \* its length
    current,    \* SCHEDULER.current
    cpu,        \* the registers a switch has to carry over
    at, isrs,   \* where each flow is
    pend,       \* locals of a flow between next() and context_switch()
    saved,      \* block_on_irq()'s saved_user_rsp
    pslot,      \* PROC_SLOTS: whose frame kernel_return_rsp points into
    orig,       \* run_elf()'s orig_cr3
    pml4,       \* the life of each process's PML4 page
    status,     \* "ok" or what stopped the machine
    raced       \* history: a tick hit a flow in the middle of a switch

vars == <<tasks, len, current, cpu, at, isrs, pend, saved, pslot, orig,
          pml4, status, raced>>

Slots == 0..(len - 1)
Cpu == [flow : Flows, ie : BOOLEAN, isr : BOOLEAN, gs : {"rest", "percpu"},
        cr3 : Spaces, kstack : Flows \cup {BootStack},
        user_rsp : Flows \cup {BootStack}]
Pend == [old : Int, rsp : Flows \cup {Stale}, cr3 : Spaces, kstack : Flows]
Statuses == {"ok", "hung", "fault", "stale", "gs", "freed_cr3", "frame"}

\* A tick at one of these finds the flow between two halves of a switch:
\* its slot's rsp is not saved yet, or GS still holds the per-CPU base.
MidSwitch(f) == isrs[f] = 0 /\ at[f] \in WindowLabels \cup {"ret3"}

Alive == status = "ok"
Executes(l) == Alive /\ isrs[cpu.flow] = 0 /\ at[cpu.flow] = l
Goto(l) == at' = [at EXCEPT ![cpu.flow] = l]
SchedLocked == \E f \in Flows : at[f] \in LockLabels

-----------------------------------------------------------------------------
(* The task table. *)

\* Task::new(): the new task's CR3 is whatever the creating flow runs on.
NewTask(p, cr3) ==
    [state |-> "Ready", wake_in |-> 0, waiting_irq |-> NoIrq,
     cr3 |-> cr3, rsp |-> p, flow |-> p]

\* TICK_COUNT.fetch_add(1), seen from the sleepers.
Elapse(ts) ==
    [i \in DOMAIN ts |->
        [ts[i] EXCEPT !.wake_in = IF @ > 0 THEN @ - 1 ELSE @]]

wake_irq_waiters(ts, vector) ==
    [i \in DOMAIN ts |->
        IF ts[i].state = "Blocked" /\ ts[i].waiting_irq = vector
        THEN [ts[i] EXCEPT !.waiting_irq = NoIrq, !.state = "Ready"]
        ELSE ts[i]]

\* next(), first half: sleepers whose time has come.
Promote(ts) ==
    [i \in DOMAIN ts |->
        IF /\ ts[i].state = "Blocked"
           /\ ts[i].waiting_irq = NoIrq
           /\ ts[i].wake_in = 0
        THEN [ts[i] EXCEPT !.state = "Ready"]
        ELSE ts[i]]

\* Mutant: every scan starts at slot 0.
ScanFromZero(n, cur, i) == i % n

\* next(), the scan: it starts at (current + 1) % n and stops at the first
\* Ready task; the current task is looked at last and never chosen.
ScanPos(n, cur, i) == (i + n - cur - 1) % n

IsNext(ts, n, cur, i) ==
    /\ n >= 2
    /\ i # cur
    /\ ts[i].state = "Ready"
    /\ \A j \in 0..(n - 1) :
          ScanPos(n, cur, j) < ScanPos(n, cur, i) => ts[j].state # "Ready"

NoNext(ts, n, cur) ==
    n < 2 \/ \A i \in 0..(n - 1) : i # cur => ts[i].state # "Ready"

\* next(), the hand-over: only a task that is still Running becomes Ready.
Handover(ts, cur, i) ==
    [ts EXCEPT ![cur].state = IF @ = "Running" THEN "Ready" ELSE @,
               ![i].state = "Running"]

\* What loading a stack pointer and a CR3 leads to.
Outcome(rsp, cr3) ==
    IF rsp = Stale THEN "stale"
    ELSE IF at[rsp] = "gone" THEN "stale"
    ELSE IF cr3 \in Procs /\ pml4[cr3] = "freed" THEN "freed_cr3"
    ELSE "ok"

\* use_kstack(); write_cr3(); context_switch(), from registers c.
LoadCpu(c, rsp, cr3, kstack) ==
    [c EXCEPT !.flow = IF rsp = Stale THEN @ ELSE rsp,
              !.cr3 = cr3, !.kstack = kstack]

\* Mutant: self.current is advanced before old_rsp's address is taken.
SaveRspInNewSlot(ts, old, f, i) == [ts EXCEPT ![i].rsp = f]

\* context_switch() saving flow f in slot old and running slot i: the copy of
\* i's stack pointer left in the table is stale from here on.
SaveRsp(ts, old, f, i) ==
    [ts EXCEPT ![i].rsp = Stale, ![old].rsp = f]

\* The switch of tick() and block_on_irq(), which run with interrupts off.
SwitchTo(ts, i, c) ==
    /\ tasks' = SaveRsp(Handover(ts, current, i), current, cpu.flow, i)
    /\ current' = i
    /\ cpu' = LoadCpu(c, ts[i].rsp, ts[i].cr3, ts[i].flow)
    /\ status' = Outcome(ts[i].rsp, ts[i].cr3)

-----------------------------------------------------------------------------
(* The timer interrupt. *)

\* Mutant: tick() gets past a lock that is held (a forced unlock).
tickForcesLock ==
    LET f == cpu.flow
        ts == Promote(wake_irq_waiters(Elapse(tasks), TimerVector))
        c == [cpu EXCEPT !.ie = FALSE, !.isr = TRUE]
    IN
    /\ Alive /\ cpu.ie /\ ~cpu.isr
    /\ isrs[f] < MaxNest
    /\ raced' = (raced \/ MidSwitch(f))
    /\ isrs' = [isrs EXCEPT ![f] = @ + 1]
    /\ \E i \in Slots : IsNext(ts, len, current, i) /\ SwitchTo(ts, i, c)
    /\ UNCHANGED <<len, at, pend, saved, pslot, orig, pml4>>

\* timer_stub up to the end of tick().  A tick that finds SCHEDULER locked
\* spins on it with interrupts off: the holder can never release it.
tick ==
    LET f == cpu.flow
        ts == Promote(wake_irq_waiters(Elapse(tasks), TimerVector))
        c == [cpu EXCEPT !.ie = FALSE, !.isr = TRUE]
    IN
    /\ Alive /\ cpu.ie /\ ~cpu.isr
    /\ isrs[f] < MaxNest
    /\ raced' = (raced \/ MidSwitch(f))
    /\ IF SchedLocked
       THEN /\ status' = "hung"
            /\ UNCHANGED <<tasks, current, cpu, isrs>>
       ELSE /\ isrs' = [isrs EXCEPT ![f] = @ + 1]
            /\ IF NoNext(ts, len, current)
               THEN /\ tasks' = ts
                    /\ cpu' = c
                    /\ UNCHANGED <<current, status>>
               ELSE \E i \in Slots :
                        IsNext(ts, len, current, i) /\ SwitchTo(ts, i, c)
    /\ UNCHANGED <<len, at, pend, saved, pslot, orig, pml4>>

\* timer_stub after tick() returns: eoi; iretq (which restores IF = 1).
timer_return ==
    /\ Alive /\ isrs[cpu.flow] > 0
    /\ isrs' = [isrs EXCEPT ![cpu.flow] = @ - 1]
    /\ cpu' = [cpu EXCEPT !.isr = FALSE, !.ie = TRUE]
    /\ UNCHANGED <<tasks, len, current, at, pend, saved, pslot, orig, pml4,
                   status, raced>>

\* First run of a task: eoi; sti; jmp rbx.
task_trampoline ==
    /\ Executes("fresh")
    /\ Goto("kern")
    /\ cpu' = [cpu EXCEPT !.isr = FALSE, !.ie = TRUE]
    /\ UNCHANGED <<tasks, len, current, isrs, pend, saved, pslot, orig, pml4,
                   status, raced>>

-----------------------------------------------------------------------------
(* sleep_ms() and exit_current(): interrupts are whatever the caller had. *)

\* SCHEDULER.lock() on the way from one label to the next.
Lock(from, to) ==
    /\ Executes(from)
    /\ ~SchedLocked
    /\ Goto(to)
    /\ UNCHANGED <<tasks, len, current, cpu, isrs, pend, saved, pslot, orig,
                   pml4, status, raced>>

\* The rest of the locked block: next(), then the lock is dropped.  The flow
\* holds the switch it has to make in its own locals; with nobody to switch
\* to it goes to label alone with its own state set to s.
LeaveCpu(ts, window, alone, s) ==
    LET pts == Promote(ts) IN
    /\ IF NoNext(pts, len, current)
       THEN /\ tasks' = [pts EXCEPT ![current].state = s]
            /\ Goto(alone)
            /\ UNCHANGED <<current, pend>>
       ELSE \E i \in Slots :
            /\ IsNext(pts, len, current, i)
            /\ tasks' = Handover(pts, current, i)
            /\ current' = i
            /\ pend' = [pend EXCEPT ![cpu.flow] =
                          [old |-> current, rsp |-> pts[i].rsp,
                           cr3 |-> pts[i].cr3, kstack |-> pts[i].flow]]
            /\ Goto(window)
    /\ UNCHANGED <<len, cpu, isrs, saved, pslot, orig, pml4, status, raced>>

SleepTicks(ms) == IF ms \div 10 > 1 THEN ms \div 10 ELSE 1

sleep_ms_lock == cpu.flow = Worker /\ Lock("kern", "lk_sleep")

sleep_ms ==
    /\ Executes("lk_sleep")
    /\ \E ms \in SleepMs :
         LeaveCpu([tasks EXCEPT ![current].wake_in = SleepTicks(ms),
                                ![current].state = "Blocked"],
                  "win_sleep", "kern", "Running")

exit_current_lock == cpu.flow \in Procs /\ Lock("tail", "lk_exit")

exit_current ==
    /\ Executes("lk_exit")
    /\ LeaveCpu([tasks EXCEPT ![current].state = "Dead"],
                "win_exit", "exit", "Dead")

\* use_kstack(); write_cr3(); context_switch() after the lock was dropped.
leave_switch(window, to) ==
    LET p == pend[cpu.flow] IN
    /\ Executes(window)
    /\ Goto(to)
    /\ IF p.old = Dangling
       THEN UNCHANGED tasks
       ELSE tasks' = SaveRsp(tasks, p.old, cpu.flow, current)
    /\ cpu' = LoadCpu(cpu, p.rsp, p.cr3, p.kstack)
    /\ status' = IF p.old = Dangling THEN "stale" ELSE Outcome(p.rsp, p.cr3)
    /\ UNCHANGED <<len, current, isrs, pend, saved, pslot, orig, pml4, raced>>

sleep_switch == leave_switch("win_sleep", "sleep")
exit_switch == leave_switch("win_exit", "exit")

\* context_switch() returns into sleep_ms(), which returns to the worker:
\* neither the EOI nor IF is anybody's business on this path.
sleep_return ==
    /\ Executes("sleep")
    /\ Goto("kern")
    /\ UNCHANGED <<tasks, len, current, cpu, isrs, pend, saved, pslot, orig,
                   pml4, status, raced>>

-----------------------------------------------------------------------------
(* spawn(), by the desktop task (exec_async) or by SYS_SPAWN_BYTES. *)

\* The first Dead slot is overwritten, which frees its task's stacks; else
\* the table grows, and may move: pointers into it dangle.
Spawn(p, label) ==
    LET dead == {i \in Slots : tasks[i].state = "Dead"}
        new == NewTask(p, cpu.cr3)
    IN
    /\ at[p] = "unborn"
    /\ IF dead # {}
       THEN \E i \in dead :
            /\ \A j \in dead : i <= j
            /\ tasks' = [tasks EXCEPT ![i] = new]
            /\ at' = [at EXCEPT ![tasks[i].flow] = "gone", ![p] = "fresh",
                                ![cpu.flow] = label]
            /\ UNCHANGED <<len, pend>>
       ELSE /\ tasks' = [i \in 0..len |-> IF i = len THEN new ELSE tasks[i]]
            /\ len' = len + 1
            /\ at' = [at EXCEPT ![p] = "fresh", ![cpu.flow] = label]
            /\ \/ UNCHANGED pend
               \/ /\ \E f \in Flows : at[f] \in WindowLabels
                  /\ pend' = [f \in Flows |-> [pend[f] EXCEPT !.old = Dangling]]
    /\ UNCHANGED <<current, cpu, isrs, saved, pslot, orig, pml4, status, raced>>

spawn_lock ==
    /\ cpu.flow = Blink
    /\ \E p \in Procs : at[p] = "unborn"
    /\ Lock("kern", "lk_spawn")
spawn == Executes("lk_spawn") /\ \E p \in Procs : Spawn(p, "kern")
sys_spawn_bytes == Executes("sys") /\ \E p \in Procs : Spawn(p, "ret3")

-----------------------------------------------------------------------------
(* async_task_entry() and run_elf(): a spawned task up to ring 3. *)

\* slot_index(): tasks past the end of PROC_SLOTS share its last entry.
SlotIndex == IF current < MAX_TASKS THEN current ELSE MAX_TASKS - 1

\* current_task_index() takes SCHEDULER's lock.
slot_index_lock == cpu.flow \in Procs /\ Lock("kern", "lk_index")

\* The slot is reset and a PML4 created; elf::load() or the stack may fail,
\* which returns through async_task_entry() to exit_current().
run_elf ==
    LET f == cpu.flow IN
    /\ Executes("lk_index")
    /\ pslot' = [pslot EXCEPT ![SlotIndex] = [owner |-> f, running |-> FALSE]]
    /\ pml4' = [pml4 EXCEPT ![f] = "live"]
    /\ \E l \in {"loaded", "tail"} : Goto(l)
    /\ UNCHANGED <<tasks, len, current, cpu, isrs, pend, saved, orig, status, raced>>

write_cr3 ==
    LET f == cpu.flow IN
    /\ Executes("loaded")
    /\ orig' = [orig EXCEPT ![f] = cpu.cr3]
    /\ cpu' = [cpu EXCEPT !.cr3 = f]
    /\ Goto("cr3w")
    /\ UNCHANGED <<tasks, len, current, isrs, pend, saved, pslot, pml4, status, raced>>

set_current_cr3_lock == Lock("cr3w", "lk_cr3")

\* Mutant: the new CR3 is not recorded in the task.
set_current_cr3Dropped ==
    /\ Executes("lk_cr3")
    /\ Goto("enter")
    /\ UNCHANGED <<tasks, len, current, cpu, isrs, pend, saved, pslot, orig, pml4,
                   status, raced>>

set_current_cr3 ==
    /\ Executes("lk_cr3")
    /\ tasks' = [tasks EXCEPT ![current].cr3 = cpu.flow]
    /\ Goto("enter")
    /\ UNCHANGED <<len, current, cpu, isrs, pend, saved, pslot, orig, pml4, status, raced>>

\* user_running = true; the kernel stack pointer goes to the slot; iretq with
\* RFLAGS 0x202.  In any address space but its own the first instruction
\* faults, and exception_handler() halts the machine.
enter_ring3 ==
    LET f == cpu.flow IN
    /\ Executes("enter")
    /\ pslot' = [pslot EXCEPT ![SlotIndex] = [owner |-> f, running |-> TRUE]]
    /\ cpu' = [cpu EXCEPT !.ie = TRUE]
    /\ status' = IF cpu.cr3 = f THEN "ok" ELSE "fault"
    /\ Goto("user")
    /\ UNCHANGED <<tasks, len, current, isrs, pend, saved, orig, pml4, raced>>

-----------------------------------------------------------------------------
(* System calls: SFMASK clears IF, swapgs is a toggle. *)

Swapgs(gs) == IF gs = "rest" THEN "percpu" ELSE "rest"

\* swapgs; mov gs:[8], rsp; mov rsp, gs:[0] - a fault if GS was not at rest.
syscall_entry ==
    /\ Executes("user")
    /\ cpu' = [cpu EXCEPT !.ie = FALSE, !.gs = Swapgs(@), !.user_rsp = cpu.flow]
    /\ status' = IF cpu.gs = "rest" THEN "ok" ELSE "gs"
    /\ Goto("sys")
    /\ UNCHANGED <<tasks, len, current, isrs, pend, saved, pslot, orig, pml4, raced>>

\* Every syscall that neither blocks, spawns nor exits.
sys_other ==
    /\ Executes("sys")
    /\ Goto("ret3")
    /\ UNCHANGED <<tasks, len, current, cpu, isrs, pend, saved, pslot, orig,
                   pml4, status, raced>>

\* SYS_WAIT_IRQ.
block_on_irq(vector) ==
    LET f == cpu.flow
        ts == Promote([tasks EXCEPT ![current].waiting_irq = vector,
                                    ![current].wake_in = Forever,
                                    ![current].state = "Blocked"])
    IN
    /\ Executes("sys")
    /\ IF NoNext(ts, len, current)
       THEN /\ tasks' = [ts EXCEPT ![current].state = "Running",
                                   ![current].waiting_irq = NoIrq]
            /\ Goto("ret3")
            /\ UNCHANGED <<current, cpu, saved, status>>
       ELSE /\ saved' = [saved EXCEPT ![f] = cpu.user_rsp]
            /\ Goto("irq")
            /\ \E i \in Slots :
                 /\ IsNext(ts, len, current, i)
                 /\ SwitchTo(ts, i, [cpu EXCEPT !.gs = Swapgs(@)])
    /\ UNCHANGED <<len, isrs, pend, pslot, orig, pml4, raced>>

sys_wait_irq == \E v \in Vectors : block_on_irq(v)

\* Mutant: gs:[8] is left as the last task to make a system call set it.
irq_returnKeepsUserRsp ==
    /\ Executes("irq")
    /\ Goto("ret3")
    /\ cpu' = [cpu EXCEPT !.gs = Swapgs(@)]
    /\ UNCHANGED <<tasks, len, current, isrs, pend, saved, pslot, orig, pml4,
                   status, raced>>

\* Resumed: swapgs; set_user_rsp(saved_user_rsp).
irq_return ==
    /\ Executes("irq")
    /\ Goto("ret3")
    /\ cpu' = [cpu EXCEPT !.gs = Swapgs(@), !.user_rsp = saved[cpu.flow]]
    /\ UNCHANGED <<tasks, len, current, isrs, pend, saved, pslot, orig, pml4,
                   status, raced>>

\* mov rsp, gs:[8]; swapgs; sysretq (IF comes back from R11).
sysret ==
    /\ Executes("ret3")
    /\ cpu' = [cpu EXCEPT !.ie = TRUE, !.gs = Swapgs(@)]
    /\ Goto("user")
    /\ UNCHANGED <<tasks, len, current, isrs, pend, saved, pslot, orig, pml4,
                   status, raced>>

\* SYS_EXIT: do_exit() longjmps into run_elf(), which restores the address
\* space and frees the PML4; IF stays 0 throughout.
sys_exit ==
    LET f == pslot[SlotIndex].owner IN
    /\ Executes("sys")
    /\ pslot[SlotIndex].running
    /\ pslot' = [pslot EXCEPT ![SlotIndex].running = FALSE]
    /\ cpu' = [cpu EXCEPT !.gs = Swapgs(@), !.cr3 = orig[f]]
    /\ tasks' = [tasks EXCEPT ![current].cr3 = orig[f]]
    /\ pml4' = [pml4 EXCEPT ![f] = "freed"]
    /\ status' = IF f # cpu.flow THEN "frame"
                 ELSE IF orig[f] \in Procs /\ pml4[orig[f]] = "freed"
                 THEN "freed_cr3" ELSE "ok"
    /\ Goto("tail")
    /\ UNCHANGED <<len, current, isrs, pend, saved, orig, raced>>

-----------------------------------------------------------------------------
\* kmain after its sti: it is the idle task's flow and was never saved.
Init ==
    /\ len = 3
    /\ tasks = [i \in 0..2 |->
                  LET f == IF i = 0 THEN Idle ELSE IF i = 1 THEN Blink ELSE Worker
                  IN [NewTask(f, KRoot) EXCEPT
                        !.state = IF i = 0 THEN "Running" ELSE "Ready",
                        !.rsp = IF i = 0 THEN Stale ELSE f]]
    /\ current = 0
    /\ cpu = [flow |-> Idle, ie |-> TRUE, isr |-> FALSE, gs |-> "rest",
              cr3 |-> KRoot, kstack |-> BootStack, user_rsp |-> BootStack]
    /\ at = [f \in Flows |-> IF f = Idle THEN "kern"
                             ELSE IF f \in BootFlows THEN "fresh" ELSE "unborn"]
    /\ isrs = [f \in Flows |-> 0]
    /\ pend = [f \in Flows |-> [old |-> 0, rsp |-> Stale, cr3 |-> KRoot, kstack |-> Idle]]
    /\ saved = [f \in Flows |-> BootStack]
    /\ pslot = [i \in 0..(MAX_TASKS - 1) |-> [owner |-> Idle, running |-> FALSE]]
    /\ orig = [p \in Procs |-> KRoot]
    /\ pml4 = [p \in Procs |-> "none"]
    /\ status = "ok"
    /\ raced = FALSE

Kernel ==
    \/ timer_return \/ task_trampoline
    \/ sleep_ms_lock \/ sleep_ms \/ sleep_switch \/ sleep_return
    \/ exit_current_lock \/ exit_current \/ exit_switch
    \/ slot_index_lock \/ run_elf \/ write_cr3
    \/ set_current_cr3_lock \/ set_current_cr3 \/ enter_ring3
    \/ spawn \/ irq_return \/ sysret

Syscalls == sys_other \/ sys_wait_irq \/ sys_exit \/ sys_spawn_bytes

\* A stopped machine stays stopped: tick() spins on the lock, or
\* exception_handler() loops on hlt, or the stack is not a stack any more.
Stopped == ~Alive /\ UNCHANGED vars

Next == tick \/ spawn_lock \/ Kernel \/ syscall_entry \/ Syscalls \/ Stopped
Spec == Init /\ [][Next]_vars

\* The APIC timer is periodic and a masked tick stays pending, so it is taken
\* at the first chance; kernel code goes on when the CPU runs it;
\* ring-3 code need not make system calls.
FairSpec == Spec /\ SF_vars(tick) /\ WF_vars(Kernel \/ Syscalls)

\* The same when every process is a driver loop, which comes back to
\* SYS_WAIT_IRQ (or exits) again and again.
DriverSpec ==
    FairSpec /\ WF_vars(syscall_entry) /\ SF_vars(sys_wait_irq \/ sys_exit)

-----------------------------------------------------------------------------
(* Properties. *)

\* Every variable keeps its type, whatever the interleaving.
TypeOK ==
    /\ len \in Nat /\ len >= 3
    /\ tasks \in [Slots -> Task]
    /\ current \in Slots
    /\ cpu \in Cpu
    /\ at \in [Flows -> Labels]
    /\ isrs \in [Flows -> Nat]
    /\ pend \in [Flows -> Pend]
    /\ saved \in [Flows -> Flows \cup {BootStack}]
    /\ pslot \in [0..(MAX_TASKS - 1) -> [owner : Flows, running : BOOLEAN]]
    /\ orig \in [Procs -> Spaces]
    /\ pml4 \in [Procs -> {"none", "live", "freed"}]
    /\ status \in Statuses
    /\ raced \in BOOLEAN

\* Unless a tick hits the instructions between next() and context_switch(),
\* every task that can be switched to has its own stack in its slot, the CPU
\* executes the current task's stack, and no stack is resumed twice or after
\* its slot was reused.
ResumesOwnStack ==
    ~raced =>
        /\ status # "stale"
        /\ Alive =>
             /\ at[cpu.flow] \notin WindowLabels => tasks[current].flow = cpu.flow
             /\ \A i \in Slots :
                  i # current /\ tasks[i].state # "Dead" =>
                     \/ tasks[i].rsp = tasks[i].flow
                     \/ tasks[i].flow = cpu.flow /\ at[cpu.flow] \in WindowLabels

\* The per-CPU registers block_on_irq() swaps by hand are the executing
\* task's: GS is on the per-CPU page exactly inside a system call, gs:[8]
\* holds the caller's own user RSP until its sysretq, and a process's
\* interrupts and system calls arrive on its own kernel stack.
SyscallContext ==
    ~raced =>
        LET f == cpu.flow
            inSys == isrs[f] = 0 /\ at[f] \in {"sys", "ret3"}
        IN /\ status # "gs"
           /\ Alive => /\ cpu.gs = "percpu" <=> inSys
                       /\ inSys => cpu.user_rsp = f
                       /\ f \in Procs => cpu.kstack = f

\* next() hands the CPU to exactly one task: the current slot is Running and
\* no other is - so the "no other task" branches of sleep_ms(), block_on_irq()
\* and exit_current() are never the last word, the idle task being always there.
OneRunning ==
    \A i \in Slots : tasks[i].state = "Running" <=> i = current

\* Whatever code runs, runs where it should, through every preemption, sleep,
\* wait and exit, a tick in the middle of a switch included.  One task is
\* Running, the current one.  Ring-3 code is in its own address space, which is
\* the one its task records, with interrupts on, and its slot of PROC_SLOTS is
\* its own, so SYS_EXIT comes back to its frame.
\* The two tasks that never block are what restarts the timer: whenever kmain
\* or the desktop runs its own code, interrupts are on and the timer's
\* in-service bit is clear, whoever switched to them and however.
RunsInContext ==
    /\ OneRunning
    /\ Executes("user") =>
          /\ cpu.cr3 = cpu.flow /\ tasks[current].cr3 = cpu.flow /\ cpu.ie
          /\ pslot[SlotIndex] = [owner |-> cpu.flow, running |-> TRUE]
    /\ Executes("kern") /\ cpu.flow \in {Idle, Blink} => cpu.ie /\ ~cpu.isr

\* A tick that finds SCHEDULER locked has interrupted the lock's holder: the
\* lock is never carried across a switch, so system calls, which run with
\* interrupts off, can never spin on it.
LockNeverCarried ==
    \A f \in Flows :
        at[f] \in LockLabels => f = cpu.flow /\ isrs[f] = 0

\* Round robin: with the timer ticking and every process a driver loop, a
\* Ready task gets the CPU - although sleepers and IRQ waiters come back with
\* the timer still in service, and only kmain and the desktop clear it.
ReadyTaskRuns ==
    \A f \in Flows :
        (\E i \in Slots : tasks[i].flow = f /\ tasks[i].state = "Ready")
        ~> (~Alive \/ raced \/ cpu.flow = f)

-----------------------------------------------------------------------------
(* What a comment in the source says, and the code does not do. *)

\* scheduler.rs, Task::cr3: tasks "default to the kernel's own root PML4, read
\* once at creation time".
PageTablesOutliveTasks ==
    \A i \in Slots :
        tasks[i].state # "Dead" /\ tasks[i].cr3 \in Procs =>
            pml4[tasks[i].cr3] = "live"

=============================================================================
