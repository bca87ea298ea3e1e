--------------------------- MODULE SchedulerProofs ---------------------------
(***************************************************************************)
(* Machine-checked proofs about Scheduler, for every set of processes.     *)
(*                                                                         *)
(* The lock never leaves its holder.  And the switches never lose a stack: *)
(* as long as no tick hits the middle of a switch (~raced), every task is  *)
(* resumed on its own stack with its own per-CPU registers.  The invariant *)
(* of that is KInv, proved first for the initial states, for the steps     *)
(* that stay on one flow and for the timer interrupt, then for blocking,   *)
(* exiting and spawning, and so for all.                                   *)
(***************************************************************************)
EXTENDS Scheduler, TLAPS

\* How long, in seconds, a prover may take over one leaf.
USE ZenonT(60)

USE DEF Idle, Blink, Worker, KRoot, Stale, BootStack, TimerVector, NoIrq,
        Forever, Dangling

\* The labels only a spawned task's flow can have.
ProcLabels ==
    {"lk_index", "loaded", "cr3w", "lk_cr3", "enter", "user", "sys", "ret3",
     "irq", "tail", "lk_exit", "win_exit", "exit"}

\* Each flow stays in the code of its own task.
LabelInv ==
    /\ \A g \in Flows : at[g] \in ProcLabels => g \in Procs
    /\ \A g \in Flows : at[g] \in {"lk_sleep", "win_sleep", "sleep"} => g = Worker
    /\ \A g \in Flows : at[g] = "lk_spawn" => g = Blink
    /\ \A k \in 0..(MAX_TASKS - 1) : pslot[k].running => pslot[k].owner \in Procs

\* What next() and its callers do to the part of the table that names flows:
\* nothing, and they wake Blocked tasks only.
Woken(n, ts, us) ==
    /\ us \in [0..(n - 1) -> Task]
    /\ \A i \in 0..(n - 1) :
         /\ us[i].rsp = ts[i].rsp
         /\ us[i].flow = ts[i].flow
         /\ us[i].cr3 = ts[i].cr3
         /\ \/ us[i].state = ts[i].state
            \/ ts[i].state = "Blocked" /\ us[i].state = "Ready"

\* The first half of next() changes no task but to wake a sleeper whose time
\* has come.
LEMMA PromoteWakes ==
    ASSUME NEW n \in Nat, NEW ts \in [0..(n - 1) -> Task]
    PROVE  Woken(n, ts, Promote(ts))
  <1> DEFINE us == Promote(ts)
  <1>1. ASSUME NEW i \in 0..(n - 1)
        PROVE  /\ us[i] \in Task
               /\ us[i].rsp = ts[i].rsp /\ us[i].flow = ts[i].flow
               /\ us[i].cr3 = ts[i].cr3
               /\ \/ us[i].state = ts[i].state
                  \/ ts[i].state = "Blocked" /\ us[i].state = "Ready"
    <2>1. ts[i] \in Task
      OBVIOUS
    <2> QED BY <2>1 DEF Promote, Task, TaskStates
  <1>2. us = [i \in 0..(n - 1) |-> us[i]]
    BY DEF Promote
  <1> HIDE DEF us
  <1>3. us \in [0..(n - 1) -> Task]
    BY <1>1, <1>2
  <1>4. Woken(n, ts, us)
    BY <1>1, <1>3 DEF Woken
  <1> QED BY <1>4 DEF us

\* tick() counts sleepers down: Elapse only shortens sleeps or makes the
\* sleeper Ready.
LEMMA ElapseWakes ==
    ASSUME NEW n \in Nat, NEW ts \in [0..(n - 1) -> Task]
    PROVE  Woken(n, ts, Elapse(ts))
  <1> DEFINE us == Elapse(ts)
  <1>1. ASSUME NEW i \in 0..(n - 1)
        PROVE  /\ us[i] \in Task
               /\ us[i].rsp = ts[i].rsp /\ us[i].flow = ts[i].flow
               /\ us[i].cr3 = ts[i].cr3
               /\ \/ us[i].state = ts[i].state
                  \/ ts[i].state = "Blocked" /\ us[i].state = "Ready"
    <2>1. ts[i] \in Task
      OBVIOUS
    <2> QED BY <2>1, SMTT(60) DEF Elapse, Task, TaskStates
  <1>2. us = [i \in 0..(n - 1) |-> us[i]]
    BY DEF Elapse
  <1> HIDE DEF us
  <1>3. us \in [0..(n - 1) -> Task]
    BY <1>1, <1>2
  <1>4. Woken(n, ts, us)
    BY <1>1, <1>3 DEF Woken
  <1> QED BY <1>4 DEF us

\* wake_irq_waiters() only turns waiters on its vector Ready.
LEMMA WakeIrqWakes ==
    ASSUME NEW n \in Nat, NEW ts \in [0..(n - 1) -> Task], NEW v
    PROVE  Woken(n, ts, wake_irq_waiters(ts, v))
  <1> DEFINE us == wake_irq_waiters(ts, v)
  <1>1. ASSUME NEW i \in 0..(n - 1)
        PROVE  /\ us[i] \in Task
               /\ us[i].rsp = ts[i].rsp /\ us[i].flow = ts[i].flow
               /\ us[i].cr3 = ts[i].cr3
               /\ \/ us[i].state = ts[i].state
                  \/ ts[i].state = "Blocked" /\ us[i].state = "Ready"
    <2>1. ts[i] \in Task
      OBVIOUS
    <2> QED BY <2>1, ZenonT(60) DEF wake_irq_waiters, Task, TaskStates
  <1>2. us = [i \in 0..(n - 1) |-> us[i]]
    BY DEF wake_irq_waiters
  <1> HIDE DEF us
  <1>3. us \in [0..(n - 1) -> Task]
    BY <1>1, <1>2
  <1>4. Woken(n, ts, us)
    BY <1>1, <1>3 DEF Woken
  <1> QED BY <1>4 DEF us

\* The two together: a tick changes no task but to wake it.
LEMMA TickWakes ==
    ASSUME NEW n \in Nat, NEW ts \in [0..(n - 1) -> Task]
    PROVE  Woken(n, ts, Promote(wake_irq_waiters(Elapse(ts), TimerVector)))
  <1> DEFINE e == Elapse(ts)
             w == wake_irq_waiters(e, TimerVector)
             p == Promote(w)
  <1>1. Woken(n, ts, e) /\ e \in [0..(n - 1) -> Task]
    BY ElapseWakes, SMTT(60) DEF Woken
  <1>2. Woken(n, e, w) /\ w \in [0..(n - 1) -> Task]
    BY <1>1, WakeIrqWakes, SMTT(60) DEF Woken
  <1>3. Woken(n, w, p)
    BY <1>2, PromoteWakes
  <1> HIDE DEF e, w, p
  <1>4. Woken(n, ts, p)
    BY <1>1, <1>2, <1>3, SMTT(60) DEF Woken
  <1> QED BY <1>4 DEF p, w, e

-----------------------------------------------------------------------------
(* What the steps of a switch do to the table and to the registers. *)

\* The hand-over of next(): old gives up Running, the chosen one takes it, and
\* nothing else of the table moves.
LEMMA HandoverFacts ==
    ASSUME NEW n \in Nat, NEW ts \in [0..(n - 1) -> Task],
           NEW cur \in 0..(n - 1), NEW i \in 0..(n - 1), i # cur
    PROVE  LET us == Handover(ts, cur, i) IN
           /\ us \in [0..(n - 1) -> Task]
           /\ \A k \in 0..(n - 1) :
                /\ us[k].rsp = ts[k].rsp /\ us[k].flow = ts[k].flow
                /\ us[k].cr3 = ts[k].cr3
                /\ us[k].state = IF k = i THEN "Running"
                                 ELSE IF k = cur /\ ts[k].state = "Running"
                                 THEN "Ready" ELSE ts[k].state
  <1> DEFINE us == Handover(ts, cur, i)
  <1>1. ts[i] \in Task /\ ts[cur] \in Task
    OBVIOUS
  <1>2. ASSUME NEW k \in 0..(n - 1)
        PROVE  /\ us[k] \in Task
               /\ us[k].rsp = ts[k].rsp /\ us[k].flow = ts[k].flow
               /\ us[k].cr3 = ts[k].cr3
               /\ us[k].state = IF k = i THEN "Running"
                                ELSE IF k = cur /\ ts[k].state = "Running"
                                THEN "Ready" ELSE ts[k].state
    <2>1. ts[k] \in Task
      OBVIOUS
    <2>2. us[k] = IF k = i THEN [ts[k] EXCEPT !.state = "Running"]
                  ELSE IF k = cur /\ ts[k].state = "Running"
                  THEN [ts[k] EXCEPT !.state = "Ready"]
                  ELSE IF k = cur THEN [ts[k] EXCEPT !.state = ts[k].state]
                  ELSE ts[k]
      BY <1>1, <2>1 DEF Handover
    <2> HIDE DEF us
    <2> QED BY <2>1, <2>2, SMTT(60) DEF Task, TaskStates
  <1>3. us = [k \in 0..(n - 1) |-> us[k]]
    BY ZenonT(60) DEF Handover
  <1> HIDE DEF us
  <1>4. us \in [0..(n - 1) -> Task]
    BY <1>2, <1>3
  <1> QED BY <1>2, <1>4 DEF us

\* context_switch() stores the stack pointer in the slot of one task only.
LEMMA SaveRspFacts ==
    ASSUME NEW n \in Nat, NEW ts \in [0..(n - 1) -> Task],
           NEW old, NEW i, NEW f \in Flows
    PROVE  LET us == SaveRsp(ts, old, f, i) IN
           /\ us \in [0..(n - 1) -> Task]
           /\ \A k \in 0..(n - 1) :
                /\ us[k].rsp = IF k = old THEN f
                               ELSE IF k = i THEN Stale ELSE ts[k].rsp
                /\ us[k].flow = ts[k].flow /\ us[k].cr3 = ts[k].cr3
                /\ us[k].state = ts[k].state
  <1> DEFINE us == SaveRsp(ts, old, f, i)
  <1>1. ASSUME NEW k \in 0..(n - 1)
        PROVE  /\ us[k] \in Task
               /\ us[k].rsp = IF k = old THEN f
                              ELSE IF k = i THEN Stale ELSE ts[k].rsp
               /\ us[k].flow = ts[k].flow /\ us[k].cr3 = ts[k].cr3
               /\ us[k].state = ts[k].state
    <2>1. ts[k] \in Task
      OBVIOUS
    <2> QED BY <2>1 DEF SaveRsp, Task, TaskStates, Flows
  <1>2. us = [k \in 0..(n - 1) |-> us[k]]
    BY ZenonT(60) DEF SaveRsp
  <1> HIDE DEF us
  <1>3. us \in [0..(n - 1) -> Task]
    BY <1>1, <1>2
  <1> QED BY <1>1, <1>3 DEF us

\* What restoring a saved flow puts on the CPU has the type of a CPU state.
LEMMA LoadCpuFacts ==
    ASSUME NEW c \in Cpu, NEW r \in Flows \cup {Stale}, NEW s \in Spaces,
           NEW k \in Flows
    PROVE  LET d == LoadCpu(c, r, s, k) IN
           /\ d \in Cpu
           /\ d.flow = IF r = Stale THEN c.flow ELSE r
           /\ d.cr3 = s /\ d.kstack = k
           /\ d.ie = c.ie /\ d.isr = c.isr /\ d.gs = c.gs
           /\ d.user_rsp = c.user_rsp
  BY ZenonT(60) DEF LoadCpu, Cpu

\* Resuming a stack either runs on or ends the run with a fault.
LEMMA OutcomeType ==
    ASSUME NEW r \in Flows \cup {Stale}, NEW s \in Spaces
    PROVE  Outcome(r, s) \in Statuses
  BY DEF Outcome, Statuses

\* tick() and block_on_irq() switch: the parts of the state after the switch,
\* named one by one.
LEMMA SwitchToFacts ==
    ASSUME TypeOK, NEW ts \in [Slots -> Task], NEW i \in Slots, i # current,
           NEW c \in Cpu, c.flow = cpu.flow, SwitchTo(ts, i, c)
    PROVE  /\ tasks' \in [Slots -> Task]
           /\ current' = i
           /\ cpu' \in Cpu
           /\ cpu'.flow = IF ts[i].rsp = Stale THEN cpu.flow ELSE ts[i].rsp
           /\ cpu'.kstack = ts[i].flow /\ cpu'.cr3 = ts[i].cr3
           /\ cpu'.ie = c.ie /\ cpu'.isr = c.isr /\ cpu'.gs = c.gs
           /\ cpu'.user_rsp = c.user_rsp
           /\ status' = Outcome(ts[i].rsp, ts[i].cr3)
           /\ status' \in Statuses
           /\ \A k \in Slots :
                /\ tasks'[k].flow = ts[k].flow /\ tasks'[k].cr3 = ts[k].cr3
                /\ tasks'[k].rsp = IF k = current THEN cpu.flow
                                   ELSE IF k = i THEN Stale ELSE ts[k].rsp
                /\ tasks'[k].state = IF k = i THEN "Running"
                                     ELSE IF k = current /\ ts[k].state = "Running"
                                     THEN "Ready" ELSE ts[k].state
  <1> DEFINE h == Handover(ts, current, i)
             u == SaveRsp(h, current, cpu.flow, i)
             d == LoadCpu(c, ts[i].rsp, ts[i].cr3, ts[i].flow)
  <1>0. /\ len \in Nat /\ current \in Slots /\ cpu.flow \in Flows
        /\ ts[i].rsp \in Flows \cup {Stale} /\ ts[i].cr3 \in Spaces
        /\ ts[i].flow \in Flows
    BY DEF TypeOK, Cpu, Task
  <1>1. /\ h \in [Slots -> Task]
        /\ \A k \in Slots :
                /\ h[k].rsp = ts[k].rsp /\ h[k].flow = ts[k].flow
                /\ h[k].cr3 = ts[k].cr3
                /\ h[k].state = IF k = i THEN "Running"
                                ELSE IF k = current /\ ts[k].state = "Running"
                                THEN "Ready" ELSE ts[k].state
    <2>1. /\ ts \in [0..(len - 1) -> Task] /\ len \in Nat
          /\ current \in 0..(len - 1) /\ i \in 0..(len - 1) /\ i # current
      BY <1>0 DEF Slots
    <2> HIDE DEF h
    <2>2. h = Handover(ts, current, i)
      BY DEF h
    <2>3. /\ h \in [0..(len - 1) -> Task]
          /\ \A k \in 0..(len - 1) :
                /\ h[k].rsp = ts[k].rsp /\ h[k].flow = ts[k].flow
                /\ h[k].cr3 = ts[k].cr3
                /\ h[k].state = IF k = i THEN "Running"
                                ELSE IF k = current /\ ts[k].state = "Running"
                                THEN "Ready" ELSE ts[k].state
      BY <2>1, <2>2, HandoverFacts, SMTT(60)
    <2> QED BY <2>3 DEF Slots
  <1> HIDE DEF h
  <1>2. /\ u \in [Slots -> Task]
        /\ \A k \in Slots :
                /\ u[k].rsp = IF k = current THEN cpu.flow
                              ELSE IF k = i THEN Stale ELSE h[k].rsp
                /\ u[k].flow = h[k].flow /\ u[k].state = h[k].state
                /\ u[k].cr3 = h[k].cr3
    BY <1>0, <1>1, SaveRspFacts, SMTT(60) DEF Slots
  <1>3. /\ d \in Cpu
        /\ d.flow = IF ts[i].rsp = Stale THEN c.flow ELSE ts[i].rsp
        /\ d.kstack = ts[i].flow /\ d.cr3 = ts[i].cr3
        /\ d.ie = c.ie /\ d.isr = c.isr /\ d.gs = c.gs
        /\ d.user_rsp = c.user_rsp
    BY <1>0, ZenonT(60) DEF LoadCpu, Cpu
  <1>4. Outcome(ts[i].rsp, ts[i].cr3) \in Statuses
    BY <1>0, OutcomeType
  <1>5. tasks' = u /\ current' = i /\ cpu' = d /\ status' = Outcome(ts[i].rsp, ts[i].cr3)
    BY DEF SwitchTo, h
  <1> HIDE DEF u, d
  <1> QED BY <1>1, <1>2, <1>3, <1>4, <1>5, SMTT(60)

\* LeaveCpu() seen from the table, pts being what next() scans: nobody else
\* can run, or slot i is chosen.
LeftAlone(pts, a, s) ==
    /\ NoNext(pts, len, current)
    /\ tasks' \in [Slots -> Task]
    /\ \A k \in Slots :
         /\ tasks'[k].flow = pts[k].flow /\ tasks'[k].rsp = pts[k].rsp
         /\ tasks'[k].state = IF k = current THEN s ELSE pts[k].state
    /\ at' = [at EXCEPT ![cpu.flow] = a]
    /\ current' = current /\ pend' = pend

LeftFor(pts, i, w) ==
    /\ i # current /\ pts[i].state = "Ready"
    /\ tasks' \in [Slots -> Task]
    /\ \A k \in Slots :
         /\ tasks'[k].rsp = pts[k].rsp /\ tasks'[k].flow = pts[k].flow
         /\ tasks'[k].cr3 = pts[k].cr3
         /\ tasks'[k].state = IF k = i THEN "Running"
                              ELSE IF k = current /\ pts[k].state = "Running"
                              THEN "Ready" ELSE pts[k].state
    /\ at' = [at EXCEPT ![cpu.flow] = w]
    /\ current' = i
    /\ pend' \in [Flows -> Pend]
    /\ pend'[cpu.flow] = [old |-> current, rsp |-> pts[i].rsp,
                          cr3 |-> pts[i].cr3, kstack |-> pts[i].flow]
    /\ \A f \in Flows : f # cpu.flow => pend'[f] = pend[f]

\* sleep_ms() and exit_current() up to the unlock: the parts of the state after
\* next() has chosen, named one by one.
LEMMA LeaveCpuFacts ==
    ASSUME TypeOK, NEW ts \in [Slots -> Task], NEW w \in Labels,
           NEW a \in Labels, NEW s \in TaskStates, LeaveCpu(ts, w, a, s)
    PROVE  \E pts \in [Slots -> Task] :
             /\ pts = Promote(ts)
             /\ Woken(len, ts, pts)
             /\ LeftAlone(pts, a, s) \/ \E i \in Slots : LeftFor(pts, i, w)
  <1> DEFINE pts == Promote(ts)
  <1>0. len \in Nat /\ current \in Slots /\ cpu.flow \in Flows /\ pend \in [Flows -> Pend]
    BY DEF TypeOK, Cpu
  <1>1. Woken(len, ts, pts) /\ pts \in [Slots -> Task] /\ pts = Promote(ts)
    BY <1>0, PromoteWakes, SMTT(60) DEF Woken, Slots
  <1>2. CASE NoNext(pts, len, current)
    <2>1. tasks' = [pts EXCEPT ![current].state = s] /\ at' = [at EXCEPT ![cpu.flow] = a]
          /\ current' = current /\ pend' = pend
      BY <1>2 DEF LeaveCpu, Goto
    <2> HIDE DEF pts
    <2>2. /\ tasks' \in [Slots -> Task]
          /\ \A k \in Slots :
               /\ tasks'[k].flow = pts[k].flow /\ tasks'[k].rsp = pts[k].rsp
               /\ tasks'[k].state = IF k = current THEN s ELSE pts[k].state
      <3>1. ASSUME NEW k \in Slots
            PROVE  /\ tasks'[k] \in Task
                   /\ tasks'[k].flow = pts[k].flow /\ tasks'[k].rsp = pts[k].rsp
                   /\ tasks'[k].state = IF k = current THEN s ELSE pts[k].state
        <4>1. pts[k] \in Task
          BY <1>1
        <4> QED BY ZenonT(60), <1>0, <1>1, <2>1, <4>1 DEF Task, TaskStates
      <3>2. tasks' = [k \in Slots |-> tasks'[k]]
        BY <1>1, <2>1, ZenonT(60)
      <3> QED BY <3>1, <3>2
    <2>3. LeftAlone(pts, a, s)
      BY <1>2, <2>1, <2>2 DEF LeftAlone
    <2> QED BY <1>1, <2>3
  <1>3. CASE ~NoNext(pts, len, current)
    <2>1. PICK i \in Slots :
            /\ IsNext(pts, len, current, i)
            /\ tasks' = Handover(pts, current, i)
            /\ current' = i
            /\ pend' = [pend EXCEPT ![cpu.flow] =
                          [old |-> current, rsp |-> pts[i].rsp,
                           cr3 |-> pts[i].cr3, kstack |-> pts[i].flow]]
            /\ at' = [at EXCEPT ![cpu.flow] = w]
      BY <1>3, ZenonT(60) DEF LeaveCpu, Goto
    <2> HIDE DEF pts
    <2>2. i # current /\ pts[i].state = "Ready"
      BY <2>1 DEF IsNext
    <2>3. /\ pts \in [0..(len - 1) -> Task] /\ current \in 0..(len - 1)
          /\ i \in 0..(len - 1)
      BY <1>0, <1>1 DEF Slots
    <2>4. /\ tasks' \in [0..(len - 1) -> Task]
          /\ \A k \in 0..(len - 1) :
               /\ tasks'[k].rsp = pts[k].rsp /\ tasks'[k].flow = pts[k].flow
               /\ tasks'[k].cr3 = pts[k].cr3
               /\ tasks'[k].state =
                      IF k = i THEN "Running"
                      ELSE IF k = current /\ pts[k].state = "Running"
                      THEN "Ready" ELSE pts[k].state
      BY <1>0, <2>1, <2>2, <2>3, HandoverFacts, SMTT(60)
    <2>5. [old |-> current, rsp |-> pts[i].rsp, cr3 |-> pts[i].cr3,
           kstack |-> pts[i].flow] \in Pend
      <3>1. pts[i] \in Task /\ current \in Int
        BY <1>0, <1>1, SMTT(60) DEF Slots
      <3> QED BY <3>1 DEF Pend, Task
    <2>6. /\ pend' \in [Flows -> Pend]
          /\ pend'[cpu.flow] = [old |-> current, rsp |-> pts[i].rsp,
                                cr3 |-> pts[i].cr3, kstack |-> pts[i].flow]
          /\ \A f \in Flows : f # cpu.flow => pend'[f] = pend[f]
      BY <1>0, <2>1, <2>5
    <2>7. /\ tasks' \in [Slots -> Task]
          /\ \A k \in Slots :
               /\ tasks'[k].rsp = pts[k].rsp /\ tasks'[k].flow = pts[k].flow
               /\ tasks'[k].cr3 = pts[k].cr3
               /\ tasks'[k].state =
                      IF k = i THEN "Running"
                      ELSE IF k = current /\ pts[k].state = "Running"
                      THEN "Ready" ELSE pts[k].state
      BY <2>4 DEF Slots
    <2>8. LeftFor(pts, i, w)
      BY <2>1, <2>2, <2>6, <2>7 DEF LeftFor
    <2> QED BY <1>1, <2>8
  <1> QED BY <1>2, <1>3

-----------------------------------------------------------------------------
(* Types, labels and the scheduler's lock. *)

TInv == TypeOK /\ LabelInv /\ LockNeverCarried

\* The boot tasks of kmain() start well typed.
LEMMA TInvInit == Init => TInv
  <1> SUFFICES ASSUME Init PROVE TInv
    OBVIOUS
  <1>1. /\ tasks \in [Slots -> Task] /\ len \in Nat /\ len >= 3
        /\ current \in Slots
    <2>1. Slots = 0..2 /\ len = 3 /\ current = 0
      BY SMTT(60) DEF Init, Slots
    <2>2. ASSUME NEW i \in 0..2 PROVE tasks[i] \in Task
      BY ZenonT(60) DEF Init, NewTask, Task, TaskStates, Flows, BootFlows, Spaces
    <2>3. tasks = [i \in 0..2 |-> tasks[i]]
      BY DEF Init
    <2> QED BY <2>1, <2>2, <2>3, SMTT(60)
  <1>2. cpu \in Cpu /\ pend \in [Flows -> Pend] /\ isrs \in [Flows -> Nat]
    BY SMTT(60) DEF Init, Cpu, Pend, Flows, BootFlows, Spaces
  <1>3. at \in [Flows -> Labels]
    BY DEF Init, Labels
  <1>4. /\ saved \in [Flows -> Flows \cup {BootStack}]
        /\ pslot \in [0..(MAX_TASKS - 1) -> [owner : Flows, running : BOOLEAN]]
        /\ orig \in [Procs -> Spaces]
        /\ pml4 \in [Procs -> {"none", "live", "freed"}]
        /\ status \in Statuses /\ raced \in BOOLEAN
    BY ZenonT(60) DEF Init, Flows, BootFlows, Spaces, Statuses
  <1>5. LabelInv
    BY DEF Init, LabelInv, ProcLabels, BootFlows
  <1>6. LockNeverCarried
    BY DEF Init, LockNeverCarried, LockLabels
  <1> QED BY <1>1, <1>2, <1>3, <1>4, <1>5, <1>6 DEF TInv, TypeOK

\* A step that only moves the executing flow to a label of its own task.
LEMMA TInvGoto ==
    ASSUME TInv, NEW l \in Labels, Goto(l), isrs' = isrs, isrs[cpu.flow] = 0,
           cpu'.flow = cpu.flow, pslot' = pslot,
           l \in ProcLabels => cpu.flow \in Procs,
           l \in {"lk_sleep", "win_sleep", "sleep"} => cpu.flow = Worker,
           l = "lk_spawn" => cpu.flow = Blink
    PROVE  at' \in [Flows -> Labels] /\ LabelInv' /\ LockNeverCarried'
  BY DEF TInv, TypeOK, LabelInv, LockNeverCarried, Goto, Cpu

\* The context_switch() that ends sleep_ms() and exit_current().
LEMMA TInvLeaveSwitch ==
    ASSUME TInv, NEW w, NEW l \in {"sleep", "exit"}, leave_switch(w, l),
           l = "sleep" => cpu.flow = Worker, l = "exit" => cpu.flow \in Procs,
           w \notin LockLabels
    PROVE  TInv'
  <1> DEFINE p == pend[cpu.flow]
  <1>t. TypeOK /\ cpu.flow \in Flows /\ p \in Pend
    BY DEF TInv, TypeOK, Cpu
  <1>1. /\ at[cpu.flow] = w /\ isrs[cpu.flow] = 0
        /\ at' = [at EXCEPT ![cpu.flow] = l]
        /\ cpu' = LoadCpu(cpu, p.rsp, p.cr3, p.kstack)
        /\ tasks' \in {tasks, SaveRsp(tasks, p.old, cpu.flow, current)}
        /\ status' \in {"stale", Outcome(p.rsp, p.cr3)}
        /\ UNCHANGED <<len, current, isrs, pend, saved, pslot, orig, pml4, raced>>
    BY DEF leave_switch, Executes, Goto
  <1>2. cpu' \in Cpu
    BY <1>1, <1>t, ZenonT(60) DEF LoadCpu, Cpu, Pend, TypeOK
  <1>3. status' \in Statuses
    BY <1>1, <1>t, OutcomeType DEF Pend, Statuses
  <1> HIDE DEF p
  <1>4. tasks' \in [Slots -> Task]
    <2>1. /\ tasks \in [0..(len - 1) -> Task] /\ len \in Nat
          /\ cpu.flow \in Flows
      BY <1>t DEF TypeOK, Slots
    <2>2. SaveRsp(tasks, p.old, cpu.flow, current) \in [0..(len - 1) -> Task]
      BY <2>1, SaveRspFacts
    <2> QED BY <1>1, <2>1, <2>2 DEF Slots
  <1>5. at' \in [Flows -> Labels] /\ LabelInv'
    BY <1>1, <1>t DEF TInv, TypeOK, LabelInv, Labels, ProcLabels
  <1>6. LockNeverCarried'
    \* nobody holds the lock: the leaving flow would be the only one
    BY <1>1, <1>t DEF TInv, TypeOK, LockNeverCarried, LockLabels
  <1> QED BY <1>1, <1>2, <1>3, <1>4, <1>5, <1>6, <1>t DEF TInv, TypeOK, Slots

\* spawn() in the first Dead slot or at the end of the table.
LEMMA TInvSpawn ==
    ASSUME TInv, NEW p \in Procs, NEW l \in {"kern", "ret3"}, Spawn(p, l),
           l = "ret3" => cpu.flow \in Procs, isrs[cpu.flow] = 0
    PROVE  TInv'
  <1> DEFINE dead == {i \in Slots : tasks[i].state = "Dead"}
             new == NewTask(p, cpu.cr3)
  <1>t. TypeOK /\ cpu.flow \in Flows /\ p \in Flows
    BY DEF TInv, TypeOK, Cpu, Flows
  <1>0. UNCHANGED <<current, cpu, isrs, saved, pslot, orig, pml4, status, raced>>
    BY DEF Spawn
  <1>1. new \in Task
    BY <1>t DEF NewTask, Task, TaskStates, TypeOK, Cpu
  <1>2. CASE dead # {}
    <2>1. PICK i \in dead :
            /\ tasks' = [tasks EXCEPT ![i] = new]
            /\ at' = [at EXCEPT ![tasks[i].flow] = "gone", ![p] = "fresh",
                                ![cpu.flow] = l]
            /\ UNCHANGED <<len, pend>>
      BY <1>2 DEF Spawn
    <2> HIDE DEF new
    <2>2. tasks' \in [Slots -> Task] /\ tasks[i].flow \in Flows
      BY <1>1, <1>t, <2>1 DEF TypeOK, Task
    <2>3. at' \in [Flows -> Labels] /\ LabelInv' /\ LockNeverCarried'
      BY ZenonT(60), <1>0, <1>t, <2>1, <2>2
         DEF TInv, TypeOK, LabelInv, LockNeverCarried, Labels, ProcLabels, LockLabels
    <2> QED BY <1>0, <1>t, <2>1, <2>2, <2>3, ZenonT(60) DEF TInv, TypeOK, Slots
  <1>3. CASE dead = {}
    <2>1. /\ tasks' = [i \in 0..len |-> IF i = len THEN new ELSE tasks[i]]
          /\ len' = len + 1
          /\ at' = [at EXCEPT ![p] = "fresh", ![cpu.flow] = l]
          /\ \/ UNCHANGED pend
             \/ pend' = [f \in Flows |-> [pend[f] EXCEPT !.old = Dangling]]
      BY <1>3 DEF Spawn
    <2> HIDE DEF new, dead
    <2>2. /\ len' \in Nat /\ len' >= 3 /\ tasks' \in [0..(len' - 1) -> Task]
          /\ current' \in 0..(len' - 1)
      BY <1>0, <1>1, <1>t, <2>1, SMTT(60) DEF TypeOK, Slots
    <2>3. pend' \in [Flows -> Pend]
      <3>1. ASSUME NEW f \in Flows PROVE [pend[f] EXCEPT !.old = Dangling] \in Pend
        <4>1. pend[f] \in Pend /\ 0 - 1 \in Int
          BY <1>t, SMTT(60) DEF TypeOK
        <4> QED BY <4>1 DEF Pend
      <3> QED BY <1>t, <2>1, <3>1, SMTT(60) DEF TypeOK
    <2>4. at' \in [Flows -> Labels] /\ LabelInv' /\ LockNeverCarried'
      BY <1>0, <1>t, <2>1
         DEF TInv, TypeOK, LabelInv, LockNeverCarried, Labels, ProcLabels, LockLabels
    <2> QED BY <1>0, <1>t, <2>1, <2>2, <2>3, <2>4, ZenonT(60) DEF TInv, TypeOK, Slots
  <1> QED BY <1>2, <1>3

\* block_on_irq() seen from the table, ts being what next() scans.
IrqAlone(ts) ==
    /\ NoNext(ts, len, current)
    /\ tasks' \in [Slots -> Task]
    /\ \A k \in Slots :
         /\ tasks'[k].flow = ts[k].flow /\ tasks'[k].rsp = ts[k].rsp
         /\ tasks'[k].state = IF k = current THEN "Running" ELSE ts[k].state
    /\ at' = [at EXCEPT ![cpu.flow] = "ret3"]
    /\ UNCHANGED <<current, cpu, saved, status>>

IrqFor(ts, i) ==
    /\ i # current /\ ts[i].state = "Ready"
    /\ SwitchTo(ts, i, [cpu EXCEPT !.gs = Swapgs(@)])
    /\ at' = [at EXCEPT ![cpu.flow] = "irq"]
    /\ saved' = [saved EXCEPT ![cpu.flow] = cpu.user_rsp]

\* The table block_on_irq() hands to next().
IrqBlocked(v) ==
    [tasks EXCEPT ![current].waiting_irq = v, ![current].wake_in = Forever,
                  ![current].state = "Blocked"]

\* block_on_irq() up to its switch: the parts of the state, named one by one.
LEMMA BlockOnIrqFacts ==
    ASSUME TypeOK, NEW v \in Vectors, block_on_irq(v)
    PROVE  \E ts \in [Slots -> Task] :
             /\ Woken(len, IrqBlocked(v), ts)
             /\ ts[current].state = "Blocked"
             /\ IrqAlone(ts) \/ \E i \in Slots : IrqFor(ts, i)
  <1> DEFINE b == IrqBlocked(v)
             ts == Promote(b)
  <1>0. len \in Nat /\ current \in Slots /\ cpu.flow \in Flows
        /\ tasks \in [Slots -> Task]
    BY DEF TypeOK, Cpu
  <1>1. b \in [Slots -> Task] /\ b[current].state = "Blocked"
        /\ b[current].waiting_irq = v /\ v # NoIrq
    <2>1. ASSUME NEW k \in Slots PROVE b[k] \in Task
      <3>1. tasks[k] \in Task
        BY <1>0
      <3> QED BY ZenonT(60), <1>0, <3>1 DEF IrqBlocked, Task, TaskStates
    <2>2. b = [k \in Slots |-> b[k]]
      BY <1>0, ZenonT(60) DEF IrqBlocked
    <2>3. /\ b[current].state = "Blocked" /\ b[current].waiting_irq = v
      <3>1. tasks[current] \in Task
        BY <1>0
      <3> QED BY <1>0, <3>1 DEF IrqBlocked, Task
    <2>4. v # NoIrq
      BY VectorsAssumption, SMTT(60)
    <2> HIDE DEF b
    <2> QED BY <2>1, <2>2, <2>3, <2>4
  <1> HIDE DEF b
  <1>2. Woken(len, b, ts) /\ ts \in [Slots -> Task]
    BY <1>0, <1>1, PromoteWakes, SMTT(60) DEF Woken, Slots
  <1>3. ts[current].state = "Blocked"
    BY <1>0, <1>1 DEF Promote
  <1>4. /\ ts = Promote(b) /\ b = IrqBlocked(v)
        /\ IF NoNext(ts, len, current)
           THEN /\ tasks' = [ts EXCEPT ![current].state = "Running",
                                       ![current].waiting_irq = NoIrq]
                /\ at' = [at EXCEPT ![cpu.flow] = "ret3"]
                /\ UNCHANGED <<current, cpu, saved, status>>
           ELSE /\ saved' = [saved EXCEPT ![cpu.flow] = cpu.user_rsp]
                /\ at' = [at EXCEPT ![cpu.flow] = "irq"]
                /\ \E i \in Slots :
                     /\ IsNext(ts, len, current, i)
                     /\ SwitchTo(ts, i, [cpu EXCEPT !.gs = Swapgs(@)])
    BY ZenonT(60) DEF block_on_irq, Goto, b, IrqBlocked
  <1> HIDE DEF ts
  <1>5. CASE NoNext(ts, len, current)
    <2>1. ASSUME NEW k \in Slots
          PROVE  /\ tasks'[k] \in Task
                 /\ tasks'[k].flow = ts[k].flow /\ tasks'[k].rsp = ts[k].rsp
                 /\ tasks'[k].state = IF k = current THEN "Running" ELSE ts[k].state
      <3>1. ts[k] \in Task
        BY <1>2
      <3> QED BY <1>0, <1>2, <1>4, <1>5, <3>1, SMTT(60) DEF Task, TaskStates
    <2>2. tasks' = [k \in Slots |-> tasks'[k]]
      BY <1>2, <1>4, <1>5
    <2>3. tasks' \in [Slots -> Task]
      BY <2>1, <2>2
    <2>4. IrqAlone(ts)
      BY <1>4, <1>5, <2>1, <2>3 DEF IrqAlone
    <2> QED BY <1>2, <1>3, <1>4, <2>4
  <1>6. CASE ~NoNext(ts, len, current)
    <2>1. PICK i \in Slots : IsNext(ts, len, current, i)
                           /\ SwitchTo(ts, i, [cpu EXCEPT !.gs = Swapgs(@)])
      BY <1>4, <1>6
    <2>2. IrqFor(ts, i)
      BY <1>4, <1>6, <2>1 DEF IrqFor, IsNext
    <2> QED BY <1>2, <1>3, <1>4, <2>2
  <1> QED BY <1>5, <1>6

\* SYS_WAIT_IRQ keeps the types.
LEMMA TInvBlockOnIrq ==
    ASSUME TInv, NEW v \in Vectors, block_on_irq(v)
    PROVE  TInv'
  <1>t. TypeOK /\ cpu.flow \in Flows
    BY DEF TInv, TypeOK, Cpu
  <1>0. /\ at[cpu.flow] = "sys" /\ isrs[cpu.flow] = 0
        /\ UNCHANGED <<len, isrs, pend, pslot, orig, pml4, raced>>
    BY DEF block_on_irq, Executes
  <1>1. cpu.flow \in Procs
    BY <1>0, <1>t DEF TInv, LabelInv, ProcLabels
  <1>2. PICK ts \in [Slots -> Task] : IrqAlone(ts) \/ \E i \in Slots : IrqFor(ts, i)
    BY <1>t, BlockOnIrqFacts
  <1>3. \E l \in {"ret3", "irq"} : at' = [at EXCEPT ![cpu.flow] = l]
    BY <1>2 DEF IrqAlone, IrqFor
  <1>4. at' \in [Flows -> Labels] /\ LabelInv'
    BY <1>0, <1>1, <1>3, <1>t, SMTT(60) DEF TInv, TypeOK, LabelInv, Labels, ProcLabels
  <1>5. LockNeverCarried'
    BY <1>0, <1>3, <1>t DEF TInv, TypeOK, LockNeverCarried, LockLabels
  <1>6. CASE IrqAlone(ts)
    BY <1>0, <1>4, <1>5, <1>6, <1>t DEF IrqAlone, TInv, TypeOK, Slots
  <1>7. ASSUME NEW i \in Slots, IrqFor(ts, i) PROVE TInv'
    <2> DEFINE c == [cpu EXCEPT !.gs = Swapgs(@)]
    <2>1. c \in Cpu /\ c.flow = cpu.flow
      BY <1>t, ZenonT(60) DEF TypeOK, Cpu, Swapgs
    <2>2. SwitchTo(ts, i, c) /\ i # current
      BY <1>7 DEF IrqFor
    <2> HIDE DEF c
    <2>3. /\ tasks' \in [Slots -> Task] /\ current' = i /\ cpu' \in Cpu
          /\ status' \in Statuses
      BY <1>t, <2>1, <2>2, SwitchToFacts
    <2>4. saved' \in [Flows -> Flows \cup {BootStack}]
      BY <1>7, <1>t DEF IrqFor, TypeOK, Cpu
    <2> QED BY <1>0, <1>4, <1>5, <1>t, <2>3, <2>4 DEF TInv, TypeOK, Slots
  <1> QED BY <1>2, <1>6, <1>7

\* Every step of the scheduler keeps the strengthened type invariant.
LEMMA TInvStep == TInv /\ [Next]_vars => TInv'
  <1> SUFFICES ASSUME TInv, [Next]_vars PROVE TInv'
    OBVIOUS
  <1>t. TypeOK
    BY DEF TInv
  <1>f. cpu.flow \in Flows
    BY <1>t DEF TypeOK, Cpu
  <1>1. CASE tick
    <2> DEFINE ts == Promote(wake_irq_waiters(Elapse(tasks), TimerVector))
               c == [cpu EXCEPT !.ie = FALSE, !.isr = TRUE]
    <2>1. ts \in [Slots -> Task]
      BY <1>t, TickWakes DEF TypeOK, Slots, Woken
    <2>2. c \in Cpu /\ c.flow = cpu.flow
      BY <1>t, ZenonT(60) DEF TypeOK, Cpu
    <2>3. /\ raced' = (raced \/ MidSwitch(cpu.flow))
          /\ UNCHANGED <<len, at, pend, saved, pslot, orig, pml4>>
          /\ IF SchedLocked
             THEN /\ status' = "hung"
                  /\ UNCHANGED <<tasks, current, cpu, isrs>>
             ELSE /\ isrs' = [isrs EXCEPT ![cpu.flow] = @ + 1]
                  /\ IF NoNext(ts, len, current)
                     THEN /\ tasks' = ts
                          /\ cpu' = c
                          /\ UNCHANGED <<current, status>>
                     ELSE \E i \in Slots :
                            IsNext(ts, len, current, i) /\ SwitchTo(ts, i, c)
      BY <1>1 DEF tick
    <2> HIDE DEF ts, c
    <2>4. LabelInv'
      BY <2>3 DEF TInv, LabelInv
    <2>5. raced' \in BOOLEAN
      BY <2>3
    <2>6. /\ tasks' \in [Slots -> Task] /\ current' \in Slots /\ cpu' \in Cpu
          /\ isrs' \in [Flows -> Nat] /\ status' \in Statuses
          /\ LockNeverCarried'
      <3>1. CASE SchedLocked
        BY <2>3, <3>1, <1>t DEF TInv, TypeOK, LockNeverCarried, Statuses
      <3>2. CASE ~SchedLocked
        <4>1. isrs' \in [Flows -> Nat]
          BY <2>3, <3>2, <1>t, <1>f, SMTT(60) DEF TypeOK
        <4>2. LockNeverCarried'
          BY <2>3, <3>2 DEF SchedLocked, LockNeverCarried
        <4>3. CASE NoNext(ts, len, current)
          BY <2>1, <2>2, <2>3, <3>2, <4>1, <4>2, <4>3, <1>t DEF TypeOK
        <4>4. CASE ~NoNext(ts, len, current)
          <5>1. PICK i \in Slots : IsNext(ts, len, current, i) /\ SwitchTo(ts, i, c)
            BY <2>3, <3>2, <4>4
          <5>2. i # current
            BY <5>1 DEF IsNext
          <5>3. /\ tasks' \in [Slots -> Task] /\ current' = i /\ cpu' \in Cpu
                /\ status' \in Statuses
            BY <1>t, <2>1, <2>2, <5>1, <5>2, SwitchToFacts
          <5> QED BY <4>1, <4>2, <5>3
        <4> QED BY <4>3, <4>4
      <3> QED BY <3>1, <3>2
    <2> QED BY <2>3, <2>4, <2>5, <2>6, <1>t DEF TInv, TypeOK, Slots
  <1>2. CASE timer_return
    <2>1. cpu' \in Cpu /\ cpu'.flow = cpu.flow
      BY <1>2, <1>t, ZenonT(60) DEF timer_return, TypeOK, Cpu
    <2>2. isrs' \in [Flows -> Nat] /\ isrs[cpu.flow] > 0
      BY <1>2, <1>t, <1>f, SMTT(60) DEF timer_return, TypeOK
    <2>3. LockNeverCarried'
      BY <1>2, <2>1, <2>2, <1>f, SMTT(60) DEF timer_return, TInv, LockNeverCarried
    <2> QED BY <1>2, <2>1, <2>2, <2>3 DEF timer_return, TInv, TypeOK, LabelInv, Slots
  <1>3. CASE task_trampoline
    <2>1. "kern" \in Labels /\ "kern" \notin ProcLabels
      BY DEF Labels, ProcLabels
    <2>2. isrs[cpu.flow] = 0 /\ cpu'.flow = cpu.flow
      BY <1>3, <1>t DEF task_trampoline, Executes, TypeOK, Cpu
    <2>3. at' \in [Flows -> Labels] /\ LabelInv' /\ LockNeverCarried'
      BY <1>3, <2>1, <2>2, TInvGoto DEF task_trampoline
    <2> QED BY <1>3, <2>3, ZenonT(60) DEF task_trampoline, TInv, TypeOK, Cpu, Slots
  <1>4. CASE sleep_ms_lock
    BY <1>4, <1>f DEF sleep_ms_lock, Lock, Executes, Goto, SchedLocked, TInv,
       TypeOK, LabelInv, LockNeverCarried, Slots, Labels, LockLabels, ProcLabels
  <1>5. CASE sleep_ms
    <2>1. PICK ms \in SleepMs :
            LeaveCpu([tasks EXCEPT ![current].wake_in = SleepTicks(ms),
                                   ![current].state = "Blocked"],
                     "win_sleep", "kern", "Running")
      BY <1>5 DEF sleep_ms
    <2> DEFINE ts == [tasks EXCEPT ![current].wake_in = SleepTicks(ms),
                                   ![current].state = "Blocked"]
    <2>2. ts \in [Slots -> Task]
      <3>1. SleepTicks(ms) \in Nat
        BY SleepMsAssumption, SMTT(60) DEF SleepTicks
      <3>2. ASSUME NEW k \in Slots PROVE ts[k] \in Task
        <4>1. tasks[k] \in Task /\ tasks \in [Slots -> Task] /\ current \in Slots
          BY <1>t DEF TypeOK
        <4> QED BY ZenonT(60), <3>1, <4>1 DEF Task, TaskStates
      <3>3. ts = [k \in Slots |-> ts[k]]
        BY <1>t, ZenonT(60) DEF TypeOK
      <3> HIDE DEF ts
      <3> QED BY <3>2, <3>3
    <2> HIDE DEF ts
    <2>3. LeaveCpu(ts, "win_sleep", "kern", "Running")
      BY <2>1 DEF ts
    <2>4. /\ "win_sleep" \in Labels /\ "kern" \in Labels /\ "Running" \in TaskStates
      BY DEF Labels, WindowLabels, TaskStates
    <2>5. PICK pts \in [Slots -> Task] :
             \/ LeftAlone(pts, "kern", "Running")
             \/ \E i \in Slots : LeftFor(pts, i, "win_sleep")
      BY <1>t, <2>2, <2>3, <2>4, LeaveCpuFacts
    <2>6. /\ tasks' \in [Slots -> Task] /\ current' \in Slots /\ pend' \in [Flows -> Pend]
          /\ \E l \in {"kern", "win_sleep"} : Goto(l)
      BY <2>5, <1>t, ZenonT(60) DEF LeftAlone, LeftFor, TypeOK, Goto
    <2>7. UNCHANGED <<len, cpu, isrs, saved, pslot, orig, pml4, status, raced>>
      BY <2>3 DEF LeaveCpu
    <2>8. isrs[cpu.flow] = 0 /\ cpu.flow = Worker
      BY <1>5, <1>f DEF sleep_ms, Executes, TInv, LabelInv
    <2>9. at' \in [Flows -> Labels] /\ LabelInv' /\ LockNeverCarried'
      BY <2>4, <2>6, <2>7, <2>8, TInvGoto DEF ProcLabels
    <2> QED BY <2>6, <2>7, <2>9, <1>t DEF TInv, TypeOK, Slots
  <1>6. CASE sleep_switch
    <2>1. cpu.flow = Worker
      BY <1>6, <1>f DEF sleep_switch, leave_switch, Executes, TInv, LabelInv
    <2> QED BY <1>6, <2>1, TInvLeaveSwitch DEF sleep_switch, LockLabels
  <1>7. CASE sleep_return
    BY <1>7, <1>f DEF sleep_return, Executes, Goto, TInv,
       TypeOK, LabelInv, LockNeverCarried, Slots, Labels, LockLabels, ProcLabels
  <1>8. CASE exit_current_lock
    BY <1>8, <1>f DEF exit_current_lock, Lock, SchedLocked, Executes, Goto, TInv,
       TypeOK, LabelInv, LockNeverCarried, Slots, Labels, LockLabels, ProcLabels
  <1>9. CASE exit_current
    <2> DEFINE ts == [tasks EXCEPT ![current].state = "Dead"]
    <2>1. LeaveCpu(ts, "win_exit", "exit", "Dead")
      BY <1>9 DEF exit_current
    <2>2. ts \in [Slots -> Task]
      <3>1. ASSUME NEW k \in Slots PROVE ts[k] \in Task
        <4>1. tasks[k] \in Task /\ tasks \in [Slots -> Task] /\ current \in Slots
          BY <1>t DEF TypeOK
        <4> QED BY <4>1 DEF Task, TaskStates
      <3>2. ts = [k \in Slots |-> ts[k]]
        BY <1>t, ZenonT(60) DEF TypeOK
      <3> HIDE DEF ts
      <3> QED BY <3>1, <3>2
    <2> HIDE DEF ts
    <2>4. /\ "win_exit" \in Labels /\ "exit" \in Labels /\ "Dead" \in TaskStates
      BY DEF Labels, WindowLabels, TaskStates
    <2>5. PICK pts \in [Slots -> Task] :
             \/ LeftAlone(pts, "exit", "Dead")
             \/ \E i \in Slots : LeftFor(pts, i, "win_exit")
      BY <1>t, <2>1, <2>2, <2>4, LeaveCpuFacts
    <2>6. /\ tasks' \in [Slots -> Task] /\ current' \in Slots /\ pend' \in [Flows -> Pend]
          /\ \E l \in {"exit", "win_exit"} : Goto(l)
      BY <2>5, <1>t, ZenonT(60) DEF LeftAlone, LeftFor, TypeOK, Goto
    <2>7. UNCHANGED <<len, cpu, isrs, saved, pslot, orig, pml4, status, raced>>
      BY <2>1 DEF LeaveCpu
    <2>8. isrs[cpu.flow] = 0 /\ cpu.flow \in Procs
      BY <1>9, <1>f DEF exit_current, Executes, TInv, LabelInv, ProcLabels
    <2>9. at' \in [Flows -> Labels] /\ LabelInv' /\ LockNeverCarried'
      BY <2>4, <2>6, <2>7, <2>8, TInvGoto
    <2> QED BY <2>6, <2>7, <2>9, <1>t DEF TInv, TypeOK, Slots
  <1>10. CASE exit_switch
    <2>1. cpu.flow \in Procs
      BY <1>10, <1>f DEF exit_switch, leave_switch, Executes, TInv, LabelInv, ProcLabels
    <2> QED BY <1>10, <2>1, TInvLeaveSwitch DEF exit_switch, LockLabels
  <1>11. CASE slot_index_lock
    BY <1>11, <1>f DEF slot_index_lock, Lock, SchedLocked, Executes, Goto, TInv,
       TypeOK, LabelInv, LockNeverCarried, Slots, Labels, LockLabels, ProcLabels
  <1>p. ASSUME at[cpu.flow] \in ProcLabels PROVE cpu.flow \in Procs
    BY <1>p, <1>f DEF TInv, LabelInv
  <1>i. SlotIndex \in 0..(MAX_TASKS - 1)
    BY <1>t, MaxTasksAssumption, SMTT(60) DEF SlotIndex, TypeOK, Slots
  <1>12. CASE run_elf
    <2>1. cpu.flow \in Procs /\ isrs[cpu.flow] = 0 /\ at[cpu.flow] = "lk_index"
      BY <1>12, <1>p DEF run_elf, Executes, ProcLabels
    <2>2. /\ pslot' = [pslot EXCEPT ![SlotIndex] = [owner |-> cpu.flow, running |-> FALSE]]
          /\ pml4' = [pml4 EXCEPT ![cpu.flow] = "live"]
          /\ \E l \in {"loaded", "tail"} : Goto(l)
          /\ UNCHANGED <<tasks, len, current, cpu, isrs, pend, saved, orig, status, raced>>
      BY <1>12 DEF run_elf
    <2>3. /\ pslot' \in [0..(MAX_TASKS - 1) -> [owner : Flows, running : BOOLEAN]]
          /\ \A k \in 0..(MAX_TASKS - 1) : pslot'[k].running => pslot'[k].owner \in Procs
      BY <1>i, <1>t, <1>f, <2>2 DEF TInv, TypeOK, LabelInv
    <2>4. pml4' \in [Procs -> {"none", "live", "freed"}]
      BY <1>t, <2>2, ZenonT(60) DEF TypeOK
    <2>5. at' \in [Flows -> Labels] /\ LabelInv' /\ LockNeverCarried'
      BY <1>t, <1>f, <2>1, <2>2, <2>3, SMTT(60)
         DEF TInv, TypeOK, LabelInv, LockNeverCarried, Goto, Labels, LockLabels, ProcLabels
    <2> QED BY <1>t, <2>2, <2>3, <2>4, <2>5 DEF TInv, TypeOK, Slots
  <1>13. CASE write_cr3
    <2>1. cpu.flow \in Procs
      BY <1>13, <1>p DEF write_cr3, Executes, ProcLabels
    <2>2. cpu' \in Cpu /\ cpu'.flow = cpu.flow
      BY <1>13, <1>t, <2>1, ZenonT(60) DEF write_cr3, TypeOK, Cpu, Spaces
    <2>3. orig' \in [Procs -> Spaces]
      BY <1>13, <1>t, <2>1 DEF write_cr3, TypeOK, Cpu
    <2>4. at' \in [Flows -> Labels] /\ LabelInv' /\ LockNeverCarried'
      BY <1>13, <1>t, <1>f, <2>1, <2>2 DEF write_cr3, Executes, Goto, TInv,
         TypeOK, LabelInv, LockNeverCarried, Labels, LockLabels, ProcLabels
    <2> QED BY <1>13, <1>t, <2>2, <2>3, <2>4 DEF write_cr3, TInv, TypeOK, Slots
  <1>14. CASE set_current_cr3_lock
    BY <1>14, <1>f DEF set_current_cr3_lock, Lock, SchedLocked, Executes, Goto, TInv,
       TypeOK, LabelInv, LockNeverCarried, Slots, Labels, LockLabels, ProcLabels
  <1>15. CASE set_current_cr3
    <2>1. cpu.flow \in Procs
      BY <1>15, <1>p DEF set_current_cr3, Executes, ProcLabels
    <2>2. tasks' \in [Slots -> Task]
      <3>1. ASSUME NEW k \in Slots PROVE tasks'[k] \in Task
        <4>1. tasks[k] \in Task /\ tasks \in [Slots -> Task] /\ current \in Slots
          BY <1>t DEF TypeOK
        <4> QED BY <1>15, <2>1, <4>1 DEF set_current_cr3, Task, Spaces
      <3>2. tasks' = [k \in Slots |-> tasks'[k]]
        BY <1>15, <1>t, ZenonT(60) DEF TypeOK, set_current_cr3
      <3> QED BY <3>1, <3>2
    <2>3. at' \in [Flows -> Labels] /\ LabelInv' /\ LockNeverCarried'
      BY <1>15, <1>t, <1>f, <2>1 DEF set_current_cr3, Executes, Goto, TInv,
         TypeOK, LabelInv, LockNeverCarried, Labels, LockLabels, ProcLabels
    <2> QED BY <1>15, <1>t, <2>2, <2>3 DEF set_current_cr3, TInv, TypeOK, Slots
  <1>16. CASE enter_ring3
    <2>1. cpu.flow \in Procs
      BY <1>16, <1>p DEF enter_ring3, Executes, ProcLabels
    <2>2. cpu' \in Cpu /\ cpu'.flow = cpu.flow /\ status' \in Statuses
      BY <1>16, <1>t, ZenonT(60) DEF enter_ring3, TypeOK, Cpu, Statuses
    <2>3. /\ pslot' \in [0..(MAX_TASKS - 1) -> [owner : Flows, running : BOOLEAN]]
          /\ \A k \in 0..(MAX_TASKS - 1) : pslot'[k].running => pslot'[k].owner \in Procs
      BY <1>16, <1>i, <1>t, <1>f, <2>1 DEF enter_ring3, TInv, TypeOK, LabelInv
    <2>4. at' \in [Flows -> Labels] /\ LabelInv' /\ LockNeverCarried'
      BY <1>16, <1>t, <1>f, <2>1, <2>2, <2>3 DEF enter_ring3, Executes, Goto, TInv,
         TypeOK, LabelInv, LockNeverCarried, Labels, LockLabels, ProcLabels
    <2> QED BY <1>16, <1>t, <2>2, <2>3, <2>4 DEF enter_ring3, TInv, TypeOK, Slots
  <1>17. CASE spawn_lock
    BY <1>17, <1>f DEF spawn_lock, Lock, SchedLocked, Executes, Goto, TInv,
       TypeOK, LabelInv, LockNeverCarried, Slots, Labels, LockLabels, ProcLabels
  <1>18. CASE spawn
    <2>1. PICK p \in Procs : Spawn(p, "kern")
      BY <1>18 DEF spawn
    <2> QED BY <1>18, <2>1, TInvSpawn DEF spawn, Executes
  <1>19. CASE sys_spawn_bytes
    <2>1. PICK p \in Procs : Spawn(p, "ret3")
      BY <1>19 DEF sys_spawn_bytes
    <2>2. isrs[cpu.flow] = 0 /\ cpu.flow \in Procs
      BY <1>19, <1>p DEF sys_spawn_bytes, Executes, ProcLabels
    <2> QED BY <2>1, <2>2, TInvSpawn
  <1>20. CASE syscall_entry
    <2>1. cpu' \in Cpu /\ cpu'.flow = cpu.flow /\ status' \in Statuses
      BY <1>20, <1>t, <1>f, ZenonT(60) DEF syscall_entry, Swapgs, TypeOK, Cpu, Statuses
    <2>2. at' \in [Flows -> Labels] /\ LabelInv' /\ LockNeverCarried'
      BY <1>20, <1>t, <1>f, <1>p, <2>1 DEF syscall_entry, Executes, Goto, TInv,
         TypeOK, LabelInv, LockNeverCarried, Labels, LockLabels, ProcLabels
    <2> QED BY <1>20, <1>t, <2>1, <2>2 DEF syscall_entry, TInv, TypeOK, Slots
  <1>21. CASE sys_other
    BY <1>21, <1>f DEF sys_other, Executes, Goto, TInv,
       TypeOK, LabelInv, LockNeverCarried, Slots, Labels, LockLabels, ProcLabels
  <1>22. CASE irq_return
    <2>1. cpu' \in Cpu /\ cpu'.flow = cpu.flow
      BY <1>22, <1>t, <1>f, ZenonT(60) DEF irq_return, Swapgs, TypeOK, Cpu
    <2>2. at' \in [Flows -> Labels] /\ LabelInv' /\ LockNeverCarried'
      BY <1>22, <1>t, <1>f, <1>p, <2>1 DEF irq_return, Executes, Goto, TInv,
         TypeOK, LabelInv, LockNeverCarried, Labels, LockLabels, ProcLabels
    <2> QED BY <1>22, <1>t, <2>1, <2>2 DEF irq_return, TInv, TypeOK, Slots
  <1>23. CASE sysret
    <2>1. cpu' \in Cpu /\ cpu'.flow = cpu.flow
      BY <1>23, <1>t, <1>f, ZenonT(60) DEF sysret, Swapgs, TypeOK, Cpu
    <2>2. at' \in [Flows -> Labels] /\ LabelInv' /\ LockNeverCarried'
      BY <1>23, <1>t, <1>f, <1>p, <2>1 DEF sysret, Executes, Goto, TInv,
         TypeOK, LabelInv, LockNeverCarried, Labels, LockLabels, ProcLabels
    <2> QED BY <1>23, <1>t, <2>1, <2>2 DEF sysret, TInv, TypeOK, Slots
  <1>24. CASE sys_wait_irq
    <2>1. PICK v \in Vectors : block_on_irq(v)
      BY <1>24 DEF sys_wait_irq
    <2> QED BY <2>1, TInvBlockOnIrq
  <1>25. CASE sys_exit
    <2> DEFINE o == pslot[SlotIndex].owner
    <2>1. o \in Procs /\ cpu.flow \in Procs
      BY <1>25, <1>i, <1>p DEF sys_exit, Executes, ProcLabels, TInv, LabelInv
    <2>2. cpu' \in Cpu /\ cpu'.flow = cpu.flow /\ status' \in Statuses
      BY <1>25, <1>t, <2>1, ZenonT(60) DEF sys_exit, Swapgs, TypeOK, Cpu, Statuses
    <2>3. /\ pslot' \in [0..(MAX_TASKS - 1) -> [owner : Flows, running : BOOLEAN]]
          /\ \A k \in 0..(MAX_TASKS - 1) : pslot'[k].running => pslot'[k].owner \in Procs
      BY ZenonT(60), <1>25, <1>i, <1>t DEF sys_exit, TInv, TypeOK, LabelInv
    <2>4. at' \in [Flows -> Labels] /\ LabelInv' /\ LockNeverCarried'
      BY <1>25, <1>t, <1>f, <2>1, <2>2, <2>3, SMTT(60) DEF sys_exit, Executes, Goto, TInv,
         TypeOK, LabelInv, LockNeverCarried, Labels, LockLabels, ProcLabels
    <2>5. tasks' \in [Slots -> Task]
      <3>1. ASSUME NEW k \in Slots PROVE tasks'[k] \in Task
        <4>1. /\ tasks[k] \in Task /\ tasks \in [Slots -> Task] /\ current \in Slots
              /\ orig[o] \in Spaces
          BY <1>t, <2>1 DEF TypeOK
        <4>2. tasks' = [tasks EXCEPT ![current].cr3 = orig[o]]
          BY <1>25 DEF sys_exit
        <4> HIDE DEF o
        <4> QED BY <4>1, <4>2 DEF Task
      <3>2. tasks' = [k \in Slots |-> tasks'[k]]
        BY <1>25, <1>t, ZenonT(60) DEF TypeOK, sys_exit
      <3> QED BY <3>1, <3>2
    <2>6. pml4' \in [Procs -> {"none", "live", "freed"}]
      BY <1>25, <1>t, <2>1 DEF TypeOK, sys_exit
    <2> QED BY <1>25, <1>t, <2>2, <2>3, <2>4, <2>5, <2>6 DEF sys_exit, TInv, TypeOK, Slots
  <1>26. CASE UNCHANGED vars
    BY <1>26 DEF vars, TInv, TypeOK, LabelInv, LockNeverCarried, Slots
  <1> QED
    BY <1>1, <1>2, <1>3, <1>4, <1>5, <1>6, <1>7, <1>8, <1>9, <1>10, <1>11, <1>12,
       <1>13, <1>14, <1>15, <1>16, <1>17, <1>18, <1>19, <1>20, <1>21, <1>22,
       <1>23, <1>24, <1>25, <1>26 DEF Next, Kernel, Syscalls, Stopped

\* Type correctness for every set of processes: no interleaving of ticks,
\* sleeps, waits, spawns and exits takes the scheduler out of its types.
THEOREM Types == Spec => []TypeOK
  <1>1. TInv => TypeOK
    BY DEF TInv
  <1> QED BY <1>1, TInvInit, TInvStep, PTL DEF Spec

\* SCHEDULER's spin lock is never carried across a switch: it is only ever
\* held by the flow on the CPU, outside any timer interrupt.
THEOREM LockHeldByRunningFlow == Spec => []LockNeverCarried
  <1>1. TInv => LockNeverCarried
    BY DEF TInv
  <1> QED BY <1>1, TInvInit, TInvStep, PTL DEF Spec

-----------------------------------------------------------------------------
(* Stacks and registers *)

\* No two slots name the same flow, and a slot's flow has a stack.
TableInv ==
    /\ \A i, j \in Slots : tasks[i].flow = tasks[j].flow => i = j
    /\ \A i \in Slots : at[tasks[i].flow] \notin {"unborn", "gone"}

\* kmain and the desktop keep slots 0 and 1 and never block, so next() always
\* finds somebody to run.
BootInv ==
    /\ tasks[0].flow = Idle /\ tasks[0].state \in {"Running", "Ready"}
    /\ tasks[1].flow = Blink /\ tasks[1].state \in {"Running", "Ready"}

\* Between next() and context_switch() the executing flow is the one of the
\* slot it is about to save, and its locals describe the current slot.
WindowInv ==
    LET p == pend[cpu.flow] IN
    IF at[cpu.flow] \in WindowLabels
    THEN /\ p.old \in Slots /\ p.old # current
         /\ tasks[p.old].flow = cpu.flow
         /\ tasks[p.old].state \in {"Blocked", "Dead"}
         /\ p.rsp = tasks[current].rsp /\ p.rsp = tasks[current].flow
         /\ p.cr3 = tasks[current].cr3
         /\ p.kstack = tasks[current].flow
    ELSE tasks[current].flow = cpu.flow

\* Every suspended task has its own stack in its slot.
SuspInv ==
    \A i \in Slots :
        i # current /\ tasks[i].state # "Dead" /\ tasks[i].flow # cpu.flow =>
            tasks[i].rsp = tasks[i].flow

InSys == isrs[cpu.flow] = 0 /\ at[cpu.flow] \in {"sys", "ret3"}

\* Who may be where, and what the per-CPU registers hold.
CpuInv ==
    /\ cpu.gs = "percpu" <=> InSys
    /\ InSys => cpu.user_rsp = cpu.flow
    /\ at[cpu.flow] = "sys" => ~cpu.ie
    /\ \A g \in Flows : at[g] \in WindowLabels \cup {"sys", "ret3"} =>
                           g = cpu.flow /\ isrs[g] = 0
    /\ \A g \in Flows : at[g] = "irq" => saved[g] = g
    /\ cpu.flow \in Procs => cpu.kstack = cpu.flow

Good == OneRunning /\ BootInv /\ WindowInv /\ SuspInv /\ CpuInv

KInv ==
    /\ TableInv
    /\ ~raced => status \notin {"stale", "gs"}
    /\ Alive /\ ~raced => Good

-----------------------------------------------------------------------------

\* The boot tasks start with one Running task on its own stack.
LEMMA KInvInit == Init => KInv
  <1> SUFFICES ASSUME Init PROVE KInv
    OBVIOUS
  <1>1. Slots = 0..2 /\ current = 0 /\ cpu.flow = Idle
    BY SMTT(60) DEF Init, Slots
  <1>2. ASSUME NEW i \in 0..2
        PROVE  /\ tasks[i].flow = IF i = 0 THEN Idle ELSE IF i = 1 THEN Blink ELSE Worker
               /\ tasks[i].state = IF i = 0 THEN "Running" ELSE "Ready"
               /\ i # 0 => tasks[i].rsp = tasks[i].flow
    BY DEF Init, NewTask
  <1>3. ASSUME NEW g \in Flows PROVE at[g] \in {"kern", "fresh", "unborn"}
    BY DEF Init
  <1>4. TableInv
    <2>0. tasks[0].flow = Idle /\ tasks[1].flow = Blink /\ tasks[2].flow = Worker
      BY <1>2, SMTT(60)
    <2>1. \A i, j \in Slots : tasks[i].flow = tasks[j].flow => i = j
      BY <1>1, <2>0, SMTT(60)
    <2>2. at[Idle] = "kern" /\ at[Blink] = "fresh" /\ at[Worker] = "fresh"
      <3>1. at = [f \in Flows |-> IF f = Idle THEN "kern"
                                 ELSE IF f \in BootFlows THEN "fresh" ELSE "unborn"]
        BY DEF Init
      <3>2. Idle \in Flows /\ Blink \in Flows /\ Worker \in Flows
            /\ Blink \in BootFlows /\ Worker \in BootFlows
        BY DEF Flows, BootFlows
      <3> QED BY <3>1, <3>2
    <2>3. \A i \in Slots : at[tasks[i].flow] \notin {"unborn", "gone"}
      BY <1>1, <1>2, <2>2
    <2> QED BY <2>1, <2>3 DEF TableInv
  <1>5. OneRunning /\ BootInv /\ SuspInv
    BY <1>1, <1>2, SMTT(60) DEF OneRunning, BootInv, SuspInv
  <1>6. WindowInv
    BY <1>1, <1>2, <1>3, SMTT(60) DEF WindowInv, WindowLabels, Flows, BootFlows
  <1>7. CpuInv
    BY <1>1, <1>3, ProcsAssumption, ZenonT(60)
       DEF CpuInv, InSys, Init, WindowLabels, Flows, BootFlows
  <1> QED BY <1>4, <1>5, <1>6, <1>7 DEF KInv, Good, Init

\* Steps of the executing flow that leave the table's stacks alone.
Stays ==
    /\ len' = len /\ current' = current
    /\ cpu'.flow = cpu.flow /\ cpu'.kstack = cpu.kstack
    /\ \A k \in Slots : /\ tasks'[k].flow = tasks[k].flow
                        /\ tasks'[k].rsp = tasks[k].rsp
                        /\ tasks'[k].state = tasks[k].state

\* A step that leaves the table alone and moves the executing flow to a label
\* with the same obligations keeps the invariant.
LEMMA StayStep ==
    ASSUME TInv, KInv, NEW from, Executes(from), from \notin WindowLabels,
           NEW l \in Labels, l \notin WindowLabels \cup {"unborn", "gone", "irq"},
           Goto(l), Stays, isrs' = isrs, raced' = raced, saved' = saved,
           ~raced => /\ cpu'.gs = "percpu" <=> l \in {"sys", "ret3"}
                     /\ l \in {"sys", "ret3"} => cpu'.user_rsp = cpu.flow
                     /\ l = "sys" => ~cpu'.ie
                     /\ status' \notin {"stale", "gs"}
    PROVE  KInv'
  <1>1. /\ at \in [Flows -> Labels] /\ cpu.flow \in Flows
        /\ at' = [at EXCEPT ![cpu.flow] = l]
        /\ at[cpu.flow] = from /\ isrs[cpu.flow] = 0 /\ Alive
        /\ Slots' = Slots /\ current \in Slots /\ 0 \in Slots /\ 1 \in Slots
        /\ \A k \in Slots : tasks[k].flow \in Flows
    BY SMTT(60) DEF TInv, TypeOK, Cpu, Task, Goto, Executes, Stays, Slots
  <1>2. TableInv'
    BY <1>1, SMTT(60) DEF Stays, TableInv, KInv
  <1>3. ASSUME ~raced PROVE Good'
    <2>1. Good
      BY <1>1, <1>3 DEF KInv
    <2>2. OneRunning' /\ BootInv' /\ SuspInv'
      BY <1>1, <2>1, SMTT(60) DEF Good, Stays, OneRunning, BootInv, SuspInv
    <2>3. WindowInv'
      BY <1>1, <2>1 DEF Good, Stays, WindowInv
    <2>4. CpuInv'
      <3>1. InSys' <=> l \in {"sys", "ret3"}
        BY <1>1 DEF InSys, Stays
      <3> QED BY <1>1, <1>3, <2>1, <3>1 DEF Good, CpuInv, Stays
    <2> QED BY <2>2, <2>3, <2>4 DEF Good
  <1> QED BY <1>2, <1>3 DEF KInv

\* The steps that leave the table alone, action by action.
LEMMA KInvKernelStep ==
    ASSUME TInv, KInv,
           \/ task_trampoline \/ sleep_ms_lock \/ sleep_return \/ exit_current_lock
           \/ slot_index_lock \/ run_elf \/ write_cr3 \/ set_current_cr3_lock
           \/ set_current_cr3 \/ enter_ring3 \/ spawn_lock
    PROVE  KInv'
  <1>0. /\ cpu \in Cpu /\ cpu.flow \in Flows /\ current \in Slots
        /\ tasks \in [Slots -> Task]
    BY DEF TInv, TypeOK, Cpu
  <1>g. ASSUME NEW l, Executes(l), l \notin {"sys", "ret3"}, ~raced
        PROVE  cpu.gs # "percpu"
    BY <1>g DEF KInv, Good, CpuInv, InSys, Executes
  <1>s. ASSUME Alive, ~raced PROVE status \notin {"stale", "gs"}
    BY <1>s DEF Alive
  <1>1. CASE task_trampoline
    <2>1. /\ Executes("fresh") /\ Goto("kern") /\ Stays /\ cpu'.gs = cpu.gs
          /\ UNCHANGED <<isrs, raced, saved, status>> /\ Alive
      BY <1>0, <1>1 DEF task_trampoline, Stays, Cpu, Executes
    <2> QED BY <2>1, <1>g, <1>s, StayStep DEF Labels, WindowLabels
  <1>2. CASE sleep_ms_lock
    <2>1. /\ Executes("kern") /\ Goto("lk_sleep") /\ Stays /\ cpu'.gs = cpu.gs
          /\ UNCHANGED <<isrs, raced, saved, status>> /\ Alive
      BY <1>2 DEF sleep_ms_lock, Lock, Stays, Executes
    <2> QED BY <2>1, <1>g, <1>s, StayStep DEF Labels, LockLabels, WindowLabels
  <1>3. CASE sleep_return
    <2>1. /\ Executes("sleep") /\ Goto("kern") /\ Stays /\ cpu'.gs = cpu.gs
          /\ UNCHANGED <<isrs, raced, saved, status>> /\ Alive
      BY <1>3 DEF sleep_return, Stays, Executes
    <2> QED BY <2>1, <1>g, <1>s, StayStep DEF Labels, WindowLabels
  <1>4. CASE exit_current_lock
    <2>1. /\ Executes("tail") /\ Goto("lk_exit") /\ Stays /\ cpu'.gs = cpu.gs
          /\ UNCHANGED <<isrs, raced, saved, status>> /\ Alive
      BY <1>4 DEF exit_current_lock, Lock, Stays, Executes
    <2> QED BY <2>1, <1>g, <1>s, StayStep DEF Labels, LockLabels, WindowLabels
  <1>5. CASE slot_index_lock
    <2>1. /\ Executes("kern") /\ Goto("lk_index") /\ Stays /\ cpu'.gs = cpu.gs
          /\ UNCHANGED <<isrs, raced, saved, status>> /\ Alive
      BY <1>5 DEF slot_index_lock, Lock, Stays, Executes
    <2> QED BY <2>1, <1>g, <1>s, StayStep DEF Labels, LockLabels, WindowLabels
  <1>6. CASE run_elf
    <2>1. PICK l \in {"loaded", "tail"} : Goto(l)
      BY <1>6 DEF run_elf
    <2>2. /\ Executes("lk_index") /\ Stays /\ cpu'.gs = cpu.gs
          /\ UNCHANGED <<isrs, raced, saved, status>> /\ Alive
      BY <1>6 DEF run_elf, Stays, Executes
    <2> QED BY <2>1, <2>2, <1>g, <1>s, StayStep DEF Labels, WindowLabels
  <1>7. CASE write_cr3
    <2>1. /\ Executes("loaded") /\ Goto("cr3w") /\ Stays /\ cpu'.gs = cpu.gs
          /\ UNCHANGED <<isrs, raced, saved, status>> /\ Alive
      BY <1>0, <1>7 DEF write_cr3, Stays, Cpu, Executes
    <2> QED BY <2>1, <1>g, <1>s, StayStep DEF Labels, WindowLabels
  <1>8. CASE set_current_cr3_lock
    <2>1. /\ Executes("cr3w") /\ Goto("lk_cr3") /\ Stays /\ cpu'.gs = cpu.gs
          /\ UNCHANGED <<isrs, raced, saved, status>> /\ Alive
      BY <1>8 DEF set_current_cr3_lock, Lock, Stays, Executes
    <2> QED BY <2>1, <1>g, <1>s, StayStep DEF Labels, LockLabels, WindowLabels
  <1>9. CASE set_current_cr3
    <2>1. ASSUME NEW k \in Slots
          PROVE  /\ tasks'[k].flow = tasks[k].flow /\ tasks'[k].rsp = tasks[k].rsp
                 /\ tasks'[k].state = tasks[k].state
      <3>1. tasks[k] \in Task
        BY <1>0
      <3> QED BY <1>0, <1>9, <3>1 DEF set_current_cr3, Task
    <2>2. /\ Executes("lk_cr3") /\ Goto("enter") /\ Stays /\ cpu'.gs = cpu.gs
          /\ UNCHANGED <<isrs, raced, saved, status>> /\ Alive
      BY <1>9, <2>1 DEF set_current_cr3, Stays, Executes
    <2> QED BY <2>2, <1>g, <1>s, StayStep DEF Labels, LockLabels, WindowLabels
  <1>10. CASE enter_ring3
    <2>1. /\ Executes("enter") /\ Goto("user") /\ Stays /\ cpu'.gs = cpu.gs
          /\ UNCHANGED <<isrs, raced, saved>> /\ status' \in {"ok", "fault"}
      BY <1>0, <1>10 DEF enter_ring3, Stays, Cpu, Executes
    <2> QED BY <2>1, <1>g, StayStep DEF Labels, WindowLabels
  <1>11. CASE spawn_lock
    <2>1. /\ Executes("kern") /\ Goto("lk_spawn") /\ Stays /\ cpu'.gs = cpu.gs
          /\ UNCHANGED <<isrs, raced, saved, status>> /\ Alive
      BY <1>11 DEF spawn_lock, Lock, Stays, Executes
    <2> QED BY <2>1, <1>g, <1>s, StayStep DEF Labels, LockLabels, WindowLabels
  <1> QED BY <1>1, <1>2, <1>3, <1>4, <1>5, <1>6, <1>7, <1>8, <1>9, <1>10, <1>11

\* The steps of a system call that leave the table alone.
LEMMA KInvSyscallStep ==
    ASSUME TInv, KInv, syscall_entry \/ sys_other \/ irq_return \/ sysret \/ sys_exit
    PROVE  KInv'
  <1>0. /\ cpu \in Cpu /\ cpu.flow \in Flows /\ current \in Slots
        /\ tasks \in [Slots -> Task]
    BY DEF TInv, TypeOK, Cpu
  <1>g. ASSUME NEW l, Executes(l), ~raced
        PROVE  /\ cpu.gs = IF l \in {"sys", "ret3"} THEN "percpu" ELSE "rest"
               /\ l \in {"sys", "ret3"} => cpu.user_rsp = cpu.flow
               /\ l = "irq" => saved[cpu.flow] = cpu.flow
    BY <1>0, <1>g DEF KInv, Good, CpuInv, InSys, Executes, Cpu
  <1>s. ASSUME Alive, ~raced PROVE status \notin {"stale", "gs"}
    BY <1>s DEF Alive
  <1>1. CASE syscall_entry
    <2>1. /\ Executes("user") /\ Goto("sys") /\ Stays /\ cpu'.gs = Swapgs(cpu.gs)
          /\ cpu'.user_rsp = cpu.flow /\ ~cpu'.ie
          /\ status' = IF cpu.gs = "rest" THEN "ok" ELSE "gs"
          /\ UNCHANGED <<isrs, raced, saved>>
      BY <1>0, <1>1 DEF syscall_entry, Stays, Cpu, Executes
    <2> QED BY <2>1, <1>g, StayStep, SMTT(60) DEF Labels, WindowLabels, Swapgs
  <1>2. CASE sys_other
    <2>1. /\ Executes("sys") /\ Goto("ret3") /\ Stays /\ cpu' = cpu
          /\ UNCHANGED <<isrs, raced, saved, status>> /\ Alive
      BY <1>2 DEF sys_other, Stays, Executes
    <2> QED BY <2>1, <1>g, <1>s, StayStep DEF Labels, WindowLabels
  <1>3. CASE irq_return
    <2>1. /\ Executes("irq") /\ Goto("ret3") /\ Stays /\ cpu'.gs = Swapgs(cpu.gs)
          /\ cpu'.user_rsp = saved[cpu.flow]
          /\ UNCHANGED <<isrs, raced, saved, status>> /\ Alive
      BY <1>0, <1>3 DEF irq_return, Stays, Cpu, Executes
    <2> QED BY <2>1, <1>g, <1>s, StayStep, SMTT(60) DEF Labels, WindowLabels, Swapgs
  <1>4. CASE sysret
    <2>1. /\ Executes("ret3") /\ Goto("user") /\ Stays /\ cpu'.gs = Swapgs(cpu.gs)
          /\ UNCHANGED <<isrs, raced, saved, status>> /\ Alive
      BY <1>0, <1>4 DEF sysret, Stays, Cpu, Executes
    <2> QED BY <2>1, <1>g, <1>s, StayStep DEF Labels, WindowLabels, Swapgs
  <1>5. CASE sys_exit
    <2> DEFINE o == orig[pslot[SlotIndex].owner]
    <2>0. tasks' = [tasks EXCEPT ![current].cr3 = o]
      BY <1>5 DEF sys_exit
    <2> HIDE DEF o
    <2>1. ASSUME NEW k \in Slots
          PROVE  /\ tasks'[k].flow = tasks[k].flow /\ tasks'[k].rsp = tasks[k].rsp
                 /\ tasks'[k].state = tasks[k].state
      <3>1. tasks[k] \in Task
        BY <1>0
      <3> QED BY <1>0, <2>0, <3>1 DEF Task
    <2>2. /\ Executes("sys") /\ Goto("tail") /\ cpu'.gs = Swapgs(cpu.gs)
          /\ UNCHANGED <<isrs, raced, saved>> /\ status' \in {"frame", "freed_cr3", "ok"}
          /\ Stays
      BY <1>0, <1>5, <2>1 DEF sys_exit, Stays, Cpu, Executes
    <2> QED BY <2>2, <1>g, StayStep DEF Labels, WindowLabels, Swapgs
  <1> QED BY <1>1, <1>2, <1>3, <1>4, <1>5

\* The table part of the invariant only depends on the table.
LEMMA TableStay ==
    ASSUME TInv, TableInv, len' = len,
           \A k \in Slots : tasks'[k].flow = tasks[k].flow,
           \A g \in Flows : at'[g] = at[g] \/ at'[g] \notin {"unborn", "gone"}
    PROVE  TableInv'
  BY ZenonT(60) DEF TInv, TypeOK, Task, TableInv, Slots

\* timer_stub returning to the flow it interrupted.
LEMMA KInvTimerReturn ==
    ASSUME TInv, KInv, timer_return
    PROVE  KInv'
  <1>1. /\ cpu.flow \in Flows /\ isrs[cpu.flow] > 0 /\ isrs \in [Flows -> Nat]
        /\ cpu'.flow = cpu.flow /\ cpu'.gs = cpu.gs /\ cpu'.kstack = cpu.kstack
        /\ cpu'.user_rsp = cpu.user_rsp
        /\ isrs' = [isrs EXCEPT ![cpu.flow] = @ - 1]
        /\ UNCHANGED <<tasks, len, current, at, pend, saved, status, raced>>
    BY DEF timer_return, TInv, TypeOK, Cpu
  <1>2. TableInv'
    BY <1>1 DEF KInv, TableInv, Slots
  <1>3. ASSUME Alive, ~raced PROVE Good'
    <2>1. Good
      BY <1>3 DEF KInv
    <2>2. at[cpu.flow] \notin WindowLabels \cup {"sys", "ret3"}
      BY <1>1, <2>1, SMTT(60) DEF Good, CpuInv
    <2>3. OneRunning' /\ BootInv' /\ SuspInv' /\ WindowInv'
      BY <1>1, <2>1 DEF Good, OneRunning, BootInv, SuspInv, WindowInv, Slots
    <2>4. CpuInv'
      BY <1>1, <2>1, <2>2 DEF Good, CpuInv, InSys
    <2> QED BY <2>3, <2>4 DEF Good
  <1> QED BY <1>1, <1>2, <1>3 DEF KInv, Alive

\* A task next() may choose, other than the current one, has its own stack
\* in its slot.
LEMMA ReadyHasStack ==
    ASSUME TInv, KInv, Alive, ~raced, at[cpu.flow] \notin WindowLabels,
           NEW i \in Slots, i # current, tasks[i].state # "Dead"
    PROVE  /\ tasks[i].rsp = tasks[i].flow
           /\ tasks[i].flow # cpu.flow
           /\ tasks[i].flow \in Flows
           /\ at[tasks[i].flow] \notin {"unborn", "gone"} \cup WindowLabels \cup {"sys", "ret3"}
  <1>1. Good
    BY DEF KInv
  <1>2. tasks[current].flow = cpu.flow /\ current \in Slots /\ tasks[i].flow \in Flows
    BY <1>1 DEF Good, WindowInv, TInv, TypeOK, Task
  <1>3. tasks[i].flow # cpu.flow
    BY <1>2 DEF KInv, TableInv
  <1>4. tasks[i].rsp = tasks[i].flow
    BY <1>1, <1>3 DEF Good, SuspInv
  <1>5. at[tasks[i].flow] \notin WindowLabels \cup {"sys", "ret3"}
    BY <1>1, <1>2, <1>3 DEF Good, CpuInv
  <1> QED BY <1>2, <1>3, <1>4, <1>5 DEF KInv, TableInv

\* What next() may have done to the table before the switch.
Scanned(ts) ==
    /\ \A k \in Slots :
         /\ ts[k].flow = tasks[k].flow /\ ts[k].rsp = tasks[k].rsp
         /\ ts[k].cr3 = tasks[k].cr3
         /\ k # current => \/ ts[k].state = tasks[k].state
                           \/ tasks[k].state = "Blocked" /\ ts[k].state = "Ready"

\* The switch of tick() and of block_on_irq().
LEMMA KInvSwitchTo ==
    ASSUME TInv, KInv, Alive, ~raced, at[cpu.flow] \notin WindowLabels,
           NEW ts \in [Slots -> Task], Scanned(ts),
           \/ ts[current].state = "Running"
           \/ ts[current].state = "Blocked" /\ current \notin {0, 1},
           NEW i \in Slots, i # current, ts[i].state = "Ready",
           NEW c \in Cpu, c.flow = cpu.flow, c.gs = "rest", SwitchTo(ts, i, c),
           len' = len,
           \A g \in Flows : g # cpu.flow =>
               at'[g] = at[g] /\ isrs'[g] = isrs[g] /\ saved'[g] = saved[g],
           at'[cpu.flow] \notin WindowLabels \cup {"sys", "ret3", "unborn", "gone"},
           at'[cpu.flow] = "irq" => saved'[cpu.flow] = cpu.flow
    PROVE  KInv'
  <1>t. /\ TypeOK /\ current \in Slots /\ cpu.flow \in Flows /\ Slots' = Slots
        /\ 0 \in Slots /\ 1 \in Slots
    BY SMTT(60) DEF TInv, TypeOK, Cpu, Slots
  <1>g. Good
    BY DEF KInv
  <1>1. /\ tasks' \in [Slots -> Task]
        /\ current' = i
        /\ cpu'.flow = IF ts[i].rsp = Stale THEN cpu.flow ELSE ts[i].rsp
        /\ cpu'.kstack = ts[i].flow /\ cpu'.gs = "rest"
        /\ status' = Outcome(ts[i].rsp, ts[i].cr3)
        /\ \A k \in Slots :
                /\ tasks'[k].flow = ts[k].flow
                /\ tasks'[k].rsp = IF k = current THEN cpu.flow
                                   ELSE IF k = i THEN Stale ELSE ts[k].rsp
                /\ tasks'[k].state = IF k = i THEN "Running"
                                     ELSE IF k = current /\ ts[k].state = "Running"
                                     THEN "Ready" ELSE ts[k].state
    BY <1>t, SwitchToFacts, SMTT(60)
  <1>2. tasks[i].state # "Dead"
    BY DEF Scanned
  <1>3. /\ tasks[i].rsp = tasks[i].flow /\ tasks[i].flow # cpu.flow
        /\ tasks[i].flow \in Flows
        /\ at[tasks[i].flow] \notin {"unborn", "gone"} \cup WindowLabels \cup {"sys", "ret3"}
    BY <1>2, ReadyHasStack
  <1>4. cpu'.flow = tasks[i].flow /\ cpu'.flow # cpu.flow /\ cpu'.kstack = cpu'.flow
        /\ ts[i].rsp = tasks[i].flow /\ tasks[i].flow # Stale
    BY <1>1, <1>3, ProcsAssumption, SMTT(60) DEF Scanned, Flows, BootFlows
  <1>5. status' \notin {"stale", "gs"}
    BY <1>1, <1>3, <1>4 DEF Outcome
  <1>6. TableInv'
    BY <1>1, TableStay DEF KInv, Scanned
  <1>7. OneRunning'
    BY <1>1, <1>g, <1>t, SMTT(60) DEF Good, OneRunning, Scanned
  <1>8. BootInv'
    BY <1>1, <1>g, <1>t, SMTT(60) DEF Good, BootInv, Scanned
  <1>9. WindowInv'
    BY <1>1, <1>3, <1>4 DEF WindowInv, Scanned
  <1>10. SuspInv'
    <2>1. ASSUME NEW k \in Slots, k # i, tasks'[k].state # "Dead"
          PROVE  tasks'[k].rsp = tasks'[k].flow
      <3>1. CASE k = current
        BY <1>1, <1>g, <3>1 DEF Good, WindowInv, Scanned
      <3>2. CASE k # current
        <4>1. tasks[k].state # "Dead"
          BY <1>1, <2>1, <3>2 DEF Scanned
        <4>2. tasks[k].rsp = tasks[k].flow
          BY <3>2, <4>1, ReadyHasStack
        <4> QED BY <1>1, <2>1, <3>2, <4>2, SMTT(60) DEF Scanned
      <3> QED BY <3>1, <3>2
    <2> QED BY <1>1, <1>t, <2>1 DEF SuspInv
  <1>11. CpuInv'
    <2>1. ASSUME NEW g \in Flows
          PROVE  at'[g] \notin WindowLabels \cup {"sys", "ret3"}
      BY <1>g DEF Good, CpuInv
    <2>2. \A g \in Flows : at'[g] = "irq" => saved'[g] = g
      BY <1>g DEF Good, CpuInv
    <2> QED BY <1>1, <1>3, <1>4, <2>1, <2>2 DEF CpuInv, InSys
  <1> QED BY <1>5, <1>6, <1>7, <1>8, <1>9, <1>10, <1>11 DEF KInv, Good

\* A tick, whatever it interrupts: it counts sleepers down, and switches only
\* when it gets the lock.
LEMMA KInvTick ==
    ASSUME TInv, KInv, tick
    PROVE  KInv'
  <1> DEFINE ts == Promote(wake_irq_waiters(Elapse(tasks), TimerVector))
             c == [cpu EXCEPT !.ie = FALSE, !.isr = TRUE]
  <1>t. /\ TypeOK /\ current \in Slots /\ cpu.flow \in Flows /\ len \in Nat
        /\ tasks \in [Slots -> Task]
    BY DEF TInv, TypeOK, Cpu
  <1>0. Woken(len, tasks, ts) /\ ts \in [Slots -> Task]
    BY <1>t, TickWakes, SMTT(60) DEF Woken, Slots
  <1>1. c \in Cpu /\ c.flow = cpu.flow /\ c.gs = cpu.gs /\ c.kstack = cpu.kstack
        /\ c.user_rsp = cpu.user_rsp /\ c.ie = FALSE
    BY <1>t, ZenonT(60) DEF TypeOK, Cpu
  <1>2. /\ raced' = (raced \/ MidSwitch(cpu.flow))
        /\ Alive /\ cpu.ie
        /\ UNCHANGED <<len, at, pend, saved>>
        /\ IF SchedLocked
           THEN /\ status' = "hung"
                /\ UNCHANGED <<tasks, current, cpu, isrs>>
           ELSE /\ isrs' = [isrs EXCEPT ![cpu.flow] = @ + 1]
                /\ IF NoNext(ts, len, current)
                   THEN /\ tasks' = ts
                        /\ cpu' = c
                        /\ UNCHANGED <<current, status>>
                   ELSE \E i \in Slots :
                          IsNext(ts, len, current, i) /\ SwitchTo(ts, i, c)
    BY DEF tick
  <1> HIDE DEF ts, c
  <1>3. CASE SchedLocked
    <2>1. TableInv' /\ ~Alive'
      BY <1>2, <1>3 DEF KInv, TableInv, Slots, Alive
    <2> QED BY <1>2, <1>3, <2>1 DEF KInv
  <1>4. CASE ~SchedLocked /\ ~raced'
    <2>1. ~raced /\ ~MidSwitch(cpu.flow)
      BY <1>2, <1>4, ZenonT(60)
    <2>2. Good
      BY <1>2, <2>1 DEF KInv
    <2>3. at[cpu.flow] \notin WindowLabels \cup {"sys", "ret3"}
      BY <1>2, <1>t, <2>1, <2>2 DEF Good, CpuInv, MidSwitch
    <2>4. cpu.gs = "rest"
      BY <1>t, <2>2, <2>3 DEF TypeOK, Cpu, Good, CpuInv, InSys
    <2>5. Scanned(ts)
      BY <1>0 DEF Woken, Scanned, Slots
    <2>6. ts[current].state = "Running"
      BY <1>0, <1>t, <2>2 DEF Woken, Slots, Good, OneRunning
    <2>7. CASE NoNext(ts, len, current)
      <3>1. /\ isrs' = [isrs EXCEPT ![cpu.flow] = @ + 1] /\ tasks' = ts /\ cpu' = c
            /\ UNCHANGED <<current, status, len, at, pend, saved>>
        BY <1>2, <1>4, <2>7
      <3>2. Slots' = Slots /\ isrs \in [Flows -> Nat] /\ 0 \in Slots /\ 1 \in Slots
        BY <3>1, <1>t, SMTT(60) DEF TypeOK, Slots
      <3>3. TableInv'
        BY <1>2, <2>5, <3>1, TableStay DEF KInv, Scanned
      <3>4. OneRunning' /\ BootInv'
        BY <1>t, <2>2, <2>5, <2>6, <3>1, <3>2, SMTT(60) DEF Good, OneRunning, BootInv, Scanned
      <3>5. WindowInv'
        BY <1>1, <1>t, <2>2, <2>3, <2>5, <3>1, <3>2 DEF Good, WindowInv, Scanned
      <3>6. SuspInv'
        BY <1>1, <1>t, <2>2, <2>5, <3>1, <3>2, SMTT(60) DEF Good, SuspInv, Scanned
      <3>7. CpuInv'
        BY <1>1, <1>t, <2>2, <2>3, <2>4, <3>1, <3>2 DEF Good, CpuInv, InSys
      <3>8. status' \notin {"stale", "gs"}
        BY <1>2, <3>1 DEF Alive
      <3> QED BY <3>3, <3>4, <3>5, <3>6, <3>7, <3>8 DEF KInv, Good
    <2>8. CASE ~NoNext(ts, len, current)
      <3>1. PICK i \in Slots : IsNext(ts, len, current, i) /\ SwitchTo(ts, i, c)
        BY <1>2, <1>4, <2>8
      <3>2. i # current /\ ts[i].state = "Ready"
        BY <3>1 DEF IsNext
      <3>3. /\ \A g \in Flows : g # cpu.flow =>
                 at'[g] = at[g] /\ isrs'[g] = isrs[g] /\ saved'[g] = saved[g]
            /\ at'[cpu.flow] = at[cpu.flow] /\ saved'[cpu.flow] = saved[cpu.flow]
        BY <1>2, <1>4, <1>t DEF TypeOK
      <3>4. at'[cpu.flow] = "irq" => saved'[cpu.flow] = cpu.flow
        BY <1>t, <2>2, <3>3, ZenonT(60) DEF Good, CpuInv
      <3>5. at'[cpu.flow] \notin WindowLabels \cup {"sys", "ret3", "unborn", "gone"}
        <4>1. tasks[current].flow = cpu.flow
          BY <2>2, <2>3 DEF Good, WindowInv
        <4> QED BY <1>t, <2>3, <3>3, <4>1, SMTT(60) DEF KInv, TableInv
      <3>6. c.gs = "rest" /\ len' = len /\ at[cpu.flow] \notin WindowLabels
        BY <1>1, <1>2, <2>3, <2>4
      <3> QED BY <1>0, <1>1, <1>2, <2>1, <2>5, <2>6, <3>1, <3>2, <3>3, <3>4, <3>5,
                 <3>6, KInvSwitchTo
    <2> QED BY <2>7, <2>8
  <1>5. CASE ~SchedLocked /\ raced'
    <2>1. \A k \in Slots : tasks'[k].flow = tasks[k].flow
      <3>1. \A k \in Slots : ts[k].flow = tasks[k].flow
        BY <1>0 DEF Woken, Slots
      <3>2. CASE NoNext(ts, len, current)
        BY <1>2, <1>5, <3>1, <3>2
      <3>3. CASE ~NoNext(ts, len, current)
        <4>1. PICK i \in Slots : IsNext(ts, len, current, i) /\ SwitchTo(ts, i, c)
          BY <1>2, <1>5, <3>3
        <4>2. i # current
          BY <4>1 DEF IsNext
        <4>3. \A k \in Slots : tasks'[k].flow = ts[k].flow
          BY <1>t, <1>0, <1>1, <4>1, <4>2, SwitchToFacts
        <4> QED BY <3>1, <4>3
      <3> QED BY <3>2, <3>3
    <2>2. TableInv'
      BY <1>2, <2>1, TableStay DEF KInv
    <2> QED BY <1>5, <2>2 DEF KInv
  <1> QED BY <1>3, <1>4, <1>5
-----------------------------------------------------------------------------
(* Blocking, exiting and spawning *)

\* kmain or the desktop is Ready whenever a third task runs: next() never
\* comes back empty-handed to sleep_ms(), block_on_irq() or exit_current().
LEMMA SomebodyReady ==
    ASSUME TInv, Good, current \notin {0}, NEW ts \in [Slots -> Task], Scanned(ts)
    PROVE  ~NoNext(ts, len, current)
  <1>1. len \in Nat /\ len >= 3 /\ 0 \in Slots /\ 0 # current
    BY SMTT(60) DEF TInv, TypeOK, Slots
  <1>2. tasks[0].state = "Ready"
    BY <1>1 DEF Good, BootInv, OneRunning
  <1>3. ts[0].state = "Ready"
    BY <1>1, <1>2 DEF Scanned
  <1> QED BY <1>1, <1>3, SMTT(60) DEF NoNext, Slots

\* The locked half of sleep_ms() and exit_current(), s being the state the
\* task gives itself and ts the table next() is called on.
LEMMA KInvLeaveCpu ==
    ASSUME TInv, KInv, NEW s \in {"Blocked", "Dead"}, NEW from \in {"lk_sleep", "lk_exit"},
           Executes(from), cpu.flow \notin {Idle, Blink},
           NEW w \in WindowLabels, NEW a \in {"kern", "exit"}, NEW s2 \in TaskStates,
           NEW ts \in [Slots -> Task],
           \A k \in Slots : /\ ts[k].flow = tasks[k].flow /\ ts[k].rsp = tasks[k].rsp
                            /\ ts[k].cr3 = tasks[k].cr3
                            /\ ts[k].state = IF k = current THEN s ELSE tasks[k].state,
           Promote(ts)[current].state = s,
           LeaveCpu(ts, w, a, s2)
    PROVE  KInv'
  <1>t. /\ TypeOK /\ current \in Slots /\ cpu.flow \in Flows /\ at[cpu.flow] = from
        /\ isrs[cpu.flow] = 0 /\ Alive /\ w \in Labels /\ a \in Labels
        /\ 0 \in Slots /\ 1 \in Slots /\ at \in [Flows -> Labels]
    BY SMTT(60) DEF TInv, TypeOK, Cpu, Executes, Labels, Slots
  <1>u. UNCHANGED <<len, cpu, isrs, saved, status, raced>> /\ Slots' = Slots
    BY DEF LeaveCpu, Slots
  <1>1. PICK pts \in [Slots -> Task] :
             /\ pts = Promote(ts)
             /\ Woken(len, ts, pts)
             /\ LeftAlone(pts, a, s2) \/ \E i \in Slots : LeftFor(pts, i, w)
    BY ZenonT(60), <1>t, LeaveCpuFacts
  <1>2. \A k \in Slots : tasks'[k].flow = tasks[k].flow
    <2>1. \A k \in Slots : pts[k].flow = tasks[k].flow
      BY <1>1 DEF Woken, Slots
    <2>2. \A k \in Slots : tasks'[k].flow = pts[k].flow
      BY ZenonT(60), <1>1 DEF LeftAlone, LeftFor
    <2> QED BY <2>1, <2>2
  <1>3. \A g \in Flows : at'[g] = at[g] \/ at'[g] \notin {"unborn", "gone"}
    <2>1. \E l \in {a, w} : at' = [at EXCEPT ![cpu.flow] = l]
      BY <1>1, ZenonT(60) DEF LeftAlone, LeftFor
    <2> QED BY <2>1, <1>t DEF WindowLabels
  <1>4. TableInv'
    BY ZenonT(60), <1>u, <1>2, <1>3, TableStay DEF KInv
  <1>5. ASSUME ~raced PROVE Good'
    <2>g. Good
      BY <1>t, <1>5 DEF KInv
    <2>1. at[cpu.flow] \notin WindowLabels \cup {"sys", "ret3"}
      BY <1>t DEF WindowLabels
    <2>2. tasks[current].flow = cpu.flow /\ current \notin {0, 1}
      BY <2>g, <2>1 DEF Good, WindowInv, BootInv
    <2>3. Scanned(pts) /\ pts[current].state = s
      BY <1>1, SMTT(60) DEF Scanned, Woken, Slots
    <2>4. ~NoNext(pts, len, current)
      BY <2>g, <2>2, <2>3, SomebodyReady
    <2>5. PICK i \in Slots : LeftFor(pts, i, w)
      BY <1>1, <2>4 DEF LeftAlone
    <2>6. /\ i # current /\ pts[i].state = "Ready" /\ current' = i
          /\ \A k \in Slots :
               /\ tasks'[k].rsp = pts[k].rsp /\ tasks'[k].flow = pts[k].flow
               /\ tasks'[k].cr3 = pts[k].cr3
               /\ tasks'[k].state = IF k = i THEN "Running" ELSE pts[k].state
          /\ at' = [at EXCEPT ![cpu.flow] = w]
          /\ pend'[cpu.flow] = [old |-> current, rsp |-> pts[i].rsp,
                                cr3 |-> pts[i].cr3, kstack |-> pts[i].flow]
      BY <2>3, <2>5 DEF LeftFor
    <2>7. tasks[i].rsp = tasks[i].flow
      <3>1. tasks[i].state # "Dead"
        BY <2>3, <2>6 DEF Scanned
      <3> QED BY <1>t, <1>5, <2>1, <2>6, <3>1, ReadyHasStack
    <2>8. OneRunning' /\ BootInv'
      BY <1>t, <1>u, <2>g, <2>2, <2>3, <2>6, SMTT(60) DEF Good, OneRunning, BootInv, Scanned
    <2>9. WindowInv'
      BY <1>t, <1>u, <2>2, <2>3, <2>6, <2>7, SMTT(60) DEF WindowInv, Scanned
    <2>10. SuspInv'
      BY <1>t, <1>u, <2>g, <2>2, <2>3, <2>6, SMTT(60) DEF Good, SuspInv, Scanned
    <2>11. CpuInv'
      <3>1. w \notin {"sys", "ret3", "irq"}
        BY DEF WindowLabels
      <3> QED BY <1>t, <1>u, <2>g, <2>1, <2>6, <3>1 DEF Good, CpuInv, InSys
    <2> QED BY ZenonT(60), <2>8, <2>9, <2>10, <2>11 DEF Good
  <1> QED BY <1>u, <1>t, <1>4, <1>5 DEF KInv, Alive

\* How a flow in label from calls next() to leave the CPU: its task's state is
\* s in the table ts, and the rest of the table is as it was.
Leaves(from, w, a, s, s2, ts) ==
    /\ Executes(from) /\ cpu.flow \notin {Idle, Blink}
    /\ \A k \in Slots : /\ ts[k].flow = tasks[k].flow /\ ts[k].rsp = tasks[k].rsp
                        /\ ts[k].cr3 = tasks[k].cr3
                        /\ ts[k].state = IF k = current THEN s ELSE tasks[k].state
    /\ Promote(ts)[current].state = s
    /\ LeaveCpu(ts, w, a, s2)

\* sleep_ms() sleeps for a tick at least, so next() does not wake its caller;
\* exit_current() leaves a Dead task.  Neither is called by kmain or the desktop.
LEMMA LeavesHow ==
    ASSUME TInv, sleep_ms \/ exit_current
    PROVE  \E ts \in [Slots -> Task] :
             \/ Leaves("lk_sleep", "win_sleep", "kern", "Blocked", "Running", ts)
             \/ Leaves("lk_exit", "win_exit", "exit", "Dead", "Dead", ts)
  <1>t. /\ current \in Slots /\ cpu.flow \in Flows /\ tasks \in [Slots -> Task]
    BY DEF TInv, TypeOK, Cpu
  <1>1. CASE sleep_ms
    <2>1. PICK ms \in SleepMs :
            LeaveCpu([tasks EXCEPT ![current].wake_in = SleepTicks(ms),
                                   ![current].state = "Blocked"],
                     "win_sleep", "kern", "Running")
      BY <1>1 DEF sleep_ms
    <2> DEFINE ts == [tasks EXCEPT ![current].wake_in = SleepTicks(ms),
                                   ![current].state = "Blocked"]
    <2>2. SleepTicks(ms) \in Nat /\ SleepTicks(ms) # 0
      BY SleepMsAssumption, SMTT(60) DEF SleepTicks
    <2>3. ASSUME NEW k \in Slots
          PROVE  /\ ts[k] \in Task
                 /\ ts[k].flow = tasks[k].flow /\ ts[k].rsp = tasks[k].rsp
                 /\ ts[k].cr3 = tasks[k].cr3
                 /\ ts[k].state = IF k = current THEN "Blocked" ELSE tasks[k].state
                 /\ k = current => ts[k].wake_in = SleepTicks(ms)
      <3>1. tasks[k] \in Task
        BY <1>t
      <3> QED BY <1>t, <2>2, <3>1, ZenonT(60) DEF Task, TaskStates
    <2>4. ts = [k \in Slots |-> ts[k]]
      BY <1>t, ZenonT(60)
    <2>5. LeaveCpu(ts, "win_sleep", "kern", "Running")
      BY <2>1
    <2> HIDE DEF ts
    <2>6. ts \in [Slots -> Task]
      BY <2>3, <2>4
    <2>7. Promote(ts)[current].state = "Blocked"
      BY <1>t, <2>2, <2>3, <2>6 DEF Promote
    <2>8. Executes("lk_sleep") /\ cpu.flow = Worker
      BY <1>1, <1>t, ZenonT(60) DEF sleep_ms, Executes, TInv, LabelInv
    <2>9. cpu.flow \notin {Idle, Blink}
      BY <2>8
    <2>10. \A k \in Slots :
             /\ ts[k].flow = tasks[k].flow /\ ts[k].rsp = tasks[k].rsp
             /\ ts[k].cr3 = tasks[k].cr3
             /\ ts[k].state = IF k = current THEN "Blocked" ELSE tasks[k].state
      BY <2>3
    <2> QED BY <2>5, <2>6, <2>7, <2>8, <2>9, <2>10 DEF Leaves
  <1>2. CASE exit_current
    <2> DEFINE ts == [tasks EXCEPT ![current].state = "Dead"]
    <2>3. ASSUME NEW k \in Slots
          PROVE  /\ ts[k] \in Task
                 /\ ts[k].flow = tasks[k].flow /\ ts[k].rsp = tasks[k].rsp
                 /\ ts[k].cr3 = tasks[k].cr3
                 /\ ts[k].state = IF k = current THEN "Dead" ELSE tasks[k].state
      <3>1. tasks[k] \in Task
        BY <1>t
      <3> QED BY <1>t, <3>1 DEF Task, TaskStates
    <2>4. ts = [k \in Slots |-> ts[k]]
      BY <1>t, ZenonT(60)
    <2>5. LeaveCpu(ts, "win_exit", "exit", "Dead")
      BY <1>2 DEF exit_current
    <2> HIDE DEF ts
    <2>6. ts \in [Slots -> Task]
      BY <2>3, <2>4
    <2>7. Promote(ts)[current].state = "Dead"
      BY <1>t, <2>3, <2>6 DEF Promote
    <2>8. Executes("lk_exit") /\ cpu.flow \in Procs
      BY <1>2, <1>t DEF exit_current, Executes, TInv, LabelInv, ProcLabels
    <2>9. cpu.flow \notin {Idle, Blink}
      BY <2>8, ProcsAssumption
    <2>10. \A k \in Slots :
             /\ ts[k].flow = tasks[k].flow /\ ts[k].rsp = tasks[k].rsp
             /\ ts[k].cr3 = tasks[k].cr3
             /\ ts[k].state = IF k = current THEN "Dead" ELSE tasks[k].state
      BY <2>3
    <2> QED BY <2>5, <2>6, <2>7, <2>8, <2>9, <2>10 DEF Leaves
  <1> QED BY <1>1, <1>2

\* sleep_ms() and exit_current() up to the unlock open the window.
LEMMA KInvLeave == ASSUME TInv, KInv, sleep_ms \/ exit_current PROVE KInv'
  <1>1. PICK ts \in [Slots -> Task] :
             \/ Leaves("lk_sleep", "win_sleep", "kern", "Blocked", "Running", ts)
             \/ Leaves("lk_exit", "win_exit", "exit", "Dead", "Dead", ts)
    BY LeavesHow
  <1>2. "win_sleep" \in WindowLabels /\ "win_exit" \in WindowLabels
        /\ "Running" \in TaskStates /\ "Dead" \in TaskStates
    BY DEF WindowLabels, TaskStates
  <1>3. CASE Leaves("lk_sleep", "win_sleep", "kern", "Blocked", "Running", ts)
    BY <1>2, <1>3, KInvLeaveCpu DEF Leaves
  <1>4. CASE Leaves("lk_exit", "win_exit", "exit", "Dead", "Dead", ts)
    BY <1>2, <1>4, KInvLeaveCpu DEF Leaves
  <1> QED BY <1>1, <1>3, <1>4

\* context_switch() closes the window: the flow it saves is the one that left.
LEMMA KInvLeaveSwitch ==
    ASSUME TInv, KInv, NEW w \in WindowLabels, NEW l \in {"sleep", "exit"},
           leave_switch(w, l)
    PROVE  KInv'
  <1> DEFINE p == pend[cpu.flow]
  <1>t. /\ TypeOK /\ current \in Slots /\ cpu.flow \in Flows /\ p \in Pend
        /\ cpu \in Cpu /\ at[cpu.flow] = w /\ Alive /\ isrs[cpu.flow] = 0
        /\ at' = [at EXCEPT ![cpu.flow] = l] /\ at \in [Flows -> Labels]
    BY DEF TInv, TypeOK, Cpu, leave_switch, Executes, Goto
  <1>u. /\ UNCHANGED <<len, current, isrs, pend, saved, raced>> /\ Slots' = Slots
        /\ cpu' = LoadCpu(cpu, p.rsp, p.cr3, p.kstack)
        /\ IF p.old = Dangling
           THEN UNCHANGED tasks
           ELSE tasks' = SaveRsp(tasks, p.old, cpu.flow, current)
        /\ status' = IF p.old = Dangling THEN "stale" ELSE Outcome(p.rsp, p.cr3)
    BY DEF leave_switch, Slots
  <1> HIDE DEF p
  <1>1. \A k \in Slots :
          LET us == SaveRsp(tasks, p.old, cpu.flow, current) IN
          /\ us[k].rsp = IF k = p.old THEN cpu.flow
                         ELSE IF k = current THEN Stale ELSE tasks[k].rsp
          /\ us[k].flow = tasks[k].flow /\ us[k].state = tasks[k].state
    <2>1. tasks \in [0..(len - 1) -> Task] /\ len \in Nat
      BY <1>t DEF TypeOK, Slots
    <2> QED BY <1>t, <2>1, SaveRspFacts, SMTT(60) DEF Slots
  <1>2. TableInv'
    <2>1. \A k \in Slots : tasks'[k].flow = tasks[k].flow
      BY <1>u, <1>1
    <2>2. \A g \in Flows : at'[g] = at[g] \/ at'[g] \notin {"unborn", "gone"}
      BY <1>t
    <2> QED BY <1>u, <2>1, <2>2, TableStay DEF KInv
  <1>3. ASSUME ~raced PROVE Good' /\ status' \notin {"stale", "gs"}
    <2>g. Good
      BY <1>t, <1>3 DEF KInv
    <2>1. /\ p.old \in Slots /\ p.old # current /\ tasks[p.old].flow = cpu.flow
          /\ tasks[p.old].state \in {"Blocked", "Dead"}
          /\ p.rsp = tasks[current].flow /\ p.kstack = tasks[current].flow
      BY <1>t, <2>g DEF Good, WindowInv, p
    <2>2. p.old # Dangling
      BY <2>1, <1>t, SMTT(60) DEF Slots, TypeOK
    <2>3. tasks[current].flow \in Flows /\ tasks[current].flow # Stale
      BY <1>t, ProcsAssumption DEF TypeOK, Task, Flows, BootFlows
    <2>4. tasks[current].flow # cpu.flow
      BY <1>t, <2>1 DEF KInv, TableInv
    <2>5. /\ cpu'.flow = tasks[current].flow /\ cpu'.kstack = cpu'.flow
          /\ cpu'.gs = cpu.gs
      BY <1>t, <1>u, <2>1, <2>3 DEF LoadCpu, Cpu
    <2>6. status' \notin {"stale", "gs"}
      BY <1>t, <1>u, <2>1, <2>2, <2>3 DEF Outcome, KInv, TableInv
    <2>7. \A k \in Slots :
            /\ tasks'[k].rsp = IF k = p.old THEN cpu.flow
                               ELSE IF k = current THEN Stale ELSE tasks[k].rsp
            /\ tasks'[k].flow = tasks[k].flow /\ tasks'[k].state = tasks[k].state
      BY <1>u, <1>1, <2>2
    <2>8. 0 \in Slots /\ 1 \in Slots
      BY <1>t, SMTT(60) DEF TypeOK, Slots
    <2>9. OneRunning' /\ BootInv'
      BY <1>u, <2>g, <2>7, <2>8, SMTT(60) DEF Good, OneRunning, BootInv
    <2>10. \A g \in Flows : at'[g] \notin WindowLabels \cup {"sys", "ret3"}
      BY <1>t, <2>g DEF Good, CpuInv, WindowLabels
    <2>11. WindowInv'
      BY <1>t, <1>u, <2>3, <2>5, <2>7, <2>10 DEF WindowInv
    <2>12. SuspInv'
      <3>1. ASSUME NEW k \in Slots, k # current, tasks[k].state # "Dead"
            PROVE  tasks'[k].rsp = tasks[k].flow
        <4>1. k # p.old => tasks[k].flow # cpu.flow
          BY <2>1, <3>1 DEF KInv, TableInv
        <4> QED BY <2>1, <2>7, <2>g, <3>1, <4>1 DEF Good, SuspInv
      <3> QED BY <1>u, <2>7, <3>1 DEF SuspInv
    <2>13. CpuInv'
      <3>1. cpu.gs # "percpu"
        BY <1>t, <2>g DEF Good, CpuInv, InSys, WindowLabels
      <3>2. \A g \in Flows : at'[g] = "irq" => saved'[g] = g
        BY <1>t, <1>u, <2>g DEF Good, CpuInv
      <3> QED BY <2>3, <2>5, <2>10, <3>1, <3>2 DEF CpuInv, InSys
    <2> QED BY <2>6, <2>9, <2>11, <2>12, <2>13 DEF Good
  <1> QED BY <1>u, <1>2, <1>3 DEF KInv

\* block_on_irq() hands next() the table with nothing but its own task changed.
LEMMA IrqScanned ==
    ASSUME TypeOK, NEW v, NEW ts, Woken(len, IrqBlocked(v), ts)
    PROVE  Scanned(ts)
  <1>1. ASSUME NEW k \in Slots
        PROVE  LET b == IrqBlocked(v) IN
               /\ b[k].flow = tasks[k].flow /\ b[k].rsp = tasks[k].rsp
               /\ b[k].cr3 = tasks[k].cr3
               /\ k # current => b[k].state = tasks[k].state
    <2>1. tasks \in [Slots -> Task] /\ tasks[k] \in Task
      BY DEF TypeOK
    <2> QED BY <2>1 DEF IrqBlocked, Task
  <1> QED BY <1>1 DEF Scanned, Woken, Slots

\* SYS_WAIT_IRQ gives up the CPU with interrupts off, so without a window.
LEMMA KInvBlockOnIrq ==
    ASSUME TInv, KInv, NEW v \in Vectors, block_on_irq(v)
    PROVE  KInv'
  <1>t. /\ TypeOK /\ current \in Slots /\ cpu.flow \in Flows /\ cpu \in Cpu
        /\ at[cpu.flow] = "sys" /\ isrs[cpu.flow] = 0 /\ Alive
        /\ tasks \in [Slots -> Task] /\ at \in [Flows -> Labels]
        /\ UNCHANGED <<len, isrs, pend, raced>> /\ Slots' = Slots
    BY DEF TInv, TypeOK, Cpu, block_on_irq, Executes, Slots
  <1>p. cpu.flow \in Procs /\ cpu.flow \notin {Idle, Blink}
    BY <1>t, ProcsAssumption DEF TInv, LabelInv, ProcLabels
  <1>1. PICK ts \in [Slots -> Task] :
             /\ Woken(len, IrqBlocked(v), ts)
             /\ ts[current].state = "Blocked"
             /\ IrqAlone(ts) \/ \E i \in Slots : IrqFor(ts, i)
    BY <1>t, BlockOnIrqFacts
  <1>2. Scanned(ts)
    BY <1>t, <1>1, IrqScanned
  <1>c. /\ [cpu EXCEPT !.gs = Swapgs(@)] \in Cpu
        /\ [cpu EXCEPT !.gs = Swapgs(@)].flow = cpu.flow
        /\ [cpu EXCEPT !.gs = Swapgs(@)].gs = Swapgs(cpu.gs)
    BY <1>t DEF Cpu, Swapgs
  <1>3. TableInv'
    <2>1. \A k \in Slots : tasks'[k].flow = tasks[k].flow
      <3>1. CASE IrqAlone(ts)
        BY <1>2, <3>1 DEF IrqAlone, Scanned
      <3>2. ASSUME NEW i \in Slots, IrqFor(ts, i)
            PROVE  \A k \in Slots : tasks'[k].flow = tasks[k].flow
        <4>1. i # current /\ SwitchTo(ts, i, [cpu EXCEPT !.gs = Swapgs(@)])
          BY <3>2 DEF IrqFor
        <4>2. \A k \in Slots : tasks'[k].flow = ts[k].flow
          BY ZenonT(60), <1>t, <1>c, <4>1, SwitchToFacts
        <4> QED BY <1>2, <4>2 DEF Scanned
      <3> QED BY <1>1, <3>1, <3>2
    <2>2. \E l \in {"ret3", "irq"} : at' = [at EXCEPT ![cpu.flow] = l]
      BY <1>1 DEF IrqAlone, IrqFor
    <2>3. \A g \in Flows : at'[g] = at[g] \/ at'[g] \notin {"unborn", "gone"}
      BY <1>t, <2>2
    <2> QED BY <1>t, <2>1, <2>3, TableStay DEF KInv
  <1>4. CASE raced
    BY <1>t, <1>3, <1>4 DEF KInv
  <1>5. CASE ~raced
    <2>g. Good
      BY <1>t, <1>5 DEF KInv
    <2>1. cpu.gs = "percpu" /\ cpu.user_rsp = cpu.flow
      BY <1>t, <2>g DEF Good, CpuInv, InSys
    <2>2. tasks[current].flow = cpu.flow /\ current \notin {0, 1}
          /\ at[cpu.flow] \notin WindowLabels
      BY <1>t, <1>p, <2>g DEF Good, WindowInv, BootInv, WindowLabels
    <2>3. ~NoNext(ts, len, current)
      BY <1>2, <2>g, <2>2, SomebodyReady
    <2>4. PICK i \in Slots : IrqFor(ts, i)
      BY <1>1, <2>3 DEF IrqAlone
    <2>5. /\ i # current /\ ts[i].state = "Ready"
          /\ SwitchTo(ts, i, [cpu EXCEPT !.gs = Swapgs(@)])
          /\ at' = [at EXCEPT ![cpu.flow] = "irq"]
          /\ saved' = [saved EXCEPT ![cpu.flow] = cpu.user_rsp]
      BY <2>4 DEF IrqFor
    <2>6. /\ \A g \in Flows : g # cpu.flow =>
               at'[g] = at[g] /\ isrs'[g] = isrs[g] /\ saved'[g] = saved[g]
          /\ at'[cpu.flow] = "irq" /\ saved'[cpu.flow] = cpu.flow
      BY <1>t, <2>1, <2>5 DEF TypeOK
    <2>7. at'[cpu.flow] \notin WindowLabels \cup {"sys", "ret3", "unborn", "gone"}
      BY <2>6 DEF WindowLabels
    <2>8. [cpu EXCEPT !.gs = Swapgs(@)].gs = "rest"
      BY <1>c, <2>1 DEF Swapgs
    <2>9. len' = len
      BY <1>t
    <2> QED BY <1>t, <1>1, <1>2, <1>5, <1>c, <2>2, <2>5, <2>6, <2>7, <2>8, <2>9,
                KInvSwitchTo, ZenonT(60)
  <1> QED BY <1>4, <1>5

\* spawn() may reuse the slot of a Dead task: no flow has to come back to its
\* stack.
LEMMA KInvSpawn ==
    ASSUME TInv, KInv, NEW p \in Procs, NEW l \in {"kern", "ret3"},
           NEW from \in {"lk_spawn", "sys"}, Executes(from),
           l = "ret3" <=> from = "sys", Spawn(p, l)
    PROVE  KInv'
  <1> DEFINE dead == {i \in Slots : tasks[i].state = "Dead"}
             new == NewTask(p, cpu.cr3)
  <1>t. /\ TypeOK /\ current \in Slots /\ cpu.flow \in Flows /\ cpu \in Cpu
        /\ at[cpu.flow] = from /\ isrs[cpu.flow] = 0 /\ Alive
        /\ tasks \in [Slots -> Task] /\ at \in [Flows -> Labels] /\ p \in Flows
        /\ len \in Nat /\ len >= 3 /\ 0 \in Slots /\ 1 \in Slots
        /\ \A k \in Slots : tasks[k].flow \in Flows
    BY SMTT(60) DEF TInv, TypeOK, Cpu, Task, Executes, Slots, Flows
  <1>u. /\ UNCHANGED <<current, cpu, isrs, saved, status, raced>>
        /\ at[p] = "unborn" /\ p # cpu.flow
    BY <1>t DEF Spawn
  <1>n. new.flow = p /\ new.rsp = p /\ new.state = "Ready"
    BY DEF NewTask
  <1>f. \A k \in Slots : tasks[k].flow # p
    BY <1>u DEF KInv, TableInv
  <1>w. ASSUME ~raced
        PROVE  /\ Good /\ tasks[current].flow = cpu.flow
               /\ \A g \in Flows : at[g] \notin WindowLabels
               /\ cpu.gs = "percpu" <=> from = "sys"
    <2>1. Good
      BY <1>t, <1>w DEF KInv
    <2>2. from \notin WindowLabels
      BY DEF WindowLabels
    <2> QED BY <1>t, <2>1, <2>2 DEF Good, CpuInv, WindowInv, InSys
  <1>2. CASE dead # {}
    <2>1. PICK i \in dead :
            /\ tasks' = [tasks EXCEPT ![i] = new]
            /\ at' = [at EXCEPT ![tasks[i].flow] = "gone", ![p] = "fresh",
                                ![cpu.flow] = l]
            /\ UNCHANGED <<len, pend>>
      BY <1>2 DEF Spawn
    <2>2. i \in Slots /\ tasks[i].state = "Dead" /\ Slots' = Slots
      BY <2>1 DEF Slots
    <2> HIDE DEF new, dead
    <2>3. \A k \in Slots : tasks'[k] = IF k = i THEN new ELSE tasks[k]
      BY <1>t, <2>1
    <2>4. \A g \in Flows :
            at'[g] = IF g = cpu.flow THEN l ELSE IF g = p THEN "fresh"
                     ELSE IF g = tasks[i].flow THEN "gone" ELSE at[g]
      BY <1>t, <2>1, <2>2
    <2>5. TableInv'
      <3>1. \A j, k \in Slots : tasks'[j].flow = tasks'[k].flow => j = k
        BY <1>n, <1>f, <2>3, SMTT(60) DEF KInv, TableInv
      <3>2. ASSUME NEW k \in Slots PROVE at'[tasks'[k].flow] \notin {"unborn", "gone"}
        BY <1>n, <1>t, <2>2, <2>3, <2>4, SMTT(60) DEF KInv, TableInv
      <3> QED BY <2>2, <3>1, <3>2 DEF TableInv
    <2>6. ASSUME ~raced PROVE Good'
      <3>1. i # current /\ i \notin {0, 1}
        BY <1>t, <1>w, <2>2, <2>6 DEF Good, OneRunning, BootInv
      <3>2. OneRunning' /\ BootInv'
        BY <1>n, <1>t, <1>u, <1>w, <2>2, <2>3, <2>6, <3>1, SMTT(60) DEF Good, OneRunning, BootInv
      <3>3. \A g \in Flows : at'[g] \in WindowLabels \cup {"sys", "ret3"} => g = cpu.flow
        BY <1>t, <1>w, <2>4, <2>6 DEF Good, CpuInv, WindowLabels
      <3>4. WindowInv'
        BY ZenonT(60), <1>t, <1>u, <1>w, <2>3, <2>4, <2>6, <3>1 DEF WindowInv, WindowLabels
      <3>5. SuspInv'
        BY ZenonT(60), <1>n, <1>u, <1>w, <2>2, <2>3, <2>6 DEF Good, SuspInv
      <3>6. CpuInv'
        <4>1. InSys' <=> from = "sys"
          BY <1>t, <1>u, <2>4 DEF InSys
        <4>2. from = "sys" => cpu.user_rsp = cpu.flow
          BY <1>t, <1>w, <2>6 DEF Good, CpuInv, InSys
        <4>3. \A g \in Flows : at'[g] = "irq" => saved[g] = g
          BY <1>t, <1>w, <2>4, <2>6 DEF Good, CpuInv
        <4>4. at'[cpu.flow] # "sys"
          BY <1>t, <2>4
        <4>5. cpu.flow \in Procs => cpu.kstack = cpu.flow
          BY <1>w, <2>6 DEF Good, CpuInv
        <4> QED BY <1>t, <1>u, <1>w, <2>6, <3>3, <4>1, <4>2, <4>3, <4>4, <4>5 DEF CpuInv
      <3> QED BY <3>2, <3>4, <3>5, <3>6 DEF Good
    <2> QED BY <1>t, <1>u, <2>5, <2>6 DEF KInv, Alive
  <1>3. CASE dead = {}
    <2>1. /\ tasks' = [i \in 0..len |-> IF i = len THEN new ELSE tasks[i]]
          /\ len' = len + 1
          /\ at' = [at EXCEPT ![p] = "fresh", ![cpu.flow] = l]
          /\ ~(\E f \in Flows : at[f] \in WindowLabels) => pend' = pend
      BY <1>3 DEF Spawn
    <2> HIDE DEF new, dead
    <2>2. /\ Slots' = 0..len /\ Slots \subseteq Slots' /\ len \in Slots'
          /\ \A k \in Slots' : k # len => k \in Slots
          /\ len \notin Slots
      BY <1>t, <2>1, SMTT(60) DEF Slots
    <2>3. \A k \in Slots' : tasks'[k] = IF k = len THEN new ELSE tasks[k]
      BY <2>1, <2>2
    <2>4. \A g \in Flows :
            at'[g] = IF g = cpu.flow THEN l ELSE IF g = p THEN "fresh" ELSE at[g]
      BY <1>t, <2>1
    <2>5. TableInv'
      <3>1. \A j, k \in Slots' : tasks'[j].flow = tasks'[k].flow => j = k
        BY <1>n, <1>f, <2>2, <2>3, SMTT(60) DEF KInv, TableInv
      <3>2. ASSUME NEW k \in Slots' PROVE at'[tasks'[k].flow] \notin {"unborn", "gone"}
        BY <1>n, <1>t, <2>2, <2>3, <2>4, SMTT(60) DEF KInv, TableInv
      <3> QED BY <3>1, <3>2 DEF TableInv
    <2>6. ASSUME ~raced PROVE Good'
      <3>2. OneRunning' /\ BootInv'
        BY <1>n, <1>t, <1>u, <1>w, <2>2, <2>3, <2>6, SMTT(60) DEF Good, OneRunning, BootInv
      <3>3. \A g \in Flows : at'[g] \in WindowLabels \cup {"sys", "ret3"} => g = cpu.flow
        BY <1>t, <1>w, <2>4, <2>6 DEF Good, CpuInv, WindowLabels
      <3>4. WindowInv'
        BY <1>t, <1>u, <1>w, <2>2, <2>3, <2>4, <2>6 DEF WindowInv, WindowLabels
      <3>5. SuspInv'
        BY <1>n, <1>u, <1>w, <2>2, <2>3, <2>6 DEF Good, SuspInv
      <3>6. CpuInv'
        <4>1. InSys' <=> from = "sys"
          BY <1>t, <1>u, <2>4 DEF InSys
        <4>2. from = "sys" => cpu.user_rsp = cpu.flow
          BY <1>t, <1>w, <2>6 DEF Good, CpuInv, InSys
        <4>3. \A g \in Flows : at'[g] = "irq" => saved[g] = g
          BY <1>t, <1>w, <2>4, <2>6 DEF Good, CpuInv
        <4>4. at'[cpu.flow] # "sys"
          BY <1>t, <2>4
        <4>5. cpu.flow \in Procs => cpu.kstack = cpu.flow
          BY <1>w, <2>6 DEF Good, CpuInv
        <4> QED BY <1>t, <1>u, <1>w, <2>6, <3>3, <4>1, <4>2, <4>3, <4>4, <4>5 DEF CpuInv
      <3> QED BY <3>2, <3>4, <3>5, <3>6 DEF Good
    <2> QED BY <1>t, <1>u, <2>5, <2>6 DEF KInv, Alive
  <1> QED BY <1>2, <1>3

\* Every step of the scheduler keeps the table, the stacks and the CPU in
\* agreement.
LEMMA KInvStep == TInv /\ KInv /\ [Next]_vars => KInv'
  <1> SUFFICES ASSUME TInv, KInv, [Next]_vars PROVE KInv'
    OBVIOUS
  <1>1. CASE tick
    BY <1>1, KInvTick
  <1>2. CASE timer_return
    BY <1>2, KInvTimerReturn
  <1>3. CASE sleep_ms \/ exit_current
    BY <1>3, KInvLeave
  <1>4. CASE sleep_switch
    BY <1>4, KInvLeaveSwitch DEF sleep_switch, WindowLabels
  <1>5. CASE exit_switch
    BY <1>5, KInvLeaveSwitch DEF exit_switch, WindowLabels
  <1>6. CASE \/ task_trampoline \/ sleep_ms_lock \/ sleep_return \/ exit_current_lock
             \/ slot_index_lock \/ run_elf \/ write_cr3 \/ set_current_cr3_lock
             \/ set_current_cr3 \/ enter_ring3 \/ spawn_lock
    BY <1>6, KInvKernelStep
  <1>7. CASE syscall_entry \/ sys_other \/ irq_return \/ sysret \/ sys_exit
    BY <1>7, KInvSyscallStep
  <1>8. CASE spawn
    <2>1. PICK p \in Procs : Spawn(p, "kern")
      BY <1>8 DEF spawn
    <2> QED BY <1>8, <2>1, KInvSpawn DEF spawn
  <1>9. CASE sys_spawn_bytes
    <2>1. PICK p \in Procs : Spawn(p, "ret3")
      BY <1>9 DEF sys_spawn_bytes
    <2> QED BY <1>9, <2>1, KInvSpawn DEF sys_spawn_bytes
  <1>10. CASE sys_wait_irq
    <2>1. PICK v \in Vectors : block_on_irq(v)
      BY <1>10 DEF sys_wait_irq
    <2> QED BY <2>1, KInvBlockOnIrq
  <1>11. CASE UNCHANGED vars
    BY ZenonT(60), <1>11 DEF vars, KInv, TableInv, Good, Alive, OneRunning, BootInv, WindowInv,
                 SuspInv, CpuInv, InSys, Slots
  <1> QED
    BY <1>1, <1>2, <1>3, <1>4, <1>5, <1>6, <1>7, <1>8, <1>9, <1>10, <1>11
       DEF Next, Kernel, Syscalls, Stopped

\* The table, the stacks and the CPU agree in every reachable state.
THEOREM Consistency == Spec => [](TInv /\ KInv)
  BY TInvInit, TInvStep, KInvInit, KInvStep, PTL DEF Spec

\* Unless a tick hits the middle of a switch, every task next() can choose
\* has its own stack in its slot and the CPU runs the current task's stack:
\* sleep_ms(), block_on_irq(), exit_current() and tick() lose no stack.
THEOREM StacksAreOwn == Spec => []ResumesOwnStack
  <1>1. TInv /\ KInv => ResumesOwnStack
    <2> SUFFICES ASSUME TInv, KInv, ~raced PROVE ResumesOwnStack
      BY DEF ResumesOwnStack
    <2>1. ASSUME Alive, NEW i \in Slots, i # current, tasks[i].state # "Dead"
          PROVE  \/ tasks[i].rsp = tasks[i].flow
                 \/ tasks[i].flow = cpu.flow /\ at[cpu.flow] \in WindowLabels
      <3>1. CASE at[cpu.flow] \in WindowLabels
        BY <2>1, <3>1 DEF KInv, Good, SuspInv
      <3>2. CASE at[cpu.flow] \notin WindowLabels
        BY <2>1, <3>2, ReadyHasStack
      <3> QED BY <3>1, <3>2
    <2>2. ASSUME Alive, at[cpu.flow] \notin WindowLabels
          PROVE  tasks[current].flow = cpu.flow
      BY <2>2 DEF KInv, Good, WindowInv
    <2> QED BY <2>1, <2>2 DEF KInv, ResumesOwnStack
  <1> QED BY <1>1, Consistency, PTL

\* Under the same proviso the registers block_on_irq() swaps by hand are the
\* executing task's own.
THEOREM RegistersAreOwn == Spec => []SyscallContext
  <1>1. TInv /\ KInv => SyscallContext
    BY DEF KInv, Good, SyscallContext, CpuInv, InSys
  <1> QED BY <1>1, Consistency, PTL
=============================================================================
