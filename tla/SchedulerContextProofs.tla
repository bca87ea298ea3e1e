------------------------ MODULE SchedulerContextProofs ------------------------
(***************************************************************************)
(* Whatever code Scheduler runs, it runs in its own context, even when a   *)
(* tick hits a flow between next() and context_switch().                   *)
(*                                                                         *)
(* Such a flow holds the switch it has yet to make in its locals (pend).   *)
(* Its stack may be saved meanwhile in the slot it was about to run: who   *)
(* switches to that slot resumes the old flow, which then makes its switch *)
(* and so gets where the slot leads.  The invariant CInv says that every   *)
(* saved stack leads to its slot's flow in this way (RideInv), that each   *)
(* stack is saved at one place (OnceInv), and what follows for address     *)
(* spaces, slots of PROC_SLOTS and interrupts (SpaceInv, PreemptInv).      *)
(***************************************************************************)
EXTENDS SchedulerProofs

\* How long, in seconds, a prover may take over one leaf.
USE ZenonT(60)

USE DEF Idle, Blink, Worker, KRoot, Stale, BootStack, TimerVector, NoIrq,
        Forever, Dangling

\* The flows between next() and context_switch(), and the suspended slots.
Leaving == {g \in Flows : at[g] \in WindowLabels}
Others == Slots \ {current}

\* With the flows at the labels a and the switches p still to make, resuming
\* stack r ends in flow f with address space c: at once, by the switch that
\* r's flow has yet to make, or in a fault.
Leads(a, p, r, f, c) ==
    \/ r = Stale
    \/ a[r] = "gone"
    \/ r = f /\ a[r] \notin WindowLabels \cup {"unborn"}
    \/ a[r] \in WindowLabels /\ p[r].kstack = f /\ p[r].cr3 = c

RideInv ==
    /\ \A i \in Others : Leads(at, pend, tasks[i].rsp, tasks[i].flow, tasks[i].cr3)
    /\ \A g \in Leaving : Leads(at, pend, pend[g].rsp, pend[g].kstack, pend[g].cr3)
    /\ IF cpu.flow \in Leaving
       THEN /\ pend[cpu.flow].kstack = tasks[current].flow
            /\ pend[cpu.flow].cr3 = tasks[current].cr3
       ELSE tasks[current].flow = cpu.flow /\ tasks[current].rsp = Stale

\* No stack is saved twice, and the executing one is saved nowhere.
OnceInv ==
    /\ \A i, j \in Others : tasks[i].rsp = tasks[j].rsp /\ tasks[i].rsp # Stale => i = j
    /\ \A g, h \in Leaving : pend[g].rsp = pend[h].rsp /\ pend[g].rsp # Stale => g = h
    /\ \A i \in Others, g \in Leaving : tasks[i].rsp = pend[g].rsp => tasks[i].rsp = Stale
    /\ \A i \in Others : tasks[i].rsp # cpu.flow
    /\ \A g \in Leaving : pend[g].rsp # cpu.flow

\* A flow leaves its own slot for another one, unless spawn() has moved the
\* table since.
LeaveInv ==
    \A g \in Leaving :
        /\ pend[g].kstack # g
        /\ pend[g].old = Dangling \/ (pend[g].old \in Slots /\ tasks[pend[g].old].flow = g)

\* The code between enter_ring3() and SYS_EXIT.
InProgram == {"user", "sys", "ret3", "irq"}

\* A program's task records its address space, the CPU has it loaded, and as
\* long as PROC_SLOTS has an entry for each task, its entry is its own.
Recorded(l, f, c) == l \in InProgram \cup {"enter"} => c = f
Loaded(l, f, c) == l \in InProgram => c = f
Listed(l, f, e) == l \in InProgram => e = [owner |-> f, running |-> TRUE]

SpaceInv ==
    /\ \A k \in Slots : Recorded(at[tasks[k].flow], tasks[k].flow, tasks[k].cr3)
    /\ Loaded(at[cpu.flow], cpu.flow, cpu.cr3)
    /\ len <= MAX_TASKS =>
          \A k \in Slots : Listed(at[tasks[k].flow], tasks[k].flow, pslot[k])

\* Ring-3 code, kmain and the desktop lose the CPU to ticks only.
PreemptInv ==
    /\ \A g \in Flows : at[g] = "user" /\ isrs[g] = 0 => g = cpu.flow /\ cpu.ie
    /\ \A g \in {Idle, Blink} : at[g] \in {"kern", "lk_spawn"} /\ isrs[g] = 0 =>
                                   g = cpu.flow /\ cpu.ie /\ ~cpu.isr

Ride == RideInv /\ OnceInv /\ LeaveInv /\ SpaceInv /\ PreemptInv

CInv ==
    /\ OneRunning /\ BootInv
    /\ Alive => Ride

-----------------------------------------------------------------------------

\* What the types say of the parts of the state a switch moves.
LEMMA Shapes ==
    ASSUME TInv
    PROVE  /\ cpu.flow \in Flows /\ current \in Slots /\ Stale \notin Flows
           /\ 0 \in Slots /\ 1 \in Slots /\ Dangling \notin Slots
           /\ \A k \in Slots : tasks[k].flow \in Flows /\ tasks[k].rsp \in Flows \cup {Stale}
           /\ \A g \in Flows : pend[g].kstack \in Flows /\ pend[g].rsp \in Flows \cup {Stale}
  <1>1. /\ cpu.flow \in Flows /\ current \in Slots /\ 0 \in Slots /\ 1 \in Slots
        /\ Dangling \notin Slots
    BY SMTT(60) DEF TInv, TypeOK, Cpu, Slots
  <1>2. Stale \notin Flows
    BY ProcsAssumption DEF Flows, BootFlows
  <1>3. \A k \in Slots : tasks[k].flow \in Flows /\ tasks[k].rsp \in Flows \cup {Stale}
    BY DEF TInv, TypeOK, Task
  <1>4. \A g \in Flows : pend[g].kstack \in Flows /\ pend[g].rsp \in Flows \cup {Stale}
    BY DEF TInv, TypeOK, Pend
  <1> QED BY <1>1, <1>2, <1>3, <1>4

\* Only the context of the executing flow may change: what it must have when
\* it goes on at label l.
Fits(l) ==
    /\ Recorded(l, cpu.flow, tasks'[current].cr3)
    /\ Loaded(l, cpu.flow, cpu'.cr3)
    /\ len <= MAX_TASKS => Listed(l, cpu.flow, pslot'[current])
    /\ l = "user" => cpu'.ie
    /\ l \in {"kern", "lk_spawn"} /\ cpu.flow \in {Idle, Blink} => cpu'.ie /\ ~cpu'.isr

\* A step of the executing flow outside the window moves no saved stack.
LEMMA OwnStep ==
    ASSUME TInv, TableInv, CInv, NEW from, Executes(from), from \notin WindowLabels,
           NEW l, l \notin WindowLabels \cup {"unborn"}, Goto(l), Stays,
           isrs' = isrs, pend' = pend,
           \A k \in Slots : k # current =>
               /\ tasks'[k].cr3 = tasks[k].cr3
               /\ len <= MAX_TASKS => pslot'[k] = pslot[k],
           Alive' => Fits(l)
    PROVE  CInv'
  <1>s. /\ cpu.flow \in Flows /\ current \in Slots /\ 0 \in Slots /\ 1 \in Slots
        /\ \A k \in Slots : tasks[k].flow \in Flows /\ tasks[k].rsp \in Flows \cup {Stale}
        /\ \A g \in Flows : pend[g].rsp \in Flows \cup {Stale}
    BY Shapes
  <1>1. /\ \A g \in Flows : at'[g] = IF g = cpu.flow THEN l ELSE at[g]
        /\ at[cpu.flow] = from /\ isrs[cpu.flow] = 0 /\ Alive
        /\ Slots' = Slots /\ current' = current /\ cpu'.flow = cpu.flow /\ len' = len
        /\ Others' = Others
    BY <1>s DEF TInv, TypeOK, Goto, Executes, Stays, Slots, Others
  <1>2. \A k \in Slots : tasks'[k].flow = tasks[k].flow /\ tasks'[k].rsp = tasks[k].rsp
                         /\ tasks'[k].state = tasks[k].state
    BY DEF Stays
  <1>3. OneRunning' /\ BootInv'
    BY <1>s, <1>1, <1>2, SMTT(60) DEF CInv, OneRunning, BootInv
  <1>4. RideInv /\ OnceInv /\ LeaveInv /\ SpaceInv /\ PreemptInv
    BY <1>1 DEF CInv, Ride
  <1>5. cpu.flow \notin Leaving /\ Leaving' = Leaving
    BY <1>1 DEF Leaving
  <1>6. tasks[current].flow = cpu.flow /\ tasks[current].rsp = Stale
    BY <1>4, <1>5 DEF RideInv
  <1>7. \A r \in Flows \cup {Stale} : \A f, c :
           r # cpu.flow /\ Leads(at, pend, r, f, c) => Leads(at', pend', r, f, c)
    BY <1>1 DEF Leads
  <1>8. RideInv'
    <2>1. \A i \in Others : Leads(at', pend', tasks'[i].rsp, tasks'[i].flow, tasks'[i].cr3)
      BY <1>s, <1>2, <1>4, <1>7 DEF RideInv, OnceInv, Others
    <2>2. \A g \in Leaving : Leads(at', pend', pend'[g].rsp, pend'[g].kstack, pend'[g].cr3)
      BY <1>s, <1>4, <1>7 DEF RideInv, OnceInv, Leaving
    <2> QED BY <1>s, <1>1, <1>2, <1>5, <1>6, <2>1, <2>2 DEF RideInv
  <1>9. OnceInv'
    BY <1>1, <1>2, <1>4, <1>5, SMTT(60) DEF OnceInv, Others
  <1>10. LeaveInv'
    BY <1>1, <1>2, <1>4, <1>5 DEF LeaveInv
  <1>11. ASSUME Alive' PROVE SpaceInv'
    <2>1. \A k \in Slots : k # current => tasks[k].flow # cpu.flow
      BY <1>s, <1>6, SMTT(60) DEF TableInv
    <2>2. \A k \in Slots : at'[tasks[k].flow] = IF k = current THEN l ELSE at[tasks[k].flow]
      BY <1>s, <1>1, <1>6, <2>1
    <2>3. Fits(l)
      BY <1>11
    <2> QED BY <1>s, <1>1, <1>2, <1>4, <1>6, <2>2, <2>3, SMTT(60) DEF SpaceInv, Fits
  <1>12. ASSUME Alive' PROVE PreemptInv'
    BY <1>s, <1>1, <1>4, <1>12, SMTT(60) DEF PreemptInv, Fits, Flows, BootFlows
  <1> QED BY <1>3, <1>8, <1>9, <1>10, <1>11, <1>12 DEF CInv, Ride

-----------------------------------------------------------------------------
(* Switches. *)

\* next() finds somebody: kmain and the desktop never block.
LEMMA AlwaysSomebody ==
    ASSUME TInv, OneRunning, BootInv, NEW ts \in [Slots -> Task], Scanned(ts)
    PROVE  ~NoNext(ts, len, current)
  <1>1. len \in Nat /\ len >= 3 /\ 0 \in Slots /\ 1 \in Slots
    BY SMTT(60) DEF TInv, TypeOK, Slots
  <1>2. \E k \in {0, 1} : k # current /\ tasks[k].state = "Ready"
    BY <1>1 DEF BootInv, OneRunning
  <1>3. \E k \in {0, 1} : k # current /\ ts[k].state = "Ready"
    BY <1>1, <1>2, SMTT(60) DEF Scanned
  <1> QED BY <1>1, <1>3, SMTT(60) DEF NoNext

\* Whoever leaves the CPU to the Ready task i, one task is Running again.
LEMMA HandedOver ==
    ASSUME TInv, OneRunning, BootInv, NEW ts \in [Slots -> Task], Scanned(ts),
           \/ ts[current].state = "Running"
           \/ ts[current].state # "Running" /\ current \notin {0, 1},
           NEW i \in Slots, i # current, len' = len, current' = i,
           \A k \in Slots :
               /\ tasks'[k].flow = ts[k].flow
               /\ tasks'[k].state = IF k = i THEN "Running"
                                    ELSE IF k = current /\ ts[k].state = "Running"
                                    THEN "Ready" ELSE ts[k].state
    PROVE  OneRunning' /\ BootInv'
  <1>1. Slots' = Slots /\ 0 \in Slots /\ 1 \in Slots /\ current \in Slots
    BY SMTT(60) DEF TInv, TypeOK, Slots
  <1>2. OneRunning'
    BY <1>1, SMTT(60) DEF OneRunning, Scanned
  <1>3. BootInv'
    BY <1>1, SMTT(60) DEF BootInv, OneRunning, Scanned
  <1> QED BY <1>2, <1>3

\* The switch of tick() and of block_on_irq(): the executing stack, with the
\* switch it may have yet to make, is saved in the current slot.
LEMMA SwitchStep ==
    ASSUME TInv, TableInv, CInv, Alive, NEW ts \in [Slots -> Task], Scanned(ts),
           \/ ts[current].state = "Running"
           \/ ts[current].state # "Running" /\ current \notin {0, 1},
           NEW i \in Slots, i # current, NEW c \in Cpu, c.flow = cpu.flow,
           SwitchTo(ts, i, c), len' = len, pend' = pend, pslot' = pslot,
           \A g \in Flows : g # cpu.flow => at'[g] = at[g] /\ isrs'[g] = isrs[g],
           \/ at'[cpu.flow] = at[cpu.flow] /\ isrs'[cpu.flow] # 0
           \/ at[cpu.flow] = "sys" /\ at'[cpu.flow] = "irq"
    PROVE  CInv'
  <1>s. /\ cpu.flow \in Flows /\ current \in Slots /\ Stale \notin Flows
        /\ \A k \in Slots : tasks[k].flow \in Flows /\ tasks[k].rsp \in Flows \cup {Stale}
        /\ \A g \in Flows : pend[g].kstack \in Flows /\ pend[g].rsp \in Flows \cup {Stale}
    BY Shapes
  <1>0. Slots' = Slots /\ TypeOK
    BY DEF Slots, TInv
  <1>1. /\ current' = i
        /\ cpu'.flow = IF ts[i].rsp = Stale THEN cpu.flow ELSE ts[i].rsp
        /\ cpu'.cr3 = ts[i].cr3
        /\ status' = Outcome(ts[i].rsp, ts[i].cr3)
        /\ \A k \in Slots :
                /\ tasks'[k].flow = ts[k].flow /\ tasks'[k].cr3 = ts[k].cr3
                /\ tasks'[k].rsp = IF k = current THEN cpu.flow
                                   ELSE IF k = i THEN Stale ELSE ts[k].rsp
                /\ tasks'[k].state = IF k = i THEN "Running"
                                     ELSE IF k = current /\ ts[k].state = "Running"
                                     THEN "Ready" ELSE ts[k].state
    BY <1>0, SwitchToFacts, SMTT(60)
  <1>2. OneRunning' /\ BootInv'
    BY <1>1, HandedOver DEF CInv
  <1>3. RideInv /\ OnceInv /\ LeaveInv /\ SpaceInv /\ PreemptInv
    BY DEF CInv, Ride
  <1> SUFFICES ASSUME Alive' PROVE Ride'
    BY <1>2 DEF CInv
  <1> DEFINE r == tasks[i].rsp
  <1>4. r # Stale /\ at[r] # "gone" /\ r \in Flows
    BY <1>s, <1>1, SMTT(60) DEF Outcome, Alive, Scanned
  <1>5. i \in Others /\ r # cpu.flow
    BY <1>3 DEF Others, OnceInv
  <1>6. Leads(at, pend, r, tasks[i].flow, tasks[i].cr3)
    BY <1>3, <1>5 DEF RideInv
  <1> HIDE DEF r
  <1>7. /\ current' = i /\ cpu'.flow = r /\ cpu'.cr3 = tasks[i].cr3
        /\ \A k \in Slots :
              /\ tasks'[k].flow = tasks[k].flow /\ tasks'[k].cr3 = tasks[k].cr3
              /\ tasks'[k].rsp = IF k = current THEN cpu.flow
                                 ELSE IF k = i THEN Stale ELSE tasks[k].rsp
    BY <1>1, <1>4, SMTT(60) DEF Scanned, r
  <1>8. Leaving' = Leaving /\ (cpu.flow \in Leaving => at'[cpu.flow] = at[cpu.flow])
    BY DEF Leaving, WindowLabels
  <1>9. \A q \in Flows \cup {Stale} : \A f, d :
           q # cpu.flow /\ Leads(at, pend, q, f, d) => Leads(at', pend', q, f, d)
    BY DEF Leads
  <1>10. /\ Others' = (Others \ {i}) \cup {current} /\ current \notin Others
         /\ \A k \in Others : k \in Slots /\ k # current
         /\ \A g \in Leaving : g \in Flows
    BY <1>0, <1>s, <1>7, SMTT(60) DEF Others, Leaving
  <1>11. RideInv'
    <2>1. ASSUME NEW k \in Others'
          PROVE  Leads(at', pend', tasks'[k].rsp, tasks'[k].flow, tasks'[k].cr3)
      <3>1. CASE k = current
        <4>1. at[cpu.flow] # "unborn" \/ tasks[current].flow # cpu.flow
          BY <1>s DEF TableInv
        <4>2. CASE cpu.flow \in Leaving
          <5>1. /\ at'[cpu.flow] \in WindowLabels
                /\ pend'[cpu.flow].kstack = tasks[current].flow
                /\ pend'[cpu.flow].cr3 = tasks[current].cr3
            BY <1>3, <1>8, <4>2 DEF RideInv, Leaving
          <5> QED BY <1>s, <1>7, <3>1, <5>1 DEF Leads
        <4>3. CASE cpu.flow \notin Leaving
          <5>1. tasks[current].flow = cpu.flow
            BY <1>3, <4>3 DEF RideInv
          <5>2. at'[cpu.flow] \notin WindowLabels \cup {"unborn"}
            BY <1>s, <4>1, <4>3, <5>1 DEF Leaving, WindowLabels
          <5> QED BY <1>s, <1>7, <3>1, <5>1, <5>2 DEF Leads
        <4> QED BY <4>2, <4>3
      <3>2. CASE k # current
        <4>1. k \in Others /\ k # i
          BY <1>10, <2>1, <3>2
        <4> QED BY <1>s, <1>3, <1>7, <1>9, <1>10, <4>1, SMTT(60) DEF RideInv, OnceInv
      <3> QED BY <3>1, <3>2
    <2>2. \A g \in Leaving : Leads(at', pend', pend'[g].rsp, pend'[g].kstack, pend'[g].cr3)
      BY <1>s, <1>3, <1>9, <1>10 DEF RideInv, OnceInv
    <2>3. IF r \in Leaving
          THEN pend[r].kstack = tasks[i].flow /\ pend[r].cr3 = tasks[i].cr3
          ELSE tasks[i].flow = r
      BY <1>4, <1>6 DEF Leads, Leaving
    <2>4. IF cpu'.flow \in Leaving'
          THEN /\ pend'[cpu'.flow].kstack = tasks'[current'].flow
               /\ pend'[cpu'.flow].cr3 = tasks'[current'].cr3
          ELSE tasks'[current'].flow = cpu'.flow /\ tasks'[current'].rsp = Stale
      BY <1>7, <1>8, <2>3
    <2> QED BY <1>8, <2>1, <2>2, <2>4 DEF RideInv
  <1>12. OnceInv'
    <2>1. \A k \in Others' : \/ k = current /\ tasks'[k].rsp = cpu.flow
                             \/ k \in Others /\ k # i /\ tasks'[k].rsp = tasks[k].rsp
      BY <1>s, <1>7, <1>10
    <2>2. \A k, j \in Others' : tasks'[k].rsp = tasks'[j].rsp /\ tasks'[k].rsp # Stale => k = j
      BY <1>3, <2>1, SMTT(60) DEF OnceInv
    <2>3. \A g, h \in Leaving : pend'[g].rsp = pend'[h].rsp /\ pend'[g].rsp # Stale => g = h
      BY <1>3 DEF OnceInv
    <2>4. \A k \in Others', g \in Leaving :
             tasks'[k].rsp = pend'[g].rsp => tasks'[k].rsp = Stale
      BY <1>3, <2>1, SMTT(60) DEF OnceInv
    <2>5. \A k \in Others' : tasks'[k].rsp # r
      BY <1>3, <1>4, <1>5, <2>1, SMTT(60) DEF OnceInv, r
    <2>6. \A g \in Leaving : pend'[g].rsp # r
      BY <1>3, <1>4, <1>5 DEF OnceInv, r
    <2> QED BY <1>7, <1>8, <2>2, <2>3, <2>4, <2>5, <2>6 DEF OnceInv
  <1>13. LeaveInv'
    BY <1>0, <1>3, <1>7, <1>8, SMTT(60) DEF LeaveInv
  <1>14. SpaceInv'
    <2>1. \A g \in Flows : at'[g] = at[g] \/ (at[g] = "sys" /\ at'[g] = "irq")
      OBVIOUS
    <2>2. \A k \in Slots : Recorded(at'[tasks[k].flow], tasks[k].flow, tasks[k].cr3)
      BY <1>s, <1>3, <2>1 DEF SpaceInv, Recorded, InProgram
    <2>3. len <= MAX_TASKS =>
             \A k \in Slots : Listed(at'[tasks[k].flow], tasks[k].flow, pslot[k])
      BY <1>s, <1>3, <2>1 DEF SpaceInv, Listed, InProgram
    <2>4. Loaded(at[r], r, tasks[i].cr3)
      <3>1. CASE at[r] \in WindowLabels
        BY <3>1 DEF Loaded, InProgram, WindowLabels
      <3>2. CASE at[r] \notin WindowLabels
        <4>1. tasks[i].flow = r
          BY <1>4, <1>6, <3>2 DEF Leads
        <4> QED BY <1>3, <4>1 DEF SpaceInv, Recorded, Loaded
      <3> QED BY <3>1, <3>2
    <2> QED BY <1>0, <1>4, <1>5, <1>7, <2>2, <2>3, <2>4 DEF SpaceInv
  <1>15. PreemptInv'
    BY <1>s, <1>3, SMTT(60) DEF PreemptInv, Flows, BootFlows
  <1> QED BY <1>11, <1>12, <1>13, <1>14, <1>15 DEF Ride

\* sleep_ms() and exit_current() up to the unlock: the flow opens its window,
\* and its locals lead where the chosen slot did.
LEMMA LeaveStep ==
    ASSUME TInv, TableInv, CInv, NEW from \in {"lk_sleep", "lk_exit"}, Executes(from),
           cpu.flow \notin {Idle, Blink},
           NEW w \in WindowLabels, NEW a \in {"kern", "exit"},
           NEW s \in {"Blocked", "Dead"}, NEW s2 \in TaskStates,
           NEW ts \in [Slots -> Task],
           \A k \in Slots : /\ ts[k].flow = tasks[k].flow /\ ts[k].rsp = tasks[k].rsp
                            /\ ts[k].cr3 = tasks[k].cr3
                            /\ ts[k].state = IF k = current THEN s ELSE tasks[k].state,
           Promote(ts)[current].state = s,
           LeaveCpu(ts, w, a, s2)
    PROVE  CInv'
  <1>s. /\ cpu.flow \in Flows /\ current \in Slots /\ Stale \notin Flows
        /\ \A k \in Slots : tasks[k].flow \in Flows /\ tasks[k].rsp \in Flows \cup {Stale}
        /\ \A g \in Flows : pend[g].kstack \in Flows /\ pend[g].rsp \in Flows \cup {Stale}
    BY Shapes
  <1>t. /\ TypeOK /\ at[cpu.flow] = from /\ isrs[cpu.flow] = 0 /\ Alive
        /\ w \in Labels /\ a \in Labels /\ at \in [Flows -> Labels]
    BY DEF TInv, TypeOK, Executes, Labels
  <1>u. UNCHANGED <<len, cpu, isrs, pslot, status>> /\ Slots' = Slots
    BY DEF LeaveCpu, Slots
  <1>1. PICK pts \in [Slots -> Task] :
             /\ pts = Promote(ts)
             /\ Woken(len, ts, pts)
             /\ LeftAlone(pts, a, s2) \/ \E i \in Slots : LeftFor(pts, i, w)
    BY ZenonT(60), <1>t, LeaveCpuFacts
  <1>2. Scanned(pts) /\ pts[current].state = s
    BY <1>1, SMTT(60) DEF Scanned, Woken, Slots
  <1>3. RideInv /\ OnceInv /\ LeaveInv /\ SpaceInv /\ PreemptInv /\ OneRunning /\ BootInv
    BY <1>t DEF CInv, Ride
  <1>4. PICK i \in Slots : LeftFor(pts, i, w)
    BY <1>1, <1>2, <1>3, AlwaysSomebody DEF LeftAlone
  <1> DEFINE f == cpu.flow
             r == tasks[i].rsp
  <1>5. /\ i # current /\ current' = i
        /\ \A k \in Slots :
             /\ tasks'[k].rsp = tasks[k].rsp /\ tasks'[k].flow = tasks[k].flow
             /\ tasks'[k].cr3 = tasks[k].cr3
        /\ \A g \in Flows : at'[g] = IF g = f THEN w ELSE at[g]
        /\ pend'[f] = [old |-> current, rsp |-> r,
                       cr3 |-> tasks[i].cr3, kstack |-> tasks[i].flow]
        /\ \A g \in Flows : g # f => pend'[g] = pend[g]
    BY <1>s, <1>t, <1>2, <1>4, SMTT(60) DEF LeftFor, Scanned
  <1>6. f \notin Leaving /\ tasks[current].flow = f /\ tasks[current].rsp = Stale
    BY <1>t, <1>3 DEF RideInv, Leaving, WindowLabels
  <1>7. OneRunning' /\ BootInv'
    <2>1. current \notin {0, 1} /\ pts[current].state # "Running"
      BY <1>2, <1>3, <1>6 DEF BootInv
    <2>2. \A k \in Slots :
               /\ tasks'[k].flow = pts[k].flow
               /\ tasks'[k].state = IF k = i THEN "Running"
                                    ELSE IF k = current /\ pts[k].state = "Running"
                                    THEN "Ready" ELSE pts[k].state
      BY <1>4 DEF LeftFor
    <2> QED BY <1>u, <1>2, <1>3, <1>5, <2>1, <2>2, HandedOver
  <1> HIDE DEF f, r
  <1>8. /\ Leaving' = Leaving \cup {f} /\ f \in Flows
        /\ Others' = (Others \ {i}) \cup {current} /\ current \notin Others /\ i \in Others
        /\ \A k \in Others : k \in Slots /\ k # current
        /\ \A g \in Leaving : g \in Flows /\ g # f
    BY <1>s, <1>u, <1>5, <1>6, SMTT(60) DEF Leaving, Others, f
  <1>9. \A q \in Flows \cup {Stale} : \A h, d :
           q # f /\ Leads(at, pend, q, h, d) => Leads(at', pend', q, h, d)
    BY <1>5 DEF Leads
  <1>10. r # f /\ Leads(at', pend', r, tasks[i].flow, tasks[i].cr3)
    BY <1>s, <1>3, <1>8, <1>9 DEF RideInv, OnceInv, r, f
  <1>11. RideInv'
    <2>1. ASSUME NEW k \in Others'
          PROVE  Leads(at', pend', tasks'[k].rsp, tasks'[k].flow, tasks'[k].cr3)
      <3>1. CASE k = current
        BY <1>s, <1>5, <1>6, <3>1 DEF Leads
      <3>2. CASE k # current
        BY <1>s, <1>3, <1>5, <1>8, <1>9, <2>1, <3>2, SMTT(60) DEF RideInv, OnceInv, f
      <3> QED BY <3>1, <3>2
    <2>2. ASSUME NEW g \in Leaving'
          PROVE  Leads(at', pend', pend'[g].rsp, pend'[g].kstack, pend'[g].cr3)
      <3>1. CASE g = f
        BY <1>5, <1>10, <3>1, SMTT(60)
      <3>2. CASE g # f
        BY <1>s, <1>3, <1>5, <1>8, <1>9, <2>2, <3>2, SMTT(60) DEF RideInv, OnceInv, f
      <3> QED BY <3>1, <3>2
    <2>3. /\ cpu'.flow \in Leaving'
          /\ pend'[cpu'.flow].kstack = tasks'[current'].flow
          /\ pend'[cpu'.flow].cr3 = tasks'[current'].cr3
      BY <1>u, <1>5, <1>8, SMTT(60) DEF f
    <2> QED BY <2>1, <2>2, <2>3 DEF RideInv
  <1>12. OnceInv'
    <2>1. \A k \in Others' : \/ tasks'[k].rsp = Stale
                             \/ k \in Others /\ k # i /\ tasks'[k].rsp = tasks[k].rsp
      BY <1>s, <1>5, <1>6, <1>8, SMTT(60)
    <2>2. \A g \in Leaving' : \/ g = f /\ pend'[g].rsp = r
                              \/ g \in Leaving /\ pend'[g].rsp = pend[g].rsp
      BY <1>5, <1>8, SMTT(60)
    <2>3. \A k, j \in Others' : tasks'[k].rsp = tasks'[j].rsp /\ tasks'[k].rsp # Stale => k = j
      BY <1>3, <2>1, SMTT(60) DEF OnceInv
    <2>4. \A g, h \in Leaving' : pend'[g].rsp = pend'[h].rsp /\ pend'[g].rsp # Stale => g = h
      BY <1>3, <1>8, <2>2, SMTT(60) DEF OnceInv, r
    <2>5. \A k \in Others', g \in Leaving' :
             tasks'[k].rsp = pend'[g].rsp => tasks'[k].rsp = Stale
      BY <1>3, <1>8, <2>1, <2>2, SMTT(60) DEF OnceInv, r
    <2>6. \A k \in Others' : tasks'[k].rsp # f
      BY <1>s, <1>3, <2>1, SMTT(60) DEF OnceInv, f
    <2>7. \A g \in Leaving' : pend'[g].rsp # f
      BY <1>3, <1>10, <2>2 DEF OnceInv, f
    <2> QED BY <1>u, <2>3, <2>4, <2>5, <2>6, <2>7 DEF OnceInv, f
  <1>13. LeaveInv'
    <2>1. tasks[i].flow # f
      BY <1>s, <1>5, <1>6 DEF TableInv
    <2>2. pend'[f].kstack # f /\ pend'[f].old \in Slots /\ tasks'[pend'[f].old].flow = f
      BY <1>s, <1>5, <1>6, <2>1, SMTT(60)
    <2> QED BY <1>u, <1>3, <1>5, <1>8, <2>2, SMTT(60) DEF LeaveInv
  <1>14. SpaceInv'
    <2>1. \A g \in Flows : at'[g] = at[g] \/ at'[g] \notin InProgram \cup {"enter"}
      BY <1>5 DEF WindowLabels, InProgram
    <2>2. \A k \in Slots : Recorded(at'[tasks[k].flow], tasks[k].flow, tasks[k].cr3)
      BY <1>s, <1>3, <2>1 DEF SpaceInv, Recorded
    <2>3. len <= MAX_TASKS =>
             \A k \in Slots : Listed(at'[tasks[k].flow], tasks[k].flow, pslot[k])
      BY <1>s, <1>3, <2>1 DEF SpaceInv, Listed
    <2>4. Loaded(at'[cpu.flow], cpu.flow, cpu.cr3)
      BY <1>s, <1>3, <2>1 DEF SpaceInv, Loaded
    <2> QED BY <1>u, <1>5, <2>2, <2>3, <2>4 DEF SpaceInv
  <1>15. PreemptInv'
    BY <1>s, <1>u, <1>3, <1>5, SMTT(60) DEF PreemptInv, WindowLabels, Flows, BootFlows
  <1> QED BY <1>7, <1>11, <1>12, <1>13, <1>14, <1>15 DEF CInv, Ride

\* context_switch() at the end of sleep_ms() and exit_current(): the flow is
\* saved in the slot it left, and whoever it leads to goes on.
LEMMA LeaveSwitchStep ==
    ASSUME TInv, TableInv, CInv, NEW w \in WindowLabels, NEW l \in {"sleep", "exit"},
           leave_switch(w, l)
    PROVE  CInv'
  <1> DEFINE f == cpu.flow
             p == pend[f]
             r == p.rsp
  <1>s. /\ f \in Flows /\ current \in Slots /\ Stale \notin Flows
        /\ 0 \in Slots /\ 1 \in Slots /\ Dangling \notin Slots
        /\ \A k \in Slots : tasks[k].flow \in Flows /\ tasks[k].rsp \in Flows \cup {Stale}
        /\ \A g \in Flows : pend[g].kstack \in Flows /\ pend[g].rsp \in Flows \cup {Stale}
    BY Shapes
  <1>t. /\ TypeOK /\ p \in Pend /\ cpu \in Cpu /\ at[f] = w /\ Alive
        /\ \A g \in Flows : at'[g] = IF g = f THEN l ELSE at[g]
    BY <1>s DEF TInv, TypeOK, leave_switch, Executes, Goto
  <1>u. /\ UNCHANGED <<len, current, isrs, pend, pslot>> /\ Slots' = Slots
        /\ cpu' = LoadCpu(cpu, r, p.cr3, p.kstack)
        /\ IF p.old = Dangling
           THEN UNCHANGED tasks
           ELSE tasks' = SaveRsp(tasks, p.old, f, current)
        /\ status' = IF p.old = Dangling THEN "stale" ELSE Outcome(r, p.cr3)
    BY DEF leave_switch, Slots
  <1>v. len' = len /\ current' = current /\ pend' = pend /\ pslot' = pslot /\ Slots' = Slots
    BY <1>u
  <1>1. \A k \in Slots :
          LET us == SaveRsp(tasks, p.old, f, current) IN
          /\ us[k].rsp = IF k = p.old THEN f
                         ELSE IF k = current THEN Stale ELSE tasks[k].rsp
          /\ us[k].flow = tasks[k].flow /\ us[k].state = tasks[k].state
          /\ us[k].cr3 = tasks[k].cr3
    <2> HIDE DEF f, p
    <2>1. tasks \in [0..(len - 1) -> Task] /\ len \in Nat /\ f \in Flows
      BY <1>s, <1>t DEF TypeOK, Slots
    <2>2. \A k \in 0..(len - 1) :
            LET us == SaveRsp(tasks, p.old, f, current) IN
            /\ us[k].rsp = IF k = p.old THEN f
                           ELSE IF k = current THEN Stale ELSE tasks[k].rsp
            /\ us[k].flow = tasks[k].flow /\ us[k].cr3 = tasks[k].cr3
            /\ us[k].state = tasks[k].state
      BY <2>1, SaveRspFacts, SMTT(60)
    <2> QED BY <2>2 DEF Slots
  <1> HIDE DEF f, p, r
  <1>2. OneRunning' /\ BootInv'
    <2>1. \A k \in Slots : tasks'[k].flow = tasks[k].flow /\ tasks'[k].state = tasks[k].state
      BY <1>u, <1>1
    <2> QED BY <1>s, <1>u, <2>1, SMTT(60) DEF CInv, OneRunning, BootInv
  <1>3. RideInv /\ OnceInv /\ LeaveInv /\ SpaceInv /\ PreemptInv
    BY <1>t DEF CInv, Ride
  <1> SUFFICES ASSUME Alive' PROVE Ride'
    BY <1>2 DEF CInv
  <1>4. p.old # Dangling /\ r # Stale /\ at[r] # "gone" /\ r \in Flows
    BY <1>s, <1>u DEF Outcome, Alive, p, r
  <1>5. /\ f \in Leaving /\ p.kstack = tasks[current].flow /\ p.cr3 = tasks[current].cr3
        /\ p.kstack # f /\ p.old \in Slots /\ tasks[p.old].flow = f
        /\ Leads(at, pend, r, p.kstack, p.cr3) /\ r # f
    <2>1. f \in Leaving
      BY <1>s, <1>t DEF Leaving
    <2> QED BY <1>3, <1>4, <2>1 DEF RideInv, LeaveInv, OnceInv, f, p, r
  <1>6. p.old # current
    BY <1>5
  <1>7. cpu'.flow = r /\ cpu'.cr3 = p.cr3
    BY <1>t, <1>u, <1>4 DEF LoadCpu, Cpu
  <1>8. \A k \in Slots :
          /\ tasks'[k].rsp = IF k = p.old THEN f
                             ELSE IF k = current THEN Stale ELSE tasks[k].rsp
          /\ tasks'[k].flow = tasks[k].flow /\ tasks'[k].cr3 = tasks[k].cr3
    BY <1>u, <1>1, <1>4
  <1>9. /\ Leaving' = Leaving \ {f} /\ Others' = Others /\ p.old \in Others
        /\ \A k \in Others : k \in Slots /\ k # current
        /\ \A g \in Leaving : g \in Flows
    BY <1>s, <1>t, <1>v, <1>5, <1>6 DEF Leaving, Others, WindowLabels
  <1>10. \A q \in Flows \cup {Stale} : \A h, d :
           q # f /\ Leads(at, pend, q, h, d) => Leads(at', pend', q, h, d)
    BY <1>t, <1>v DEF Leads
  <1>11. RideInv'
    <2>1. ASSUME NEW k \in Others
          PROVE  Leads(at', pend', tasks'[k].rsp, tasks'[k].flow, tasks'[k].cr3)
      <3>1. CASE k = p.old
        <4>1. at'[f] \notin WindowLabels \cup {"unborn"}
          BY <1>s, <1>t DEF WindowLabels
        <4> QED BY <1>5, <1>8, <3>1, <4>1 DEF Leads
      <3>2. CASE k # p.old
        BY <1>s, <1>3, <1>8, <1>9, <1>10, <2>1, <3>2, SMTT(60) DEF RideInv, OnceInv, f
      <3> QED BY <3>1, <3>2
    <2>2. \A g \in Leaving : Leads(at', pend', pend'[g].rsp, pend'[g].kstack, pend'[g].cr3)
      BY <1>s, <1>v, <1>3, <1>9, <1>10 DEF RideInv, OnceInv, f
    <2>3. IF r \in Leaving
          THEN pend[r].kstack = tasks[current].flow /\ pend[r].cr3 = tasks[current].cr3
          ELSE tasks[current].flow = r
      BY <1>4, <1>5 DEF Leads, Leaving
    <2>4. IF cpu'.flow \in Leaving'
          THEN /\ pend'[cpu'.flow].kstack = tasks'[current'].flow
               /\ pend'[cpu'.flow].cr3 = tasks'[current'].cr3
          ELSE tasks'[current'].flow = cpu'.flow /\ tasks'[current'].rsp = Stale
      BY <1>s, <1>v, <1>5, <1>6, <1>7, <1>8, <1>9, <2>3
    <2> QED BY <1>9, <2>1, <2>2, <2>4 DEF RideInv
  <1>12. OnceInv'
    <2>1. \A k \in Others : \/ k = p.old /\ tasks'[k].rsp = f
                            \/ k # p.old /\ tasks'[k].rsp = tasks[k].rsp
      BY <1>8, <1>9
    <2>2. \A k, j \in Others : tasks'[k].rsp = tasks'[j].rsp /\ tasks'[k].rsp # Stale => k = j
      BY <1>3, <2>1, SMTT(60) DEF OnceInv, f
    <2>3. \A g, h \in Leaving : pend'[g].rsp = pend'[h].rsp /\ pend'[g].rsp # Stale => g = h
      BY <1>v, <1>3 DEF OnceInv
    <2>4. \A k \in Others, g \in Leaving :
             tasks'[k].rsp = pend'[g].rsp => tasks'[k].rsp = Stale
      BY <1>v, <1>3, <2>1 DEF OnceInv, f
    <2>5. \A k \in Others : tasks'[k].rsp # r
      BY <1>3, <1>4, <1>5, <2>1, SMTT(60) DEF OnceInv, r, p
    <2>6. \A g \in Leaving' : pend'[g].rsp # r
      BY <1>v, <1>3, <1>4, <1>5, <1>9 DEF OnceInv, r, p
    <2> QED BY <1>7, <1>9, <2>2, <2>3, <2>4, <2>5, <2>6 DEF OnceInv
  <1>13. LeaveInv'
    BY <1>v, <1>3, <1>8, <1>9 DEF LeaveInv
  <1>14. SpaceInv'
    <2>1. \A g \in Flows : at'[g] = at[g] \/ at'[g] \notin InProgram \cup {"enter"}
      BY <1>t DEF InProgram
    <2>2. \A k \in Slots : Recorded(at'[tasks[k].flow], tasks[k].flow, tasks[k].cr3)
      BY <1>s, <1>3, <2>1 DEF SpaceInv, Recorded
    <2>3. len <= MAX_TASKS =>
             \A k \in Slots : Listed(at'[tasks[k].flow], tasks[k].flow, pslot[k])
      BY <1>s, <1>3, <2>1 DEF SpaceInv, Listed
    <2>4. Loaded(at[r], r, p.cr3)
      <3>1. CASE at[r] \in WindowLabels
        BY <3>1 DEF Loaded, InProgram, WindowLabels
      <3>2. CASE at[r] \notin WindowLabels
        <4>1. tasks[current].flow = r
          BY <1>4, <1>5, <3>2 DEF Leads
        <4> QED BY <1>s, <1>3, <1>5, <4>1 DEF SpaceInv, Recorded, Loaded
      <3> QED BY <3>1, <3>2
    <2>5. at'[r] = at[r]
      BY <1>t, <1>4, <1>5
    <2> QED BY <1>v, <1>7, <1>8, <2>2, <2>3, <2>4, <2>5 DEF SpaceInv
  <1>15. PreemptInv'
    BY <1>s, <1>t, <1>u, <1>3 DEF PreemptInv, Flows, BootFlows, f
  <1> QED BY <1>11, <1>12, <1>13, <1>14, <1>15 DEF Ride

-----------------------------------------------------------------------------
(* spawn() *)

\* spawn() puts task p in slot n and takes their stacks from the flows of gone,
\* n's former flow if it had one: stacks that led to one of them lead to a
\* fault, the others lead where they did.
LEMMA SpawnStep ==
    ASSUME TInv, TableInv, CInv, NEW p \in Procs, at[p] = "unborn",
           NEW from \in {"lk_spawn", "sys"}, Executes(from),
           NEW l \in {"kern", "ret3"}, l = "ret3" <=> from = "sys",
           NEW n, n # current, n \notin {0, 1}, NEW gone, cpu.flow \notin gone, p \notin gone,
           Slots' = Slots \cup {n}, current' = current, cpu' = cpu, isrs' = isrs,
           pslot' = pslot, status' = status,
           len' <= MAX_TASKS => len <= MAX_TASKS,
           tasks'[n].flow = p, tasks'[n].rsp = p, tasks'[n].state = "Ready",
           \A k \in Slots : k # n => tasks'[k] = tasks[k] /\ tasks[k].flow \notin gone,
           n \in Slots => tasks[n].flow \in gone,
           \A g \in Flows : at'[g] = IF g = cpu.flow THEN l ELSE IF g = p THEN "fresh"
                                     ELSE IF g \in gone THEN "gone" ELSE at[g],
           \A g \in Flows : /\ pend'[g].rsp = pend[g].rsp /\ pend'[g].cr3 = pend[g].cr3
                            /\ pend'[g].kstack = pend[g].kstack
                            /\ pend'[g].old \in {pend[g].old, Dangling}
    PROVE  CInv'
  <1> DEFINE f == cpu.flow
  <1>s. /\ f \in Flows /\ p \in Flows /\ current \in Slots /\ Stale \notin Flows
        /\ 0 \in Slots /\ 1 \in Slots
        /\ \A k \in Slots : tasks[k].flow \in Flows /\ tasks[k].rsp \in Flows \cup {Stale}
        /\ \A g \in Flows : pend[g].kstack \in Flows /\ pend[g].rsp \in Flows \cup {Stale}
    BY Shapes DEF Flows
  <1>t. at[f] = from /\ isrs[f] = 0 /\ Alive /\ f # p
    BY DEF Executes
  <1>1. OneRunning' /\ BootInv'
    BY <1>s, SMTT(60) DEF CInv, OneRunning, BootInv
  <1>2. RideInv /\ OnceInv /\ LeaveInv /\ SpaceInv /\ PreemptInv
    BY <1>t DEF CInv, Ride
  <1> HIDE DEF f
  <1>3. f \notin Leaving /\ tasks[current].flow = f /\ tasks[current].rsp = Stale
    BY <1>t, <1>2 DEF RideInv, Leaving, WindowLabels, f
  <1>4. /\ Others' = (Others \ {n}) \cup {n} /\ (\A k \in Others : k \in Slots /\ k # current)
        /\ Leaving' \subseteq Leaving \ gone /\ Leaving \subseteq Flows /\ f \notin Leaving'
    BY <1>s, <1>t, SMTT(60) DEF Others, Leaving, WindowLabels, f
  <1>5. \A q \in Flows \cup {Stale} : \A h, d :
           q # f /\ Leads(at, pend, q, h, d) => q # p /\ Leads(at', pend', q, h, d)
    <2>1. p # Stale /\ "unborn" \notin WindowLabels
      BY <1>s DEF WindowLabels
    <2> QED BY <1>s, <2>1, SMTT(60) DEF Leads, f
  <1>6. /\ \A k \in Others : /\ tasks[k].rsp # f /\ tasks[k].rsp # p
                             /\ Leads(at', pend', tasks[k].rsp, tasks[k].flow, tasks[k].cr3)
        /\ \A g \in Leaving : /\ pend[g].rsp # f /\ pend[g].rsp # p
                              /\ Leads(at', pend', pend[g].rsp, pend[g].kstack, pend[g].cr3)
    BY <1>s, <1>2, <1>4, <1>5 DEF RideInv, OnceInv, f
  <1>7. \A k \in Others' : \/ k = n /\ tasks'[k].rsp = p
                           \/ k # n /\ k \in Others /\ tasks'[k] = tasks[k]
    BY <1>4
  <1>8. RideInv'
    <2>1. ASSUME NEW k \in Others'
          PROVE  Leads(at', pend', tasks'[k].rsp, tasks'[k].flow, tasks'[k].cr3)
      <3>1. CASE k = n
        <4>1. at'[p] \notin WindowLabels \cup {"unborn"}
          BY <1>s, <1>t DEF WindowLabels, f
        <4> QED BY <3>1, <4>1 DEF Leads
      <3>2. CASE k # n
        BY <1>6, <1>7, <2>1, <3>2
      <3> QED BY <3>1, <3>2
    <2>2. \A g \in Leaving' : Leads(at', pend', pend'[g].rsp, pend'[g].kstack, pend'[g].cr3)
      BY <1>4, <1>6
    <2>3. /\ cpu'.flow \notin Leaving'
          /\ tasks'[current'].flow = cpu'.flow /\ tasks'[current'].rsp = Stale
      BY <1>s, <1>3, <1>4 DEF f
    <2> QED BY <2>1, <2>2, <2>3 DEF RideInv
  <1>9. OnceInv'
    <2>1. \A k, j \in Others' : tasks'[k].rsp = tasks'[j].rsp /\ tasks'[k].rsp # Stale => k = j
      BY <1>2, <1>6, <1>7, SMTT(60) DEF OnceInv
    <2>2. \A g, h \in Leaving' : pend'[g].rsp = pend'[h].rsp /\ pend'[g].rsp # Stale => g = h
      BY <1>2, <1>4, SMTT(60) DEF OnceInv
    <2>3. \A k \in Others', g \in Leaving' :
             tasks'[k].rsp = pend'[g].rsp => tasks'[k].rsp = Stale
      BY <1>2, <1>4, <1>6, <1>7, SMTT(60) DEF OnceInv
    <2>4. \A k \in Others' : tasks'[k].rsp # f
      BY <1>t, <1>6, <1>7
    <2>5. \A g \in Leaving' : pend'[g].rsp # f
      BY <1>4, <1>6
    <2> QED BY <2>1, <2>2, <2>3, <2>4, <2>5 DEF OnceInv, f
  <1>10. LeaveInv'
    <2>1. ASSUME NEW g \in Leaving'
          PROVE  /\ pend'[g].kstack # g
                 /\ \/ pend'[g].old = Dangling
                    \/ pend'[g].old \in Slots' /\ tasks'[pend'[g].old].flow = g
      <3>1. g \in Leaving /\ g \in Flows /\ g \notin gone
        BY <1>4
      <3>2. /\ pend[g].kstack # g
            /\ pend[g].old = Dangling \/ (pend[g].old \in Slots /\ tasks[pend[g].old].flow = g)
        BY <1>2, <3>1 DEF LeaveInv
      <3>3. pend[g].old \in Slots /\ tasks[pend[g].old].flow = g => pend[g].old # n
        BY <3>1, SMTT(60)
      <3> QED BY <3>1, <3>2, <3>3, SMTT(60)
    <2> QED BY <2>1 DEF LeaveInv
  <1>11. SpaceInv'
    <2>1. \A k \in Slots' : k # n => /\ k \in Slots /\ tasks'[k] = tasks[k]
                                     /\ at'[tasks[k].flow] = IF k = current THEN l
                                                             ELSE at[tasks[k].flow]
      <3>1. \A k \in Slots : tasks[k].flow # p /\ (k # current => tasks[k].flow # f)
        BY <1>s, <1>3, SMTT(60) DEF TableInv
      <3> QED BY <1>s, <1>3, <3>1, SMTT(60) DEF f
    <2>2. "fresh" \notin InProgram \cup {"enter"} /\ at'[p] = "fresh"
          /\ (l \in InProgram \cup {"enter"} => l \in InProgram /\ from \in InProgram)
      BY <1>s, <1>t DEF InProgram, f
    <2>3. /\ Recorded(l, f, tasks[current].cr3) /\ Loaded(l, f, cpu.cr3)
          /\ len <= MAX_TASKS => Listed(l, f, pslot[current])
      BY <1>s, <1>t, <1>2, <1>3, <2>2, SMTT(60) DEF SpaceInv, Recorded, Loaded, Listed, f
    <2>4. \A k \in Slots' : Recorded(at'[tasks'[k].flow], tasks'[k].flow, tasks'[k].cr3)
      <3>1. Recorded(at'[p], p, tasks'[n].cr3)
        BY <2>2 DEF Recorded
      <3> QED BY <1>2, <1>3, <2>1, <2>3, <3>1, SMTT(60) DEF SpaceInv
    <2>5. len' <= MAX_TASKS =>
             \A k \in Slots' : Listed(at'[tasks'[k].flow], tasks'[k].flow, pslot[k])
      <3>1. \A e : Listed(at'[p], p, e)
        BY <2>2 DEF Listed
      <3> QED BY <1>2, <1>3, <2>1, <2>3, <3>1, SMTT(60) DEF SpaceInv
    <2> QED BY <1>s, <2>3, <2>4, <2>5 DEF SpaceInv, f
  <1>12. PreemptInv'
    <2>1. at'[p] = "fresh" /\ at'[f] = l
      BY <1>s, <1>t DEF f
    <2>2. l = "kern" => cpu.flow = Blink /\ cpu.ie /\ ~cpu.isr
      BY <1>s, <1>t, <1>2 DEF PreemptInv, TInv, LabelInv, f
    <2> QED BY <1>s, <1>2, <2>1, <2>2, SMTT(60) DEF PreemptInv, Flows, BootFlows, f
  <1> QED BY <1>1, <1>8, <1>9, <1>10, <1>11, <1>12 DEF CInv, Ride

-----------------------------------------------------------------------------
(* The actions. *)

\* kmain has the CPU, and the other boot tasks have not run.
LEMMA CInvInit == Init => CInv
  <1> SUFFICES ASSUME Init PROVE CInv
    OBVIOUS
  <1>1. Slots = 0..2 /\ current = 0 /\ cpu.flow = Idle /\ cpu.ie /\ ~cpu.isr
    BY SMTT(60) DEF Init, Slots
  <1>2. ASSUME NEW i \in 0..2
        PROVE  /\ tasks[i].flow = IF i = 0 THEN Idle ELSE IF i = 1 THEN Blink ELSE Worker
               /\ tasks[i].state = IF i = 0 THEN "Running" ELSE "Ready"
               /\ tasks[i].rsp = IF i = 0 THEN Stale ELSE tasks[i].flow
    BY DEF Init, NewTask
  <1>3. \A g \in Flows : at[g] \in {"kern", "fresh", "unborn"}
    BY DEF Init
  <1>4. Idle \in Flows /\ at[Idle] = "kern" /\ at[Blink] = "fresh" /\ at[Worker] = "fresh"
    <2>1. at = [f \in Flows |-> IF f = Idle THEN "kern"
                               ELSE IF f \in BootFlows THEN "fresh" ELSE "unborn"]
      BY DEF Init
    <2>2. Idle \in Flows /\ Blink \in Flows /\ Worker \in Flows
          /\ Blink \in BootFlows /\ Worker \in BootFlows
      BY DEF Flows, BootFlows
    <2> QED BY <2>1, <2>2
  <1>5. OneRunning /\ BootInv
    BY <1>1, <1>2, SMTT(60) DEF OneRunning, BootInv
  <1>6. Leaving = {}
    BY <1>3 DEF Leaving, WindowLabels
  <1>7. \A i \in Others : /\ tasks[i].rsp = tasks[i].flow /\ tasks[i].flow \in {Blink, Worker}
                          /\ i \in 0..2 /\ i # 0
    BY <1>1, <1>2 DEF Others
  <1>8. RideInv
    <2>1. tasks[0].flow = Idle /\ tasks[0].rsp = Stale
      BY <1>2, SMTT(60)
    <2>2. "fresh" \notin WindowLabels \cup {"unborn"}
      BY DEF WindowLabels
    <2>3. \A i \in Others : Leads(at, pend, tasks[i].rsp, tasks[i].flow, tasks[i].cr3)
      BY <1>4, <1>7, <2>2 DEF Leads
    <2> QED BY <1>1, <1>6, <2>1, <2>3 DEF RideInv
  <1>9. OnceInv /\ LeaveInv
    <2>1. \A i, j \in Others : tasks[i].rsp = tasks[j].rsp => i = j
      BY <1>2, <1>7, SMTT(60)
    <2> QED BY <1>1, <1>6, <1>7, <2>1 DEF OnceInv, LeaveInv
  <1>10. SpaceInv
    <2>1. \A k \in Slots : tasks[k].flow \in Flows
      BY <1>1, <1>2 DEF Flows, BootFlows
    <2>2. \A g \in Flows : at[g] \notin InProgram \cup {"enter"}
      BY <1>3 DEF InProgram
    <2> QED BY <1>1, <1>4, <2>1, <2>2 DEF SpaceInv, Recorded, Loaded, Listed
  <1>11. PreemptInv
    BY <1>1, <1>3, <1>4 DEF PreemptInv
  <1> QED BY <1>5, <1>8, <1>9, <1>10, <1>11 DEF CInv, Ride

\* Outside the window the executing flow is the current slot's.
LEMMA OwnSlot ==
    ASSUME TInv, CInv, NEW from, Executes(from), from \notin WindowLabels
    PROVE  /\ tasks[current].flow = cpu.flow
           /\ Recorded(from, cpu.flow, tasks[current].cr3)
           /\ Loaded(from, cpu.flow, cpu.cr3)
           /\ len <= MAX_TASKS => Listed(from, cpu.flow, pslot[current])
           /\ from \in {"kern", "lk_spawn"} /\ cpu.flow \in {Idle, Blink} =>
                 cpu.ie /\ ~cpu.isr
           /\ from = "user" => cpu.ie
  <1>1. /\ RideInv /\ SpaceInv /\ PreemptInv /\ at[cpu.flow] = from
        /\ isrs[cpu.flow] = 0 /\ cpu.flow \in Flows /\ current \in Slots
    BY DEF CInv, Ride, Executes, TInv, TypeOK, Cpu
  <1>2. tasks[current].flow = cpu.flow
    BY <1>1 DEF RideInv, Leaving
  <1> QED BY <1>1, <1>2 DEF SpaceInv, PreemptInv

\* As long as PROC_SLOTS has an entry for each task, that of the current task
\* is in its own slot.
LEMMA OwnEntry ==
    ASSUME TInv, len <= MAX_TASKS
    PROVE  /\ SlotIndex = current /\ current \in 0..(MAX_TASKS - 1)
           /\ \A k \in Slots : k \in 0..(MAX_TASKS - 1)
  BY MaxTasksAssumption, SMTT(60) DEF TInv, TypeOK, SlotIndex, Slots

\* The steps of kernel code that stay on their flow, action by action.
LEMMA CInvKernelStep ==
    ASSUME TInv, TableInv, CInv,
           \/ task_trampoline \/ sleep_ms_lock \/ sleep_return \/ exit_current_lock
           \/ slot_index_lock \/ run_elf \/ write_cr3 \/ set_current_cr3_lock
           \/ set_current_cr3 \/ enter_ring3 \/ spawn_lock
    PROVE  CInv'
  <1>0. /\ cpu \in Cpu /\ cpu.flow \in Flows /\ current \in Slots
        /\ tasks \in [Slots -> Task]
        /\ pslot \in [0..(MAX_TASKS - 1) -> [owner : Flows, running : BOOLEAN]]
    BY DEF TInv, TypeOK, Cpu
  <1> DEFINE Calm == /\ Stays /\ isrs' = isrs /\ pend' = pend
                     /\ \A k \in Slots : k # current => tasks'[k].cr3 = tasks[k].cr3
                     /\ len <= MAX_TASKS =>
                          \A k \in Slots : k # current => pslot'[k] = pslot[k]
             Plain(l) == l \notin InProgram \cup WindowLabels
                                  \cup {"unborn", "enter", "kern", "lk_spawn"}
  <1>p. ASSUME NEW l, Plain(l) PROVE Fits(l)
    BY <1>p DEF Fits, Recorded, Loaded, Listed, InProgram
  <1>e. ASSUME NEW from, Executes(from), from \notin WindowLabels, NEW l, Goto(l),
               l \notin WindowLabels \cup {"unborn"}, Calm, Alive' => Fits(l)
        PROVE  CInv'
    BY <1>e, OwnStep
  <1>1. CASE task_trampoline
    <2>1. Executes("fresh") /\ Goto("kern") /\ Calm
      BY <1>0, <1>1 DEF task_trampoline, Stays, Cpu
    <2>2. cpu'.ie /\ ~cpu'.isr
      BY <1>0, <1>1 DEF task_trampoline, Cpu
    <2>3. Fits("kern")
      BY <2>2 DEF Fits, Recorded, Loaded, Listed, InProgram
    <2> QED BY <1>e, <2>1, <2>3 DEF WindowLabels
  <1>2. CASE sleep_ms_lock
    <2>1. Executes("kern") /\ Goto("lk_sleep") /\ Calm /\ Plain("lk_sleep")
      BY <1>2 DEF sleep_ms_lock, Lock, Stays, WindowLabels, InProgram
    <2> QED BY <1>e, <1>p, <2>1 DEF WindowLabels
  <1>3. CASE sleep_return
    <2>1. Executes("sleep") /\ Goto("kern") /\ Calm
      BY <1>3 DEF sleep_return, Stays
    <2>2. cpu.flow = Worker
      BY <1>0, <2>1 DEF Executes, TInv, LabelInv
    <2>3. Fits("kern")
      BY <2>2 DEF Fits, Recorded, Loaded, Listed, InProgram
    <2> QED BY <1>e, <2>1, <2>3 DEF WindowLabels
  <1>4. CASE exit_current_lock
    <2>1. Executes("tail") /\ Goto("lk_exit") /\ Calm /\ Plain("lk_exit")
      BY <1>4 DEF exit_current_lock, Lock, Stays, WindowLabels, InProgram
    <2> QED BY <1>e, <1>p, <2>1 DEF WindowLabels
  <1>5. CASE slot_index_lock
    <2>1. Executes("kern") /\ Goto("lk_index") /\ Calm /\ Plain("lk_index")
      BY <1>5 DEF slot_index_lock, Lock, Stays, WindowLabels, InProgram
    <2> QED BY <1>e, <1>p, <2>1 DEF WindowLabels
  <1>6. CASE run_elf
    <2>1. PICK l \in {"loaded", "tail"} : Goto(l)
      BY <1>6 DEF run_elf
    <2>2. len <= MAX_TASKS => \A k \in Slots : k # current => pslot'[k] = pslot[k]
      BY <1>0, <1>6, OwnEntry DEF run_elf
    <2>3. Executes("lk_index") /\ Stays /\ isrs' = isrs /\ pend' = pend /\ tasks' = tasks
      BY <1>6 DEF run_elf, Stays
    <2>4. Calm
      BY <2>2, <2>3
    <2>5. Plain(l)
      BY DEF WindowLabels, InProgram
    <2> QED BY <1>e, <1>p, <2>1, <2>3, <2>4, <2>5 DEF WindowLabels
  <1>7. CASE write_cr3
    <2>1. Executes("loaded") /\ Goto("cr3w") /\ Calm /\ Plain("cr3w")
      BY <1>0, <1>7 DEF write_cr3, Stays, Cpu, WindowLabels, InProgram
    <2> QED BY <1>e, <1>p, <2>1 DEF WindowLabels
  <1>8. CASE set_current_cr3_lock
    <2>1. Executes("cr3w") /\ Goto("lk_cr3") /\ Calm /\ Plain("lk_cr3")
      BY <1>8 DEF set_current_cr3_lock, Lock, Stays, WindowLabels, InProgram
    <2> QED BY <1>e, <1>p, <2>1 DEF WindowLabels
  <1>9. CASE set_current_cr3
    <2>1. ASSUME NEW k \in Slots
          PROVE  /\ tasks'[k].flow = tasks[k].flow /\ tasks'[k].rsp = tasks[k].rsp
                 /\ tasks'[k].state = tasks[k].state
                 /\ tasks'[k].cr3 = IF k = current THEN cpu.flow ELSE tasks[k].cr3
      <3>1. tasks[k] \in Task
        BY <1>0
      <3> QED BY <1>0, <1>9, <3>1 DEF set_current_cr3, Task
    <2>2. Executes("lk_cr3") /\ Goto("enter") /\ Calm
      BY <1>9, <2>1 DEF set_current_cr3, Stays
    <2>3. Fits("enter")
      BY <1>0, <2>1 DEF Fits, Recorded, Loaded, Listed, InProgram
    <2> QED BY <1>e, <2>2, <2>3 DEF WindowLabels
  <1>10. CASE enter_ring3
    <2>1. /\ Executes("enter") /\ Goto("user")
          /\ Stays /\ isrs' = isrs /\ pend' = pend /\ tasks' = tasks
      BY <1>0, <1>10 DEF enter_ring3, Stays, Cpu
    <2>2. len <= MAX_TASKS =>
             /\ \A k \in Slots : k # current => pslot'[k] = pslot[k]
             /\ pslot'[current] = [owner |-> cpu.flow, running |-> TRUE]
      BY <1>0, <1>10, OwnEntry DEF enter_ring3
    <2>3. Calm
      BY <2>1, <2>2
    <2>4. ASSUME Alive' PROVE Fits("user")
      <3>1. cpu'.cr3 = cpu.flow /\ cpu'.ie
        BY <1>0, <1>10, <2>4 DEF enter_ring3, Cpu, Alive
      <3>2. tasks'[current].cr3 = cpu.flow
        BY <2>1, OwnSlot DEF Recorded, WindowLabels
      <3> QED BY <2>2, <3>1, <3>2 DEF Fits, Recorded, Loaded, Listed
    <2> QED BY <1>e, <2>1, <2>3, <2>4 DEF WindowLabels
  <1>11. CASE spawn_lock
    <2>1. Executes("kern") /\ Goto("lk_spawn") /\ Calm /\ cpu' = cpu
      BY <1>11 DEF spawn_lock, Lock, Stays
    <2>2. Fits("lk_spawn")
      BY <2>1, OwnSlot DEF Fits, Recorded, Loaded, Listed, InProgram, WindowLabels
    <2> QED BY <1>e, <2>1, <2>2 DEF WindowLabels
  <1> QED BY <1>1, <1>2, <1>3, <1>4, <1>5, <1>6, <1>7, <1>8, <1>9, <1>10, <1>11

\* The steps of a system call that stay on their flow.
LEMMA CInvSyscallStep ==
    ASSUME TInv, TableInv, CInv,
           syscall_entry \/ sys_other \/ irq_return \/ sysret \/ sys_exit
    PROVE  CInv'
  <1>0. /\ cpu \in Cpu /\ cpu.flow \in Flows /\ current \in Slots
        /\ tasks \in [Slots -> Task]
        /\ pslot \in [0..(MAX_TASKS - 1) -> [owner : Flows, running : BOOLEAN]]
    BY DEF TInv, TypeOK, Cpu
  <1>1. CASE syscall_entry \/ sys_other \/ irq_return \/ sysret
    <2>1. PICK from \in InProgram, l \in InProgram :
            /\ Executes(from) /\ Goto(l) /\ Stays /\ cpu'.cr3 = cpu.cr3
            /\ isrs' = isrs /\ pend' = pend /\ pslot' = pslot /\ tasks' = tasks
            /\ l = "user" => cpu'.ie
      <3>1. {"user", "sys", "ret3", "irq"} = InProgram
        BY DEF InProgram
      <3>2. CASE syscall_entry
        BY <1>0, <3>1, <3>2 DEF syscall_entry, Stays, Cpu
      <3>3. CASE sys_other
        BY <3>1, <3>3 DEF sys_other, Stays
      <3>4. CASE irq_return
        BY <1>0, <3>1, <3>4 DEF irq_return, Stays, Cpu
      <3>5. CASE sysret
        BY <1>0, <3>1, <3>5 DEF sysret, Stays, Cpu
      <3> QED BY <1>1, <3>2, <3>3, <3>4, <3>5
    <2>2. /\ from \notin WindowLabels /\ l \notin WindowLabels \cup {"unborn"}
          /\ l \notin {"kern", "lk_spawn"}
      BY DEF InProgram, WindowLabels
    <2>3. Fits(l)
      <3>1. /\ Recorded(from, cpu.flow, tasks[current].cr3)
            /\ Loaded(from, cpu.flow, cpu.cr3)
            /\ len <= MAX_TASKS => Listed(from, cpu.flow, pslot[current])
        BY <2>1, <2>2, OwnSlot
      <3>2. /\ tasks[current].cr3 = cpu.flow /\ cpu.cr3 = cpu.flow
            /\ len <= MAX_TASKS => pslot[current] = [owner |-> cpu.flow, running |-> TRUE]
        BY <3>1 DEF Recorded, Loaded, Listed
      <3> QED BY <2>1, <2>2, <3>2 DEF Fits, Recorded, Loaded, Listed
    <2> QED BY <2>1, <2>2, <2>3, OwnStep
  <1>2. CASE sys_exit
    <2> DEFINE o == orig[pslot[SlotIndex].owner]
    <2>0. tasks' = [tasks EXCEPT ![current].cr3 = o]
      BY <1>2 DEF sys_exit
    <2> HIDE DEF o
    <2>1. ASSUME NEW k \in Slots
          PROVE  /\ tasks'[k].flow = tasks[k].flow /\ tasks'[k].rsp = tasks[k].rsp
                 /\ tasks'[k].state = tasks[k].state
                 /\ k # current => tasks'[k].cr3 = tasks[k].cr3
      <3>1. tasks[k] \in Task
        BY <1>0
      <3> QED BY <1>0, <2>0, <3>1 DEF Task
    <2>2. /\ Executes("sys") /\ Goto("tail") /\ Stays /\ isrs' = isrs /\ pend' = pend
      BY <1>0, <1>2, <2>1 DEF sys_exit, Stays, Cpu
    <2>3. len <= MAX_TASKS => \A k \in Slots : k # current => pslot'[k] = pslot[k]
      BY <1>0, <1>2, OwnEntry DEF sys_exit
    <2>4. Fits("tail")
      BY DEF Fits, Recorded, Loaded, Listed, InProgram
    <2> QED BY <2>1, <2>2, <2>3, <2>4, OwnStep DEF WindowLabels
  <1> QED BY <1>1, <1>2

\* timer_stub returns with interrupts on and the timer acknowledged.
LEMMA CInvTimerReturn ==
    ASSUME TInv, CInv, timer_return
    PROVE  CInv'
  <1>1. /\ cpu'.flow = cpu.flow /\ cpu'.cr3 = cpu.cr3 /\ cpu'.ie /\ ~cpu'.isr
        /\ \A g \in Flows : g # cpu.flow => isrs'[g] = isrs[g]
        /\ tasks' = tasks /\ len' = len /\ current' = current /\ at' = at /\ pend' = pend
        /\ pslot' = pslot /\ status' = status /\ Slots' = Slots
        /\ Idle \in Flows /\ Blink \in Flows
    BY DEF timer_return, TInv, TypeOK, Cpu, Slots, Flows, BootFlows
  <1>2. Leaving' = Leaving /\ Others' = Others
    BY <1>1 DEF Leaving, Others
  <1>3. OneRunning' /\ BootInv'
    BY <1>1 DEF CInv, OneRunning, BootInv
  <1>4. ASSUME Ride PROVE Ride'
    <2>1. RideInv' /\ OnceInv' /\ LeaveInv'
      BY <1>1, <1>2, <1>4 DEF Ride, RideInv, OnceInv, LeaveInv
    <2>2. SpaceInv'
      BY <1>1, <1>4 DEF Ride, SpaceInv
    <2>3. PreemptInv'
      BY <1>1, <1>4 DEF Ride, PreemptInv
    <2> QED BY <2>1, <2>2, <2>3 DEF Ride
  <1> QED BY <1>1, <1>3, <1>4 DEF CInv, Alive

\* A tick, wherever it strikes: a locked scheduler stops the machine, and next()
\* always finds a task.
LEMMA CInvTick ==
    ASSUME TInv, TableInv, CInv, tick
    PROVE  CInv'
  <1> DEFINE ts == Promote(wake_irq_waiters(Elapse(tasks), TimerVector))
             c == [cpu EXCEPT !.ie = FALSE, !.isr = TRUE]
  <1>t. /\ TypeOK /\ current \in Slots /\ cpu.flow \in Flows /\ len \in Nat
        /\ tasks \in [Slots -> Task] /\ isrs \in [Flows -> Nat] /\ OneRunning /\ BootInv
    BY DEF TInv, TypeOK, Cpu, CInv
  <1>0. Woken(len, tasks, ts) /\ ts \in [Slots -> Task]
    BY <1>t, TickWakes, SMTT(60) DEF Woken, Slots
  <1>1. c \in Cpu /\ c.flow = cpu.flow
    BY <1>t, ZenonT(60) DEF TypeOK, Cpu
  <1>2. /\ Alive /\ len' = len /\ at' = at /\ pend' = pend /\ pslot' = pslot
        /\ IF SchedLocked
           THEN /\ status' = "hung"
                /\ UNCHANGED <<tasks, current, cpu, isrs>>
           ELSE /\ isrs' = [isrs EXCEPT ![cpu.flow] = @ + 1]
                /\ IF NoNext(ts, len, current)
                   THEN /\ tasks' = ts
                        /\ cpu' = c
                        /\ UNCHANGED <<current, status>>
                   ELSE \E i \in Slots :
                          IsNext(ts, len, current, i) /\ SwitchTo(ts, i, c)
    BY DEF tick
  <1> HIDE DEF ts, c
  <1>3. CASE SchedLocked
    <2>1. tasks' = tasks /\ current' = current /\ Slots' = Slots /\ ~Alive'
      BY <1>2, <1>3 DEF Slots, Alive
    <2> QED BY <1>t, <2>1 DEF CInv, OneRunning, BootInv
  <1>4. CASE ~SchedLocked
    <2>1. Scanned(ts) /\ ts[current].state = "Running"
      BY <1>0, <1>t DEF Woken, Scanned, Slots, OneRunning
    <2>2. ~NoNext(ts, len, current)
      BY <1>0, <1>t, <2>1, AlwaysSomebody
    <2>3. PICK i \in Slots : IsNext(ts, len, current, i) /\ SwitchTo(ts, i, c)
      BY <1>2, <1>4, <2>2
    <2>4. i # current
      BY <2>3 DEF IsNext
    <2>5. isrs' = [isrs EXCEPT ![cpu.flow] = @ + 1]
      BY <1>2, <1>4
    <2>6. isrs'[cpu.flow] # 0 /\ \A g \in Flows : g # cpu.flow => isrs'[g] = isrs[g]
      BY <1>t, <2>5, SMTT(60)
    <2>7. /\ \A g \in Flows : g # cpu.flow => at'[g] = at[g] /\ isrs'[g] = isrs[g]
          /\ at'[cpu.flow] = at[cpu.flow]
      BY <1>2, <2>6
    <2>8. Alive /\ len' = len /\ pend' = pend /\ pslot' = pslot
      BY <1>2
    <2> QED BY <1>0, <1>1, <2>1, <2>3, <2>4, <2>6, <2>7, <2>8, SwitchStep
  <1> QED BY <1>3, <1>4

\* SYS_WAIT_IRQ switches to somebody else.
LEMMA CInvBlockOnIrq ==
    ASSUME TInv, TableInv, CInv, NEW v \in Vectors, block_on_irq(v)
    PROVE  CInv'
  <1>t. /\ TypeOK /\ current \in Slots /\ cpu.flow \in Flows /\ cpu \in Cpu
        /\ at[cpu.flow] = "sys" /\ Executes("sys") /\ Alive
        /\ tasks \in [Slots -> Task] /\ at \in [Flows -> Labels]
        /\ len' = len /\ isrs' = isrs /\ pend' = pend /\ pslot' = pslot
        /\ OneRunning /\ BootInv
    BY DEF TInv, TypeOK, Cpu, block_on_irq, Executes, CInv
  <1>1. current \notin {0, 1}
    <2>1. cpu.flow \in Procs
      BY <1>t DEF TInv, LabelInv, ProcLabels
    <2>2. tasks[current].flow = cpu.flow
      BY <1>t, OwnSlot DEF WindowLabels
    <2> QED BY <1>t, <2>1, <2>2, ProcsAssumption DEF BootInv
  <1>2. PICK ts \in [Slots -> Task] :
             /\ Woken(len, IrqBlocked(v), ts)
             /\ ts[current].state = "Blocked"
             /\ IrqAlone(ts) \/ \E i \in Slots : IrqFor(ts, i)
    BY <1>t, BlockOnIrqFacts
  <1>3. Scanned(ts)
    BY <1>t, <1>2, IrqScanned
  <1>4. PICK i \in Slots : IrqFor(ts, i)
    BY <1>t, <1>2, <1>3, AlwaysSomebody DEF IrqAlone
  <1> DEFINE c == [cpu EXCEPT !.gs = Swapgs(@)]
  <1>5. i # current /\ SwitchTo(ts, i, c) /\ at' = [at EXCEPT ![cpu.flow] = "irq"]
    BY <1>4 DEF IrqFor
  <1>6. c \in Cpu /\ c.flow = cpu.flow
    BY <1>t DEF Cpu, Swapgs
  <1> HIDE DEF c
  <1>7. /\ \A g \in Flows : g # cpu.flow => at'[g] = at[g] /\ isrs'[g] = isrs[g]
        /\ at'[cpu.flow] = "irq"
    BY <1>t, <1>5
  <1>8. ts[current].state # "Running"
    BY <1>2
  <1> QED BY <1>t, <1>1, <1>3, <1>5, <1>6, <1>7, <1>8, SwitchStep

\* sleep_ms() and exit_current() up to the unlock.
LEMMA CInvLeave ==
    ASSUME TInv, TableInv, CInv, sleep_ms \/ exit_current
    PROVE  CInv'
  <1>1. PICK ts \in [Slots -> Task] :
             \/ Leaves("lk_sleep", "win_sleep", "kern", "Blocked", "Running", ts)
             \/ Leaves("lk_exit", "win_exit", "exit", "Dead", "Dead", ts)
    BY LeavesHow
  <1>2. "win_sleep" \in WindowLabels /\ "win_exit" \in WindowLabels
        /\ "Running" \in TaskStates /\ "Dead" \in TaskStates
    BY DEF WindowLabels, TaskStates
  <1>3. CASE Leaves("lk_sleep", "win_sleep", "kern", "Blocked", "Running", ts)
    BY <1>2, <1>3, LeaveStep DEF Leaves
  <1>4. CASE Leaves("lk_exit", "win_exit", "exit", "Dead", "Dead", ts)
    BY <1>2, <1>4, LeaveStep DEF Leaves
  <1> QED BY <1>1, <1>3, <1>4

\* spawn() in the first Dead slot or at the end of the table.
LEMMA CInvSpawn ==
    ASSUME TInv, TableInv, CInv, NEW p \in Procs, NEW l \in {"kern", "ret3"},
           NEW from \in {"lk_spawn", "sys"}, Executes(from),
           l = "ret3" <=> from = "sys", Spawn(p, l)
    PROVE  CInv'
  <1> DEFINE dead == {i \in Slots : tasks[i].state = "Dead"}
             new == NewTask(p, cpu.cr3)
  <1>t. /\ TypeOK /\ current \in Slots /\ cpu.flow \in Flows /\ p \in Flows
        /\ tasks \in [Slots -> Task] /\ at \in [Flows -> Labels] /\ pend \in [Flows -> Pend]
        /\ len \in Nat /\ len >= 3 /\ 0 \in Slots /\ 1 \in Slots
        /\ \A k \in Slots : tasks[k].flow \in Flows
        /\ at[cpu.flow] = from /\ OneRunning /\ BootInv
    BY SMTT(60) DEF TInv, TypeOK, Cpu, Task, Executes, Slots, Flows, CInv
  <1>u. /\ current' = current /\ cpu' = cpu /\ isrs' = isrs /\ pslot' = pslot
        /\ status' = status /\ at[p] = "unborn" /\ p # cpu.flow
    BY <1>t DEF Spawn
  <1>n. new.flow = p /\ new.rsp = p /\ new.state = "Ready"
    BY DEF NewTask
  <1>f. tasks[current].flow = cpu.flow
    BY OwnSlot DEF WindowLabels
  <1>2. CASE dead # {}
    <2>1. PICK i \in dead :
            /\ tasks' = [tasks EXCEPT ![i] = new]
            /\ at' = [at EXCEPT ![tasks[i].flow] = "gone", ![p] = "fresh",
                                ![cpu.flow] = l]
            /\ len' = len /\ pend' = pend
      BY <1>2 DEF Spawn
    <2>2. i \in Slots /\ tasks[i].state = "Dead" /\ Slots' = Slots
      BY <2>1 DEF Slots
    <2> HIDE DEF new, dead
    <2>3. i # current /\ i \notin {0, 1} /\ Slots' = Slots \cup {i}
      BY <1>t, <2>2 DEF OneRunning, BootInv
    <2> DEFINE gone == {tasks[i].flow}
    <2>4. \A g \in Flows :
            at'[g] = IF g = cpu.flow THEN l ELSE IF g = p THEN "fresh"
                     ELSE IF g \in gone THEN "gone" ELSE at[g]
      BY <1>t, <2>1, <2>2
    <2>5. /\ \A k \in Slots : k # i => tasks'[k] = tasks[k] /\ tasks[k].flow \notin gone
          /\ tasks'[i].flow = p /\ tasks'[i].rsp = p /\ tasks'[i].state = "Ready"
      BY <1>n, <1>t, <2>1, <2>2 DEF TableInv
    <2>6. cpu.flow \notin gone /\ p \notin gone /\ (i \in Slots => tasks[i].flow \in gone)
      BY <1>t, <1>u, <1>f, <2>2, <2>3 DEF TableInv
    <2>7. \A g \in Flows : /\ pend'[g].rsp = pend[g].rsp /\ pend'[g].cr3 = pend[g].cr3
                           /\ pend'[g].kstack = pend[g].kstack
                           /\ pend'[g].old \in {pend[g].old, Dangling}
      BY <2>1
    <2>8. len' <= MAX_TASKS => len <= MAX_TASKS
      BY <2>1
    <2> HIDE DEF gone
    <2> QED BY <1>u, <2>3, <2>4, <2>5, <2>6, <2>7, <2>8, SpawnStep, SMTT(60)
  <1>3. CASE dead = {}
    <2>1. /\ tasks' = [i \in 0..len |-> IF i = len THEN new ELSE tasks[i]]
          /\ len' = len + 1
          /\ at' = [at EXCEPT ![p] = "fresh", ![cpu.flow] = l]
          /\ \/ pend' = pend
             \/ pend' = [f \in Flows |-> [pend[f] EXCEPT !.old = Dangling]]
      BY <1>3 DEF Spawn
    <2> HIDE DEF new, dead
    <2>0. PICK gone : gone = {}
      BY ZenonT(60)
    <2>2. /\ Slots' = Slots \cup {len} /\ len \notin Slots /\ len # current /\ len \notin {0, 1}
          /\ \A k \in Slots : k \in 0..len
      BY <1>t, <2>1, SMTT(60) DEF Slots
    <2>3. \A g \in Flows :
            at'[g] = IF g = cpu.flow THEN l ELSE IF g = p THEN "fresh"
                     ELSE IF g \in gone THEN "gone" ELSE at[g]
      BY <1>t, <2>0, <2>1
    <2>4. /\ \A k \in Slots : k # len => tasks'[k] = tasks[k] /\ tasks[k].flow \notin gone
          /\ tasks'[len].flow = p /\ tasks'[len].rsp = p /\ tasks'[len].state = "Ready"
      BY <1>n, <1>t, <2>0, <2>1, <2>2, SMTT(60)
    <2>5. \A g \in Flows : /\ pend'[g].rsp = pend[g].rsp /\ pend'[g].cr3 = pend[g].cr3
                           /\ pend'[g].kstack = pend[g].kstack
                           /\ pend'[g].old \in {pend[g].old, Dangling}
      BY <1>t, <2>1 DEF Pend
    <2>6. len' <= MAX_TASKS => len <= MAX_TASKS
      BY <1>t, <2>1, MaxTasksAssumption, SMTT(60)
    <2>7. cpu.flow \notin gone /\ p \notin gone /\ (len \in Slots => tasks[len].flow \in gone)
      BY <2>0, <2>2
    <2> QED BY <1>u, <2>2, <2>3, <2>4, <2>5, <2>6, <2>7, SpawnStep, SMTT(60)
  <1> QED BY <1>2, <1>3

\* Every step of the scheduler keeps the contexts in order.
LEMMA CInvStep == TInv /\ TableInv /\ CInv /\ [Next]_vars => CInv'
  <1> SUFFICES ASSUME TInv, TableInv, CInv, [Next]_vars PROVE CInv'
    OBVIOUS
  <1>1. CASE tick
    BY <1>1, CInvTick
  <1>2. CASE timer_return
    BY <1>2, CInvTimerReturn
  <1>3. CASE sleep_ms \/ exit_current
    BY <1>3, CInvLeave
  <1>4. CASE sleep_switch
    BY <1>4, LeaveSwitchStep DEF sleep_switch, WindowLabels
  <1>5. CASE exit_switch
    BY <1>5, LeaveSwitchStep DEF exit_switch, WindowLabels
  <1>6. CASE \/ task_trampoline \/ sleep_ms_lock \/ sleep_return \/ exit_current_lock
             \/ slot_index_lock \/ run_elf \/ write_cr3 \/ set_current_cr3_lock
             \/ set_current_cr3 \/ enter_ring3 \/ spawn_lock
    BY <1>6, CInvKernelStep
  <1>7. CASE syscall_entry \/ sys_other \/ irq_return \/ sysret \/ sys_exit
    BY <1>7, CInvSyscallStep
  <1>8. CASE spawn
    <2>1. PICK p \in Procs : Spawn(p, "kern")
      BY <1>8 DEF spawn
    <2> QED BY <1>8, <2>1, CInvSpawn DEF spawn
  <1>9. CASE sys_spawn_bytes
    <2>1. PICK p \in Procs : Spawn(p, "ret3")
      BY <1>9 DEF sys_spawn_bytes
    <2> QED BY <1>9, <2>1, CInvSpawn DEF sys_spawn_bytes
  <1>10. CASE sys_wait_irq
    <2>1. PICK v \in Vectors : block_on_irq(v)
      BY <1>10 DEF sys_wait_irq
    <2> QED BY <2>1, CInvBlockOnIrq
  <1>11. CASE UNCHANGED vars
    <2>1. /\ tasks' = tasks /\ len' = len /\ current' = current /\ cpu' = cpu /\ at' = at
          /\ isrs' = isrs /\ pend' = pend /\ pslot' = pslot /\ status' = status
          /\ Slots' = Slots
      BY <1>11 DEF vars, Slots
    <2>2. Leaving' = Leaving /\ Others' = Others
      BY <2>1 DEF Leaving, Others
    <2>3. OneRunning' = OneRunning /\ BootInv' = BootInv /\ Alive' = Alive
      BY <2>1, ZenonT(60) DEF OneRunning, BootInv, Alive
    <2>4. RideInv' = RideInv /\ OnceInv' = OnceInv /\ LeaveInv' = LeaveInv
      BY <2>1, <2>2, ZenonT(60) DEF RideInv, OnceInv, LeaveInv
    <2>5. SpaceInv' = SpaceInv /\ PreemptInv' = PreemptInv
      BY <2>1, ZenonT(60) DEF SpaceInv, PreemptInv
    <2> QED BY <2>3, <2>4, <2>5, ZenonT(60) DEF CInv, Ride
  <1> QED
    BY <1>1, <1>2, <1>3, <1>4, <1>5, <1>6, <1>7, <1>8, <1>9, <1>10, <1>11
       DEF Next, Kernel, Syscalls, Stopped

\* The contexts are in order in every reachable state.
THEOREM Contexts == Spec => [](TInv /\ CInv)
  <1>1. TInv /\ KInv /\ CInv /\ [Next]_vars => CInv'
    BY CInvStep DEF KInv
  <1>2. Init => CInv
    BY CInvInit
  <1> QED BY <1>1, <1>2, Consistency, PTL DEF Spec

\* Ring-3 code runs in its own address space with interrupts on and with its
\* own entry of PROC_SLOTS, kmain and the desktop run with the timer alive, and
\* one task is Running - wherever ticks strike, in the middle of sleep_ms()'s
\* and exit_current()'s switches too, as long as PROC_SLOTS has an entry for
\* each task.
THEOREM CodeRunsInContext == Spec => [](len <= MAX_TASKS => RunsInContext)
  <1>1. ASSUME TInv, CInv, len <= MAX_TASKS PROVE RunsInContext
    <2>1. OneRunning /\ SlotIndex = current
      BY <1>1, OwnEntry DEF CInv
    <2>2. Executes("user") =>
            /\ cpu.cr3 = cpu.flow /\ tasks[current].cr3 = cpu.flow /\ cpu.ie
            /\ pslot[current] = [owner |-> cpu.flow, running |-> TRUE]
      <3>1. Executes("user") => /\ Recorded("user", cpu.flow, tasks[current].cr3)
                                /\ Loaded("user", cpu.flow, cpu.cr3) /\ cpu.ie
                                /\ Listed("user", cpu.flow, pslot[current])
        BY <1>1, OwnSlot DEF WindowLabels
      <3> QED BY <3>1 DEF Recorded, Loaded, Listed, InProgram
    <2>3. Executes("kern") /\ cpu.flow \in {Idle, Blink} => cpu.ie /\ ~cpu.isr
      BY <1>1, OwnSlot DEF WindowLabels
    <2> QED BY <2>1, <2>2, <2>3 DEF RunsInContext
  <1> QED BY <1>1, Contexts, PTL
=============================================================================
