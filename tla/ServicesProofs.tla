--------------------------- MODULE ServicesProofs ---------------------------
(***************************************************************************)
(* The service layer, and the sound card, the network card and the USB     *)
(* input that are reached through it, for any number of callers and calls, *)
(* any volume levels and rings of any size.                                *)
(*                                                                         *)
(* The process table tells the truth (TableInv), and a driver that is      *)
(* launched, stopped, killed and restarted by several callers runs once,   *)
(* unless a start slips past its checks (LaunchInv).  hdad plays what was  *)
(* asked for and nothing else (AudioInv).  rtl8139d loses, doubles and     *)
(* reorders no frame (NicInv): the ring holds packets back to back from    *)
(* the position CAPR remembers to the card's own, and what the card has    *)
(* received is what the kernel has, what is in the mailbox and what the    *)
(* ring holds there.  xhcid loses, doubles and reorders no report, and     *)
(* leaves each device something to do (HidInv).                            *)
(***************************************************************************)
EXTENDS NicMailbox, AudioMailbox, HidMailbox, TLAPS

\* How long, in seconds, a prover may take over one leaf.
USE ZenonT(60)

-----------------------------------------------------------------------------
(* The shape of the state *)

ProcNames == Followed \cup {"program"}
Entry == [pid : Nat, name : ProcNames, running : BOOLEAN]
Process(n, a, v) == [name |-> n, at |-> a, v |-> v]
IsProc(r) == \E n, a, v : r = Process(n, a, v)

\* Where a caller may stand: in a function of the service layer, or in one of
\* the driver that is followed.
Starting == {"start_launch", "start_wait", "start_done"}
Stopping == {"stop_flag", "stop_wait"}
Holding == {"read", "write", "read_wait", "write_wait"}
CallerLabels ==
    {"idle", "start_cas"} \cup Starting \cup Stopping
    \cup (IF dev = "rtl8139d" THEN {"tx_wait", "tx_len"} ELSE {})
    \cup (IF dev = "hdad" THEN {"play_wait", "play_req"} ELSE {})
    \cup (IF dev = "ahcid" THEN Holding ELSE {})

\* The types that the proofs need, beyond those of TypeOK.
ShapeInv ==
    /\ TypeOK
    /\ pids \in Nat /\ queue \in Seq(ProcNames) /\ tab \in Seq(Entry)
    /\ \A p \in DOMAIN proc : p \in 1..pids /\ IsProc(proc[p])
    /\ \A c \in Callers : who[c].at \in CallerLabels

\* A process has one entry, under its name, and it is the entries of
\* processes that run.
TableInv ==
    /\ \A i, j \in DOMAIN tab : tab[i].pid = tab[j].pid => i = j
    /\ \A i \in DOMAIN tab : tab[i].running <=> tab[i].pid \in DOMAIN proc
    /\ \A p \in DOMAIN proc : \E i \in DOMAIN tab : tab[i].pid = p /\ tab[i].name = proc[p].name

-----------------------------------------------------------------------------
(* At most one instance *)

Starters == {c \in Callers : who[c].at \in Starting}

\* STARTING belongs to one caller, and until that one launches there is no
\* instance; before the first pass of the main loop nobody calls.
LaunchInv ==
    /\ \A c, d \in Starters : c = d
    /\ Starters # {} => starting
    /\ pend => Nobody /\ \A c \in Callers : who[c] = Idle
    /\ ~slipped => AtMostOne
    /\ ~slipped => \A c \in Callers : who[c].at = "start_launch" => Nobody

\* gopd is launched only when there is no mailbox, and the mailbox goes only
\* once no instance is left: with gopd not even a start that slips matters.
ScreenInv ==
    dev = "gopd" =>
      /\ \A c \in Callers : c # "blink" => who[c] = Idle
      /\ AtMostOne
      /\ ~box.virt => Nobody
      /\ who["blink"].at \in Stopping => Waiting = {}

\* An instance that has yet to enter its loop.
NewInstance == Waiting # {} \/ \E p \in Alive : proc[p].at = "entry"

-----------------------------------------------------------------------------
(* Sequences *)

LEMMA SeqShape ==
    ASSUME NEW S, NEW s \in Seq(S)
    PROVE  Len(s) \in Nat /\ DOMAIN s = 1..Len(s) /\ \A i \in 1..Len(s) : s[i] \in S
  BY SMTT(60)

LEMMA SeqOf ==
    ASSUME NEW S, NEW n \in Nat, NEW f \in [1..n -> S]
    PROVE  f \in Seq(S)
  BY SMTT(60)

LEMMA SeqAppend ==
    ASSUME NEW S, NEW s \in Seq(S), NEW x \in S
    PROVE  /\ Append(s, x) \in Seq(S) /\ Len(Append(s, x)) = Len(s) + 1
           /\ \A i \in 1..Len(s) : Append(s, x)[i] = s[i]
           /\ Append(s, x)[Len(s) + 1] = x
  BY SMTT(60)

LEMMA SeqCut ==
    ASSUME NEW S, NEW s, NEW m \in Int, NEW n \in Int, \A i \in m..n : s[i] \in S
    PROVE  /\ SubSeq(s, m, n) \in Seq(S)
           /\ Len(SubSeq(s, m, n)) = IF m <= n THEN n - m + 1 ELSE 0
           /\ \A i \in 1..(n - m + 1) : SubSeq(s, m, n)[i] = s[m + i - 1]
  BY SMTT(60)

LEMMA SeqJoin ==
    ASSUME NEW S, NEW s \in Seq(S), NEW t \in Seq(S)
    PROVE  /\ s \o t \in Seq(S) /\ Len(s \o t) = Len(s) + Len(t)
           /\ \A i \in 1..(Len(s) + Len(t)) :
                (s \o t)[i] = IF i <= Len(s) THEN s[i] ELSE t[i - Len(s)]
  BY SMTT(60)

-----------------------------------------------------------------------------
(* What a step of a mailbox does to the service layer *)

\* A process, or a caller inside a function of the driver, goes on; something
\* happens that the service layer does not see.
ProcessMoves == \E p \in DOMAIN proc : \E a, v : DriverStep(p, a, v)
CallerMoves ==
    \E c \in Callers : \E a, x :
      /\ Moves(c, a, x) /\ KeepsServices /\ UNCHANGED proc
      /\ who[c].at \notin Starting
      /\ a \in CallerLabels \ (Starting \cup Stopping)
      /\ pend \/ dev = "gopd" => a = "idle" /\ x = 0
Unseen == KeepsServices /\ UNCHANGED <<proc, who>>

ServiceFunction ==
    \/ SpawnPending(dev)
    \/ \E c \in Callers : Launch(c, dev) \/ RaiseStop(c, dev) \/ Stopped(c, dev)
MailboxStep == ProcessMoves \/ CallerMoves \/ Unseen \/ ServiceFunction

\* Outside the service layer a caller's label tells the driver.
LEMMA LabelTells ==
    ASSUME ShapeInv, NEW c \in Callers
    PROVE  /\ who[c].at \in {"tx_wait", "tx_len"} => dev = "rtl8139d"
           /\ who[c].at \in {"play_wait", "play_req"} => dev = "hdad"
           /\ who[c].at \in Holding => dev = "ahcid"
  BY DEF ShapeInv, CallerLabels, Starting, Stopping, Holding

\* A driver's own step leaves the service layer alone.
LEMMA OwnMove ==
    ASSUME NEW p, NEW a, NEW b, NEW v, At(p, b), DriverStep(p, a, v)
    PROVE  ProcessMoves
  BY DEF ProcessMoves, At

\* So does the step of a caller from one label outside it to another.
LEMMA CallerStep ==
    ASSUME ShapeInv, NEW c \in Callers, NEW a, NEW x, KernelStep(c, a, x),
           LaunchInv \/ dev = "gopd", who[c].at \notin Starting, a \in CallerLabels \ (Starting \cup Stopping),
           who[c] = Idle \/ dev = "gopd" => a = "idle" /\ x = 0
    PROVE  CallerMoves
  BY DEF KernelStep, CallerMoves, LaunchInv

LEMMA CallerEnters ==
    ASSUME ShapeInv, NEW c \in Callers, NEW a, NEW x, KernelCall(c, dev, a, x),
           a \in CallerLabels \ (Starting \cup Stopping),
           dev = "gopd" => a = "idle" /\ x = 0
    PROVE  CallerMoves
  BY SMTT(60) DEF KernelCall, Commands, CallerMoves, Idle, Starting

LEMMA ArrivalIsUnseen ==
    ASSUME Arrives(dev)
    PROVE  Unseen
  BY DEF Arrives, Unseen

LEMMA PollIsUnseen ==
    ASSUME UNCHANGED serviceVars
    PROVE  Unseen
  BY DEF serviceVars, Unseen, KeepsServices

LEMMA NicStep ==
    ASSUME ShapeInv, LaunchInv \/ dev = "gopd", NicNext
    PROVE  dev = "rtl8139d" /\ MailboxStep
  <1>b. "blink" \in Callers
    BY CallersAssumption
  <1>1. CASE nic_spawn_pending_driver
    BY <1>1 DEF nic_spawn_pending_driver, SpawnPending, MailboxStep, ServiceFunction
  <1>2. CASE \E c \in Callers : nic_start_service(c) \/ nic_stop_service(c)
    BY <1>2 DEF nic_start_service, nic_stop_service, Launch, RaiseStop, Stopped, MailboxStep, ServiceFunction
  <1>3. CASE send
    <2>1. dev = "rtl8139d" /\ KernelCall("blink", dev, "tx_wait", Len(box.sent) + 1)
      BY <1>3 DEF send, KernelCall
    <2>2. "tx_wait" \in CallerLabels \ (Starting \cup Stopping) /\ dev # "gopd"
      BY <2>1 DEF CallerLabels, Starting, Stopping
    <2> QED BY <1>b, <2>1, <2>2, CallerEnters DEF MailboxStep
  <1>4. CASE SendCopies
    <2>1. who["blink"].at = "tx_wait" /\ KernelStep("blink", "tx_len", who["blink"].x)
      BY <1>4 DEF SendCopies
    <2>2. dev = "rtl8139d"
      BY <1>b, <2>1, LabelTells
    <2>3. /\ "tx_len" \in CallerLabels \ (Starting \cup Stopping)
          /\ dev # "gopd" /\ who["blink"].at \notin Starting /\ who["blink"] # Idle
      BY <2>1, <2>2, SMTT(60) DEF CallerLabels, Starting, Stopping, Idle
    <2> QED BY <1>b, <2>1, <2>2, <2>3, CallerStep DEF MailboxStep
  <1>5. CASE SendHandsOver
    <2>1. who["blink"].at = "tx_len" /\ KernelStep("blink", "idle", 0)
      BY <1>5 DEF SendHandsOver
    <2>2. dev = "rtl8139d"
      BY <1>b, <2>1, LabelTells
    <2>3. "idle" \in CallerLabels \ (Starting \cup Stopping) /\ who["blink"].at \notin Starting
      BY <2>1, <2>2 DEF CallerLabels, Starting, Stopping
    <2> QED BY <1>b, <2>1, <2>2, <2>3, CallerStep DEF MailboxStep
  <1>6. CASE recv
    <2>1. dev = "rtl8139d" /\ who["blink"] = Idle /\ KernelStep("blink", "idle", 0)
      BY <1>6 DEF recv
    <2>2. "idle" \in CallerLabels \ (Starting \cup Stopping) /\ who["blink"].at \notin Starting
      BY <2>1, SMTT(60) DEF CallerLabels, Starting, Stopping, Idle
    <2> QED BY <1>b, <2>1, <2>2, CallerStep DEF MailboxStep
  <1>7. CASE \E len \in 1..2, ok \in BOOLEAN : CardReceives(len, ok)
    BY <1>7, ArrivalIsUnseen DEF CardReceives, Arrives, MailboxStep
  <1>8. CASE \E p \in DOMAIN proc : NicDriver(p)
    <2>1. PICK p \in DOMAIN proc : NicDriver(p)
      BY <1>8
    <2>2. dev = "rtl8139d" /\ \E b, a, v : At(p, b) /\ DriverStep(p, a, v)
      BY <2>1 DEF NicDriver, NicStart, NicExit, NicLooksAtTx, NicTransmits, NicTxDone, NicLooksAtRx, NicRxDone
    <2> QED BY <2>2, OwnMove DEF MailboxStep
  <1> QED BY <1>1, <1>2, <1>3, <1>4, <1>5, <1>6, <1>7, <1>8 DEF NicNext

LEMMA AudioStep ==
    ASSUME ShapeInv, LaunchInv \/ dev = "gopd", AudioNext
    PROVE  dev = "hdad" /\ MailboxStep
  <1>b. "blink" \in Callers
    BY CallersAssumption
  <1>1. CASE hda_spawn_pending_driver
    BY <1>1 DEF hda_spawn_pending_driver, SpawnPending, MailboxStep, ServiceFunction
  <1>2. CASE \E c \in Callers : hda_start_service(c) \/ hda_stop_service(c)
    BY <1>2 DEF hda_start_service, hda_stop_service, Launch, RaiseStop, Stopped, MailboxStep, ServiceFunction
  <1>3. CASE (\E x \in LEVELS : set_volume(x)) \/ play_pcm
    <2>1. dev = "hdad" /\ \E a \in {"idle", "play_wait"} : \E x : KernelCall("blink", dev, a, x)
      BY <1>3 DEF set_volume, play_pcm
    <2>2. /\ dev # "gopd"
          /\ \A a \in {"idle", "play_wait"} : a \in CallerLabels \ (Starting \cup Stopping)
      BY <2>1 DEF CallerLabels, Starting, Stopping
    <2> QED BY <1>b, <2>1, <2>2, CallerEnters DEF MailboxStep
  <1>4. CASE PlayCopies
    <2>1. who["blink"].at = "play_wait" /\ KernelStep("blink", "play_req", who["blink"].x)
      BY <1>4 DEF PlayCopies
    <2>2. dev = "hdad"
      BY <1>b, <2>1, LabelTells
    <2>3. /\ "play_req" \in CallerLabels \ (Starting \cup Stopping)
          /\ dev # "gopd" /\ who["blink"].at \notin Starting /\ who["blink"] # Idle
      BY <2>1, <2>2, SMTT(60) DEF CallerLabels, Starting, Stopping, Idle
    <2> QED BY <1>b, <2>1, <2>2, <2>3, CallerStep DEF MailboxStep
  <1>5. CASE PlayRequests
    <2>1. who["blink"].at = "play_req" /\ KernelStep("blink", "idle", 0)
      BY <1>5 DEF PlayRequests
    <2>2. dev = "hdad"
      BY <1>b, <2>1, LabelTells
    <2>3. "idle" \in CallerLabels \ (Starting \cup Stopping) /\ who["blink"].at \notin Starting
      BY <2>1, <2>2 DEF CallerLabels, Starting, Stopping
    <2> QED BY <1>b, <2>1, <2>2, <2>3, CallerStep DEF MailboxStep
  <1>6. CASE \E p \in DOMAIN proc : AudioDriver(p)
    <2>1. PICK p \in DOMAIN proc : AudioDriver(p)
      BY <1>6
    <2>2. dev = "hdad" /\ \E b, a, v : At(p, b) /\ DriverStep(p, a, v)
      BY <2>1 DEF AudioDriver, AudioStart, AudioExit, AudioVolume, AudioRequest, AudioBegin, AudioAdvance
    <2> QED BY <2>2, OwnMove DEF MailboxStep
  <1> QED BY <1>1, <1>2, <1>3, <1>4, <1>5, <1>6 DEF AudioNext

LEMMA HidStep ==
    ASSUME HidNext
    PROVE  dev = "xhcid" /\ MailboxStep
  <1>1. CASE xhci_spawn_pending_driver
    BY <1>1 DEF xhci_spawn_pending_driver, SpawnPending, MailboxStep, ServiceFunction
  <1>2. CASE \E c \in Callers : xhci_start_service(c) \/ xhci_stop_service(c)
    BY <1>2 DEF xhci_start_service, xhci_stop_service, Launch, RaiseStop, Stopped, MailboxStep, ServiceFunction
  <1>3. CASE \E d \in Devices, ok \in BOOLEAN : ControllerReports(d, ok)
    BY <1>3, ArrivalIsUnseen DEF ControllerReports, Arrives, MailboxStep
  <1>4. CASE poll_mouse
    BY <1>4, PollIsUnseen DEF poll_mouse, MailboxStep
  <1>5. CASE \E p \in DOMAIN proc : HidDriver(p)
    <2>1. PICK p \in DOMAIN proc : HidDriver(p)
      BY <1>5
    <2>2. dev = "xhcid" /\ \E b, a, v : At(p, b) /\ DriverStep(p, a, v)
      BY <2>1 DEF HidDriver, HidStart, HidExit, HidGoes, HidDequeues, HidSaves
    <2> QED BY <2>2, OwnMove DEF MailboxStep
  <1> QED BY <1>1, <1>2, <1>3, <1>4, <1>5 DEF HidNext

-----------------------------------------------------------------------------
(* The process table *)

LEMMA ProcessFields ==
    ASSUME NEW n, NEW a, NEW v
    PROVE  /\ IsProc(Process(n, a, v))
           /\ Process(n, a, v).name = n /\ Process(n, a, v).at = a /\ Process(n, a, v).v = v
  <1>1. IsProc(Process(n, a, v))
    BY DEF IsProc
  <1> QED BY <1>1 DEF Process

LEMMA ProcessSteps ==
    ASSUME NEW r, IsProc(r), NEW a, NEW v
    PROVE  [[r EXCEPT !.at = a] EXCEPT !.v = v] = Process(r.name, a, v)
  <1>1. PICK n, b, w : r = Process(n, b, w)
    BY DEF IsProc
  <1>2. r.name = n
    BY <1>1, ProcessFields, SMTT(60)
  <1>3. [r EXCEPT !.at = a] = Process(n, a, w)
    BY <1>1, SMTT(60) DEF Process
  <1>4. [Process(n, a, w) EXCEPT !.v = v] = Process(n, a, v)
    BY SMTT(60) DEF Process
  <1> QED BY <1>2, <1>3, <1>4

LEMMA StepsFacts ==
    ASSUME ShapeInv, NEW p \in DOMAIN proc, NEW a, NEW v, Steps(p, a, v)
    PROVE  /\ DOMAIN proc' = DOMAIN proc
           /\ proc'[p] = Process(proc[p].name, a, v)
           /\ \A q \in DOMAIN proc : q # p => proc'[q] = proc[q]
  <1>1. PICK r : r = proc[p] /\ IsProc(r)
    BY DEF ShapeInv
  <1>2. DOMAIN proc' = DOMAIN proc /\ \A q \in DOMAIN proc : q # p => proc'[q] = proc[q]
    BY DEF Steps
  <1>3. proc'[p] = [[r EXCEPT !.at = a] EXCEPT !.v = v]
    BY <1>1 DEF Steps
  <1>4. [[r EXCEPT !.at = a] EXCEPT !.v = v] = Process(r.name, a, v)
    BY <1>1, ProcessSteps
  <1> QED BY <1>1, <1>2, <1>3, <1>4

LEMMA IdleFields == Idle.at = "idle" /\ Idle.x = 0
  BY SMTT(60) DEF Idle

LEMMA MovesFacts ==
    ASSUME ShapeInv, NEW c \in Callers, NEW a, NEW x, Moves(c, a, x)
    PROVE  /\ DOMAIN who' = Callers
           /\ who'[c] = [at |-> a, x |-> x] /\ who'[c].at = a /\ who'[c].x = x
           /\ \A d \in Callers : d # c => who'[d] = who[d]
  BY SMTT(60) DEF ShapeInv, TypeOK, Moves

\* The steps that neither register a process nor take one away.
WhoSteps == who' = who \/ \E c \in Callers : \E a \in CallerLabels : \E x : Moves(c, a, x)
ProcSteps == proc' = proc \/ \E p \in DOMAIN proc : \E a, v : Steps(p, a, v)
QueueSteps == queue' = queue \/ exec_async(dev) \/ exec_async("program")
Quiet ==
    /\ WhoSteps /\ ProcSteps /\ QueueSteps
    /\ UNCHANGED <<dev, boot, tab, pids>>
    /\ {pend', enabled', starting', stop', slipped'} \subseteq BOOLEAN

LEMMA QuietWho ==
    ASSUME ShapeInv, WhoSteps, dev' = dev
    PROVE  /\ DOMAIN who' = Callers
           /\ \A c \in Callers : who'[c].at \in CallerLabels'
  <1>0. CallerLabels' = CallerLabels
    BY DEF CallerLabels
  <1>1. CASE who' = who
    BY <1>0, <1>1 DEF ShapeInv, TypeOK
  <1>2. CASE \E c \in Callers : \E a \in CallerLabels : \E x : Moves(c, a, x)
    <2>1. PICK c \in Callers, a \in CallerLabels : \E x : Moves(c, a, x)
      BY <1>2
    <2>2. PICK x : Moves(c, a, x)
      BY <2>1
    <2>3. /\ DOMAIN who' = Callers
          /\ who'[c] = [at |-> a, x |-> x] /\ who'[c].at = a /\ who'[c].x = x
          /\ \A d \in Callers : d # c => who'[d] = who[d]
      BY <2>2, MovesFacts
    <2> QED BY <1>0, <2>3 DEF ShapeInv
  <1> QED BY <1>1, <1>2 DEF WhoSteps

LEMMA QuietProc ==
    ASSUME ShapeInv, ProcSteps
    PROVE  DOMAIN proc' = DOMAIN proc /\ \A p \in DOMAIN proc : proc'[p].name = proc[p].name /\ IsProc(proc'[p])
  <1>1. CASE proc' = proc
    BY <1>1 DEF ShapeInv
  <1>2. CASE \E p \in DOMAIN proc : \E a, v : Steps(p, a, v)
    <2>1. PICK p \in DOMAIN proc : \E a, v : Steps(p, a, v)
      BY <1>2
    <2>2. PICK a, v : Steps(p, a, v)
      BY <2>1
    <2>3. /\ DOMAIN proc' = DOMAIN proc
          /\ proc'[p] = Process(proc[p].name, a, v)
          /\ \A q \in DOMAIN proc : q # p => proc'[q] = proc[q]
      BY <2>2, StepsFacts
    <2>4. proc'[p].name = proc[p].name /\ IsProc(proc'[p])
      BY <2>3, ProcessFields, SMTT(60)
    <2> QED BY <2>3, <2>4 DEF ShapeInv
  <1> QED BY <1>1, <1>2 DEF ProcSteps

LEMMA QuietQueue ==
    ASSUME ShapeInv, QueueSteps, dev' = dev
    PROVE  queue' \in Seq(ProcNames) /\ \A i \in DOMAIN queue' : queue'[i] \in {dev', "program"}
  <1>1. /\ queue \in Seq(ProcNames) /\ dev \in ProcNames
        /\ \A i \in DOMAIN queue : queue[i] \in {dev, "program"}
    BY DEF ShapeInv, TypeOK, ProcNames
  <1>2. ASSUME NEW n \in {dev, "program"}, queue' = Append(queue, n)
        PROVE  queue' \in Seq(ProcNames) /\ \A i \in DOMAIN queue' : queue'[i] \in {dev', "program"}
    <2>1. n \in ProcNames
      BY <1>1 DEF ProcNames
    <2> QED BY <1>1, <1>2, <2>1, SMTT(60)
  <1> QED BY <1>1, <1>2 DEF QueueSteps, exec_async

LEMMA QuietKeeps ==
    ASSUME ShapeInv, TableInv, Quiet
    PROVE  ShapeInv' /\ TableInv'
  <1>1. ShapeInv'
    BY QuietWho, QuietProc, QuietQueue DEF Quiet, ShapeInv, TypeOK
  <1>2. TableInv'
    <2>1. /\ tab' = tab /\ DOMAIN proc' = DOMAIN proc
          /\ \A p \in DOMAIN proc : proc'[p].name = proc[p].name
      BY QuietProc DEF Quiet
    <2> QED BY <2>1, SMTT(60) DEF TableInv
  <1> QED BY <1>1, <1>2

LEMMA MailboxIsQuiet ==
    ASSUME ShapeInv, MailboxStep
    PROVE  Quiet
  <1>f. {pend, enabled, starting, stop, slipped} \subseteq BOOLEAN
    BY DEF ShapeInv, TypeOK
  <1>1. CASE ProcessMoves
    BY <1>1, <1>f DEF ProcessMoves, DriverStep, KeepsServices, Quiet, WhoSteps, ProcSteps, QueueSteps
  <1>2. CASE CallerMoves
    BY <1>2, <1>f DEF CallerMoves, KeepsServices, Quiet, WhoSteps, ProcSteps, QueueSteps
  <1>3. CASE Unseen
    BY <1>3, <1>f DEF Unseen, KeepsServices, Quiet, WhoSteps, ProcSteps, QueueSteps
  <1>4. CASE SpawnPending(dev)
    BY <1>4, <1>f DEF SpawnPending, Quiet, WhoSteps, ProcSteps, QueueSteps
  <1>5. ASSUME NEW c \in Callers, Launch(c, dev) \/ RaiseStop(c, dev) \/ Stopped(c, dev)
        PROVE  Quiet
    <2>1. {"start_wait", "start_done", "stop_wait", "idle"} \subseteq CallerLabels
      BY DEF CallerLabels, Starting, Stopping
    <2>2. CASE Launch(c, dev)
      BY <1>f, <2>1, <2>2 DEF Launch, Quiet, WhoSteps, ProcSteps, QueueSteps
    <2>3. CASE RaiseStop(c, dev)
      BY <1>f, <2>1, <2>3 DEF RaiseStop, Quiet, WhoSteps, ProcSteps, QueueSteps
    <2>4. CASE Stopped(c, dev)
      BY <1>f, <2>1, <2>4 DEF Stopped, Quiet, WhoSteps, ProcSteps, QueueSteps, Moves, Idle
    <2> QED BY <1>5, <2>2, <2>3, <2>4
  <1> QED BY <1>1, <1>2, <1>3, <1>4, <1>5 DEF MailboxStep, ServiceFunction

\* What MakeRoom leaves of a table: all of it, or all but an entry that has
\* finished.
Roomy(t, u) ==
    \/ u = t
    \/ \E k \in DOMAIN t :
         /\ ~t[k].running /\ Len(u) = Len(t) - 1
         /\ \A i \in 1..(Len(t) - 1) : u[i] = IF i < k THEN t[i] ELSE t[i + 1]

LEMMA Removed ==
    ASSUME NEW S, NEW t \in Seq(S), NEW k \in 1..Len(t)
    PROVE  /\ RemoveAt(t, k) \in Seq(S) /\ Len(RemoveAt(t, k)) = Len(t) - 1
           /\ \A i \in 1..(Len(t) - 1) : RemoveAt(t, k)[i] = IF i < k THEN t[i] ELSE t[i + 1]
  <1>1. PICK n, l, m : n = Len(t) /\ l = k - 1 /\ m = k + 1
    OBVIOUS
  <1>2. /\ n \in Int /\ l \in Int /\ m \in Int /\ n \in Nat /\ 0 <= l /\ l + 1 = k /\ k + 1 = m /\ k <= n
        /\ 1 \in Int
    BY <1>1, SeqShape, SMTT(60)
  <1>3. (\A i \in 1..l : t[i] \in S) /\ \A i \in m..n : t[i] \in S
    <2>1. \A i \in 1..n : t[i] \in S
      BY <1>1, SeqShape
    <2>2. 1..l \subseteq 1..n /\ m..n \subseteq 1..n
      BY <1>2, SMTT(60)
    <2> QED BY <2>1, <2>2
  <1>4. PICK a : a = SubSeq(t, 1, l)
    OBVIOUS
  <1>5. PICK b : b = SubSeq(t, m, n)
    OBVIOUS
  <1>6. /\ SubSeq(t, 1, l) \in Seq(S) /\ Len(SubSeq(t, 1, l)) = (IF 1 <= l THEN l - 1 + 1 ELSE 0)
        /\ \A i \in 1..(l - 1 + 1) : SubSeq(t, 1, l)[i] = t[1 + i - 1]
    BY <1>2, <1>3, SeqCut, SMTT(60)
  <1>7. /\ SubSeq(t, m, n) \in Seq(S) /\ Len(SubSeq(t, m, n)) = (IF m <= n THEN n - m + 1 ELSE 0)
        /\ \A i \in 1..(n - m + 1) : SubSeq(t, m, n)[i] = t[m + i - 1]
    BY <1>2, <1>3, SeqCut, SMTT(60)
  <1>8. a \in Seq(S) /\ Len(a) = l /\ \A i \in 1..l : a[i] = t[i]
    <2>1. l - 1 + 1 = l /\ (IF 1 <= l THEN l - 1 + 1 ELSE 0) = l /\ \A i \in 1..l : 1 + i - 1 = i
      BY <1>2, SMTT(60)
    <2> QED BY <1>4, <1>6, <2>1
  <1>9. b \in Seq(S) /\ Len(b) = n - k /\ \A i \in 1..(n - k) : b[i] = t[k + i]
    <2>1. n - m + 1 = n - k /\ (IF m <= n THEN n - m + 1 ELSE 0) = n - k /\ \A i \in 1..(n - k) : m + i - 1 = k + i
      BY <1>2, SMTT(60)
    <2> QED BY <1>5, <1>7, <2>1
  <1>10. PICK u : u = a \o b
    OBVIOUS
  <1>11. /\ u \in Seq(S) /\ Len(u) = Len(a) + Len(b)
         /\ \A i \in 1..(Len(a) + Len(b)) : u[i] = IF i <= Len(a) THEN a[i] ELSE b[i - Len(a)]
    BY <1>8, <1>9, <1>10, SeqJoin
  <1>12. Len(u) = n - 1 /\ \A i \in 1..(n - 1) : u[i] = IF i < k THEN t[i] ELSE t[i + 1]
    <2>1. Len(a) + Len(b) = n - 1
      BY <1>2, <1>8, <1>9, SMTT(60)
    <2>2. ASSUME NEW i \in 1..(n - 1), i < k PROVE u[i] = t[i]
      <3>1. i <= Len(a) /\ i \in 1..l
        BY <1>2, <1>8, <2>2, SMTT(60)
      <3> QED BY <1>8, <1>11, <2>1, <3>1
    <2>3. ASSUME NEW i \in 1..(n - 1), ~(i < k) PROVE u[i] = t[i + 1]
      <3>1. ~(i <= Len(a)) /\ i - Len(a) \in 1..(n - k) /\ k + (i - Len(a)) = i + 1
        BY <1>2, <1>8, <2>3, SMTT(60)
      <3> QED BY <1>9, <1>11, <2>1, <3>1
    <2> QED BY <1>11, <2>1, <2>2, <2>3
  <1>13. RemoveAt(t, k) = u
    BY <1>1, <1>4, <1>5, <1>10 DEF RemoveAt
  <1> QED BY <1>1, <1>11, <1>12, <1>13

LEMMA RoomMade ==
    ASSUME NEW t \in Seq(Entry), NEW u \in MakeRoom(t)
    PROVE  u \in Seq(Entry) /\ Roomy(t, u)
  <1>1. CASE u = t
    BY <1>1 DEF Roomy
  <1>2. CASE u # t
    <2>1. DOMAIN t = 1..Len(t) /\ Len(t) \in Nat
      BY SeqShape
    <2>2. PICK k \in 1..Len(t) : ~t[k].running /\ u = RemoveAt(t, k)
      BY <1>2, <2>1 DEF MakeRoom, Lowest
    <2>3. /\ RemoveAt(t, k) \in Seq(Entry) /\ Len(RemoveAt(t, k)) = Len(t) - 1
          /\ \A i \in 1..(Len(t) - 1) : RemoveAt(t, k)[i] = IF i < k THEN t[i] ELSE t[i + 1]
      BY Removed
    <2> QED BY <2>1, <2>2, <2>3 DEF Roomy
  <1> QED BY <1>1, <1>2

\* Every entry that runs is kept, none is doubled and none is new.
LEMMA RoomFacts ==
    ASSUME NEW t \in Seq(Entry), NEW u \in Seq(Entry), Roomy(t, u),
           \A i, j \in DOMAIN t : t[i].pid = t[j].pid => i = j
    PROVE  /\ \A i \in DOMAIN u : \E j \in DOMAIN t : u[i] = t[j]
           /\ \A i, j \in DOMAIN u : u[i].pid = u[j].pid => i = j
           /\ \A j \in DOMAIN t : t[j].running => \E i \in DOMAIN u : u[i] = t[j]
  <1>0. /\ DOMAIN t = 1..Len(t) /\ Len(t) \in Nat
        /\ DOMAIN u = 1..Len(u) /\ Len(u) \in Nat
    BY SMTT(60)
  <1>1. CASE u = t
    BY <1>1
  <1>2. CASE u # t
    <2>1. PICK k \in DOMAIN t : /\ ~t[k].running /\ Len(u) = Len(t) - 1
                                /\ \A i \in 1..(Len(t) - 1) : u[i] = IF i < k THEN t[i] ELSE t[i + 1]
      BY <1>2 DEF Roomy
    <2> DEFINE From(i) == IF i < k THEN i ELSE i + 1
    <2>2. \A i \in DOMAIN u : From(i) \in DOMAIN t /\ u[i] = t[From(i)]
      BY <1>0, <2>1, SMTT(60)
    <2>3. \A i, j \in DOMAIN u : From(i) = From(j) => i = j
      BY <1>0, <2>1, SMTT(60)
    <2>4. \A j \in DOMAIN t : j # k => \E i \in DOMAIN u : From(i) = j
      <3>1. ASSUME NEW j \in DOMAIN t, j < k PROVE j \in DOMAIN u /\ From(j) = j
        BY <1>0, <2>1, <3>1, SMTT(60)
      <3>2. ASSUME NEW j \in DOMAIN t, j > k PROVE j - 1 \in DOMAIN u /\ From(j - 1) = j
        BY <1>0, <2>1, <3>2, SMTT(60)
      <3>3. \A j \in DOMAIN t : j # k => j < k \/ j > k
        BY <1>0, <2>1, SMTT(60)
      <3> QED BY <3>1, <3>2, <3>3
    <2> HIDE DEF From
    <2>5. \A i \in DOMAIN u : \E j \in DOMAIN t : u[i] = t[j]
      BY <2>2
    <2>6. \A i, j \in DOMAIN u : u[i].pid = u[j].pid => i = j
      BY <2>2, <2>3, SMTT(60)
    <2>7. \A j \in DOMAIN t : t[j].running => \E i \in DOMAIN u : u[i] = t[j]
      BY <2>1, <2>2, <2>4, SMTT(60)
    <2> QED BY <2>5, <2>6, <2>7
  <1> QED BY <1>1, <1>2

\* A task that registers its process: what becomes of the queue, the table and
\* the processes.
LEMMA EntryFacts ==
    ASSUME ShapeInv, TableInv, async_task_entry
    PROVE  \E n \in {dev, "program"} :
             /\ Len(queue) \in Nat /\ Len(queue) >= 1 /\ n = queue[Len(queue)]
             /\ queue' \in Seq(ProcNames) /\ DOMAIN queue' = 1..(Len(queue) - 1)
             /\ \A i \in 1..(Len(queue) - 1) : queue'[i] = queue[i]
             /\ pids + 1 \notin DOMAIN proc /\ DOMAIN proc' = DOMAIN proc \cup {pids + 1}
             /\ \A p \in DOMAIN proc : proc'[p] = proc[p]
             /\ proc'[pids + 1] = Process(n, "entry", 0)
             /\ \E u \in Seq(Entry) :
                  Roomy(tab, u) /\ tab' = Append(u, [pid |-> pids + 1, name |-> n, running |-> TRUE])
  <1>1. queue \in Seq(ProcNames) /\ queue # <<>> /\ queue' = Front(queue)
    BY DEF ShapeInv, async_task_entry
  <1>2. Len(queue) \in Nat /\ Len(queue) >= 1 /\ DOMAIN queue = 1..Len(queue)
    BY <1>1, SMTT(60)
  <1>3. PICK n : n = Last(queue)
    OBVIOUS
  <1>4. n = queue[Len(queue)] /\ n \in {dev, "program"}
    <2>1. Len(queue) \in DOMAIN queue
      BY <1>2, SMTT(60)
    <2> QED BY <1>3, <2>1 DEF Last, ShapeInv, TypeOK
  <1>5. /\ queue' \in Seq(ProcNames) /\ DOMAIN queue' = 1..(Len(queue) - 1)
        /\ \A i \in 1..(Len(queue) - 1) : queue'[i] = queue[i]
    <2>1. PICK l : l = Len(queue) - 1
      OBVIOUS
    <2>2. l \in Int /\ 1 \in Int /\ l >= 0 /\ \A i \in 1..l : queue[i] \in ProcNames
      BY <1>1, <1>2, <2>1, SMTT(60)
    <2>3. /\ SubSeq(queue, 1, l) \in Seq(ProcNames)
          /\ Len(SubSeq(queue, 1, l)) = (IF 1 <= l THEN l - 1 + 1 ELSE 0)
          /\ \A i \in 1..(l - 1 + 1) : SubSeq(queue, 1, l)[i] = queue[1 + i - 1]
      BY <2>2, SeqCut, SMTT(60)
    <2>4. l - 1 + 1 = l /\ (IF 1 <= l THEN l - 1 + 1 ELSE 0) = l /\ \A i \in 1..l : 1 + i - 1 = i
      BY <2>2, SMTT(60)
    <2>5. SubSeq(queue, 1, l) = queue'
      BY <1>1, <2>1 DEF Front
    <2>6. queue' \in Seq(ProcNames) /\ Len(queue') = l /\ \A i \in 1..l : queue'[i] = queue[i]
      BY <2>3, <2>4, <2>5
    <2> QED BY <2>1, <2>6, SeqShape
  <1>6. /\ pids + 1 \notin DOMAIN proc /\ DOMAIN proc' = DOMAIN proc \cup {pids + 1}
        /\ \A p \in DOMAIN proc : proc'[p] = proc[p]
        /\ proc'[pids + 1] = Process(n, "entry", 0)
    <2>1. \A p \in DOMAIN proc : p # pids + 1
      BY SMTT(60) DEF ShapeInv
    <2> QED BY <1>3, <2>1 DEF async_task_entry, Process
  <1>7. \E u \in Seq(Entry) :
           Roomy(tab, u) /\ tab' = Append(u, [pid |-> pids + 1, name |-> n, running |-> TRUE])
    BY <1>3, RoomMade DEF async_task_entry, ShapeInv
  <1> QED BY <1>2, <1>4, <1>5, <1>6, <1>7

LEMMA EntryKeeps ==
    ASSUME ShapeInv, TableInv, async_task_entry
    PROVE  ShapeInv' /\ TableInv'
  <1>1. PICK n \in {dev, "program"} :
             /\ queue' \in Seq(ProcNames) /\ DOMAIN queue' = 1..(Len(queue) - 1)
             /\ \A i \in 1..(Len(queue) - 1) : queue'[i] = queue[i]
             /\ pids + 1 \notin DOMAIN proc /\ DOMAIN proc' = DOMAIN proc \cup {pids + 1}
             /\ \A p \in DOMAIN proc : proc'[p] = proc[p]
             /\ proc'[pids + 1] = Process(n, "entry", 0)
             /\ \E u \in Seq(Entry) :
                  Roomy(tab, u) /\ tab' = Append(u, [pid |-> pids + 1, name |-> n, running |-> TRUE])
    BY EntryFacts
  <1>2. PICK u \in Seq(Entry) :
           Roomy(tab, u) /\ tab' = Append(u, [pid |-> pids + 1, name |-> n, running |-> TRUE])
    BY <1>1
  <1>3. PICK e : e = [pid |-> pids + 1, name |-> n, running |-> TRUE]
    OBVIOUS
  <1>t. /\ pids \in Nat /\ tab \in Seq(Entry) /\ pids' = pids + 1 /\ UNCHANGED <<dev, who>>
        /\ \A i \in DOMAIN tab : tab[i].pid \in 1..pids
        /\ \A p \in DOMAIN proc : p \in 1..pids /\ IsProc(proc[p])
        /\ dev \in Followed
    BY DEF ShapeInv, TypeOK, async_task_entry
  <1>4. e \in Entry /\ e.pid = pids + 1 /\ e.name = n /\ e.running = TRUE
    BY <1>3, <1>t, SMTT(60) DEF Entry, ProcNames
  <1>5. /\ tab' \in Seq(Entry) /\ DOMAIN u = 1..Len(u) /\ Len(u) \in Nat /\ DOMAIN tab' = 1..(Len(u) + 1)
        /\ \A i \in 1..Len(u) : tab'[i] = u[i]
        /\ tab'[Len(u) + 1] = e
    BY <1>2, <1>3, <1>4, SeqAppend, SeqShape, SMTT(60)
  <1>6. /\ \A i \in DOMAIN u : \E j \in DOMAIN tab : u[i] = tab[j]
        /\ \A i, j \in DOMAIN u : u[i].pid = u[j].pid => i = j
        /\ \A j \in DOMAIN tab : tab[j].running => \E i \in DOMAIN u : u[i] = tab[j]
    BY <1>2, <1>t, RoomFacts DEF TableInv
  <1>7. \A i \in DOMAIN tab' : i \in DOMAIN u \/ i = Len(u) + 1
    BY <1>5, SMTT(60)
  <1>8. \A i \in DOMAIN u : i \in DOMAIN tab' /\ u[i].pid \in 1..pids /\ u[i].pid # pids + 1
    BY <1>5, <1>6, <1>t, SMTT(60)
  <1>9. ShapeInv'
    <2>1. \A i \in DOMAIN tab' : tab'[i].pid \in 1..(pids + 1) /\ tab'[i].running \in BOOLEAN
      <3>1. \A i \in DOMAIN tab' : tab'[i] \in Entry
        BY <1>5, SeqShape
      <3>2. \A i \in DOMAIN tab' : tab'[i].running \in BOOLEAN
        BY <3>1, SMTT(60) DEF Entry
      <3>3. 1..pids \subseteq 1..(pids + 1) /\ pids + 1 \in 1..(pids + 1)
        BY <1>t, SMTT(60)
      <3> QED BY <1>4, <1>5, <1>7, <1>8, <3>2, <3>3
    <2>2. \A p \in DOMAIN proc' : p \in 1..(pids + 1) /\ IsProc(proc'[p])
      <3>1. \A p \in DOMAIN proc : p \in 1..(pids + 1)
        BY <1>t, SMTT(60)
      <3>2. pids + 1 \in 1..(pids + 1) /\ IsProc(Process(n, "entry", 0))
        BY <1>t, ProcessFields, SMTT(60)
      <3> QED BY <1>1, <1>t, <3>1, <3>2
    <2>3. \A i \in DOMAIN queue' : queue'[i] \in {dev', "program"}
      <3>1. \A i \in 1..(Len(queue) - 1) : i \in DOMAIN queue
        BY SeqShape, SMTT(60) DEF ShapeInv
      <3> QED BY <1>1, <1>t, <3>1 DEF ShapeInv, TypeOK
    <2>4. TypeOK'
      BY <1>t, <2>1, <2>3 DEF ShapeInv, TypeOK, async_task_entry
    <2>5. pids' \in Nat
      BY <1>t, SMTT(60)
    <2> QED BY <1>1, <1>5, <1>t, <2>2, <2>4, <2>5 DEF ShapeInv, CallerLabels
  <1>10. TableInv'
    <2>1. \A i, j \in DOMAIN tab' : tab'[i].pid = tab'[j].pid => i = j
      BY <1>4, <1>5, <1>6, <1>7, <1>8, SMTT(60)
    <2>2. \A i \in DOMAIN tab' : tab'[i].running <=> tab'[i].pid \in DOMAIN proc'
      <3>1. \A i \in DOMAIN u : u[i].running <=> u[i].pid \in DOMAIN proc
        BY <1>6, SMTT(60) DEF TableInv
      <3> QED BY <1>1, <1>4, <1>5, <1>7, <1>8, <3>1
    <2>3. \A p \in DOMAIN proc' : \E i \in DOMAIN tab' : tab'[i].pid = p /\ tab'[i].name = proc'[p].name
      <3>1. ASSUME NEW p \in DOMAIN proc
            PROVE  \E i \in DOMAIN tab' : tab'[i].pid = p /\ tab'[i].name = proc'[p].name
        <4>1. PICK j \in DOMAIN tab : tab[j].pid = p /\ tab[j].name = proc[p].name /\ tab[j].running
          BY SMTT(60) DEF TableInv
        <4>2. PICK i \in DOMAIN u : u[i] = tab[j]
          BY <1>6, <4>1
        <4> QED BY <1>1, <1>5, <1>8, <4>1, <4>2, SMTT(60)
      <3>2. Len(u) + 1 \in DOMAIN tab' /\ proc'[pids + 1].name = n
        BY <1>1, <1>5, ProcessFields, SMTT(60)
      <3> QED BY <1>1, <1>4, <1>5, <3>1, <3>2, SMTT(60)
    <2> QED BY <2>1, <2>2, <2>3 DEF TableInv
  <1> QED BY <1>9, <1>10

LEMMA EntryFinishes ==
    ASSUME NEW e \in Entry, NEW f, f = [e EXCEPT !.running = FALSE]
    PROVE  f \in Entry /\ f.pid = e.pid /\ f.name = e.name /\ f.running = FALSE
  <1>1. PICK P, N : Entry = [pid : P, name : N, running : BOOLEAN]
    BY DEF Entry
  <1>2. f = [pid |-> e.pid, name |-> e.name, running |-> FALSE] /\ e.pid \in P /\ e.name \in N
    BY <1>1
  <1> QED BY <1>1, <1>2

\* A process that returns, and the entry that finishes with it.
LEMMA ReturnFacts ==
    ASSUME ShapeInv, NEW p \in DOMAIN proc, exec_blocking_returns(p)
    PROVE  /\ DOMAIN proc' = DOMAIN proc \ {p} /\ \A q \in DOMAIN proc' : proc'[q] = proc[q]
           /\ tab' \in Seq(Entry) /\ DOMAIN tab' = DOMAIN tab
           /\ \A i \in DOMAIN tab : /\ tab'[i].pid = tab[i].pid /\ tab'[i].name = tab[i].name
                                    /\ tab[i].pid = p => tab'[i].running = FALSE
                                    /\ tab[i].pid # p => tab'[i].running = tab[i].running
  <1>1. DOMAIN proc' = DOMAIN proc \ {p} /\ \A q \in DOMAIN proc' : proc'[q] = proc[q]
    BY DEF exec_blocking_returns
  <1>2. tab \in Seq(Entry) /\ Len(tab) \in Nat /\ DOMAIN tab = 1..Len(tab)
    BY SeqShape DEF ShapeInv
  <1>3. \A i \in DOMAIN tab : tab[i] \in Entry
    BY <1>2, SeqShape
  <1>4. DOMAIN tab' = DOMAIN tab
    BY DEF exec_blocking_returns
  <1>5. ASSUME NEW i \in DOMAIN tab
        PROVE  /\ tab'[i] \in Entry /\ tab'[i].pid = tab[i].pid /\ tab'[i].name = tab[i].name
               /\ tab[i].pid = p => tab'[i].running = FALSE
               /\ tab[i].pid # p => tab'[i].running = tab[i].running
    <2>1. CASE tab[i].pid = p
      <3>1. PICK e \in Entry : e = tab[i]
        BY <1>3
      <3>2. tab'[i] = [e EXCEPT !.running = FALSE]
        BY <2>1, <3>1 DEF exec_blocking_returns
      <3>3. tab'[i] \in Entry /\ tab'[i].pid = e.pid /\ tab'[i].name = e.name /\ tab'[i].running = FALSE
        BY <3>2, EntryFinishes
      <3> QED BY <2>1, <3>1, <3>3
    <2>2. CASE tab[i].pid # p
      <3>1. tab'[i] = tab[i]
        BY <2>2 DEF exec_blocking_returns
      <3> QED BY <1>3, <2>2, <3>1
    <2> QED BY <2>1, <2>2
  <1>6. tab' \in Seq(Entry)
    <2>1. tab' = [i \in 1..Len(tab) |-> tab'[i]]
      BY <1>2 DEF exec_blocking_returns
    <2>2. tab' \in [1..Len(tab) -> Entry]
      BY <1>2, <1>5, <2>1
    <2>3. [1..Len(tab) -> Entry] \in {[1..n -> Entry] : n \in Nat}
      BY <1>2
    <2> QED BY <2>2, <2>3, SeqOf
  <1> QED BY <1>1, <1>4, <1>5, <1>6

LEMMA ReturnKeeps ==
    ASSUME ShapeInv, TableInv, NEW p \in DOMAIN proc, exec_blocking_returns(p)
    PROVE  ShapeInv' /\ TableInv'
  <1>1. /\ DOMAIN proc' = DOMAIN proc \ {p} /\ \A q \in DOMAIN proc' : proc'[q] = proc[q]
        /\ tab' \in Seq(Entry) /\ DOMAIN tab' = DOMAIN tab
        /\ \A i \in DOMAIN tab : /\ tab'[i].pid = tab[i].pid /\ tab'[i].name = tab[i].name
                                 /\ tab[i].pid = p => tab'[i].running = FALSE
                                 /\ tab[i].pid # p => tab'[i].running = tab[i].running
    BY ReturnFacts
  <1>2. UNCHANGED <<dev, boot, pend, enabled, starting, stop, queue, pids, who, slipped>>
    BY DEF exec_blocking_returns
  <1>3. ShapeInv'
    <2>1. \A i \in DOMAIN tab' : tab'[i].pid \in 1..pids /\ tab'[i].running \in BOOLEAN
      BY <1>1 DEF ShapeInv, TypeOK
    <2>2. TypeOK'
      BY <1>2, <2>1 DEF ShapeInv, TypeOK
    <2> QED BY <1>1, <1>2, <2>2 DEF ShapeInv, CallerLabels
  <1>4. TableInv'
    <2>1. \A i, j \in DOMAIN tab' : tab'[i].pid = tab'[j].pid => i = j
      BY <1>1, SMTT(60) DEF TableInv
    <2>2. \A i \in DOMAIN tab' : tab'[i].running <=> tab'[i].pid \in DOMAIN proc'
      BY <1>1, SMTT(60) DEF TableInv
    <2>3. \A q \in DOMAIN proc' : \E i \in DOMAIN tab' : tab'[i].pid = q /\ tab'[i].name = proc'[q].name
      BY <1>1, SMTT(60) DEF TableInv
    <2> QED BY <2>1, <2>2, <2>3 DEF TableInv
  <1> QED BY <1>3, <1>4

\* The callers' steps in the service layer.
LEMMA ServiceIsQuiet ==
    ASSUME ShapeInv,
           \/ \E p \in DOMAIN proc : ProgramEnds(p) \/ CannotMap(p)
           \/ Exec
           \/ \E pid \in DOMAIN proc : kill(pid)
           \/ \E c \in Callers : ServiceCall(c)
    PROVE  Quiet
  <1>f. {pend, enabled, starting, stop, slipped} \subseteq BOOLEAN
    BY DEF ShapeInv, TypeOK
  <1>l. {"idle", "stop_flag", "start_cas", "start_launch", "start_done"} \subseteq CallerLabels
    BY DEF CallerLabels, Starting, Stopping
  <1>1. ASSUME NEW p \in DOMAIN proc, ProgramEnds(p) \/ CannotMap(p) PROVE Quiet
    <2>1. DriverStep(p, "exit", 0)
      BY <1>1 DEF ProgramEnds, CannotMap
    <2> QED BY <1>f, <2>1 DEF DriverStep, KeepsServices, Quiet, WhoSteps, ProcSteps, QueueSteps
  <1>2. CASE Exec
    BY <1>2, <1>f DEF Exec, Quiet, WhoSteps, ProcSteps, QueueSteps
  <1>3. ASSUME NEW pid \in DOMAIN proc, kill(pid) PROVE Quiet
    <2>1. "blink" \in Callers
      BY CallersAssumption
    <2> QED BY <1>3, <1>f, <1>l, <2>1 DEF kill, Quiet, WhoSteps, ProcSteps, QueueSteps
  <1>4. ASSUME NEW c \in Callers, ServiceCall(c) PROVE Quiet
    <2>1. CASE set_enabled(c)
      BY <2>1, <1>f DEF set_enabled, Quiet, WhoSteps, ProcSteps, QueueSteps
    <2>2. CASE StopCheck(c)
      BY <2>2, <1>f, <1>l DEF StopCheck, Quiet, WhoSteps, ProcSteps, QueueSteps
    <2>3. CASE StartCheck(c)
      BY <2>3, <1>f, <1>l DEF StartCheck, Quiet, WhoSteps, ProcSteps, QueueSteps
    <2>4. CASE StartCas(c)
      BY <2>4, <1>f, <1>l DEF StartCas, Quiet, WhoSteps, ProcSteps, QueueSteps
    <2>5. CASE StartWait(c)
      BY <2>5, <1>f, <1>l DEF StartWait, Quiet, WhoSteps, ProcSteps, QueueSteps
    <2>6. CASE StartDone(c)
      BY <2>6, <1>f, <1>l DEF StartDone, Quiet, WhoSteps, ProcSteps, QueueSteps, Moves, Idle
    <2>7. CASE StopWaitGivesUp(c)
      BY <2>7, <1>f, <1>l DEF StopWaitGivesUp, Quiet, WhoSteps, ProcSteps, QueueSteps, Moves, Idle
    <2> QED BY <1>4, <2>1, <2>2, <2>3, <2>4, <2>5, <2>6, <2>7 DEF ServiceCall, service_dispatch
  <1> QED BY <1>1, <1>2, <1>3, <1>4

-----------------------------------------------------------------------------
(* How many instances there are *)

\* Nothing is launched.
Fewer == (Nobody => Nobody') /\ (AtMostOne => AtMostOne') /\ Waiting' \subseteq Waiting

LEMMA FewerOf ==
    ASSUME Alive' \subseteq Alive, Waiting' \subseteq Waiting
    PROVE  Fewer
  BY DEF Fewer, Nobody, AtMostOne

LEMMA SameAlive ==
    ASSUME ShapeInv, ProcSteps, dev' = dev
    PROVE  Alive' = Alive
  BY QuietProc DEF Alive

LEMMA SameWaiting ==
    ASSUME dev' = dev, queue' = queue
    PROVE  Waiting' = Waiting
  BY DEF Waiting

LEMMA AppendFacts ==
    ASSUME ShapeInv, NEW n \in ProcNames, queue' = Append(queue, n)
    PROVE  /\ \A i \in DOMAIN queue' : i \in DOMAIN queue \/ i = Len(queue) + 1
           /\ \A i \in DOMAIN queue : queue'[i] = queue[i]
           /\ queue'[Len(queue) + 1] = n
  <1>1. queue \in Seq(ProcNames)
    BY DEF ShapeInv
  <1>2. /\ queue' \in Seq(ProcNames) /\ Len(queue') = Len(queue) + 1
        /\ \A i \in 1..Len(queue) : queue'[i] = queue[i]
        /\ queue'[Len(queue) + 1] = n
    BY <1>1, SeqAppend
  <1>3. DOMAIN queue = 1..Len(queue) /\ DOMAIN queue' = 1..(Len(queue) + 1) /\ Len(queue) \in Nat
    BY <1>1, <1>2, SeqShape
  <1>4. \A i \in 1..(Len(queue) + 1) : i \in 1..Len(queue) \/ i = Len(queue) + 1
    BY <1>3, SMTT(60)
  <1> QED BY <1>2, <1>3, <1>4

LEMMA ProgramWaits ==
    ASSUME ShapeInv, dev' = dev, exec_async("program")
    PROVE  Waiting' \subseteq Waiting
  <1>1. "program" \in ProcNames /\ dev # "program"
    BY DEF ProcNames, ShapeInv, TypeOK, Followed
  <1> QED BY <1>1, AppendFacts DEF Waiting, exec_async

LEMMA OneWaits ==
    ASSUME ShapeInv, dev' = dev, proc' = proc, exec_async(dev), Nobody
    PROVE  AtMostOne'
  <1>1. dev \in ProcNames
    BY DEF ProcNames, ShapeInv, TypeOK
  <1>2. Alive' = {}
    BY DEF Alive, Nobody
  <1>3. \A i \in Waiting' : i = Len(queue) + 1
    BY <1>1, AppendFacts DEF Waiting, exec_async, Nobody
  <1> QED BY <1>2, <1>3 DEF AtMostOne

\* The instance that a task takes from the queue is the one that waited there.
LEMMA EntryFewer ==
    ASSUME ShapeInv, TableInv, async_task_entry
    PROVE  Fewer
  <1>1. PICK n \in {dev, "program"} :
             /\ Len(queue) \in Nat /\ Len(queue) >= 1 /\ n = queue[Len(queue)]
             /\ DOMAIN queue' = 1..(Len(queue) - 1)
             /\ \A i \in 1..(Len(queue) - 1) : queue'[i] = queue[i]
             /\ DOMAIN proc' = DOMAIN proc \cup {pids + 1}
             /\ \A p \in DOMAIN proc : proc'[p] = proc[p]
             /\ proc'[pids + 1] = Process(n, "entry", 0)
    BY EntryFacts
  <1>2. dev' = dev /\ dev # "program"
    BY DEF async_task_entry, ShapeInv, TypeOK, Followed
  <1>3. /\ DOMAIN queue = 1..Len(queue) /\ Len(queue) \in DOMAIN queue
        /\ \A i \in 1..(Len(queue) - 1) : i \in DOMAIN queue /\ i # Len(queue)
    BY <1>1, SeqShape, SMTT(60) DEF ShapeInv
  <1>4. Waiting' \subseteq Waiting /\ Len(queue) \notin Waiting'
    BY <1>1, <1>2, <1>3 DEF Waiting
  <1>5. proc'[pids + 1].name = n
    BY <1>1, ProcessFields, SMTT(60)
  <1>6. Alive' \subseteq Alive \cup {pids + 1} /\ (pids + 1 \in Alive' => n = dev)
    BY <1>1, <1>2, <1>5 DEF Alive
  <1>7. CASE n = dev
    <2>1. Len(queue) \in Waiting
      BY <1>1, <1>3, <1>7 DEF Waiting
    <2>2. ~Nobody /\ (AtMostOne => Alive = {} /\ Waiting' = {})
      BY <1>4, <2>1 DEF Nobody, AtMostOne
    <2> QED BY <1>4, <1>6, <2>2 DEF Fewer, AtMostOne
  <1>8. CASE n # dev
    <2>1. Alive' \subseteq Alive
      BY <1>1, <1>2, <1>5, <1>6, <1>8
    <2> QED BY <1>4, <2>1, FewerOf
  <1> QED BY <1>7, <1>8

LEMMA ReturnFewer ==
    ASSUME ShapeInv, NEW p \in DOMAIN proc, exec_blocking_returns(p)
    PROVE  Fewer
  <1>1. Alive' \subseteq Alive
    BY DEF exec_blocking_returns, Alive
  <1>2. Waiting' = Waiting
    BY SameWaiting DEF exec_blocking_returns
  <1> QED BY <1>1, <1>2, FewerOf

-----------------------------------------------------------------------------
(* LaunchInv *)

LEMMA LaunchInvSame ==
    ASSUME LaunchInv, Fewer, UNCHANGED <<starting, slipped, who>>, pend' => pend
    PROVE  LaunchInv'
  BY DEF LaunchInv, Fewer, Starters

\* A caller moves, and neither takes STARTING nor lets it go.
LEMMA LaunchInvMoves ==
    ASSUME ShapeInv, LaunchInv, Fewer, UNCHANGED <<starting, slipped, pend>>,
           NEW c \in Callers, NEW a, NEW x, Moves(c, a, x),
           a # "start_launch", a \in Starting => who[c].at \in Starting,
           pend => a = "idle" /\ x = 0
    PROVE  LaunchInv'
  <1>1. /\ who'[c] = [at |-> a, x |-> x] /\ who'[c].at = a
        /\ \A d \in Callers : d # c => who'[d] = who[d]
    BY MovesFacts
  <1>2. Starters' \subseteq Starters
    BY <1>1 DEF Starters
  <1>3. (\A d, e \in Starters' : d = e) /\ (Starters' # {} => starting')
    BY <1>2 DEF LaunchInv
  <1>4. pend' => Nobody' /\ \A d \in Callers : who'[d] = Idle
    BY <1>1 DEF LaunchInv, Fewer, Idle
  <1>5. ~slipped' => AtMostOne' /\ \A d \in Callers : who'[d].at = "start_launch" => Nobody'
    BY <1>1 DEF LaunchInv, Fewer
  <1> QED BY <1>3, <1>4, <1>5 DEF LaunchInv

LEMMA LaunchInvCas ==
    ASSUME ShapeInv, LaunchInv, NEW c \in Callers, StartCas(c)
    PROVE  LaunchInv'
  <1>1. /\ who[c].at = "start_cas" /\ starting' = TRUE /\ UNCHANGED <<dev, pend, queue, proc>>
        /\ Moves(c, IF starting THEN "idle" ELSE "start_launch", 0)
        /\ slipped' = (slipped \/ (~starting /\ ~Nobody))
    BY DEF StartCas
  <1>2. /\ who'[c].at = IF starting THEN "idle" ELSE "start_launch"
        /\ \A d \in Callers : d # c => who'[d] = who[d]
    BY <1>1, MovesFacts
  <1>3. Alive' = Alive /\ Waiting' = Waiting
    BY <1>1 DEF Alive, Waiting
  <1>4. (Nobody' <=> Nobody) /\ (AtMostOne' <=> AtMostOne)
    BY <1>3 DEF Nobody, AtMostOne
  <1>6. ~pend
    BY <1>1, IdleFields DEF LaunchInv
  <1>7. CASE starting
    <2>1. Starters' \subseteq Starters
      BY <1>2, <1>7 DEF Starters, Starting
    <2> QED BY <1>1, <1>2, <1>4, <1>6, <1>7, <2>1 DEF LaunchInv
  <1>8. CASE ~starting
    <2>1. Starters = {}
      BY <1>8 DEF LaunchInv
    <2>2. Starters' \subseteq {c} /\ \A d \in Callers : who'[d].at = "start_launch" => d = c
      BY <1>2, <2>1 DEF Starters, Starting
    <2>3. ~slipped' => ~slipped /\ Nobody'
      BY <1>1, <1>4, <1>8
    <2> QED BY <1>1, <1>4, <1>6, <2>2, <2>3 DEF LaunchInv
  <1> QED BY <1>7, <1>8

LEMMA LaunchInvDone ==
    ASSUME ShapeInv, LaunchInv, NEW c \in Callers, StartDone(c)
    PROVE  LaunchInv'
  <1>1. who[c].at = "start_done" /\ UNCHANGED <<dev, pend, queue, proc, slipped>> /\ Moves(c, "idle", 0)
    BY DEF StartDone, Moves, Idle
  <1>2. who'[c].at = "idle" /\ \A d \in Callers : d # c => who'[d] = who[d]
    BY <1>1, MovesFacts
  <1>3. Alive' = Alive /\ Waiting' = Waiting
    BY <1>1 DEF Alive, Waiting
  <1>4. (Nobody' <=> Nobody) /\ (AtMostOne' <=> AtMostOne)
    BY <1>3 DEF Nobody, AtMostOne
  <1>5. ~pend
    BY <1>1, IdleFields DEF LaunchInv
  <1>6. Starters' = {}
    <2>1. c \in Starters
      BY <1>1 DEF Starters, Starting
    <2>2. \A d \in Callers : d # c => d \notin Starters
      BY <2>1 DEF LaunchInv
    <2> QED BY <1>2, <2>2 DEF Starters, Starting
  <1> QED BY <1>1, <1>2, <1>4, <1>5, <1>6 DEF LaunchInv

\* The caller that has STARTING launches.
LEMMA LaunchInvLaunch ==
    ASSUME ShapeInv, LaunchInv, NEW c \in Callers, who[c].at = "start_launch",
           exec_async(dev), Moves(c, "start_wait", 0), UNCHANGED <<dev, proc, pend, starting, slipped>>
    PROVE  LaunchInv'
  <1>1. who'[c].at = "start_wait" /\ \A d \in Callers : d # c => who'[d] = who[d]
    BY MovesFacts
  <1>2. c \in Starters /\ ~pend
    BY IdleFields DEF Starters, Starting, LaunchInv
  <1>3. Starters' \subseteq Starters
    BY <1>1, <1>2 DEF Starters
  <1>4. \A d \in Callers : who'[d].at # "start_launch"
    <2>1. \A d \in Callers : d # c => d \notin Starters
      BY <1>2 DEF LaunchInv
    <2> QED BY <1>1, <2>1 DEF Starters, Starting
  <1>5. ~slipped' => AtMostOne'
    BY OneWaits DEF LaunchInv
  <1> QED BY <1>2, <1>3, <1>4, <1>5 DEF LaunchInv

\* The main loop launches while nobody calls.
LEMMA LaunchInvFirst ==
    ASSUME ShapeInv, LaunchInv, \A c \in Callers : who[c] = Idle, slipped \/ Nobody,
           exec_async(dev), UNCHANGED <<dev, proc, starting, slipped, who>>, pend' = FALSE
    PROVE  LaunchInv'
  <1>1. Starters' = {} /\ \A c \in Callers : who'[c].at # "start_launch"
    BY IdleFields DEF Starters, Starting
  <1>2. ~slipped' => AtMostOne'
    BY OneWaits
  <1> QED BY <1>1, <1>2 DEF LaunchInv

LEMMA LaunchInvMailbox ==
    ASSUME ShapeInv, LaunchInv, MailboxStep
    PROVE  LaunchInv'
  <1>1. CASE ProcessMoves \/ Unseen
    <2>1. UNCHANGED <<dev, pend, starting, slipped, queue, who>> /\ ProcSteps
      BY <1>1 DEF ProcessMoves, Unseen, DriverStep, KeepsServices, ProcSteps
    <2>2. Fewer
      BY <2>1, SameAlive, SameWaiting, FewerOf
    <2> QED BY <2>1, <2>2, LaunchInvSame
  <1>2. CASE CallerMoves
    <2>1. PICK c \in Callers : \E a, x :
            /\ Moves(c, a, x) /\ KeepsServices /\ UNCHANGED proc
            /\ a \in CallerLabels \ (Starting \cup Stopping)
            /\ pend \/ dev = "gopd" => a = "idle" /\ x = 0
      BY <1>2 DEF CallerMoves
    <2>2. PICK a, x :
            /\ Moves(c, a, x) /\ KeepsServices /\ UNCHANGED proc
            /\ a \notin Starting /\ (pend => a = "idle" /\ x = 0)
      BY <2>1
    <2>3. UNCHANGED <<dev, pend, starting, slipped, queue>> /\ ProcSteps /\ a # "start_launch"
      BY <2>2 DEF KeepsServices, ProcSteps, Starting
    <2>4. Fewer
      BY <2>3, SameAlive, SameWaiting, FewerOf
    <2> QED BY <2>2, <2>3, <2>4, LaunchInvMoves
  <1>3. CASE SpawnPending(dev)
    <2>1. /\ pend /\ pend' = FALSE /\ UNCHANGED <<dev, starting, slipped, proc, who>> /\ ProcSteps
          /\ exec_async(dev) \/ queue' = queue
      BY <1>3 DEF SpawnPending, ProcSteps
    <2>2. Nobody /\ \A c \in Callers : who[c] = Idle
      BY <2>1 DEF LaunchInv
    <2>3. CASE exec_async(dev)
      BY <2>1, <2>2, <2>3, LaunchInvFirst
    <2>4. CASE queue' = queue
      <3>1. Fewer
        BY <2>1, <2>4, SameAlive, SameWaiting, FewerOf
      <3> QED BY <2>1, <3>1, LaunchInvSame
    <2> QED BY <2>1, <2>3, <2>4
  <1>4. ASSUME NEW c \in Callers, Launch(c, dev) PROVE LaunchInv'
    <2>1. /\ who[c].at = "start_launch" /\ UNCHANGED <<dev, pend, starting, slipped, proc>> /\ ProcSteps
          /\ \/ exec_async(dev) /\ Moves(c, "start_wait", 0)
             \/ queue' = queue /\ Moves(c, "start_done", 0)
      BY <1>4 DEF Launch, ProcSteps
    <2>2. CASE exec_async(dev) /\ Moves(c, "start_wait", 0)
      BY <2>1, <2>2, LaunchInvLaunch
    <2>3. CASE queue' = queue /\ Moves(c, "start_done", 0)
      <3>1. Fewer
        BY <2>1, <2>3, SameAlive, SameWaiting, FewerOf
      <3>2. ~pend /\ who[c].at \in Starting
        BY <2>1, IdleFields DEF LaunchInv, Starting
      <3> QED BY <2>1, <2>3, <3>1, <3>2, LaunchInvMoves
    <2> QED BY <2>1, <2>2, <2>3
  <1>5. ASSUME NEW c \in Callers, RaiseStop(c, dev) \/ Stopped(c, dev) PROVE LaunchInv'
    <2>1. /\ who[c].at \in Stopping /\ UNCHANGED <<dev, pend, starting, slipped, queue, proc>> /\ ProcSteps
          /\ \E a \in {"stop_wait", "idle"} : Moves(c, a, 0)
      BY <1>5 DEF RaiseStop, Stopped, Moves, Idle, ProcSteps, Stopping
    <2>2. PICK a \in {"stop_wait", "idle"} : Moves(c, a, 0)
      BY <2>1
    <2>3. Fewer
      BY <2>1, SameAlive, SameWaiting, FewerOf
    <2>4. ~pend /\ a \notin Starting /\ a # "start_launch"
      BY <2>1, IdleFields DEF LaunchInv, Starting, Stopping
    <2> QED BY <2>1, <2>2, <2>3, <2>4, LaunchInvMoves
  <1> QED BY <1>1, <1>2, <1>3, <1>4, <1>5 DEF MailboxStep, ServiceFunction

LEMMA LaunchInvServices ==
    ASSUME ShapeInv, TableInv, LaunchInv, ServicesNext
    PROVE  LaunchInv'
  <1>1. CASE async_task_entry
    BY <1>1, EntryFewer, LaunchInvSame DEF async_task_entry
  <1>2. ASSUME NEW p \in DOMAIN proc, exec_blocking_returns(p) PROVE LaunchInv'
    BY <1>2, ReturnFewer, LaunchInvSame DEF exec_blocking_returns
  <1>3. ASSUME NEW p \in DOMAIN proc, ProgramEnds(p) \/ CannotMap(p) PROVE LaunchInv'
    <2>1. ProcessMoves
      BY <1>3 DEF ProgramEnds, CannotMap, ProcessMoves
    <2> QED BY <2>1, LaunchInvMailbox DEF MailboxStep
  <1>4. CASE Exec
    <2>1. UNCHANGED <<dev, pend, starting, slipped, who>> /\ ProcSteps /\ exec_async("program")
      BY <1>4 DEF Exec, ProcSteps
    <2>2. Fewer
      BY <2>1, SameAlive, ProgramWaits, FewerOf
    <2> QED BY <2>1, <2>2, LaunchInvSame
  <1>5. ASSUME NEW c \in Callers, set_enabled(c) PROVE LaunchInv'
    <2>1. UNCHANGED <<dev, pend, starting, slipped, who, queue>> /\ ProcSteps
      BY <1>5 DEF set_enabled, ProcSteps
    <2>2. Fewer
      BY <2>1, SameAlive, SameWaiting, FewerOf
    <2> QED BY <2>1, <2>2, LaunchInvSame
  <1>6. ASSUME NEW c \in Callers, StartCas(c) \/ StartDone(c) PROVE LaunchInv'
    BY <1>6, LaunchInvCas, LaunchInvDone
  <1>7. ASSUME NEW c \in Callers,
               StopCheck(c) \/ StartCheck(c) \/ StartWait(c) \/ StopWaitGivesUp(c)
               \/ (c = "blink" /\ \E pid \in DOMAIN proc : kill(pid))
        PROVE  LaunchInv'
    <2>1. PICK a : /\ Moves(c, a, 0) /\ a # "start_launch" /\ (a \in Starting => who[c].at \in Starting)
                   /\ UNCHANGED <<dev, pend, starting, slipped, queue>> /\ ProcSteps
                   /\ Commands(c) \/ who[c].at \in {"start_wait", "stop_wait"}
      <3>1. CASE StopCheck(c) \/ StartCheck(c)
        BY <3>1 DEF StopCheck, StartCheck, ProcSteps, Starting
      <3>2. CASE c = "blink" /\ \E pid \in DOMAIN proc : kill(pid)
        BY <3>2 DEF kill, ProcSteps, Starting
      <3>3. CASE StartWait(c)
        BY <3>3 DEF StartWait, ProcSteps, Starting
      <3>4. CASE StopWaitGivesUp(c)
        BY <3>4 DEF StopWaitGivesUp, ProcSteps, Starting, Moves, Idle
      <3> QED BY <1>7, <3>1, <3>2, <3>3, <3>4
    <2>2. Fewer
      BY <2>1, SameAlive, SameWaiting, FewerOf
    <2>3. ~pend
      BY <2>1, IdleFields DEF LaunchInv, Commands
    <2> QED BY <2>1, <2>2, <2>3, LaunchInvMoves
  <1>b. "blink" \in Callers
    BY CallersAssumption
  <1> QED BY <1>1, <1>2, <1>3, <1>4, <1>5, <1>6, <1>7, <1>b DEF ServicesNext, ServiceCall, service_dispatch

-----------------------------------------------------------------------------
(* The service layer beside a mailbox *)

ServiceLabels == {"idle", "start_cas"} \cup Starting \cup Stopping

\* What a step of the service layer leaves to the driver and its callers: a
\* process in its loop, and a caller in a function of the driver, stay there.
Beside ==
    /\ dev' = dev /\ (slipped => slipped')
    /\ \A p \in Alive' : proc'[p].at \in {"entry", "exit"} \/ (p \in Alive /\ proc'[p] = proc[p])
    /\ \A p \in Alive : proc[p].at \in {"entry", "exit"} \/ (p \in Alive' /\ proc'[p] = proc[p])
    /\ \A c \in Callers : who'[c] = who[c] \/ (who[c].at \in ServiceLabels /\ who'[c].at \in ServiceLabels)

ServiceMoves ==
    /\ dev' = dev /\ (slipped => slipped') /\ proc' = proc
    /\ who' = who \/ \E c \in Callers : \E a \in ServiceLabels :
                       Moves(c, a, 0) /\ who[c].at \in ServiceLabels

LEMMA BesideMoves ==
    ASSUME ShapeInv, ServiceMoves
    PROVE  Beside /\ Alive' = Alive
  <1>1. Alive' = Alive
    BY DEF Alive, ServiceMoves
  <1>2. \A c \in Callers : who'[c] = who[c] \/ (who[c].at \in ServiceLabels /\ who'[c].at \in ServiceLabels)
    <2>1. CASE who' = who
      BY <2>1
    <2>2. ASSUME NEW c \in Callers, NEW a \in ServiceLabels, Moves(c, a, 0), who[c].at \in ServiceLabels
          PROVE  \A d \in Callers : who'[d] = who[d] \/ (who[d].at \in ServiceLabels /\ who'[d].at \in ServiceLabels)
      <3>1. who'[c].at = a /\ \A d \in Callers : d # c => who'[d] = who[d]
        BY <2>2, MovesFacts
      <3> QED BY <2>2, <3>1
    <2> QED BY <2>1, <2>2 DEF ServiceMoves
  <1> QED BY <1>1, <1>2 DEF Beside, ServiceMoves

LEMMA FunctionBeside ==
    ASSUME ShapeInv, ServiceFunction
    PROVE  Beside
  <1>l. {"idle", "start_launch", "start_wait", "start_done", "stop_flag", "stop_wait"} \subseteq ServiceLabels
    BY DEF ServiceLabels, Starting, Stopping
  <1>1. CASE SpawnPending(dev)
    BY <1>1, BesideMoves DEF SpawnPending, ServiceMoves
  <1>2. ASSUME NEW c \in Callers, Launch(c, dev) PROVE Beside
    BY <1>2, <1>l, BesideMoves DEF Launch, ServiceMoves
  <1>3. ASSUME NEW c \in Callers, RaiseStop(c, dev) PROVE Beside
    BY <1>3, <1>l, BesideMoves DEF RaiseStop, ServiceMoves
  <1>4. ASSUME NEW c \in Callers, Stopped(c, dev) PROVE Beside
    BY <1>4, <1>l, BesideMoves DEF Stopped, Moves, Idle, ServiceMoves
  <1> QED BY <1>1, <1>2, <1>3, <1>4 DEF ServiceFunction

LEMMA ServicesBeside ==
    ASSUME ShapeInv, TableInv, ServicesNext
    PROVE  Beside /\ (NewInstance' => NewInstance)
  <1>l. /\ {"idle", "start_cas", "start_launch", "start_wait", "start_done", "stop_flag", "stop_wait"} \subseteq ServiceLabels
        /\ "blink" \in Callers
    BY CallersAssumption DEF ServiceLabels, Starting, Stopping
  <1>1. CASE async_task_entry
    <2>1. PICK n \in {dev, "program"} :
               /\ Len(queue) \in Nat /\ Len(queue) >= 1 /\ n = queue[Len(queue)]
               /\ DOMAIN queue' = 1..(Len(queue) - 1)
               /\ \A i \in 1..(Len(queue) - 1) : queue'[i] = queue[i]
               /\ DOMAIN proc' = DOMAIN proc \cup {pids + 1}
               /\ \A p \in DOMAIN proc : proc'[p] = proc[p]
               /\ proc'[pids + 1] = Process(n, "entry", 0)
      BY <1>1, EntryFacts
    <2>2. proc'[pids + 1].name = n /\ proc'[pids + 1].at = "entry"
      BY <2>1, ProcessFields, SMTT(60)
    <2>3. dev' = dev /\ slipped' = slipped /\ who' = who
      BY <1>1 DEF async_task_entry
    <2>4. /\ \A p \in Alive' : p \in Alive \/ p = pids + 1
          /\ \A p \in Alive : p \in Alive'
      BY <2>1, <2>3 DEF Alive
    <2>5. \A p \in Alive : proc'[p] = proc[p]
      BY <2>1 DEF Alive
    <2>6. Waiting' \subseteq Waiting
      BY <1>1, EntryFewer DEF Fewer
    <2>7. pids + 1 \in Alive' => n = dev
      BY <2>2, <2>3 DEF Alive
    <2>8. Len(queue) \in DOMAIN queue
      BY <2>1, SeqShape, SMTT(60) DEF ShapeInv
    <2>9. n = dev => Waiting # {}
      BY <2>1, <2>8 DEF Waiting
    <2> QED BY <2>2, <2>3, <2>4, <2>5, <2>6, <2>7, <2>9 DEF Beside, NewInstance
  <1>2. ASSUME NEW p \in DOMAIN proc, exec_blocking_returns(p)
        PROVE  Beside /\ (NewInstance' => NewInstance)
    <2>1. DOMAIN proc' = DOMAIN proc \ {p} /\ \A q \in DOMAIN proc' : proc'[q] = proc[q]
      BY <1>2, ReturnFacts
    <2>2. dev' = dev /\ slipped' = slipped /\ who' = who /\ queue' = queue /\ proc[p].at = "exit"
      BY <1>2 DEF exec_blocking_returns
    <2>3. Waiting' = Waiting /\ Alive' = Alive \ {p} /\ \A q \in Alive' : proc'[q] = proc[q]
      BY <2>1, <2>2 DEF Waiting, Alive
    <2> QED BY <2>2, <2>3 DEF Beside, NewInstance
  <1>3. ASSUME NEW p \in DOMAIN proc, ProgramEnds(p) \/ CannotMap(p)
        PROVE  Beside /\ (NewInstance' => NewInstance)
    <2>1. DriverStep(p, "exit", 0) /\ proc[p].at = "entry"
      BY <1>3 DEF ProgramEnds, CannotMap, At
    <2>2. /\ DOMAIN proc' = DOMAIN proc
          /\ proc'[p] = Process(proc[p].name, "exit", 0)
          /\ \A q \in DOMAIN proc : q # p => proc'[q] = proc[q]
      BY <2>1, StepsFacts DEF DriverStep
    <2>3. proc'[p].name = proc[p].name /\ proc'[p].at = "exit"
      BY <2>2, ProcessFields, SMTT(60)
    <2>4. dev' = dev /\ slipped' = slipped /\ who' = who /\ queue' = queue
      BY <2>1 DEF DriverStep, KeepsServices
    <2>5. Waiting' = Waiting /\ Alive' = Alive /\ \A q \in Alive : q # p => proc'[q] = proc[q]
      BY <2>2, <2>3, <2>4 DEF Waiting, Alive
    <2> QED BY <2>1, <2>3, <2>4, <2>5 DEF Beside, NewInstance
  <1>4. ASSUME Exec \/ (\E pid \in DOMAIN proc : kill(pid)) \/ \E c \in Callers : ServiceCall(c)
        PROVE  Beside /\ (NewInstance' => NewInstance)
    <2>1. ServiceMoves /\ (exec_async("program") \/ queue' = queue)
      <3>1. CASE Exec
        BY <3>1 DEF Exec, ServiceMoves
      <3>2. ASSUME NEW pid \in DOMAIN proc, kill(pid) PROVE ServiceMoves /\ queue' = queue
        BY <3>2, <1>l, IdleFields DEF kill, Commands, ServiceMoves
      <3>3. ASSUME NEW c \in Callers, ServiceCall(c) PROVE ServiceMoves /\ queue' = queue
        <4>1. CASE set_enabled(c)
          BY <4>1 DEF set_enabled, ServiceMoves
        <4>2. CASE StopCheck(c)
          BY <4>2, <1>l, IdleFields DEF StopCheck, Commands, ServiceMoves
        <4>3. CASE StartCheck(c)
          BY <4>3, <1>l, IdleFields DEF StartCheck, Commands, ServiceMoves
        <4>4. CASE StartCas(c)
          BY <4>4, <1>l DEF StartCas, ServiceMoves
        <4>5. CASE StartWait(c)
          BY <4>5, <1>l DEF StartWait, ServiceMoves
        <4>6. CASE StartDone(c)
          BY <4>6, <1>l DEF StartDone, Moves, Idle, ServiceMoves
        <4>7. CASE StopWaitGivesUp(c)
          BY <4>7, <1>l DEF StopWaitGivesUp, Moves, Idle, ServiceMoves
        <4> QED BY <3>3, <4>1, <4>2, <4>3, <4>4, <4>5, <4>6, <4>7 DEF ServiceCall, service_dispatch
      <3> QED BY <1>4, <3>1, <3>2, <3>3
    <2>2. Beside /\ Alive' = Alive
      BY <2>1, BesideMoves
    <2>3. Waiting' \subseteq Waiting
      BY <2>1, ProgramWaits, SameWaiting DEF ServiceMoves
    <2> QED BY <2>1, <2>2, <2>3 DEF NewInstance, ServiceMoves
  <1> QED BY <1>1, <1>2, <1>3, <1>4 DEF ServicesNext

\* The one instance of a driver takes a step.
LEMMA OnlyStep ==
    ASSUME ShapeInv, AtMostOne, NEW p, NEW b, At(p, b), NEW a, NEW v, DriverStep(p, a, v)
    PROVE  /\ Alive = {p} /\ Alive' = {p} /\ Waiting = {} /\ Waiting' = {}
           /\ proc[p].at = b /\ proc'[p].at = a /\ proc'[p].v = v
           /\ dev' = dev /\ slipped' = slipped /\ who' = who
  <1>1. p \in DOMAIN proc /\ proc[p].name = dev /\ proc[p].at = b
    BY DEF At
  <1>2. Steps(p, a, v) /\ dev' = dev /\ slipped' = slipped /\ who' = who /\ queue' = queue
    BY DEF DriverStep, KeepsServices
  <1>3. DOMAIN proc' = DOMAIN proc /\ proc'[p] = Process(proc[p].name, a, v)
    BY <1>1, <1>2, StepsFacts
  <1>4. proc'[p].at = a /\ proc'[p].v = v
    BY <1>3, ProcessFields, SMTT(60)
  <1>5. Alive = {p} /\ Waiting = {}
    BY <1>1 DEF Alive, AtMostOne
  <1>6. Alive' = Alive /\ Waiting' = Waiting
    BY <1>1, <1>2, SameAlive, SameWaiting DEF ProcSteps
  <1> QED BY <1>1, <1>2, <1>4, <1>5, <1>6

-----------------------------------------------------------------------------
(* The sound *)

AudioFields == {"req", "buf", "volume", "playing", "run", "gain", "asked", "clips", "over", "heard"}
IsAudio(g) ==
    /\ DOMAIN g = AudioFields
    /\ g.playing \in BOOLEAN /\ g.over \in BOOLEAN
    /\ g.asked \in Nat /\ g.clips \in Nat /\ g.buf \in [1..BUFFER -> Nat]
IsAudioLocal(v) == DOMAIN v = {"volume", "words", "drain", "req"}
Looping == {"top", "req", "begin", "advance"}
Ready(g, clip) == ~g.playing /\ \A i \in 1..WORDS(clip) : g.buf[i] = clip
Whole(h) == h.over \/ h.clip = 0 \/ h.words = [i \in 1..WORDS(h.clip) |-> h.clip]

\* With one instance the stream runs as long as a driver is there to halt it,
\* and until the next samples are written (over says how) a request that
\* waits, and the one a driver has picked up, are for those in the buffer.
AudioInv ==
    dev = "hdad" /\ ~slipped =>
      /\ IsAudio(box)
      /\ who["blink"].at \in {"play_wait", "play_req"} => who["blink"].x \in Nat
      /\ \A p \in Alive : proc[p].at \in Looping =>
           IsAudioLocal(proc[p].v) /\ box.gain = Gain(proc[p].v.volume)
      /\ box.run = box.playing
      /\ box.playing => \E p \in Alive : proc[p].at \in Looping
      /\ \A p \in Alive : proc[p].at = "begin" => box.req # 0 /\ (~box.over => proc[p].v.req = box.req)
      /\ ~box.over /\ box.req # 0 => Ready(box, box.asked) /\ box.req = WORDS(box.asked)
      /\ ~box.over /\ who["blink"].at = "play_req" => Ready(box, who["blink"].x) /\ box.req = 0
      /\ Whole(box.heard)

-----------------------------------------------------------------------------
(* AudioInv *)

LEMMA WordsFacts ==
    ASSUME NEW clip \in Nat
    PROVE  WORDS(clip) \in 1..BUFFER /\ WORDS(clip) # 0
  BY SMTT(60) DEF WORDS, BUFFER

LEMMA FilledFacts ==
    ASSUME NEW b \in [1..BUFFER -> Nat], NEW n, NEW x \in Nat
    PROVE  /\ Filled(b, n, x) \in [1..BUFFER -> Nat]
           /\ \A i \in 1..BUFFER : i <= n => Filled(b, n, x)[i] = x
  BY DEF Filled

LEMMA ReadyFilled ==
    ASSUME NEW b \in [1..BUFFER -> Nat], NEW clip \in Nat
    PROVE  \A i \in 1..WORDS(clip) : Filled(b, WORDS(clip), clip)[i] = clip
  <1>1. PICK n \in 1..BUFFER : n = WORDS(clip)
    BY WordsFacts
  <1>2. \A i \in 1..n : i \in 1..BUFFER /\ i <= n
    BY SMTT(60) DEF BUFFER
  <1> QED BY <1>1, <1>2, FilledFacts

\* What the controller starts to play is the front of the buffer.
LEMMA FrontOfBuffer ==
    ASSUME NEW b \in [1..BUFFER -> Nat], NEW n \in 1..BUFFER, NEW x, \A i \in 1..n : b[i] = x
    PROVE  SubSeq(b, 1, n) = [i \in 1..n |-> x]
  <1>1. n \in Nat /\ \A i \in 1..n : i \in 1..BUFFER
    BY SMTT(60) DEF BUFFER
  <1>2. \A i \in 1..n : b[i] \in Nat
    BY <1>1
  <1>3. PICK s : s = SubSeq(b, 1, n)
    OBVIOUS
  <1>4. /\ s \in Seq(Nat) /\ Len(s) = IF 1 <= n THEN n - 1 + 1 ELSE 0
        /\ \A i \in 1..(n - 1 + 1) : s[i] = b[1 + i - 1]
    BY <1>1, <1>2, <1>3, SeqCut, SMTT(60)
  <1>5. Len(s) = n /\ \A i \in 1..n : s[i] = b[i]
    BY <1>1, <1>4, SMTT(60)
  <1>6. s = [i \in DOMAIN s |-> s[i]] /\ DOMAIN s = 1..n
    BY <1>4, <1>5, SMTT(60)
  <1> QED BY <1>3, <1>5, <1>6

LEMMA AudioInvBeside ==
    ASSUME AudioInv, Beside, box' = box
    PROVE  AudioInv'
  <1>1. SUFFICES ASSUME dev = "hdad", ~slipped PROVE AudioInv'
    BY DEF AudioInv, Beside
  <1>2. /\ {"play_wait", "play_req"} \cap ServiceLabels = {} /\ {"entry", "exit"} \cap Looping = {}
        /\ "begin" \in Looping /\ "blink" \in Callers
    BY CallersAssumption DEF ServiceLabels, Starting, Stopping, Looping
  <1>3. who'["blink"].at \in {"play_wait", "play_req"} => who'["blink"] = who["blink"]
    BY <1>2 DEF Beside
  <1>4. \A p \in Alive' : proc'[p].at \in Looping => p \in Alive /\ proc'[p] = proc[p]
    BY <1>2 DEF Beside
  <1>5. (\E p \in Alive : proc[p].at \in Looping) => \E p \in Alive' : proc'[p].at \in Looping
    BY <1>2 DEF Beside
  <1>6. /\ IsAudio(box) /\ box.run = box.playing /\ Whole(box.heard)
        /\ ~box.over /\ box.req # 0 => Ready(box, box.asked) /\ box.req = WORDS(box.asked)
    BY <1>1 DEF AudioInv
  <1>7. /\ who'["blink"].at \in {"play_wait", "play_req"} => who'["blink"].x \in Nat
        /\ ~box.over /\ who'["blink"].at = "play_req" => Ready(box, who'["blink"].x) /\ box.req = 0
    BY <1>1, <1>3 DEF AudioInv
  <1>8. /\ \A p \in Alive' : proc'[p].at \in Looping => IsAudioLocal(proc'[p].v) /\ box.gain = Gain(proc'[p].v.volume)
        /\ \A p \in Alive' : proc'[p].at = "begin" => box.req # 0 /\ (~box.over => proc'[p].v.req = box.req)
        /\ box.playing => \E p \in Alive' : proc'[p].at \in Looping
    BY <1>1, <1>2, <1>4, <1>5 DEF AudioInv
  <1> QED BY <1>6, <1>7, <1>8 DEF AudioInv

\* The steps of the desktop: a setting, and the three of a clip.
LEMMA AudioCall ==
    ASSUME ShapeInv, AudioInv, dev = "hdad", (\E x \in LEVELS : set_volume(x)) \/ play_pcm
    PROVE  AudioInv'
  <1>0. PICK a \in {"idle", "play_wait"} :
          \E y : KernelCall("blink", "hdad", a, y) /\ (a = "play_wait" => y = box.clips + 1)
    BY DEF set_volume, play_pcm
  <1>1. PICK x : KernelCall("blink", "hdad", a, x) /\ (a = "play_wait" => x = box.clips + 1)
    BY <1>0
  <1>2. Moves("blink", a, x) /\ UNCHANGED <<dev, slipped, proc>> /\ "blink" \in Callers
    BY <1>1, CallersAssumption DEF KernelCall, KeepsServices
  <1>3. SUFFICES ASSUME ~slipped PROVE AudioInv'
    BY <1>2 DEF AudioInv
  <1>4. IsAudio(box)
    BY <1>3 DEF AudioInv
  <1>5. PICK n \in Nat : n = box.clips + 1
    <2>1. box.clips \in Nat
      BY <1>4 DEF IsAudio
    <2>2. box.clips + 1 \in Nat
      BY <2>1, SMTT(60)
    <2> QED BY <2>2
  <1>6. (\E y : box' = [box EXCEPT !.volume = y]) \/ box' = [box EXCEPT !.clips = n]
    BY <1>5 DEF set_volume, play_pcm
  <1>7. /\ IsAudio(box') /\ box'.req = box.req /\ box'.buf = box.buf /\ box'.playing = box.playing
        /\ box'.run = box.run /\ box'.gain = box.gain /\ box'.asked = box.asked
        /\ box'.over = box.over /\ box'.heard = box.heard
    BY <1>4, <1>6 DEF IsAudio, AudioFields
  <1>8. who'["blink"].at = a /\ who'["blink"].x = x
    BY <1>2, MovesFacts
  <1>9. Alive' = Alive
    BY <1>2 DEF Alive
  <1>10. Ready(box, box.asked) => Ready(box', box'.asked)
    BY <1>7 DEF Ready
  <1>11. who'["blink"].at \in {"play_wait", "play_req"} => who'["blink"].x \in Nat
    BY <1>1, <1>5, <1>8
  <1> QED BY <1>2, <1>3, <1>7, <1>8, <1>9, <1>10, <1>11 DEF AudioInv

LEMMA AudioCopies ==
    ASSUME ShapeInv, AudioInv, dev = "hdad", PlayCopies
    PROVE  AudioInv'
  <1>1. PICK clip : clip = who["blink"].x
    OBVIOUS
  <1>2. /\ Moves("blink", "play_req", clip) /\ UNCHANGED <<dev, slipped, proc>> /\ "blink" \in Callers
        /\ who["blink"].at = "play_wait"
    BY <1>1, CallersAssumption DEF PlayCopies, KernelStep, KeepsServices
  <1>3. SUFFICES ASSUME ~slipped PROVE AudioInv'
    BY <1>2 DEF AudioInv
  <1>4. IsAudio(box) /\ clip \in Nat
    BY <1>1, <1>2, <1>3 DEF AudioInv
  <1>5. PICK f \in [1..BUFFER -> Nat] : f = Filled(box.buf, WORDS(clip), clip) /\ \A i \in 1..WORDS(clip) : f[i] = clip
    <2>1. PICK g \in [1..BUFFER -> Nat] : g = box.buf
      BY <1>4 DEF IsAudio
    <2>2. Filled(g, WORDS(clip), clip) \in [1..BUFFER -> Nat]
      BY <1>4, FilledFacts
    <2>3. \A i \in 1..WORDS(clip) : Filled(g, WORDS(clip), clip)[i] = clip
      BY <1>4, ReadyFilled
    <2> QED BY <2>1, <2>2, <2>3
  <1>6. PICK o \in BOOLEAN : o = (box.playing \/ box.req # 0)
    OBVIOUS
  <1>7. box' = [box EXCEPT !.buf = f, !.over = o]
    BY <1>1, <1>5, <1>6 DEF PlayCopies
  <1>8. /\ IsAudio(box') /\ box'.req = box.req /\ box'.buf = f /\ box'.playing = box.playing
        /\ box'.run = box.run /\ box'.gain = box.gain /\ box'.asked = box.asked
        /\ box'.over = o /\ box'.heard = box.heard
    BY <1>4, <1>5, <1>6, <1>7 DEF IsAudio, AudioFields
  <1>9. who'["blink"].at = "play_req" /\ who'["blink"].x = clip
    BY <1>2, MovesFacts
  <1>10. Alive' = Alive
    BY <1>2 DEF Alive
  <1>11. ~o => Ready(box', clip) /\ box.req = 0
    BY <1>5, <1>6, <1>8 DEF Ready
  <1> QED BY <1>2, <1>3, <1>4, <1>6, <1>8, <1>9, <1>10, <1>11 DEF AudioInv

LEMMA AudioAsks ==
    ASSUME ShapeInv, AudioInv, dev = "hdad", PlayRequests
    PROVE  AudioInv'
  <1>1. PICK clip : clip = who["blink"].x
    OBVIOUS
  <1>2. /\ Moves("blink", "idle", 0) /\ UNCHANGED <<dev, slipped, proc>> /\ "blink" \in Callers
        /\ who["blink"].at = "play_req"
    BY CallersAssumption DEF PlayRequests, KernelStep, KeepsServices
  <1>3. SUFFICES ASSUME ~slipped PROVE AudioInv'
    BY <1>2 DEF AudioInv
  <1>4. IsAudio(box) /\ clip \in Nat
    BY <1>1, <1>2, <1>3 DEF AudioInv
  <1>5. PICK n : n = WORDS(clip) /\ n # 0
    BY <1>4, WordsFacts
  <1>6. box' = [box EXCEPT !.req = n, !.asked = clip]
    BY <1>1, <1>5 DEF PlayRequests
  <1>7. /\ IsAudio(box') /\ box'.req = n /\ box'.buf = box.buf /\ box'.playing = box.playing
        /\ box'.run = box.run /\ box'.gain = box.gain /\ box'.asked = clip
        /\ box'.over = box.over /\ box'.heard = box.heard
    BY <1>4, <1>6 DEF IsAudio, AudioFields
  <1>8. who'["blink"].at = "idle"
    BY <1>2, MovesFacts
  <1>9. Alive' = Alive
    BY <1>2 DEF Alive
  <1>10. ~box.over => Ready(box', clip) /\ \A p \in Alive : proc[p].at # "begin"
    BY <1>1, <1>2, <1>3, <1>7 DEF AudioInv, Ready
  <1> QED BY <1>2, <1>3, <1>5, <1>7, <1>8, <1>9, <1>10 DEF AudioInv

\* The steps of hdad.
LEMMA AudioInvDriver ==
    ASSUME ShapeInv, LaunchInv, AudioInv, dev = "hdad", NEW p, AudioDriver(p)
    PROVE  AudioInv'
  <1>1. PICK b, a, v : At(p, b) /\ DriverStep(p, a, v)
    BY DEF AudioDriver, AudioStart, AudioExit, AudioVolume, AudioRequest, AudioBegin, AudioAdvance
  <1>2. dev' = dev /\ slipped' = slipped /\ who' = who
    BY <1>1 DEF DriverStep, KeepsServices
  <1>s. SUFFICES ASSUME ~slipped PROVE AudioInv'
    BY <1>2 DEF AudioInv
  <1>o. AtMostOne
    BY <1>s DEF LaunchInv
  <1>i. /\ IsAudio(box) /\ box.run = box.playing /\ Whole(box.heard)
        /\ who["blink"].at \in {"play_wait", "play_req"} => who["blink"].x \in Nat
        /\ ~box.over /\ box.req # 0 => Ready(box, box.asked) /\ box.req = WORDS(box.asked)
        /\ ~box.over /\ who["blink"].at = "play_req" => Ready(box, who["blink"].x) /\ box.req = 0
        /\ \A q \in Alive : proc[q].at \in Looping =>
             IsAudioLocal(proc[q].v) /\ box.gain = Gain(proc[q].v.volume)
        /\ \A q \in Alive : proc[q].at = "begin" => box.req # 0 /\ (~box.over => proc[q].v.req = box.req)
        /\ box.playing => \E q \in Alive : proc[q].at \in Looping
    BY <1>s DEF AudioInv
  <1>l. Looping = {"top", "req", "begin", "advance"}
    BY DEF Looping
  <1>3. CASE AudioStart(p)
    <2>1. PICK w, x : w = [volume |-> x, words |-> 0, drain |-> FALSE, req |-> 0] /\ x = box.volume
      OBVIOUS
    <2>2. At(p, "entry") /\ DriverStep(p, "top", w) /\ box' = [box EXCEPT !.gain = Gain(x)]
      BY <1>3, <2>1 DEF AudioStart, send_verb
    <2>3. Alive = {p} /\ Alive' = {p} /\ proc'[p].at = "top" /\ proc'[p].v = w
      BY <1>o, <2>2, OnlyStep
    <2>4. IsAudioLocal(w) /\ w.volume = x
      BY <2>1, SMTT(60) DEF IsAudioLocal
    <2>5. /\ IsAudio(box') /\ box'.req = box.req /\ box'.buf = box.buf /\ box'.playing = box.playing
          /\ box'.run = box.run /\ box'.gain = Gain(x) /\ box'.asked = box.asked
          /\ box'.over = box.over /\ box'.heard = box.heard
      BY <1>i, <2>2 DEF IsAudio, AudioFields
    <2>6. \A clip : Ready(box, clip) => Ready(box', clip)
      BY <2>5 DEF Ready
    <2> QED BY <1>2, <1>i, <1>l, <2>3, <2>4, <2>5, <2>6 DEF AudioInv
  <1>4. CASE AudioExit(p)
    <2>1. PICK r \in BOOLEAN : r = (box.run /\ ~box.playing)
      OBVIOUS
    <2>2. At(p, "top") /\ DriverStep(p, "exit", 0) /\ box' = [box EXCEPT !.run = r, !.playing = FALSE]
      BY <1>4, <2>1 DEF AudioExit
    <2>3. Alive = {p} /\ Alive' = {p} /\ proc'[p].at = "exit"
      BY <1>o, <2>2, OnlyStep
    <2>4. r = FALSE
      BY <1>i, <2>1
    <2>5. /\ IsAudio(box') /\ box'.req = box.req /\ box'.buf = box.buf /\ box'.playing = FALSE
          /\ box'.run = FALSE /\ box'.asked = box.asked
          /\ box'.over = box.over /\ box'.heard = box.heard
      BY <1>i, <2>2, <2>4 DEF IsAudio, AudioFields
    <2>6. \A clip : Ready(box, clip) => Ready(box', clip)
      BY <2>5 DEF Ready
    <2> QED BY <1>2, <1>i, <1>l, <2>3, <2>5, <2>6 DEF AudioInv
  <1>5. CASE AudioVolume(p)
    <2>1. PICK u, x, w : u = proc[p].v /\ x = box.volume /\ w = [u EXCEPT !.volume = x]
      OBVIOUS
    <2>2. /\ At(p, "top") /\ DriverStep(p, "req", w)
          /\ box' = IF x # u.volume THEN [box EXCEPT !.gain = Gain(x)] ELSE box
      BY <1>5, <2>1 DEF AudioVolume, send_verb
    <2>3. Alive = {p} /\ Alive' = {p} /\ proc[p].at = "top" /\ proc'[p].at = "req" /\ proc'[p].v = w
      BY <1>o, <2>2, OnlyStep
    <2>4. IsAudioLocal(u) /\ box.gain = Gain(u.volume)
      BY <1>i, <1>l, <2>1, <2>3
    <2>5. IsAudioLocal(w) /\ w.volume = x
      BY <2>1, <2>4 DEF IsAudioLocal
    <2>6. /\ IsAudio(box') /\ box'.req = box.req /\ box'.buf = box.buf /\ box'.playing = box.playing
          /\ box'.run = box.run /\ box'.gain = Gain(x) /\ box'.asked = box.asked
          /\ box'.over = box.over /\ box'.heard = box.heard
      <3>1. CASE x = u.volume
        BY <1>i, <2>2, <2>4, <3>1
      <3>2. CASE x # u.volume
        BY <1>i, <2>2, <3>2 DEF IsAudio, AudioFields
      <3> QED BY <3>1, <3>2
    <2>7. \A clip : Ready(box, clip) => Ready(box', clip)
      BY <2>6 DEF Ready
    <2> QED BY <1>2, <1>i, <1>l, <2>3, <2>5, <2>6, <2>7 DEF AudioInv
  <1>6. CASE AudioRequest(p)
    <2>1. PICK u, n, w, c : /\ u = proc[p].v /\ n = box.req /\ w = [u EXCEPT !.req = n]
                            /\ c = IF n # 0 THEN "begin" ELSE "advance"
      OBVIOUS
    <2>2. PICK f \in [1..BUFFER -> Nat] : f = Filled(box.buf, u.words, 0)
      BY <1>i, FilledFacts DEF IsAudio
    <2>3. /\ At(p, "req") /\ DriverStep(p, c, w)
          /\ box' = IF n # 0 /\ box.playing THEN [box EXCEPT !.buf = f] ELSE box
      BY <1>6, <2>1, <2>2 DEF AudioRequest
    <2>4. Alive = {p} /\ Alive' = {p} /\ proc[p].at = "req" /\ proc'[p].at = c /\ proc'[p].v = w
      BY <1>o, <2>3, OnlyStep
    <2>5. IsAudioLocal(u) /\ box.gain = Gain(u.volume)
      BY <1>i, <1>l, <2>1, <2>4
    <2>6. IsAudioLocal(w) /\ w.volume = u.volume /\ w.req = n
      BY <2>1, <2>5 DEF IsAudioLocal
    <2>7. /\ IsAudio(box') /\ box'.req = n /\ box'.playing = box.playing
          /\ box'.run = box.run /\ box'.gain = box.gain /\ box'.asked = box.asked
          /\ box'.over = box.over /\ box'.heard = box.heard
          /\ ~box.playing => box'.buf = box.buf
      <3>1. CASE ~(n # 0 /\ box.playing)
        <4>1. box' = box
          BY <2>3, <3>1
        <4> QED BY <1>i, <2>1, <4>1
      <3>2. CASE n # 0 /\ box.playing
        BY <1>i, <2>1, <2>2, <2>3, <3>2 DEF IsAudio, AudioFields
      <3> QED BY <3>1, <3>2
    <2>8. \A clip : Ready(box, clip) => Ready(box', clip)
      BY <2>7 DEF Ready
    <2>9. c \in Looping /\ (c = "begin" => n # 0)
      BY <1>l, <2>1
    <2>10. ~box.over /\ n # 0 => Ready(box', box'.asked) /\ n = WORDS(box'.asked)
      BY <1>i, <2>1, <2>7, <2>8
    <2>11. ~box.over /\ who["blink"].at = "play_req" => Ready(box', who["blink"].x) /\ n = 0
      BY <1>i, <2>1, <2>8
    <2> QED BY <1>2, <1>i, <2>4, <2>5, <2>6, <2>7, <2>9, <2>10, <2>11 DEF AudioInv
  <1>7. CASE AudioBegin(p)
    <2>1. PICK u, n, x : u = proc[p].v /\ n = u.req /\ x = u.volume
      OBVIOUS
    <2>2. PICK w, s, h : /\ w = [u EXCEPT !.words = n, !.drain = FALSE] /\ s = SubSeq(box.buf, 1, n)
                         /\ h = [words |-> s, clip |-> box.asked, over |-> box.over]
      OBVIOUS
    <2>3. /\ At(p, "begin") /\ DriverStep(p, "advance", w)
          /\ box' = [[box EXCEPT !.gain = Gain(x)] EXCEPT !.run = TRUE, !.playing = TRUE, !.req = 0, !.heard = h]
      BY <1>7, <2>1, <2>2 DEF AudioBegin, send_verb
    <2>4. Alive = {p} /\ Alive' = {p} /\ proc[p].at = "begin" /\ proc'[p].at = "advance" /\ proc'[p].v = w
      BY <1>o, <2>3, OnlyStep
    <2>5. IsAudioLocal(u) /\ box.req # 0 /\ (~box.over => n = box.req)
      BY <1>i, <1>l, <2>1, <2>4
    <2>6. IsAudioLocal(w) /\ w.volume = x
      BY <2>1, <2>2, <2>5 DEF IsAudioLocal
    <2>7. /\ IsAudio(box') /\ box'.req = 0 /\ box'.playing = TRUE /\ box'.run = TRUE
          /\ box'.gain = Gain(x) /\ box'.over = box.over /\ box'.heard = h
      BY <1>i, <2>3 DEF IsAudio, AudioFields
    <2>8. Whole(h)
      <3>1. h.words = s /\ h.clip = box.asked /\ h.over = box.over
        BY <2>2
      <3>2. SUFFICES ASSUME ~box.over PROVE h.words = [i \in 1..WORDS(h.clip) |-> h.clip]
        BY <3>1 DEF Whole
      <3>3. PICK f \in [1..BUFFER -> Nat], c \in Nat : f = box.buf /\ c = box.asked
        BY <1>i DEF IsAudio
      <3>4. n = WORDS(c) /\ \A i \in 1..WORDS(c) : f[i] = c
        BY <1>i, <2>5, <3>2, <3>3 DEF Ready
      <3>5. SubSeq(f, 1, WORDS(c)) = [i \in 1..WORDS(c) |-> c]
        <4>1. PICK k \in 1..BUFFER : k = WORDS(c)
          BY WordsFacts
        <4>2. \A i \in 1..k : f[i] = c
          BY <3>4, <4>1
        <4>3. SubSeq(f, 1, k) = [i \in 1..k |-> c]
          BY <4>2, FrontOfBuffer, SMTT(60)
        <4> QED BY <4>1, <4>3
      <3> QED BY <2>2, <3>1, <3>3, <3>4, <3>5
    <2>9. box.over \/ who["blink"].at # "play_req"
      BY <1>i, <2>5
    <2> QED BY <1>2, <1>i, <1>l, <2>4, <2>6, <2>7, <2>8, <2>9 DEF AudioInv
  <1>8. CASE AudioAdvance(p)
    <2>1. PICK u : u = proc[p].v
      OBVIOUS
    <2>2. PICK f \in [1..BUFFER -> Nat] : f = Filled(box.buf, u.words, 0)
      BY <1>i, FilledFacts DEF IsAudio
    <2>3. PICK w : /\ At(p, "advance") /\ DriverStep(p, "top", w)
                   /\ w = u \/ \E d : w = [u EXCEPT !.drain = d]
                   /\ \/ box' = box
                      \/ box.playing /\ box' = [box EXCEPT !.buf = f]
                      \/ box.playing /\ box' = [box EXCEPT !.run = FALSE, !.playing = FALSE]
      BY <1>8, <2>1, <2>2 DEF AudioAdvance
    <2>4. Alive = {p} /\ Alive' = {p} /\ proc[p].at = "advance" /\ proc'[p].at = "top" /\ proc'[p].v = w
      BY <1>o, <2>3, OnlyStep
    <2>5. IsAudioLocal(u) /\ box.gain = Gain(u.volume)
      BY <1>i, <1>l, <2>1, <2>4
    <2>6. IsAudioLocal(w) /\ w.volume = u.volume
      BY <2>3, <2>5 DEF IsAudioLocal
    <2>7. /\ IsAudio(box') /\ box'.req = box.req /\ box'.run = box'.playing
          /\ box'.gain = box.gain /\ box'.asked = box.asked
          /\ box'.over = box.over /\ box'.heard = box.heard
          /\ ~box.playing => box' = box
      BY <1>i, <2>2, <2>3 DEF IsAudio, AudioFields
    <2>8. \A clip : Ready(box, clip) => Ready(box', clip)
      BY <2>7 DEF Ready
    <2> QED BY <1>2, <1>i, <1>l, <2>4, <2>5, <2>6, <2>7, <2>8 DEF AudioInv
  <1> QED BY <1>3, <1>4, <1>5, <1>6, <1>7, <1>8 DEF AudioDriver

LEMMA AudioInvAudio ==
    ASSUME ShapeInv, LaunchInv, AudioInv, AudioNext
    PROVE  AudioInv'
  <1>d. dev = "hdad"
    BY AudioStep
  <1>1. CASE ServiceFunction /\ UNCHANGED box
    BY <1>1, FunctionBeside, AudioInvBeside
  <1>2. CASE hda_spawn_pending_driver
    BY <1>1, <1>2, <1>d DEF hda_spawn_pending_driver, ServiceFunction
  <1>3. CASE \E c \in Callers : hda_start_service(c) \/ hda_stop_service(c)
    BY <1>1, <1>3, <1>d DEF hda_start_service, hda_stop_service, ServiceFunction
  <1>4. CASE (\E x \in LEVELS : set_volume(x)) \/ play_pcm
    BY <1>4, <1>d, AudioCall
  <1>5. CASE PlayCopies \/ PlayRequests
    BY <1>5, <1>d, AudioCopies, AudioAsks
  <1>6. ASSUME NEW p \in DOMAIN proc, AudioDriver(p) PROVE AudioInv'
    BY <1>6, <1>d, AudioInvDriver
  <1> QED BY <1>2, <1>3, <1>4, <1>5, <1>6 DEF AudioNext

LEMMA AudioInvInit ==
    ASSUME ServicesInit, AudioInit
    PROVE  AudioInv
  <1>3. PICK f, h : f = [i \in 1..BUFFER |-> 0] /\ h = [words |-> <<>>, clip |-> 0, over |-> FALSE]
    OBVIOUS
  <1>4. f \in [1..BUFFER -> Nat] /\ h.clip = 0
    BY <1>3, SMTT(60)
  <1>5. box = [req |-> 0, buf |-> f, volume |-> FullVolume, playing |-> FALSE, run |-> FALSE, gain |-> 0,
               asked |-> 0, clips |-> 0, over |-> FALSE, heard |-> h]
    BY <1>3 DEF AudioInit
  <1>6. IsAudio(box) /\ box.req = 0 /\ box.run = FALSE /\ box.playing = FALSE /\ box.heard = h
    BY <1>4, <1>5, SMTT(60) DEF IsAudio, AudioFields
  <1>7. DOMAIN proc = {} /\ who["blink"].at = "idle"
    <2>1. proc = <<>> /\ who = [c \in Callers |-> Idle]
      BY DEF ServicesInit
    <2>2. DOMAIN proc = {}
      BY <2>1, SMTT(60)
    <2> QED BY <2>1, <2>2, IdleFields, CallersAssumption
  <1> QED BY <1>4, <1>6, <1>7 DEF AudioInv, Alive, Whole

LEMMA AudioInvGives ==
    AudioInv => SoundAsAsked
  <1>1. SUFFICES ASSUME AudioInv, dev = "hdad", ~slipped PROVE SoundAsAsked
    BY DEF SoundAsAsked, NoOrphanStream, ClipsPlayWhole, GainFollowsVolume
  <1>2. NoOrphanStream
    BY <1>1 DEF AudioInv, NoOrphanStream
  <1>3. ClipsPlayWhole
    BY <1>1 DEF AudioInv, ClipsPlayWhole, Whole
  <1>4. GainFollowsVolume
    BY <1>1 DEF AudioInv, GainFollowsVolume, Looping
  <1> QED BY <1>2, <1>3, <1>4 DEF SoundAsAsked

-----------------------------------------------------------------------------
(* The receive ring *)

Slots == 0..(RING - 1)
Unit == [id : Nat, len : 1..2, ok : BOOLEAN]
IsRing(r) == r \in [Slots -> Unit] /\ \A j \in Slots : r[j].ok => r[j].id # 0

\* How far each unit is ahead of the read position.
Ahead(from) == [j \in Slots |-> FillOf(from, j)]

\* From the read position on, up to the card's write position, the ring holds
\* packets back to back, a header each, followed by the rest of the packet.
Chained(r, d, fill) ==
    \A j \in Slots :
      /\ d[j] = 0 /\ 0 < fill => r[j].id # 0
      /\ d[j] < fill /\ r[j].id # 0 =>
           /\ d[j] + r[j].len <= fill
           /\ \A k \in Slots : d[j] < d[k] /\ d[k] < d[j] + r[j].len => r[k].id = 0
           /\ \A k \in Slots : d[k] = d[j] + r[j].len /\ d[k] < fill => r[k].id # 0

\* The well-formed ones are newer than what the kernel has, and in order.
InOrder(r, d, fill, known, last) ==
    \A j \in Slots : d[j] < fill /\ r[j].ok =>
      /\ r[j].id <= last
      /\ \A x \in known : x < r[j].id
      /\ \A k \in Slots : d[j] < d[k] /\ d[k] < fill /\ r[k].ok => r[j].id < r[k].id

Frames(r, d, fill) == {r[j].id : j \in {i \in Slots : d[i] < fill /\ r[i].ok}}

LEMMA Wraps ==
    ASSUME NEW a \in Int
    PROVE  /\ 0 <= a /\ a < RING => a % RING = a
           /\ RING <= a /\ a < RING + RING => a % RING = a - RING
           /\ -RING <= a /\ a < 0 => a % RING = a + RING
  <1>1. PICK n \in Nat : n = RING /\ n > 0
    BY RingAssumption, SMTT(60)
  <1>2. 0 <= a /\ a < n => a % n = a
    BY <1>1, SMTT(60)
  <1>3. n <= a /\ a < n + n => a % n = a - n
    BY <1>1, SMTT(60)
  <1>4. -n <= a /\ a < 0 => a % n = a + n
    BY <1>1, SMTT(60)
  <1> QED BY <1>1, <1>2, <1>3, <1>4

LEMMA FillIs ==
    ASSUME NEW a \in Slots, NEW b \in Slots
    PROVE  FillOf(a, b) = IF b >= a THEN b - a ELSE b - a + RING
  <1>1. PICK n \in Nat : n = RING /\ n > 0
    BY RingAssumption, SMTT(60)
  <1>2. b - a \in Int /\ -n <= b - a /\ b - a < n
    BY <1>1, SMTT(60) DEF Slots
  <1>3. PICK e \in Int : e = b - a
    BY <1>2
  <1>4. e % n = IF e >= 0 THEN e ELSE e + n
    BY <1>1, <1>2, <1>3, Wraps, SMTT(60)
  <1> QED BY <1>1, <1>3, <1>4, SMTT(60) DEF FillOf, Slots

LEMMA AheadFacts ==
    ASSUME NEW a \in Slots
    PROVE  /\ Ahead(a) \in [Slots -> Slots] /\ Ahead(a)[a] = 0
           /\ \A j \in Slots : Ahead(a)[j] = FillOf(a, j)
           /\ \A j \in Slots : Ahead(a)[j] = 0 => j = a
  <1>1. \A j \in Slots : Ahead(a)[j] = FillOf(a, j)
    BY DEF Ahead
  <1>2. \A j \in Slots : FillOf(a, j) \in Slots /\ (FillOf(a, j) = 0 <=> j = a)
    BY FillIs, RingAssumption, SMTT(60) DEF Slots
  <1>3. Ahead(a) \in [Slots -> Slots]
    BY <1>2 DEF Ahead
  <1> QED BY <1>1, <1>2, <1>3

\* The same, seen from another position.
Seen(m, x) == IF x >= m THEN x - m ELSE x - m + RING

LEMMA AheadFrom ==
    ASSUME NEW a \in Slots, NEW b \in Slots, NEW j \in Slots
    PROVE  Ahead(b)[j] = Seen(Ahead(a)[b], Ahead(a)[j])
  <1>1. /\ Ahead(b)[j] = IF j >= b THEN j - b ELSE j - b + RING
        /\ Ahead(a)[j] = IF j >= a THEN j - a ELSE j - a + RING
        /\ Ahead(a)[b] = IF b >= a THEN b - a ELSE b - a + RING
    BY AheadFacts, FillIs
  <1> QED BY <1>1, RingAssumption, SMTT(60) DEF Slots, Seen

LEMMA Onward ==
    ASSUME NEW a \in Slots, NEW l \in Nat, l < RING
    PROVE  (a + l) % RING \in Slots /\ Ahead(a)[(a + l) % RING] = l
  <1>1. PICK s \in Int : s = a + l /\ 0 <= s /\ s < RING + RING
    BY RingAssumption, SMTT(60) DEF Slots
  <1>2. s % RING = IF s < RING THEN s ELSE s - RING
    BY <1>1, Wraps, RingAssumption, SMTT(60)
  <1>3. PICK b : b = s % RING
    OBVIOUS
  <1>4. b \in Slots
    BY <1>1, <1>2, <1>3, RingAssumption, SMTT(60) DEF Slots
  <1>5. Ahead(a)[b] = IF b >= a THEN b - a ELSE b - a + RING
    BY <1>4, AheadFacts, FillIs
  <1>6. Ahead(a)[b] = l
    BY <1>1, <1>2, <1>3, <1>4, <1>5, RingAssumption, SMTT(60) DEF Slots
  <1> QED BY <1>1, <1>3, <1>4, <1>6

\* CAPR remembers the read position.
LEMMA Remembered ==
    ASSUME NEW a \in Slots
    PROVE  (a - LAG) % RING \in Slots /\ (((a - LAG) % RING) + LAG) % RING = a
  <1>1. PICK s \in Int : s = a - LAG /\ -RING <= s /\ s < RING
    BY RingAssumption, SMTT(60) DEF Slots
  <1>2. s % RING = IF s >= 0 THEN s ELSE s + RING
    BY <1>1, Wraps, RingAssumption, SMTT(60)
  <1>3. PICK b : b = s % RING
    OBVIOUS
  <1>4. b \in Slots /\ b + LAG \in Int /\ 0 <= b + LAG /\ b + LAG < RING + RING
    BY <1>1, <1>2, <1>3, RingAssumption, SMTT(60) DEF Slots
  <1>5. PICK t \in Int : t = b + LAG
    BY <1>4
  <1>6. t % RING = IF t < RING THEN t ELSE t - RING
    BY <1>4, <1>5, Wraps, RingAssumption, SMTT(60)
  <1>7. t % RING = a
    BY <1>1, <1>2, <1>3, <1>5, <1>6, RingAssumption, SMTT(60) DEF Slots
  <1> QED BY <1>1, <1>3, <1>4, <1>5, <1>7

LEMMA SlotsAreNat == RING \in Nat /\ Slots \subseteq Nat
  BY RingAssumption, SMTT(60) DEF Slots

\* The arithmetic of the ring: y is where x is, seen from m.
LEMMA Turns ==
    ASSUME NEW m \in Slots, NEW x \in Slots, NEW y \in Slots, y = Seen(m, x), NEW top \in Slots, m <= top
    PROVE  y < top - m <=> m <= x /\ x < top
  BY RingAssumption, SMTT(60) DEF Slots, Seen

LEMMA TurnsPast ==
    ASSUME NEW m \in Slots, NEW x \in Slots, NEW y \in Slots, y = Seen(m, x), NEW l \in 1..2, m + l < RING
    PROVE  /\ y = 0 <=> x = m
           /\ 0 < y /\ y < l <=> m < x /\ x < m + l
           /\ y < l <=> m <= x /\ x < m + l
           /\ y = l => x = m + l
  BY RingAssumption, SMTT(60) DEF Slots, Seen

LEMMA Behind ==
    ASSUME NEW fill \in Slots, NEW len \in 1..2, fill + len < RING
    PROVE  /\ len \in Nat /\ len < RING /\ fill + len \in Nat /\ fill < fill + len
           /\ \A x \in Slots : x < fill + len <=> x < fill \/ x = fill \/ (fill < x /\ x < fill + len)
           /\ \A x \in Slots, m \in 1..2 : x + m <= fill => x + m <= fill + len
  BY RingAssumption, SMTT(60) DEF Slots

\* The packet at the read position is taken, or passed over.
TakenTo(r, a, w, b) ==
    /\ b \in Slots
    /\ Chained(r, Ahead(b), Ahead(b)[w])
    /\ Frames(r, Ahead(a), Ahead(a)[w]) =
         Frames(r, Ahead(b), Ahead(b)[w]) \cup (IF r[a].ok THEN {r[a].id} ELSE {})
    /\ \A known, last :
         InOrder(r, Ahead(a), Ahead(a)[w], known, last) =>
           InOrder(r, Ahead(b), Ahead(b)[w], known \cup (IF r[a].ok THEN {r[a].id} ELSE {}), last)

LEMMA Taken ==
    ASSUME NEW a \in Slots, NEW w \in Slots, NEW r, IsRing(r), Chained(r, Ahead(a), Ahead(a)[w]), a # w,
           NEW b, b = (a + r[a].len) % RING
    PROVE  TakenTo(r, a, w, b)
  <1>1. PICK d \in [Slots -> Slots], fill \in Slots, l \in 1..2 : d = Ahead(a) /\ fill = d[w] /\ l = r[a].len
    <2>1. r[a].len \in 1..2
      BY DEF IsRing, Unit
    <2> QED BY <2>1, AheadFacts
  <1>2. d[a] = 0 /\ 0 < fill /\ \A j \in Slots : d[j] = 0 => j = a
    <2>1. d[a] = 0 /\ \A j \in Slots : d[j] = 0 => j = a
      BY <1>1, AheadFacts
    <2>2. fill # 0
      BY <1>1, <2>1
    <2> QED BY <2>1, <2>2, SMTT(60) DEF Slots
  <1>3. Chained(r, d, fill)
    BY <1>1
  <1>4. r[a].id # 0 /\ l <= fill /\ \A k \in Slots : 0 < d[k] /\ d[k] < l => r[k].id = 0
    <2>1. r[a].id # 0
      BY <1>2, <1>3 DEF Chained
    <2>2. d[a] + r[a].len <= fill /\ \A k \in Slots : d[a] < d[k] /\ d[k] < d[a] + r[a].len => r[k].id = 0
      BY <1>2, <1>3, <2>1 DEF Chained
    <2> QED BY <1>1, <1>2, <2>1, <2>2, SMTT(60)
  <1>5. l \in Nat /\ l < RING
    BY <1>4, RingAssumption, SMTT(60) DEF Slots
  <1>6. b \in Slots /\ d[b] = l
    BY <1>1, <1>5, Onward
  <1>7. PICK e \in [Slots -> Slots], rest \in Slots : e = Ahead(b) /\ rest = e[w]
    BY <1>6, AheadFacts
  <1>8. \A j \in Slots : e[j] = Seen(l, d[j])
    <2>1. SUFFICES ASSUME NEW j \in Slots PROVE e[j] = Seen(l, d[j])
      OBVIOUS
    <2>2. Ahead(b)[j] = Seen(Ahead(a)[b], Ahead(a)[j])
      BY <1>6, AheadFrom
    <2> QED BY <1>1, <1>6, <1>7, <2>2
  <1>9. rest = fill - l
    BY <1>1, <1>4, <1>7, <1>8, SMTT(60) DEF Slots, Seen
  <1>10. \A j \in Slots : e[j] < rest <=> l <= d[j] /\ d[j] < fill
    <2>1. SUFFICES ASSUME NEW j \in Slots PROVE e[j] < rest <=> l <= d[j] /\ d[j] < fill
      OBVIOUS
    <2>2. PICK x \in Slots, y \in Slots : x = d[j] /\ y = e[j]
      OBVIOUS
    <2>3. y = Seen(l, x)
      BY <1>8, <2>2
    <2>4. l \in Slots
      BY <1>6
    <2>5. y < fill - l <=> l <= x /\ x < fill
      BY <1>4, <2>3, <2>4, Turns
    <2> QED BY <1>9, <2>2, <2>5
  <1>11. \A j \in Slots : e[j] < rest => e[j] = d[j] - l
    BY <1>8, <1>10, SMTT(60) DEF Slots, Seen
  <1>12. \A j \in Slots : r[j].ok => r[j].id # 0
    BY DEF IsRing
  <1>13. \A j \in Slots : d[j] < fill /\ r[j].ok => j = a \/ e[j] < rest
    <2>1. SUFFICES ASSUME NEW j \in Slots, d[j] < fill, r[j].ok, ~(e[j] < rest) PROVE j = a
      OBVIOUS
    <2>2. d[j] < l
      BY <1>10, <2>1, SMTT(60) DEF Slots
    <2>3. ~(0 < d[j])
      BY <1>4, <1>12, <2>1, <2>2
    <2>4. d[j] = 0
      BY <2>3, SMTT(60) DEF Slots
    <2> QED BY <1>2, <2>4
  <1>14. \A j \in Slots : e[j] < rest => d[j] < fill
    BY <1>10
  <1>15. \A j, k \in Slots : e[j] < rest /\ e[k] < rest => (e[j] < e[k] <=> d[j] < d[k])
    BY <1>11, SMTT(60) DEF Slots
  <1>16. Chained(r, e, rest)
    <2>1. ASSUME NEW j \in Slots, e[j] = 0, 0 < rest PROVE r[j].id # 0
      <3>1. e[j] < rest /\ d[j] = l /\ d[j] < fill
        BY <1>10, <1>11, <2>1, SMTT(60) DEF Slots
      <3>2. 0 < fill /\ r[a].id # 0 /\ d[j] = d[a] + r[a].len
        BY <1>1, <1>2, <1>4, <3>1, SMTT(60)
      <3> QED BY <1>2, <1>3, <3>1, <3>2 DEF Chained
    <2>2. ASSUME NEW j \in Slots, e[j] < rest, r[j].id # 0
          PROVE  /\ e[j] + r[j].len <= rest
                 /\ \A k \in Slots : e[j] < e[k] /\ e[k] < e[j] + r[j].len => r[k].id = 0
                 /\ \A k \in Slots : e[k] = e[j] + r[j].len /\ e[k] < rest => r[k].id # 0
      <3>1. PICK m \in 1..2 : m = r[j].len
        BY DEF IsRing, Unit
      <3>2. d[j] < fill /\ e[j] = d[j] - l
        BY <1>11, <1>14, <2>2
      <3>3. /\ d[j] + m <= fill
            /\ \A k \in Slots : d[j] < d[k] /\ d[k] < d[j] + m => r[k].id = 0
            /\ \A k \in Slots : d[k] = d[j] + m /\ d[k] < fill => r[k].id # 0
        BY <1>3, <2>2, <3>1, <3>2 DEF Chained
      <3>4. e[j] + m <= rest
        BY <1>9, <3>2, <3>3, SMTT(60) DEF Slots
      <3>5. ASSUME NEW k \in Slots, e[j] < e[k], e[k] < e[j] + m PROVE r[k].id = 0
        <4>1. e[k] < rest
          BY <3>4, <3>5, SMTT(60) DEF Slots
        <4>2. d[j] < d[k] /\ d[k] < d[j] + m
          BY <1>11, <3>2, <3>5, <4>1, SMTT(60) DEF Slots
        <4> QED BY <3>3, <4>2
      <3>6. ASSUME NEW k \in Slots, e[k] = e[j] + m, e[k] < rest PROVE r[k].id # 0
        <4>1. d[k] = d[j] + m /\ d[k] < fill
          BY <1>11, <1>14, <3>2, <3>6, SMTT(60) DEF Slots
        <4> QED BY <3>3, <4>1
      <3> QED BY <3>1, <3>4, <3>5, <3>6
    <2> QED BY <2>1, <2>2 DEF Chained
  <1>17. Frames(r, d, fill) = Frames(r, e, rest) \cup (IF r[a].ok THEN {r[a].id} ELSE {})
    BY <1>2, <1>13, <1>14 DEF Frames
  <1>18. ASSUME NEW known, NEW last, InOrder(r, d, fill, known, last)
         PROVE  InOrder(r, e, rest, known \cup (IF r[a].ok THEN {r[a].id} ELSE {}), last)
    <2>1. SUFFICES ASSUME NEW j \in Slots, e[j] < rest, r[j].ok
                   PROVE  /\ r[j].id <= last
                          /\ \A x \in known : x < r[j].id
                          /\ r[a].ok => r[a].id < r[j].id
                          /\ \A k \in Slots : e[j] < e[k] /\ e[k] < rest /\ r[k].ok => r[j].id < r[k].id
      BY DEF InOrder
    <2>2. d[j] < fill /\ d[a] < d[j]
      BY <1>2, <1>10, <2>1, SMTT(60) DEF Slots
    <2>3. /\ r[j].id <= last /\ \A x \in known : x < r[j].id
          /\ \A k \in Slots : d[j] < d[k] /\ d[k] < fill /\ r[k].ok => r[j].id < r[k].id
      BY <1>18, <2>1, <2>2 DEF InOrder
    <2>4. r[a].ok => r[a].id < r[j].id
      BY <1>2, <1>18, <2>1, <2>2 DEF InOrder
    <2>5. \A k \in Slots : e[j] < e[k] /\ e[k] < rest /\ r[k].ok => r[j].id < r[k].id
      BY <1>14, <1>15, <2>1, <2>3
    <2> QED BY <2>3, <2>4, <2>5
  <1>19. d[w] >= l
    BY <1>1, <1>4, SMTT(60) DEF Slots
  <1> QED BY <1>1, <1>6, <1>7, <1>16, <1>17, <1>18, <1>19 DEF TakenTo

\* The card writes a packet behind the last one.
Filed(r, w, n, len, ok) ==
    [i \in 0..(RING - 1) |->
       IF i = w THEN [id |-> n + 1, len |-> len, ok |-> ok]
       ELSE IF FillOf(w, i) < len THEN Payload ELSE r[i]]
FiledTo(r, s, a, w, z, n, ok) ==
    /\ z \in Slots /\ IsRing(s) /\ Ahead(a)[z] # 0
    /\ \A j \in Slots : Ahead(a)[j] < Ahead(a)[w] => s[j] = r[j]
    /\ Chained(s, Ahead(a), Ahead(a)[z])
    /\ Frames(s, Ahead(a), Ahead(a)[z]) =
         Frames(r, Ahead(a), Ahead(a)[w]) \cup (IF ok THEN {n + 1} ELSE {})
    /\ \A known :
         InOrder(r, Ahead(a), Ahead(a)[w], known, n) /\ (\A x \in known : x \in Nat /\ x <= n) =>
           InOrder(s, Ahead(a), Ahead(a)[z], known, n + 1)

LEMMA Written ==
    ASSUME NEW a \in Slots, NEW w \in Slots, NEW r, IsRing(r), Chained(r, Ahead(a), Ahead(a)[w]),
           NEW len \in 1..2, NEW ok \in BOOLEAN, NEW n \in Nat, Ahead(a)[w] + len < RING,
           NEW s, s = Filed(r, w, n, len, ok), NEW z, z = (w + len) % RING
    PROVE  FiledTo(r, s, a, w, z, n, ok)
  <1>1. PICK d \in [Slots -> Slots], fill \in Slots : d = Ahead(a) /\ fill = d[w]
    BY AheadFacts
  <1>2. Chained(r, d, fill) /\ fill + len < RING
    BY <1>1
  <1>3. len \in Nat /\ len < RING /\ fill + len \in Nat
    BY <1>2, Behind
  <1>4. z \in Slots /\ Ahead(w)[z] = len
    BY <1>3, Onward
  <1>5. PICK e \in [Slots -> Slots] : e = Ahead(w) /\ e[w] = 0 /\ \A i \in Slots : e[i] = FillOf(w, i) /\ (e[i] = 0 => i = w)
    BY AheadFacts
  <1>6. ASSUME NEW j \in Slots PROVE e[j] = Seen(fill, d[j])
    <2>1. Ahead(w)[j] = Seen(Ahead(a)[w], Ahead(a)[j])
      BY AheadFrom
    <2> QED BY <1>1, <1>5, <2>1
  <1>7. ASSUME NEW j \in Slots
        PROVE  /\ e[j] = 0 <=> d[j] = fill
               /\ 0 < e[j] /\ e[j] < len <=> fill < d[j] /\ d[j] < fill + len
               /\ e[j] < len <=> fill <= d[j] /\ d[j] < fill + len
    <2>1. PICK x \in Slots, y \in Slots : x = d[j] /\ y = e[j]
      OBVIOUS
    <2>2. y = Seen(fill, x)
      BY <1>6, <2>1
    <2>3. /\ y = 0 <=> x = fill
          /\ 0 < y /\ y < len <=> fill < x /\ x < fill + len
          /\ y < len <=> fill <= x /\ x < fill + len
      BY <1>2, <2>2, TurnsPast, SMTT(60)
    <2> QED BY <2>1, <2>3
  <1>8. d[z] = fill + len
    <2>1. PICK x \in Slots : x = d[z]
      BY <1>4
    <2>2. len = Seen(fill, x)
      BY <1>4, <1>5, <1>6, <2>1
    <2>3. PICK y \in Slots : y = len
      BY <1>4, AheadFacts
    <2>4. x = fill + len
      BY <1>2, <2>2, <2>3, TurnsPast, SMTT(60)
    <2> QED BY <2>1, <2>4
  <1>t. PICK top \in Nat : top = fill + len
    BY <1>3
  <1>9. PICK h : h = [id |-> n + 1, len |-> len, ok |-> ok]
    OBVIOUS
  <1>10. h \in Unit /\ h.id = n + 1 /\ h.id # 0 /\ h.len = len /\ h.ok = ok
    BY <1>9, SMTT(60) DEF Unit
  <1>11. Payload \in Unit /\ Payload.id = 0 /\ Payload.ok = FALSE
    BY SMTT(60) DEF Unit, Payload
  <1>12. r \in [Slots -> Unit] /\ \A j \in Slots : r[j].ok => r[j].id # 0
    BY DEF IsRing
  <1>13. DOMAIN s = Slots /\ \A j \in Slots : s[j] = IF j = w THEN h ELSE IF FillOf(w, j) < len THEN Payload ELSE r[j]
    BY <1>9 DEF Slots, Filed
  <1>14. ASSUME NEW j \in Slots
         PROVE  /\ d[j] < fill => s[j] = r[j]
                /\ d[j] = fill <=> j = w
                /\ fill < d[j] /\ d[j] < top => s[j] = Payload
                /\ s[j] \in Unit /\ (s[j].ok => s[j].id # 0)
    <2>1. d[j] = fill <=> j = w
      BY <1>5, <1>7
    <2>2. FillOf(w, j) = e[j]
      BY <1>5
    <2>3. d[j] < fill => j # w /\ ~(e[j] < len)
      <3>1. d[j] < fill => ~(fill <= d[j]) /\ d[j] # fill
        BY SMTT(60) DEF Slots
      <3> QED BY <1>7, <2>1, <3>1
    <2>4. fill < d[j] /\ d[j] < top => j # w /\ e[j] < len
      <3>1. fill < d[j] => d[j] # fill /\ fill <= d[j]
        BY SMTT(60) DEF Slots
      <3> QED BY <1>7, <1>t, <2>1, <3>1
    <2>5. s[j] \in {h, Payload, r[j]}
      BY <1>13
    <2>6. h.ok => h.id # 0
      BY <1>10
    <2>7. s[j] \in Unit /\ (s[j].ok => s[j].id # 0)
      BY <1>10, <1>11, <1>12, <2>5, <2>6
    <2>8. d[j] < fill => s[j] = r[j]
      BY <1>13, <2>2, <2>3
    <2>9. fill < d[j] /\ d[j] < top => s[j] = Payload
      BY <1>13, <2>2, <2>4
    <2> QED BY <2>1, <2>7, <2>8, <2>9
  <1>15. IsRing(s)
    <2>1. s = [j \in Slots |-> s[j]]
      BY <1>13 DEF Slots, Filed
    <2> QED BY <1>14, <2>1 DEF IsRing
  <1>16. s[w] = h
    BY <1>13
  <1>17. \A j \in Slots : d[j] < top <=> d[j] < fill \/ d[j] = fill \/ (fill < d[j] /\ d[j] < top)
    BY <1>2, <1>t, Behind
  <1>18. Chained(s, d, top)
    <2>1. ASSUME NEW j \in Slots, d[j] = 0, 0 < top PROVE s[j].id # 0
      <3>1. (d[j] < fill /\ 0 < fill) \/ d[j] = fill
        BY <2>1, SMTT(60) DEF Slots
      <3> QED BY <1>2, <1>10, <1>14, <1>16, <2>1, <3>1 DEF Chained
    <2>2. ASSUME NEW j \in Slots, d[j] < top, s[j].id # 0
          PROVE  /\ d[j] + s[j].len <= top
                 /\ \A k \in Slots : d[j] < d[k] /\ d[k] < d[j] + s[j].len => s[k].id = 0
                 /\ \A k \in Slots : d[k] = d[j] + s[j].len /\ d[k] < top => s[k].id # 0
      <3>1. CASE d[j] < fill
        <4>1. PICK m \in 1..2 : m = r[j].len /\ s[j] = r[j]
          BY <1>12, <1>14, <3>1 DEF Unit
        <4>2. /\ d[j] + m <= fill
              /\ \A k \in Slots : d[j] < d[k] /\ d[k] < d[j] + m => r[k].id = 0
              /\ \A k \in Slots : d[k] = d[j] + m /\ d[k] < fill => r[k].id # 0
          BY <1>2, <2>2, <3>1, <4>1 DEF Chained
        <4>3. d[j] + m <= top
          BY <1>2, <1>t, <4>2, Behind
        <4>4. ASSUME NEW k \in Slots, d[j] < d[k], d[k] < d[j] + m PROVE s[k].id = 0
          <5>1. d[k] < fill
            BY <4>2, <4>4, SMTT(60) DEF Slots
          <5> QED BY <1>14, <4>2, <4>4, <5>1
        <4>5. ASSUME NEW k \in Slots, d[k] = d[j] + m PROVE s[k].id # 0
          <5>1. d[k] < fill \/ d[k] = fill
            BY <4>2, <4>5, SMTT(60) DEF Slots
          <5> QED BY <1>10, <1>14, <1>16, <4>2, <4>5, <5>1
        <4> QED BY <4>1, <4>3, <4>4, <4>5
      <3>2. CASE d[j] = fill
        <4>1. s[j].len = len /\ d[j] + len = top
          BY <1>t, <1>10, <1>14, <1>16, <3>2
        <4>2. ASSUME NEW k \in Slots, d[j] < d[k], d[k] < d[j] + len PROVE s[k].id = 0
          BY <1>t, <1>11, <1>14, <3>2, <4>2
        <4>3. ASSUME NEW k \in Slots, d[k] = top, d[k] < top PROVE FALSE
          BY <4>3, SMTT(60) DEF Slots
        <4>4. top <= top
          BY SMTT(60)
        <4> QED BY <4>1, <4>2, <4>3, <4>4
      <3>3. CASE fill < d[j]
        BY <1>11, <1>14, <2>2, <3>3
      <3> QED BY <1>17, <2>2, <3>1, <3>2, <3>3
    <2> QED BY <2>1, <2>2 DEF Chained
  <1>19. \A j \in Slots : d[j] < top /\ s[j].ok <=> (d[j] < fill /\ r[j].ok) \/ (j = w /\ ok)
    <2>1. SUFFICES ASSUME NEW j \in Slots PROVE d[j] < top /\ s[j].ok <=> (d[j] < fill /\ r[j].ok) \/ (j = w /\ ok)
      OBVIOUS
    <2>2. CASE d[j] < fill
      <3>1. j # w
        BY <1>14, <2>2, SMTT(60) DEF Slots
      <3> QED BY <1>14, <1>17, <2>2, <3>1
    <2>3. CASE d[j] = fill
      <3>1. ~(d[j] < fill)
        BY <2>3, SMTT(60) DEF Slots
      <3> QED BY <1>10, <1>14, <1>16, <1>17, <2>3, <3>1
    <2>4. CASE fill < d[j]
      <3>1. ~(d[j] < fill) /\ d[j] # fill
        BY <2>4, SMTT(60) DEF Slots
      <3> QED BY <1>11, <1>14, <1>17, <2>4, <3>1
    <2>5. d[j] < fill \/ d[j] = fill \/ fill < d[j]
      BY SMTT(60) DEF Slots
    <2> QED BY <2>2, <2>3, <2>4, <2>5
  <1>20. Frames(s, d, top) = Frames(r, d, fill) \cup (IF ok THEN {n + 1} ELSE {})
    <2>1. \A x : x \in Frames(s, d, top) <=> \E j \in Slots : d[j] < top /\ s[j].ok /\ x = s[j].id
      BY DEF Frames
    <2>2. \A x : x \in Frames(r, d, fill) <=> \E j \in Slots : d[j] < fill /\ r[j].ok /\ x = r[j].id
      BY DEF Frames
    <2>3. \A x : x \in Frames(s, d, top) <=> x \in Frames(r, d, fill) \/ (ok /\ x = n + 1)
      <3>1. ASSUME NEW x, x \in Frames(s, d, top) PROVE x \in Frames(r, d, fill) \/ (ok /\ x = n + 1)
        <4>1. PICK j \in Slots : d[j] < top /\ s[j].ok /\ x = s[j].id
          BY <2>1, <3>1
        <4> QED BY <1>10, <1>14, <1>16, <1>19, <2>2, <4>1
      <3>2. ASSUME NEW x, x \in Frames(r, d, fill) PROVE x \in Frames(s, d, top)
        <4>1. PICK j \in Slots : d[j] < fill /\ r[j].ok /\ x = r[j].id
          BY <2>2, <3>2
        <4> QED BY <1>14, <1>19, <2>1, <4>1
      <3>3. ok => n + 1 \in Frames(s, d, top)
        BY <1>10, <1>16, <1>19, <2>1
      <3> QED BY <3>1, <3>2, <3>3
    <2> QED BY <2>3
  <1>21. ASSUME NEW known, InOrder(r, d, fill, known, n), \A x \in known : x \in Nat /\ x <= n
         PROVE  InOrder(s, d, top, known, n + 1)
    <2>1. SUFFICES ASSUME NEW j \in Slots, d[j] < top, s[j].ok
                   PROVE  /\ s[j].id <= n + 1
                          /\ \A x \in known : x < s[j].id
                          /\ \A k \in Slots : d[j] < d[k] /\ d[k] < top /\ s[k].ok => s[j].id < s[k].id
      BY DEF InOrder
    <2>2. CASE j = w
      <3>1. s[j].id = n + 1
        BY <1>10, <1>16, <2>2
      <3>2. n + 1 <= n + 1 /\ \A x \in known : x < n + 1
        BY <1>21, SMTT(60)
      <3>3. ASSUME NEW k \in Slots, d[j] < d[k], d[k] < top, s[k].ok PROVE FALSE
        <4>1. d[j] = fill /\ ~(d[k] < fill) /\ k # w
          BY <1>14, <2>2, <3>3, SMTT(60) DEF Slots
        <4> QED BY <1>19, <3>3, <4>1
      <3> QED BY <3>1, <3>2, <3>3
    <2>3. CASE d[j] < fill /\ r[j].ok
      <3>1. s[j] = r[j] /\ r[j].id \in Nat
        BY <1>12, <1>14, <2>3 DEF Unit
      <3>2. /\ r[j].id <= n /\ \A x \in known : x < r[j].id
            /\ \A k \in Slots : d[j] < d[k] /\ d[k] < fill /\ r[k].ok => r[j].id < r[k].id
        BY <1>21, <2>3 DEF InOrder
      <3>3. r[j].id <= n + 1 /\ r[j].id < n + 1
        BY <3>1, <3>2, SMTT(60)
      <3>4. ASSUME NEW k \in Slots, d[j] < d[k], d[k] < top, s[k].ok PROVE r[j].id < s[k].id
        <4>1. CASE k = w
          BY <1>10, <1>16, <3>3, <4>1
        <4>2. CASE d[k] < fill /\ r[k].ok
          BY <1>14, <3>2, <3>4, <4>2
        <4> QED BY <1>19, <3>4, <4>1, <4>2
      <3> QED BY <3>1, <3>2, <3>3, <3>4
    <2> QED BY <1>19, <2>1, <2>2, <2>3
  <1>22. d[z] = top /\ s[w].id = n + 1 /\ s[w].ok = ok
    BY <1>8, <1>t, <1>10, <1>16
  <1>z. d[z] # 0
    BY <1>8, SMTT(60) DEF Slots
  <1> QED BY <1>z, <1>1, <1>4, <1>14, <1>15, <1>18, <1>20, <1>21, <1>22 DEF FiledTo

-----------------------------------------------------------------------------
(* NicInv *)

NicFields == {"txlen", "txbuf", "rxready", "rxbuf", "ring", "capr", "cbr", "sent", "wire", "came", "got", "overrun"}
Wire == [len : Nat, buf : Nat]
IsNic(g) ==
    /\ DOMAIN g = NicFields
    /\ g.txlen \in Nat /\ g.txbuf \in Nat /\ g.sent \in Seq(Nat) /\ g.wire \in Seq(Wire) /\ g.overrun \in BOOLEAN
    /\ g.capr \in Slots /\ g.cbr \in Slots /\ IsRing(g.ring)
    /\ g.rxready \in BOOLEAN /\ g.rxbuf \in Nat /\ g.came \in Seq(Nat) /\ g.got \in Seq(Nat)
ReadFrom(g) == (g.capr + LAG) % RING
NicLooping == {"top", "tx", "tx_done", "rx", "rx_done"}
IsNicLocal(g, v) == DOMAIN v = {"len", "off"} /\ v.len \in Nat /\ v.off = ReadFrom(g)

\* The frames the kernel has, and those the card has received.
Known(got, ready, buf) == {got[i] : i \in DOMAIN got} \cup (IF ready THEN {buf} ELSE {})
Good(came) == {came[i] : i \in DOMAIN came} \ {0}

\* The receive side: what came is what the kernel has and what the ring
\* holds ahead of CAPR.
Kept(r, a, w, came, got, ready, buf) ==
    /\ Chained(r, Ahead(a), Ahead(a)[w])
    /\ InOrder(r, Ahead(a), Ahead(a)[w], Known(got, ready, buf), Len(came))
    /\ Good(came) = Known(got, ready, buf) \cup Frames(r, Ahead(a), Ahead(a)[w])
    /\ \A x \in Known(got, ready, buf) : x \in Nat /\ x <= Len(came)
    /\ \A i, j \in DOMAIN got : i < j => got[i] < got[j]
    /\ ready => \A i \in DOMAIN got : got[i] < buf
KeptIn(g) == Kept(g.ring, ReadFrom(g), g.cbr, g.came, g.got, g.rxready, g.rxbuf)
Delivering(g, v) ==
    /\ ~g.rxready /\ ReadFrom(g) # g.cbr /\ g.ring[ReadFrom(g)].ok
    /\ g.rxbuf = g.ring[ReadFrom(g)].id /\ v.len = g.ring[ReadFrom(g)].len

\* The send side: every frame but the one in the mailbox is on the wire, and
\* that one too once rtl8139d has to clear its length only.
SentIn(g) ==
    /\ \A i \in DOMAIN g.wire : g.wire[i] = [len |-> i, buf |-> i]
    /\ Len(g.wire) = Len(g.sent) \/ (Len(g.wire) + 1 = Len(g.sent) /\ g.txlen # 0)
    /\ g.txlen # 0 => g.txlen = Len(g.sent) /\ g.txbuf = Len(g.sent)

SendSide ==
    ~box.overrun =>
      /\ SentIn(box)
      /\ who["blink"].at = "tx_len" => box.txlen = 0 /\ box.txbuf = who["blink"].x
      /\ \A p \in Alive : proc[p].at = "tx" =>
           proc[p].v.len = box.txlen /\ box.txlen # 0 /\ Len(box.wire) # Len(box.sent)
      /\ \A p \in Alive : proc[p].at = "tx_done" => box.txlen # 0 /\ Len(box.wire) = Len(box.sent)
      /\ box.txlen # 0 /\ Len(box.wire) = Len(box.sent) => \E p \in Alive : proc[p].at = "tx_done"

NicInv ==
    dev = "rtl8139d" /\ ~slipped =>
      /\ IsNic(box) /\ KeptIn(box) /\ SendSide
      /\ who["blink"].at \in {"tx_wait", "tx_len"} => who["blink"].x = Len(box.sent) + 1
      /\ \A p \in Alive : proc[p].at \in NicLooping => IsNicLocal(box, proc[p].v)
      /\ \A p \in Alive : proc[p].at = "rx_done" => Delivering(box, proc[p].v)

-----------------------------------------------------------------------------
(* The receive side *)

LEMMA AppendRange ==
    ASSUME NEW S, NEW s \in Seq(S), NEW x \in S, NEW t, t = Append(s, x)
    PROVE  {t[i] : i \in DOMAIN t} = {s[i] : i \in DOMAIN s} \cup {x}
  <1>1. /\ Len(s) \in Nat /\ DOMAIN s = 1..Len(s) /\ Len(t) = Len(s) + 1 /\ DOMAIN t = 1..(Len(s) + 1)
        /\ \A i \in 1..Len(s) : t[i] = s[i]
        /\ t[Len(s) + 1] = x
    <2>1. t \in Seq(S) /\ Len(t) = Len(s) + 1 /\ (\A i \in 1..Len(s) : t[i] = s[i]) /\ t[Len(s) + 1] = x
      BY SeqAppend
    <2>2. Len(s) \in Nat /\ DOMAIN s = 1..Len(s) /\ DOMAIN t = 1..Len(t)
      BY <2>1, SeqShape
    <2> QED BY <2>1, <2>2
  <1>2. \A i : i \in 1..(Len(s) + 1) <=> i \in 1..Len(s) \/ i = Len(s) + 1
    BY <1>1, SMTT(60)
  <1> QED BY <1>1, <1>2

\* The kernel takes the frame in the mailbox.
LEMMA KeptTaken ==
    ASSUME NEW r, NEW a, NEW w, NEW came, NEW got \in Seq(Nat), NEW buf \in Nat,
           Kept(r, a, w, came, got, TRUE, buf), NEW t, t = Append(got, buf)
    PROVE  Kept(r, a, w, came, t, FALSE, buf)
  <1>1. Known(t, FALSE, buf) = Known(got, TRUE, buf)
    <2>1. {t[i] : i \in DOMAIN t} = {got[i] : i \in DOMAIN got} \cup {buf}
      BY AppendRange, SMTT(60)
    <2> QED BY <2>1 DEF Known
  <1>2. \A i, j \in DOMAIN t : i < j => t[i] < t[j]
    <2>1. /\ Len(got) \in Nat /\ DOMAIN got = 1..Len(got) /\ DOMAIN t = 1..(Len(got) + 1)
          /\ \A i \in 1..Len(got) : t[i] = got[i]
          /\ t[Len(got) + 1] = buf
      <3>1. t \in Seq(Nat) /\ Len(t) = Len(got) + 1 /\ (\A i \in 1..Len(got) : t[i] = got[i]) /\ t[Len(got) + 1] = buf
        BY SeqAppend, SMTT(60)
      <3>2. Len(got) \in Nat /\ DOMAIN got = 1..Len(got) /\ DOMAIN t = 1..Len(t)
        BY <3>1, SeqShape
      <3> QED BY <3>1, <3>2
    <2>2. (\A i, j \in 1..Len(got) : i < j => got[i] < got[j]) /\ \A i \in 1..Len(got) : got[i] < buf
      BY <2>1 DEF Kept
    <2>3. SUFFICES ASSUME NEW i \in 1..(Len(got) + 1), NEW j \in 1..(Len(got) + 1), i < j PROVE t[i] < t[j]
      BY <2>1
    <2>4. i \in 1..Len(got) /\ (j \in 1..Len(got) \/ j = Len(got) + 1)
      BY <2>1, <2>3, SMTT(60)
    <2> QED BY <2>1, <2>2, <2>3, <2>4
  <1> QED BY <1>1, <1>2 DEF Kept

LEMMA KnownFalse ==
    ASSUME NEW got, NEW b, NEW c
    PROVE  Known(got, FALSE, b) = Known(got, FALSE, c)
  BY DEF Known

KeptFrom(r, b, w, came, got, ready, buf) == b \in Slots /\ Kept(r, b, w, came, got, ready, buf)

\* rtl8139d passes over a bad packet.
LEMMA KeptPassed ==
    ASSUME NEW a \in Slots, NEW w \in Slots, NEW r, IsRing(r), a # w, ~r[a].ok,
           NEW came, NEW got, NEW buf, Kept(r, a, w, came, got, FALSE, buf), NEW b, b = (a + r[a].len) % RING
    PROVE  KeptFrom(r, b, w, came, got, FALSE, buf)
  <1>1. Chained(r, Ahead(a), Ahead(a)[w])
    BY DEF Kept
  <1>q. PICK q : q = (IF r[a].ok THEN {r[a].id} ELSE {}) /\ q = {}
    OBVIOUS
  <1>2. /\ b \in Slots /\ Chained(r, Ahead(b), Ahead(b)[w])
        /\ Frames(r, Ahead(a), Ahead(a)[w]) = Frames(r, Ahead(b), Ahead(b)[w]) \cup q
        /\ \A known, last :
             InOrder(r, Ahead(a), Ahead(a)[w], known, last) =>
               InOrder(r, Ahead(b), Ahead(b)[w], known \cup q, last)
    <2>1. TakenTo(r, a, w, b)
      BY <1>1, Taken
    <2> QED BY <1>q, <2>1 DEF TakenTo
  <1>3. PICK k : k = Known(got, FALSE, buf)
    OBVIOUS
  <1>4. InOrder(r, Ahead(b), Ahead(b)[w], k, Len(came))
    <2>1. InOrder(r, Ahead(a), Ahead(a)[w], k, Len(came)) /\ k \cup q = k
      BY <1>q, <1>3 DEF Kept
    <2>2. InOrder(r, Ahead(b), Ahead(b)[w], k \cup q, Len(came))
      BY <1>2, <2>1
    <2> QED BY <2>1, <2>2
  <1>5. Frames(r, Ahead(a), Ahead(a)[w]) = Frames(r, Ahead(b), Ahead(b)[w])
    BY <1>q, <1>2
  <1> QED BY <1>2, <1>3, <1>4, <1>5 DEF KeptFrom, Kept

\* rtl8139d has copied a good one into the mailbox, and says so.
LEMMA KeptDelivered ==
    ASSUME NEW a \in Slots, NEW w \in Slots, NEW r, IsRing(r), a # w, r[a].ok,
           NEW came, NEW got, NEW buf, Kept(r, a, w, came, got, FALSE, buf), buf = r[a].id,
           NEW b, b = (a + r[a].len) % RING
    PROVE  b \in Slots /\ Kept(r, b, w, came, got, TRUE, buf)
  <1>1. Chained(r, Ahead(a), Ahead(a)[w])
    BY DEF Kept
  <1>2. /\ b \in Slots /\ Chained(r, Ahead(b), Ahead(b)[w])
        /\ Frames(r, Ahead(a), Ahead(a)[w]) = Frames(r, Ahead(b), Ahead(b)[w]) \cup {buf}
        /\ \A known, last :
             InOrder(r, Ahead(a), Ahead(a)[w], known, last) =>
               InOrder(r, Ahead(b), Ahead(b)[w], known \cup {buf}, last)
    <2>1. TakenTo(r, a, w, b)
      BY <1>1, Taken
    <2> QED BY <2>1 DEF TakenTo
  <1>3. PICK k, m : k = Known(got, FALSE, 0) /\ m = Known(got, TRUE, buf)
    OBVIOUS
  <1>4. m = k \cup {buf} /\ k = Known(got, FALSE, buf) /\ k = {got[i] : i \in DOMAIN got}
    BY <1>3 DEF Known
  <1>5. InOrder(r, Ahead(a), Ahead(a)[w], k, Len(came)) /\ (\A x \in k : x \in Nat /\ x <= Len(came))
    BY <1>4 DEF Kept
  <1>6. InOrder(r, Ahead(b), Ahead(b)[w], m, Len(came))
    BY <1>2, <1>4, <1>5
  <1>7. Good(came) = m \cup Frames(r, Ahead(b), Ahead(b)[w])
    <2>1. Good(came) = k \cup Frames(r, Ahead(a), Ahead(a)[w])
      BY <1>4 DEF Kept
    <2> QED BY <1>2, <1>4, <2>1
  <1>8. Ahead(a)[a] < Ahead(a)[w]
    <2>1. Ahead(a)[a] = 0 /\ Ahead(a)[w] \in Slots /\ Ahead(a)[w] # 0
      BY AheadFacts
    <2> QED BY <2>1, SMTT(60) DEF Slots
  <1>9. buf \in Nat /\ buf <= Len(came) /\ \A x \in k : x < buf
    <2>1. buf \in Nat
      BY DEF IsRing, Unit
    <2> QED BY <1>5, <1>8, <2>1 DEF InOrder
  <1>10. (\A x \in m : x \in Nat /\ x <= Len(came)) /\ \A i \in DOMAIN got : got[i] < buf
    BY <1>4, <1>5, <1>9
  <1>11. \A i, j \in DOMAIN got : i < j => got[i] < got[j]
    BY DEF Kept
  <1> QED BY <1>2, <1>3, <1>6, <1>7, <1>10, <1>11 DEF Kept

\* The card writes a packet.
KeptWith(r, s, a, w, z, c, got, ready, buf) ==
    /\ z \in Slots /\ IsRing(s) /\ c \in Seq(Nat) /\ Kept(s, a, z, c, got, ready, buf)
    /\ a # w => s[a] = r[a] /\ a # z

LEMMA KeptWritten ==
    ASSUME NEW a \in Slots, NEW w \in Slots, NEW r, IsRing(r), NEW came \in Seq(Nat), NEW got, NEW ready, NEW buf,
           Kept(r, a, w, came, got, ready, buf),
           NEW len \in 1..2, NEW ok \in BOOLEAN, FillOf(a, w) + len < RING,
           NEW s, s = Filed(r, w, Len(came), len, ok),
           NEW z, z = (w + len) % RING,
           NEW c, c = Append(came, IF ok THEN Len(came) + 1 ELSE 0)
    PROVE  KeptWith(r, s, a, w, z, c, got, ready, buf)
  <1>1. PICK n \in Nat : n = Len(came)
    BY SeqShape
  <1>2. Chained(r, Ahead(a), Ahead(a)[w]) /\ Ahead(a)[w] + len < RING
    BY AheadFacts DEF Kept
  <1>3. /\ z \in Slots /\ IsRing(s) /\ Ahead(a)[z] # 0 /\ Chained(s, Ahead(a), Ahead(a)[z])
        /\ \A j \in Slots : Ahead(a)[j] < Ahead(a)[w] => s[j] = r[j]
        /\ Frames(s, Ahead(a), Ahead(a)[z]) =
             Frames(r, Ahead(a), Ahead(a)[w]) \cup (IF ok THEN {n + 1} ELSE {})
        /\ \A known :
             InOrder(r, Ahead(a), Ahead(a)[w], known, n) /\ (\A x \in known : x \in Nat /\ x <= n) =>
               InOrder(s, Ahead(a), Ahead(a)[z], known, n + 1)
    <2>1. s = Filed(r, w, n, len, ok)
      BY <1>1
    <2>2. FiledTo(r, s, a, w, z, n, ok)
      BY <1>2, <2>1, Written
    <2> QED BY <2>2 DEF FiledTo
  <1>4. PICK k : k = Known(got, ready, buf)
    OBVIOUS
  <1>5. PICK m \in Nat : m = IF ok THEN n + 1 ELSE 0
    BY <1>1, SMTT(60)
  <1>6. c \in Seq(Nat) /\ Len(c) = n + 1 /\ {c[i] : i \in DOMAIN c} = {came[i] : i \in DOMAIN came} \cup {m}
    <2>1. c = Append(came, m)
      BY <1>1, <1>5
    <2>2. c \in Seq(Nat) /\ Len(c) = n + 1
      BY <1>1, <2>1, SeqAppend, SMTT(60)
    <2>3. {c[i] : i \in DOMAIN c} = {came[i] : i \in DOMAIN came} \cup {m}
      BY <2>1, AppendRange, SMTT(60)
    <2> QED BY <2>2, <2>3
  <1>7. n + 1 # 0 /\ \A x \in Nat : x <= n => x <= n + 1
    BY <1>1, SMTT(60)
  <1>8. Good(c) = Good(came) \cup (IF ok THEN {n + 1} ELSE {})
    BY <1>5, <1>6, <1>7 DEF Good
  <1>9. Good(c) = k \cup Frames(s, Ahead(a), Ahead(a)[z])
    <2>1. Good(came) = k \cup Frames(r, Ahead(a), Ahead(a)[w])
      BY <1>4 DEF Kept
    <2> QED BY <1>3, <1>8, <2>1
  <1>10. InOrder(r, Ahead(a), Ahead(a)[w], k, n) /\ \A x \in k : x \in Nat /\ x <= n
    BY <1>1, <1>4 DEF Kept
  <1>11. InOrder(s, Ahead(a), Ahead(a)[z], k, n + 1)
    BY <1>3, <1>10
  <1>12. \A x \in k : x \in Nat /\ x <= n + 1
    BY <1>7, <1>10
  <1>13. Kept(s, a, z, c, got, ready, buf)
    <2>1. (\A i, j \in DOMAIN got : i < j => got[i] < got[j]) /\ (ready => \A i \in DOMAIN got : got[i] < buf)
      BY DEF Kept
    <2> QED BY <1>3, <1>4, <1>6, <1>9, <1>11, <1>12, <2>1 DEF Kept
  <1>14. ASSUME a # w PROVE s[a] = r[a] /\ a # z
    <2>1. Ahead(a)[a] = 0 /\ Ahead(a)[w] \in Slots /\ Ahead(a)[w] # 0
      BY <1>14, AheadFacts
    <2>2. Ahead(a)[a] < Ahead(a)[w]
      BY <2>1, SMTT(60) DEF Slots
    <2>3. s[a] = r[a]
      BY <1>3, <2>2
    <2>4. Ahead(a)[z] # 0
      BY <1>3
    <2> QED BY <2>1, <2>3, <2>4
  <1> QED BY <1>3, <1>6, <1>13, <1>14 DEF KeptWith

-----------------------------------------------------------------------------
(* The steps *)

LEMMA ReadFromSlot ==
    ASSUME NEW g, IsNic(g)
    PROVE  ReadFrom(g) \in Slots
  <1>1. LAG \in Nat /\ LAG < RING
    BY RingAssumption, SMTT(60)
  <1>2. PICK c \in Slots : c = g.capr
    BY DEF IsNic
  <1> QED BY <1>1, <1>2, Onward DEF ReadFrom

\* A step that leaves the receive side of the mailbox, or the send side,
\* alone.
SameReceive(g, h) ==
    /\ h.ring = g.ring /\ h.capr = g.capr /\ h.cbr = g.cbr /\ h.came = g.came /\ h.got = g.got
    /\ h.rxready = g.rxready /\ h.rxbuf = g.rxbuf
SameSend(g, h) ==
    h.txlen = g.txlen /\ h.txbuf = g.txbuf /\ h.sent = g.sent /\ h.wire = g.wire /\ h.overrun = g.overrun

LEMMA SameReceiveFacts ==
    ASSUME NEW g, NEW h, SameReceive(g, h)
    PROVE  /\ KeptIn(g) => KeptIn(h)
           /\ ReadFrom(h) = ReadFrom(g)
           /\ \A v : IsNicLocal(g, v) => IsNicLocal(h, v)
           /\ \A v : Delivering(g, v) => Delivering(h, v)
  <1>1. ReadFrom(h) = ReadFrom(g)
    BY DEF SameReceive, ReadFrom
  <1> QED BY <1>1 DEF SameReceive, KeptIn, IsNicLocal, Delivering

LEMMA SentInSame ==
    ASSUME NEW g, NEW h, SameSend(g, h), SentIn(g)
    PROVE  SentIn(h)
  BY DEF SameSend, SentIn

LEMMA NicInvBeside ==
    ASSUME NicInv, Beside, box' = box
    PROVE  NicInv'
  <1>1. SUFFICES ASSUME dev = "rtl8139d", ~slipped PROVE NicInv'
    BY DEF NicInv, Beside
  <1>2. /\ {"tx_wait", "tx_len"} \cap ServiceLabels = {} /\ {"entry", "exit"} \cap NicLooping = {}
        /\ {"tx", "tx_done", "rx_done"} \subseteq NicLooping /\ "blink" \in Callers
    BY CallersAssumption DEF ServiceLabels, Starting, Stopping, NicLooping
  <1>3. who'["blink"].at \in {"tx_wait", "tx_len"} => who'["blink"] = who["blink"]
    BY <1>2 DEF Beside
  <1>4. \A p \in Alive' : proc'[p].at \in NicLooping => p \in Alive /\ proc'[p] = proc[p]
    BY <1>2 DEF Beside
  <1>5. (\E p \in Alive : proc[p].at = "tx_done") => \E p \in Alive' : proc'[p].at = "tx_done"
    BY <1>2 DEF Beside
  <1>6. IsNic(box) /\ KeptIn(box) /\ SendSide
    BY <1>1 DEF NicInv
  <1>7. who'["blink"].at \in {"tx_wait", "tx_len"} => who'["blink"].x = Len(box.sent) + 1
    BY <1>1, <1>3 DEF NicInv
  <1>8. /\ \A p \in Alive' : proc'[p].at \in NicLooping => IsNicLocal(box, proc'[p].v)
        /\ \A p \in Alive' : proc'[p].at = "rx_done" => Delivering(box, proc'[p].v)
    BY <1>1, <1>2, <1>4 DEF NicInv
  <1>9. SendSide'
    BY <1>2, <1>3, <1>4, <1>5, <1>6 DEF SendSide
  <1> QED BY <1>6, <1>7, <1>8, <1>9 DEF NicInv

\* The steps of the desktop's task, and of the card.
LEMMA NicSend ==
    ASSUME ShapeInv, NicInv, send
    PROVE  NicInv'
  <1>1. PICK x : x = Len(box.sent) + 1
    OBVIOUS
  <1>2. Moves("blink", "tx_wait", x) /\ UNCHANGED <<dev, slipped, proc, box>> /\ "blink" \in Callers /\ dev = "rtl8139d"
    BY <1>1, CallersAssumption DEF send, KernelCall, KeepsServices
  <1>3. SUFFICES ASSUME ~slipped PROVE NicInv'
    BY <1>2 DEF NicInv
  <1>4. who'["blink"].at = "tx_wait" /\ who'["blink"].x = x
    BY <1>2, MovesFacts
  <1>5. Alive' = Alive
    BY <1>2 DEF Alive
  <1>6. SendSide'
    BY <1>2, <1>3, <1>4, <1>5 DEF NicInv, SendSide
  <1> QED BY <1>1, <1>2, <1>3, <1>4, <1>5, <1>6 DEF NicInv

LEMMA NicCopies ==
    ASSUME ShapeInv, NicInv, dev = "rtl8139d", SendCopies
    PROVE  NicInv'
  <1>1. PICK x : x = who["blink"].x
    OBVIOUS
  <1>2. /\ Moves("blink", "tx_len", x) /\ UNCHANGED <<dev, slipped, proc>> /\ "blink" \in Callers
        /\ who["blink"].at = "tx_wait"
    BY <1>1, CallersAssumption DEF SendCopies, KernelStep, KeepsServices
  <1>3. SUFFICES ASSUME ~slipped PROVE NicInv'
    BY <1>2 DEF NicInv
  <1>4. IsNic(box) /\ KeptIn(box) /\ SendSide /\ x = Len(box.sent) + 1
    BY <1>1, <1>2, <1>3 DEF NicInv
  <1>5. x \in Nat
    <2>1. Len(box.sent) \in Nat
      BY <1>4, SeqShape DEF IsNic
    <2> QED BY <1>4, <2>1, SMTT(60)
  <1>6. PICK o \in BOOLEAN : o = (box.overrun \/ box.txlen # 0)
    OBVIOUS
  <1>7. box' = [box EXCEPT !.txbuf = x, !.overrun = o]
    BY <1>1, <1>6 DEF SendCopies
  <1>8. /\ IsNic(box') /\ SameReceive(box, box') /\ box'.txlen = box.txlen /\ box'.sent = box.sent
        /\ box'.wire = box.wire /\ box'.txbuf = x /\ box'.overrun = o
    BY <1>4, <1>5, <1>6, <1>7 DEF IsNic, NicFields, SameReceive
  <1>9. who'["blink"].at = "tx_len" /\ who'["blink"].x = x
    BY <1>2, MovesFacts
  <1>10. Alive' = Alive
    BY <1>2 DEF Alive
  <1>11. ~o => SentIn(box') /\ box.txlen = 0 /\ ~box.overrun
    BY <1>4, <1>6, <1>8 DEF SentIn, SendSide
  <1>12. SendSide'
    BY <1>2, <1>4, <1>8, <1>9, <1>10, <1>11 DEF SendSide
  <1>13. /\ KeptIn(box') /\ (\A v : IsNicLocal(box, v) => IsNicLocal(box', v))
         /\ \A v : Delivering(box, v) => Delivering(box', v)
    BY <1>4, <1>8, SameReceiveFacts
  <1> QED BY <1>2, <1>3, <1>4, <1>8, <1>9, <1>10, <1>12, <1>13 DEF NicInv

LEMMA NicHandsOver ==
    ASSUME ShapeInv, NicInv, dev = "rtl8139d", SendHandsOver
    PROVE  NicInv'
  <1>1. PICK x : x = who["blink"].x
    OBVIOUS
  <1>2. /\ Moves("blink", "idle", 0) /\ UNCHANGED <<dev, slipped, proc>> /\ "blink" \in Callers
        /\ who["blink"].at = "tx_len"
    BY CallersAssumption DEF SendHandsOver, KernelStep, KeepsServices
  <1>3. SUFFICES ASSUME ~slipped PROVE NicInv'
    BY <1>2 DEF NicInv
  <1>4. IsNic(box) /\ KeptIn(box) /\ SendSide /\ x = Len(box.sent) + 1
    BY <1>1, <1>2, <1>3 DEF NicInv
  <1>5. PICK n \in Nat : n = Len(box.sent) /\ x \in Nat /\ x = n + 1 /\ x # 0 /\ x # n
    <2>1. Len(box.sent) \in Nat
      BY <1>4, SeqShape DEF IsNic
    <2> QED BY <1>4, <2>1, SMTT(60)
  <1>6. PICK t \in Seq(Nat) : t = Append(box.sent, x) /\ Len(t) = x
    <2>1. PICK s \in Seq(Nat) : s = box.sent
      BY <1>4 DEF IsNic
    <2>2. Append(s, x) \in Seq(Nat) /\ Len(Append(s, x)) = Len(s) + 1
      BY <1>5, SeqAppend
    <2> QED BY <1>5, <2>1, <2>2
  <1>7. box' = [box EXCEPT !.txlen = x, !.sent = t]
    BY <1>1, <1>6 DEF SendHandsOver
  <1>8. /\ IsNic(box') /\ SameReceive(box, box') /\ box'.txlen = x /\ box'.sent = t
        /\ box'.wire = box.wire /\ box'.txbuf = box.txbuf /\ box'.overrun = box.overrun
    BY <1>4, <1>5, <1>6, <1>7 DEF IsNic, NicFields, SameReceive
  <1>9. who'["blink"].at = "idle"
    BY <1>2, MovesFacts
  <1>10. Alive' = Alive
    BY <1>2 DEF Alive
  <1>11. ~box.overrun => box.txlen = 0 /\ box.txbuf = x /\ Len(box.wire) = n
    BY <1>1, <1>2, <1>4, <1>5 DEF SendSide, SentIn
  <1>12. ~box.overrun => SentIn(box')
    BY <1>4, <1>5, <1>6, <1>8, <1>11 DEF SentIn, SendSide
  <1>13. SendSide'
    BY <1>2, <1>4, <1>5, <1>6, <1>8, <1>9, <1>10, <1>11, <1>12 DEF SendSide
  <1>14. /\ KeptIn(box') /\ (\A v : IsNicLocal(box, v) => IsNicLocal(box', v))
         /\ \A v : Delivering(box, v) => Delivering(box', v)
    BY <1>4, <1>8, SameReceiveFacts
  <1> QED BY <1>2, <1>3, <1>8, <1>9, <1>10, <1>13, <1>14 DEF NicInv

\* A step of the receive side alone, beside the driver's send side.
LEMMA SendSideSame ==
    ASSUME SendSide, NEW h, box' = h, SameSend(box, h), who' = who \/ who'["blink"].at = "idle",
           Alive' = Alive, proc' = proc
    PROVE  SendSide'
  <1>1. SentIn(box) => SentIn(h)
    BY SentInSame
  <1> QED BY <1>1 DEF SendSide, SameSend

LEMMA NicRecv ==
    ASSUME ShapeInv, NicInv, recv
    PROVE  NicInv'
  <1>2. /\ Moves("blink", "idle", 0) /\ UNCHANGED <<dev, slipped, proc>> /\ "blink" \in Callers
        /\ dev = "rtl8139d" /\ box.rxready
    BY CallersAssumption DEF recv, KernelStep, KeepsServices
  <1>3. SUFFICES ASSUME ~slipped PROVE NicInv'
    BY <1>2 DEF NicInv
  <1>4. IsNic(box) /\ KeptIn(box) /\ SendSide
    BY <1>2, <1>3 DEF NicInv
  <1>5. PICK s \in Seq(Nat), buf \in Nat : s = box.got /\ buf = box.rxbuf
    BY <1>4 DEF IsNic
  <1>6. PICK t \in Seq(Nat) : t = Append(s, buf)
    BY SeqAppend
  <1>7. box' = [box EXCEPT !.got = t, !.rxready = FALSE]
    BY <1>5, <1>6 DEF recv
  <1>8. PICK h : h = box'
    OBVIOUS
  <1>9. /\ IsNic(h) /\ SameSend(box, h) /\ h.got = t /\ h.rxready = FALSE /\ h.rxbuf = buf
        /\ h.ring = box.ring /\ h.capr = box.capr /\ h.cbr = box.cbr /\ h.came = box.came
    BY <1>4, <1>5, <1>7, <1>8 DEF IsNic, NicFields, SameSend
  <1>10. who'["blink"].at = "idle" /\ Alive' = Alive
    BY <1>2, MovesFacts DEF Alive
  <1>11. ReadFrom(h) = ReadFrom(box)
    BY <1>9 DEF ReadFrom
  <1>12. KeptIn(h)
    <2>1. PICK r, a, w, came : r = box.ring /\ a = ReadFrom(box) /\ w = box.cbr /\ came = box.came
      OBVIOUS
    <2>2. box.rxready = TRUE
      BY <1>2, <1>4 DEF IsNic
    <2>3. Kept(r, a, w, came, s, TRUE, buf)
      BY <1>4, <1>5, <2>1, <2>2 DEF KeptIn
    <2>4. Kept(r, a, w, came, t, FALSE, buf)
      BY <1>6, <2>3, KeptTaken
    <2> QED BY <1>9, <1>11, <2>1, <2>4 DEF KeptIn
  <1>13. SendSide'
    BY <1>2, <1>4, <1>8, <1>9, <1>10, SendSideSame
  <1>14. \A v : IsNicLocal(box, v) => IsNicLocal(h, v)
    BY <1>11 DEF IsNicLocal
  <1>15. \A p \in Alive : proc[p].at # "rx_done"
    BY <1>2, <1>3 DEF NicInv, Delivering
  <1> QED BY <1>2, <1>3, <1>8, <1>9, <1>10, <1>12, <1>13, <1>14, <1>15 DEF NicInv

LEMMA NicArrival ==
    ASSUME ShapeInv, NicInv, NEW len \in 1..2, NEW ok \in BOOLEAN, CardReceives(len, ok)
    PROVE  NicInv'
  <1>2. UNCHANGED <<dev, slipped, proc, who>> /\ dev = "rtl8139d" /\ FillOf(ReadFrom(box), box.cbr) + len < RING
    BY DEF CardReceives, Arrives, KeepsServices, ReadFrom, ReadAt
  <1>3. SUFFICES ASSUME ~slipped PROVE NicInv'
    BY <1>2 DEF NicInv
  <1>4. IsNic(box) /\ KeptIn(box) /\ SendSide
    BY <1>2, <1>3 DEF NicInv
  <1>p. PICK a \in Slots, w \in Slots, came \in Seq(Nat) : a = ReadFrom(box) /\ w = box.cbr /\ came = box.came
    <2>1. box.cbr \in Slots /\ box.came \in Seq(Nat) /\ ReadFrom(box) \in Slots
      BY <1>4, ReadFromSlot DEF IsNic
    <2> QED BY <2>1
  <1>q. PICK r, got, ready, buf : r = box.ring /\ got = box.got /\ ready = box.rxready /\ buf = box.rxbuf
    OBVIOUS
  <1>5. /\ a = ReadFrom(box) /\ w = box.cbr /\ r = box.ring /\ came = box.came
        /\ got = box.got /\ ready = box.rxready /\ buf = box.rxbuf
    BY <1>p, <1>q
  <1>6. PICK s, z, c : /\ s = Filed(r, w, Len(came), len, ok) /\ z = (w + len) % RING
                       /\ c = Append(came, IF ok THEN Len(came) + 1 ELSE 0)
    OBVIOUS
  <1>7. box' = [box EXCEPT !.ring = s, !.cbr = z, !.came = c]
    BY <1>5, <1>6 DEF CardReceives, Filed
  <1>8. /\ z \in Slots /\ IsRing(s) /\ c \in Seq(Nat) /\ Kept(s, a, z, c, got, ready, buf)
        /\ a # w => s[a] = r[a] /\ a # z
    <2>1. Kept(r, a, w, came, got, ready, buf) /\ IsRing(r)
      BY <1>4, <1>5 DEF KeptIn, IsNic
    <2>2. FillOf(a, w) + len < RING
      BY <1>2, <1>5
    <2>3. KeptWith(r, s, a, w, z, c, got, ready, buf)
      BY <1>6, <2>1, <2>2, KeptWritten
    <2> QED BY <2>3 DEF KeptWith
  <1>9. PICK h : h = box'
    OBVIOUS
  <1>10. /\ IsNic(h) /\ SameSend(box, h) /\ h.got = got /\ h.rxready = ready /\ h.rxbuf = buf
         /\ h.ring = s /\ h.capr = box.capr /\ h.cbr = z /\ h.came = c
    BY <1>4, <1>5, <1>7, <1>8, <1>9 DEF IsNic, NicFields, SameSend
  <1>11. Alive' = Alive
    BY <1>2 DEF Alive
  <1>12. ReadFrom(h) = a
    BY <1>5, <1>10 DEF ReadFrom
  <1>13. KeptIn(h)
    BY <1>8, <1>10, <1>12 DEF KeptIn
  <1>14. SendSide'
    BY <1>2, <1>4, <1>9, <1>10, <1>11, SendSideSame
  <1>15. \A v : IsNicLocal(box, v) => IsNicLocal(h, v)
    BY <1>5, <1>12 DEF IsNicLocal
  <1>16. \A v : Delivering(box, v) => Delivering(h, v)
    BY <1>5, <1>8, <1>10, <1>12 DEF Delivering
  <1>17. h.sent = box.sent
    BY <1>10 DEF SameSend
  <1> QED BY <1>2, <1>3, <1>9, <1>10, <1>11, <1>13, <1>14, <1>15, <1>16, <1>17 DEF NicInv

\* The steps of rtl8139d: its send half, ...
LEMMA NicSendHalf ==
    ASSUME ShapeInv, LaunchInv, NicInv, NEW p,
           NicStart(p) \/ NicExit(p) \/ NicLooksAtTx(p) \/ NicTransmits(p) \/ NicTxDone(p)
    PROVE  NicInv'
  <1>1. PICK b, a, v : At(p, b) /\ DriverStep(p, a, v) /\ dev = "rtl8139d"
    BY DEF NicStart, NicExit, NicLooksAtTx, NicTransmits, NicTxDone
  <1>2. dev' = dev /\ slipped' = slipped /\ who' = who
    BY <1>1 DEF DriverStep, KeepsServices
  <1>s. SUFFICES ASSUME ~slipped PROVE NicInv'
    BY <1>2 DEF NicInv
  <1>o. AtMostOne
    BY <1>s DEF LaunchInv
  <1>i. /\ IsNic(box) /\ KeptIn(box) /\ SendSide
        /\ who["blink"].at \in {"tx_wait", "tx_len"} => who["blink"].x = Len(box.sent) + 1
        /\ \A q \in Alive : proc[q].at \in NicLooping => IsNicLocal(box, proc[q].v)
    BY <1>1, <1>s DEF NicInv
  <1>l. NicLooping = {"top", "tx", "tx_done", "rx", "rx_done"}
    BY DEF NicLooping
  <1>3. CASE NicStart(p)
    <2>1. PICK w : w = [len |-> 0, off |-> ReadFrom(box)]
      OBVIOUS
    <2>2. At(p, "entry") /\ DriverStep(p, "top", w) /\ box' = box
      BY <1>3, <2>1 DEF NicStart, ReadFrom, ReadAt
    <2>3. Alive = {p} /\ Alive' = {p} /\ proc[p].at = "entry" /\ proc'[p].at = "top" /\ proc'[p].v = w
      BY <1>o, <2>2, OnlyStep
    <2>4. IsNicLocal(box, w)
      BY <2>1, SMTT(60) DEF IsNicLocal
    <2>5. SendSide'
      BY <1>2, <1>i, <2>2, <2>3 DEF SendSide
    <2> QED BY <1>2, <1>i, <2>2, <2>3, <2>4, <2>5 DEF NicInv
  <1>4. CASE NicExit(p)
    <2>2. At(p, "top") /\ DriverStep(p, "exit", 0) /\ box' = box
      BY <1>4 DEF NicExit
    <2>3. Alive = {p} /\ Alive' = {p} /\ proc[p].at = "top" /\ proc'[p].at = "exit"
      BY <1>o, <2>2, OnlyStep
    <2>5. SendSide'
      BY <1>2, <1>i, <2>2, <2>3 DEF SendSide
    <2> QED BY <1>2, <1>i, <1>l, <2>2, <2>3, <2>5 DEF NicInv
  <1>5. CASE NicLooksAtTx(p)
    <2>1. PICK u, w, c : u = proc[p].v /\ w = [u EXCEPT !.len = box.txlen] /\ c = IF box.txlen = 0 THEN "rx" ELSE "tx"
      OBVIOUS
    <2>2. At(p, "top") /\ DriverStep(p, c, w) /\ box' = box
      BY <1>5, <2>1 DEF NicLooksAtTx
    <2>3. Alive = {p} /\ Alive' = {p} /\ proc[p].at = "top" /\ proc'[p].at = c /\ proc'[p].v = w
      BY <1>o, <2>2, OnlyStep
    <2>4. IsNicLocal(box, u)
      BY <1>i, <1>l, <2>1, <2>3
    <2>5. IsNicLocal(box, w) /\ w.len = box.txlen
      BY <1>i, <2>1, <2>4 DEF IsNicLocal, IsNic
    <2>6. c # "tx_done" /\ c # "rx_done" /\ (c = "tx" => box.txlen # 0)
      BY <2>1
    <2>7. SendSide'
      BY <1>2, <1>i, <2>2, <2>3, <2>5, <2>6 DEF SendSide
    <2> QED BY <1>2, <1>i, <2>2, <2>3, <2>5, <2>6, <2>7 DEF NicInv
  <1>6. CASE NicTransmits(p)
    <2>1. PICK u, f : u = proc[p].v /\ f = [len |-> u.len, buf |-> box.txbuf]
      OBVIOUS
    <2>2. At(p, "tx") /\ DriverStep(p, "tx_done", u) /\ box' = [box EXCEPT !.wire = Append(box.wire, f)]
      BY <1>6, <2>1 DEF NicTransmits
    <2>3. Alive = {p} /\ Alive' = {p} /\ proc[p].at = "tx" /\ proc'[p].at = "tx_done" /\ proc'[p].v = u
      BY <1>o, <2>2, OnlyStep
    <2>4. IsNicLocal(box, u)
      BY <1>i, <1>l, <2>1, <2>3
    <2>5. f \in Wire
      BY <1>i, <2>1, <2>4, SMTT(60) DEF IsNicLocal, IsNic, Wire
    <2>6. PICK s \in Seq(Wire), n \in Nat : s = box.wire /\ n = Len(s) /\ DOMAIN s = 1..n
      BY <1>i, SeqShape DEF IsNic
    <2>7. PICK t \in Seq(Wire) : t = Append(s, f) /\ Len(t) = n + 1 /\ DOMAIN t = 1..(n + 1)
                                 /\ (\A i \in 1..n : t[i] = s[i]) /\ t[n + 1] = f
      <3>1. /\ Append(s, f) \in Seq(Wire) /\ Len(Append(s, f)) = n + 1
            /\ (\A i \in 1..n : Append(s, f)[i] = s[i]) /\ Append(s, f)[n + 1] = f
        BY <2>5, <2>6, SeqAppend, SMTT(60)
      <3>2. DOMAIN Append(s, f) = 1..(n + 1)
        BY <3>1, SeqShape
      <3> QED BY <3>1, <3>2
    <2>8. PICK h : h = box'
      OBVIOUS
    <2>9. /\ IsNic(h) /\ SameReceive(box, h) /\ h.txlen = box.txlen /\ h.sent = box.sent
          /\ h.wire = t /\ h.txbuf = box.txbuf /\ h.overrun = box.overrun
      BY <1>i, <2>2, <2>6, <2>7, <2>8 DEF IsNic, NicFields, SameReceive
    <2>10. /\ KeptIn(h) /\ IsNicLocal(h, u)
      BY <1>i, <2>4, <2>9, SameReceiveFacts
    <2>11. ASSUME ~box.overrun
           PROVE  SentIn(h) /\ h.txlen # 0 /\ Len(h.wire) = Len(h.sent)
      <3>1. SentIn(box) /\ u.len = box.txlen /\ box.txlen # 0 /\ Len(box.wire) # Len(box.sent)
        BY <1>i, <2>1, <2>3, <2>11 DEF SendSide
      <3>2. n + 1 = Len(box.sent) /\ box.txlen = n + 1 /\ box.txbuf = n + 1
        BY <2>6, <3>1 DEF SentIn
      <3>3. f = [len |-> n + 1, buf |-> n + 1]
        BY <2>1, <3>1, <3>2
      <3>4. \A i \in 1..n : s[i] = [len |-> i, buf |-> i]
        BY <2>6, <3>1 DEF SentIn
      <3>5. \A i \in 1..(n + 1) : i \in 1..n \/ i = n + 1
        BY SMTT(60)
      <3>6. \A i \in 1..(n + 1) : t[i] = [len |-> i, buf |-> i]
        BY <2>7, <3>3, <3>4, <3>5
      <3> QED BY <2>7, <2>9, <3>1, <3>2, <3>6 DEF SentIn
    <2>12. SendSide'
      <3>1. ~box.overrun /\ who["blink"].at = "tx_len" => h.txlen = 0 /\ h.txbuf = who["blink"].x
        BY <1>i, <2>9 DEF SendSide
      <3> QED BY <1>2, <2>3, <2>8, <2>9, <2>11, <3>1 DEF SendSide
    <2> QED BY <1>2, <1>i, <2>3, <2>8, <2>9, <2>10, <2>12 DEF NicInv
  <1>7. CASE NicTxDone(p)
    <2>1. PICK u : u = proc[p].v
      OBVIOUS
    <2>2. At(p, "tx_done") /\ DriverStep(p, "rx", u) /\ box' = [box EXCEPT !.txlen = 0]
      BY <1>7, <2>1 DEF NicTxDone
    <2>3. Alive = {p} /\ Alive' = {p} /\ proc[p].at = "tx_done" /\ proc'[p].at = "rx" /\ proc'[p].v = u
      BY <1>o, <2>2, OnlyStep
    <2>4. IsNicLocal(box, u)
      BY <1>i, <1>l, <2>1, <2>3
    <2>5. PICK h : h = box'
      OBVIOUS
    <2>6. /\ IsNic(h) /\ SameReceive(box, h) /\ h.txlen = 0 /\ h.sent = box.sent
          /\ h.wire = box.wire /\ h.txbuf = box.txbuf /\ h.overrun = box.overrun
      BY <1>i, <2>2, <2>5 DEF IsNic, NicFields, SameReceive
    <2>7. /\ KeptIn(h) /\ IsNicLocal(h, u)
      BY <1>i, <2>4, <2>6, SameReceiveFacts
    <2>8. ~box.overrun => SentIn(h) /\ who["blink"].at # "tx_len"
      BY <1>i, <2>3, <2>6 DEF SendSide, SentIn
    <2>9. SendSide'
      BY <1>2, <2>3, <2>5, <2>6, <2>8 DEF SendSide
    <2> QED BY <1>2, <1>i, <2>3, <2>5, <2>6, <2>7, <2>9 DEF NicInv
  <1> QED BY <1>3, <1>4, <1>5, <1>6, <1>7

\* ... and its receive half.
LEMMA NicReceiveHalf ==
    ASSUME ShapeInv, LaunchInv, NicInv, NEW p, NicLooksAtRx(p) \/ NicRxDone(p)
    PROVE  NicInv'
  <1>1. PICK c, d, w : At(p, c) /\ c \in {"rx", "rx_done"} /\ DriverStep(p, d, w) /\ dev = "rtl8139d"
    BY DEF NicLooksAtRx, NicRxDone
  <1>2. dev' = dev /\ slipped' = slipped /\ who' = who
    BY <1>1 DEF DriverStep, KeepsServices
  <1>s. SUFFICES ASSUME ~slipped PROVE NicInv'
    BY <1>2 DEF NicInv
  <1>o. AtMostOne
    BY <1>s DEF LaunchInv
  <1>i. /\ IsNic(box) /\ KeptIn(box) /\ SendSide
        /\ who["blink"].at \in {"tx_wait", "tx_len"} => who["blink"].x = Len(box.sent) + 1
        /\ \A q \in Alive : proc[q].at \in NicLooping => IsNicLocal(box, proc[q].v)
        /\ \A q \in Alive : proc[q].at = "rx_done" => Delivering(box, proc[q].v)
    BY <1>1, <1>s DEF NicInv
  <1>3. Alive = {p} /\ Alive' = {p} /\ proc[p].at = c /\ proc'[p].at = d /\ proc'[p].v = w
    BY <1>o, <1>1, OnlyStep
  <1>4. PICK u : u = proc[p].v /\ IsNicLocal(box, u)
    BY <1>1, <1>3, <1>i DEF NicLooping
  <1>5. PICK a \in Slots : a = ReadFrom(box) /\ u.off = a
    BY <1>4, <1>i, ReadFromSlot DEF IsNicLocal
  <1>6. PICK r, k : r = box.ring /\ k = box.cbr
    OBVIOUS
  <1>t. IsRing(r) /\ k \in Slots /\ r[a].len \in Nat /\ r[a].id \in Nat
    <2>1. IsRing(r) /\ k \in Slots
      BY <1>6, <1>i DEF IsNic
    <2>2. r[a].len \in 1..2 /\ r[a].id \in Nat
      BY <2>1 DEF IsRing, Unit
    <2> QED BY <2>1, <2>2, SMTT(60)
  <1>7. PICK h : h = box'
    OBVIOUS
  <1>8. ASSUME SameSend(box, h), d \in {"top", "rx_done"} PROVE SendSide' /\ h.sent = box.sent
    <2>1. SentIn(box) => SentIn(h)
      BY <1>8, SentInSame
    <2> QED BY <1>1, <1>2, <1>3, <1>7, <1>8, <1>i, <2>1 DEF SendSide, SameSend
  <1>9. ASSUME SameSend(box, h), IsNic(h), KeptIn(h), IsNicLocal(h, w), d = "top" \/ (d = "rx_done" /\ Delivering(h, w))
        PROVE  NicInv'
    <2>1. SendSide' /\ h.sent = box.sent
      BY <1>8, <1>9
    <2> QED BY <1>2, <1>3, <1>7, <1>9, <1>i, <2>1 DEF NicInv
  <1>w. PICK b : b = (a + r[a].len) % RING
    OBVIOUS
  <1>10. CASE h = box /\ d = "top" /\ w = u
    BY <1>4, <1>9, <1>10, <1>i DEF SameSend
  \* The position moves on to b: CAPR is set, and so is rx_off.
  <1>11. ASSUME NEW ready \in BOOLEAN,
                \/ h = [box EXCEPT !.capr = (b - LAG) % RING, !.rxready = ready]
                \/ h = [box EXCEPT !.capr = (b - LAG) % RING] /\ box.rxready = ready,
                b \in Slots, d = "top", DOMAIN w = {"len", "off"}, w.len \in Nat, w.off = b,
                Kept(r, b, k, box.came, box.got, ready, box.rxbuf)
         PROVE  NicInv'
    <2>1. PICK m \in Slots : m = (b - LAG) % RING /\ (m + LAG) % RING = b
      BY <1>11, Remembered
    <2>2. h = [box EXCEPT !.capr = m, !.rxready = ready] \/ (h = [box EXCEPT !.capr = m] /\ box.rxready = ready)
      BY <1>11, <2>1
    <2>3. /\ IsNic(h) /\ SameSend(box, h) /\ h.capr = m /\ h.rxready = ready /\ h.ring = r /\ h.cbr = k
          /\ h.came = box.came /\ h.got = box.got /\ h.rxbuf = box.rxbuf
      BY <1>6, <1>i, <2>2 DEF IsNic, NicFields, SameSend
    <2>4. ReadFrom(h) = b
      BY <2>1, <2>3 DEF ReadFrom
    <2>5. KeptIn(h) /\ IsNicLocal(h, w)
      BY <1>11, <2>3, <2>4 DEF KeptIn, IsNicLocal
    <2> QED BY <1>9, <1>11, <2>3, <2>5
  <1>k. Kept(r, a, k, box.came, box.got, box.rxready, box.rxbuf)
    BY <1>5, <1>6, <1>i DEF KeptIn
  <1>12. CASE NicLooksAtRx(p)
    <2>1. \/ h = box /\ DriverStep(p, "top", u)
          \/ /\ ~box.rxready /\ a # k /\ ~r[a].ok
             /\ h = [box EXCEPT !.capr = (b - LAG) % RING] /\ DriverStep(p, "top", [u EXCEPT !.off = b])
          \/ /\ ~box.rxready /\ a # k /\ r[a].ok
             /\ h = [box EXCEPT !.rxbuf = r[a].id] /\ DriverStep(p, "rx_done", [u EXCEPT !.len = r[a].len])
      BY <1>4, <1>5, <1>6, <1>7, <1>w, <1>12 DEF NicLooksAtRx, ReadAt, ReadFrom
    <2>2. CASE h = box /\ DriverStep(p, "top", u)
      <3>1. proc'[p].at = "top" /\ proc'[p].v = u
        BY <1>1, <1>o, <2>2, OnlyStep
      <3> QED BY <1>3, <1>10, <2>2, <3>1
    <2>3. CASE /\ ~box.rxready /\ a # k /\ ~r[a].ok
               /\ h = [box EXCEPT !.capr = (b - LAG) % RING] /\ DriverStep(p, "top", [u EXCEPT !.off = b])
      <3>1. d = "top" /\ w = [u EXCEPT !.off = b]
        BY <1>1, <1>3, <1>o, <2>3, OnlyStep
      <3>2. DOMAIN w = {"len", "off"} /\ w.len \in Nat /\ w.off = b
        BY <1>4, <3>1 DEF IsNicLocal
      <3>3. box.rxready = FALSE
        BY <1>i, <2>3 DEF IsNic
      <3>4. b \in Slots /\ Kept(r, b, k, box.came, box.got, FALSE, box.rxbuf)
        <4>1. Kept(r, a, k, box.came, box.got, FALSE, box.rxbuf)
          BY <1>k, <3>3
        <4>2. IsRing(r) /\ k \in Slots /\ a # k /\ ~r[a].ok
          BY <1>t, <2>3
        <4>3. PICK came, got, buf : came = box.came /\ got = box.got /\ buf = box.rxbuf
          OBVIOUS
        <4>4. Kept(r, a, k, came, got, FALSE, buf)
          BY <4>1, <4>3
        <4>5. KeptFrom(r, b, k, came, got, FALSE, buf)
          BY <1>w, <4>2, <4>4, KeptPassed
        <4>6. b \in Slots /\ Kept(r, b, k, came, got, FALSE, buf)
          BY <4>5 DEF KeptFrom
        <4> QED BY <4>3, <4>6
      <3> QED BY <1>11, <2>3, <3>1, <3>2, <3>3, <3>4
    <2>4. CASE /\ ~box.rxready /\ a # k /\ r[a].ok
               /\ h = [box EXCEPT !.rxbuf = r[a].id] /\ DriverStep(p, "rx_done", [u EXCEPT !.len = r[a].len])
      <3>1. d = "rx_done" /\ w = [u EXCEPT !.len = r[a].len]
        BY <1>1, <1>3, <1>o, <2>4, OnlyStep
      <3>2. DOMAIN w = {"len", "off"} /\ w.len = r[a].len /\ w.off = a
        BY <1>4, <1>5, <3>1 DEF IsNicLocal
      <3>3. /\ IsNic(h) /\ SameSend(box, h) /\ h.capr = box.capr /\ h.rxready = box.rxready /\ h.ring = r /\ h.cbr = k
            /\ h.came = box.came /\ h.got = box.got /\ h.rxbuf = r[a].id
        BY <1>6, <1>i, <1>t, <2>4 DEF IsNic, NicFields, SameSend
      <3>4. ReadFrom(h) = a
        BY <1>5, <3>3 DEF ReadFrom
      <3>5. box.rxready = FALSE
        BY <1>i, <2>4 DEF IsNic
      <3>6. Known(box.got, FALSE, box.rxbuf) = Known(box.got, FALSE, r[a].id)
        BY KnownFalse
      <3>7. Kept(r, a, k, box.came, box.got, FALSE, r[a].id)
        BY <1>k, <3>5, <3>6 DEF Kept
      <3>8. KeptIn(h) /\ IsNicLocal(h, w) /\ Delivering(h, w)
        BY <1>t, <2>4, <3>2, <3>3, <3>4, <3>5, <3>7 DEF KeptIn, IsNicLocal, Delivering
      <3> QED BY <1>9, <3>1, <3>3, <3>8
    <2> QED BY <2>1, <2>2, <2>3, <2>4
  <1>13. CASE NicRxDone(p)
    <2>1. At(p, "rx_done") /\ DriverStep(p, "top", [u EXCEPT !.off = (u.off + u.len) % RING])
          /\ h = [box EXCEPT !.capr = (((u.off + u.len) % RING) - LAG) % RING, !.rxready = TRUE]
      BY <1>4, <1>7, <1>13 DEF NicRxDone
    <2>2. proc[p].at = "rx_done" /\ d = "top" /\ w = [u EXCEPT !.off = (u.off + u.len) % RING]
      BY <1>3, <1>o, <2>1, OnlyStep
    <2>3. Delivering(box, u)
      BY <1>3, <1>4, <1>i, <2>2
    <2>4. ~box.rxready /\ a # k /\ r[a].ok /\ box.rxbuf = r[a].id /\ u.len = r[a].len
      BY <1>5, <1>6, <2>3 DEF Delivering
    <2>5. (u.off + u.len) % RING = b
      BY <1>5, <1>w, <2>4
    <2>6. DOMAIN w = {"len", "off"} /\ w.len \in Nat /\ w.off = b
      BY <1>4, <2>2, <2>5 DEF IsNicLocal
    <2>7. box.rxready = FALSE
      BY <1>i, <2>4 DEF IsNic
    <2>8. b \in Slots /\ Kept(r, b, k, box.came, box.got, TRUE, box.rxbuf)
      BY <1>k, <1>t, <1>w, <2>4, <2>7, KeptDelivered
    <2> QED BY <1>11, <2>1, <2>2, <2>5, <2>6, <2>8
  <1> QED BY <1>12, <1>13

LEMMA NicInvNic ==
    ASSUME ShapeInv, LaunchInv, NicInv, NicNext
    PROVE  NicInv'
  <1>d. dev = "rtl8139d"
    BY NicStep
  <1>1. CASE ServiceFunction /\ UNCHANGED box
    BY <1>1, FunctionBeside, NicInvBeside
  <1>2. CASE nic_spawn_pending_driver
    BY <1>1, <1>2, <1>d DEF nic_spawn_pending_driver, ServiceFunction
  <1>3. CASE \E c \in Callers : nic_start_service(c) \/ nic_stop_service(c)
    BY <1>1, <1>3, <1>d DEF nic_start_service, nic_stop_service, ServiceFunction
  <1>4. CASE send \/ SendCopies \/ SendHandsOver \/ recv
    BY <1>4, <1>d, NicSend, NicCopies, NicHandsOver, NicRecv
  <1>5. CASE \E len \in 1..2, ok \in BOOLEAN : CardReceives(len, ok)
    BY <1>5, NicArrival
  <1>6. ASSUME NEW p \in DOMAIN proc, NicDriver(p) PROVE NicInv'
    BY <1>6, NicSendHalf, NicReceiveHalf DEF NicDriver
  <1> QED BY <1>2, <1>3, <1>4, <1>5, <1>6 DEF NicNext

LEMMA NicInvInit ==
    ASSUME ServicesInit, NicInit
    PROVE  NicInv
  <1>3. PICK f : f = [i \in 0..(RING - 1) |-> Payload]
    OBVIOUS
  <1>4. IsRing(f)
    <2>1. Payload \in Unit /\ ~Payload.ok
      BY SMTT(60) DEF Unit, Payload
    <2> QED BY <1>3, <2>1 DEF IsRing, Slots
  <1>5. PICK c \in Slots : c = RING - LAG /\ (c + LAG) % RING = 0
    <2>1. RING - LAG \in Slots /\ 0 \in Slots
      BY RingAssumption, SMTT(60) DEF Slots
    <2>2. PICK n \in Nat : n = RING /\ n # 0
      BY RingAssumption, SMTT(60)
    <2>3. n % n = 0 /\ (RING - LAG) + LAG = n
      BY <2>2, RingAssumption, SMTT(60)
    <2> QED BY <2>1, <2>2, <2>3
  <1>6. box = [txlen |-> 0, txbuf |-> 0, rxready |-> FALSE, rxbuf |-> 0, ring |-> f, capr |-> c, cbr |-> 0,
               sent |-> <<>>, wire |-> <<>>, came |-> <<>>, got |-> <<>>, overrun |-> FALSE]
    BY <1>3, <1>5 DEF NicInit
  <1>7. 0 \in Slots /\ 0 \in Nat
    BY RingAssumption, SMTT(60) DEF Slots
  <1>8. <<>> \in Seq(Nat) /\ <<>> \in Seq(Wire) /\ Len(<<>>) = 0 /\ DOMAIN <<>> = {}
    BY SMTT(60)
  <1>9. /\ box.txlen = 0 /\ box.rxready = FALSE /\ box.rxbuf = 0 /\ box.ring = f /\ box.capr = c /\ box.cbr = 0
        /\ box.sent = <<>> /\ box.wire = <<>> /\ box.came = <<>> /\ box.got = <<>> /\ box.overrun = FALSE
        /\ box.txbuf = 0 /\ DOMAIN box = NicFields
    BY <1>6 DEF NicFields
  <1>10. IsNic(box)
    BY <1>4, <1>7, <1>8, <1>9 DEF IsNic
  <1>11. ReadFrom(box) = 0
    BY <1>5, <1>9 DEF ReadFrom
  <1>12. KeptIn(box)
    <2>1. PICK a \in Slots, m \in [Slots -> Slots] : a = 0 /\ m = Ahead(a) /\ m[a] = 0
      BY <1>7, AheadFacts
    <2>2. \A j \in Slots : ~(m[j] < 0)
      BY SMTT(60) DEF Slots
    <2>3. Chained(f, m, 0) /\ Frames(f, m, 0) = {} /\ \A k, n : InOrder(f, m, 0, k, n)
      <3>1. ~(0 < 0)
        BY SMTT(60)
      <3> QED BY <2>2, <3>1 DEF Chained, Frames, InOrder
    <2>4. Known(<<>>, FALSE, 0) = {} /\ Good(<<>>) = {}
      BY <1>8 DEF Known, Good
    <2>5. Kept(f, 0, 0, <<>>, <<>>, FALSE, 0)
      BY <1>8, <2>1, <2>3, <2>4 DEF Kept
    <2> QED BY <1>9, <1>11, <2>5 DEF KeptIn
  <1>13. DOMAIN proc = {} /\ who["blink"].at = "idle"
    <2>1. proc = <<>> /\ who = [k \in Callers |-> Idle]
      BY DEF ServicesInit
    <2> QED BY <1>8, <2>1, IdleFields, CallersAssumption
  <1>14. SentIn(box)
    BY <1>8, <1>9 DEF SentIn
  <1>15. SendSide
    BY <1>9, <1>13, <1>14 DEF SendSide, Alive
  <1> QED BY <1>10, <1>12, <1>13, <1>15 DEF NicInv, Alive

LEMMA NicInvGives ==
    NicInv => FramesKept
  <1>1. SUFFICES ASSUME NicInv, dev = "rtl8139d", ~slipped PROVE FramesKept
    BY DEF FramesKept, FramesLeaveInOrder, FramesArriveOnce
  <1>2. IsNic(box) /\ KeptIn(box) /\ SendSide
    BY <1>1 DEF NicInv
  <1>3. ASSUME ~box.overrun
        PROVE  /\ Len(box.wire) <= Len(box.sent) /\ Len(box.wire) >= Len(box.sent) - 1
               /\ \A i \in DOMAIN box.wire : box.wire[i] = [len |-> i, buf |-> i]
    <2>1. SentIn(box)
      BY <1>2, <1>3 DEF SendSide
    <2>2. PICK m \in Nat, n \in Nat : m = Len(box.wire) /\ n = Len(box.sent)
      BY <1>2, SeqShape DEF IsNic
    <2>3. m = n \/ m + 1 = n
      BY <2>1, <2>2 DEF SentIn
    <2>4. m <= n /\ m >= n - 1
      BY <2>3, SMTT(60)
    <2> QED BY <2>1, <2>2, <2>4 DEF SentIn
  <1>4. FramesLeaveInOrder
    BY <1>3 DEF FramesLeaveInOrder
  <1>5. FramesArriveOnce
    <2>1. PICK a \in Slots, w \in Slots : a = ReadFrom(box) /\ w = box.cbr
      BY <1>2, ReadFromSlot DEF IsNic
    <2>2. ReadAt = a
      BY <2>1 DEF ReadAt, ReadFrom
    <2>3. \A j \in Slots : Ahead(a)[j] = FillOf(a, j)
      BY AheadFacts
    <2>4. {box.ring[i].id : i \in {j \in 0..(RING - 1) : FillOf(a, j) < FillOf(a, w) /\ box.ring[j].ok}}
            = Frames(box.ring, Ahead(a), Ahead(a)[w])
      BY <2>3 DEF Frames, Slots
    <2>5. Kept(box.ring, a, w, box.came, box.got, box.rxready, box.rxbuf)
      BY <1>2, <2>1 DEF KeptIn
    <2>6. /\ Good(box.came) = Known(box.got, box.rxready, box.rxbuf) \cup Frames(box.ring, Ahead(a), Ahead(a)[w])
          /\ \A i, j \in DOMAIN box.got : i < j => box.got[i] < box.got[j]
      BY <2>5 DEF Kept
    <2>7. {box.came[i] : i \in DOMAIN box.came} \ {0} =
            {box.got[i] : i \in DOMAIN box.got} \cup Frames(box.ring, Ahead(a), Ahead(a)[w])
              \cup (IF box.rxready THEN {box.rxbuf} ELSE {})
      BY <2>6 DEF Good, Known
    <2> QED BY <2>1, <2>2, <2>4, <2>6, <2>7 DEF FramesArriveOnce
  <1> QED BY <1>4, <1>5 DEF FramesKept

-----------------------------------------------------------------------------
(* The USB rings *)

Indices == 0..(RING_N - 1)
Position == [i : Indices, c : 0..1]
Event == [c : 0..1, d : Devices, ok : BOOLEAN]
Report == [d : Devices, n : Nat]

\* The events from one position to another, and the event ring between a
\* reader and the controller: the controller's lap up to its position, the lap
\* before from there on, and of no device two events.
Unread(from, to) ==
    {j \in Indices : IF from.c = to.c THEN from.i <= j /\ j < to.i ELSE from.i <= j \/ j < to.i}
Posted(evt, from, to) ==
    /\ IF from.c = to.c THEN from.i <= to.i ELSE to.i <= from.i
    /\ \A j \in Indices : evt[j].c = IF j < to.i THEN to.c ELSE Flip(to.c)
    /\ \A j, k \in Unread(from, to) : evt[j].d = evt[k].d => j = k

\* The cycle bits of a transfer ring that has been filled up to a position.
Cycles(r, pos) ==
    /\ pos.i < RING_N - 1
    /\ \A j \in 0..(RING_N - 2) : r[j] = IF j < pos.i THEN pos.c ELSE Flip(pos.c)

LEMMA AlongFacts ==
    ASSUME NEW pos \in Position
    PROVE  /\ Along(pos) \in Position
           /\ Along(pos).i = IF pos.i + 1 >= RING_N THEN 0 ELSE pos.i + 1
           /\ Along(pos).c = IF pos.i + 1 >= RING_N THEN Flip(pos.c) ELSE pos.c
  BY RingsAssumption, SMTT(60) DEF Along, Position, Indices, Flip

PostedOne(evt, new, from, to) ==
    /\ new \in [Indices -> Event] /\ to.i \in Indices /\ to.i \notin Unread(from, to)
    /\ Posted(new, from, Along(to))
    /\ \A j : j \in Unread(from, Along(to)) <=> j \in Unread(from, to) \/ j = to.i
    /\ \A j \in Unread(from, to) : new[j] = evt[j]

\* The controller posts an event of a device that has none waiting: with two
\* devices and two places or more, the ring is not full.
LEMMA EventPosted ==
    ASSUME NEW evt \in [Indices -> Event], NEW from \in Position, NEW to \in Position, Posted(evt, from, to),
           NEW e \in Event, e.c = to.c, \A j \in Unread(from, to) : evt[j].d # e.d,
           NEW new, new = [evt EXCEPT ![to.i] = e]
    PROVE  PostedOne(evt, new, from, to)
  <1>1. PICK a \in Indices, b \in Indices : a = from.i /\ b = to.i
    BY DEF Position
  <1>2. PICK x \in 0..1, y \in 0..1 : x = from.c /\ y = to.c
    BY DEF Position
  <1>3. PICK to2 \in Position : to2 = Along(to)
    BY AlongFacts
  <1>4. PICK z \in Indices, w \in 0..1 : z = to2.i /\ w = to2.c
    BY DEF Position
  <1>5. z = (IF b + 1 >= RING_N THEN 0 ELSE b + 1) /\ w = IF b + 1 >= RING_N THEN 1 - y ELSE y
    BY <1>1, <1>2, <1>3, <1>4, AlongFacts DEF Flip
  <1>6. /\ IF x = y THEN a <= b ELSE b <= a
        /\ \A j \in Indices : evt[j].c = IF j < b THEN y ELSE 1 - y
        /\ \A j, k \in Unread(from, to) : evt[j].d = evt[k].d => j = k
    BY <1>1, <1>2 DEF Posted, Flip
  <1>7. \A j : j \in Unread(from, to) <=> j \in Indices /\ IF x = y THEN a <= j /\ j < b ELSE a <= j \/ j < b
    BY <1>1, <1>2 DEF Unread
  <1>8. \A j : j \in Unread(from, to2) <=> j \in Indices /\ IF x = w THEN a <= j /\ j < z ELSE a <= j \/ j < z
    BY <1>1, <1>2, <1>4 DEF Unread
  <1>9. b \notin Unread(from, to)
    <2>1. SUFFICES ASSUME b \in Unread(from, to) PROVE FALSE
      OBVIOUS
    <2>2. x # y /\ a = b
      BY <1>6, <1>7, <2>1, SMTT(60) DEF Indices
    <2>3. 0 \in Unread(from, to) /\ 1 \in Unread(from, to) /\ 0 \in Indices /\ 1 \in Indices /\ 0 # 1
      BY <1>7, <2>2, RingsAssumption, SMTT(60) DEF Indices
    <2>4. evt[0].d = evt[1].d
      <3>1. evt[0].d \in Devices /\ evt[1].d \in Devices /\ e.d \in Devices
        BY <2>3 DEF Event
      <3>2. evt[0].d # e.d /\ evt[1].d # e.d
        BY <2>3
      <3> QED BY <3>1, <3>2 DEF Devices
    <2> QED BY <1>6, <2>3, <2>4
  <1>10. /\ new \in [Indices -> Event] /\ new[b] = e
         /\ \A j \in Indices : j # b => new[j] = evt[j]
    BY <1>1
  <1>11. \A j \in Indices : j \in Unread(from, to2) <=> j \in Unread(from, to) \/ j = b
    <2>1. ~(x # y /\ a = b)
      BY <1>7, <1>9, SMTT(60) DEF Indices
    <2> QED BY <1>5, <1>6, <1>7, <1>8, <2>1, RingsAssumption, SMTT(60) DEF Indices
  <1>12. \A j : j \in Unread(from, to2) <=> j \in Unread(from, to) \/ j = b
    BY <1>7, <1>8, <1>11
  <1>13. IF x = w THEN a <= z ELSE z <= a
    <2>1. ~(x # y /\ a = b)
      BY <1>7, <1>9, SMTT(60) DEF Indices
    <2> QED BY <1>5, <1>6, <2>1, RingsAssumption, SMTT(60) DEF Indices
  <1>14. \A j \in Indices : new[j].c = IF j < z THEN w ELSE 1 - w
    <2>1. \A j \in Indices : new[j].c = IF j = b THEN y ELSE IF j < b THEN y ELSE 1 - y
      BY <1>2, <1>6, <1>10
    <2> QED BY <1>5, <2>1, RingsAssumption, SMTT(60) DEF Indices
  <1>15. \A j, k \in Unread(from, to2) : new[j].d = new[k].d => j = k
    <2>1. \A j \in Unread(from, to) : new[j].d = evt[j].d /\ new[j].d # e.d
      BY <1>7, <1>9, <1>10
    <2>2. SUFFICES ASSUME NEW j \in Unread(from, to2), NEW k \in Unread(from, to2), new[j].d = new[k].d
                   PROVE  j = k
      OBVIOUS
    <2>3. CASE j = b \/ k = b
      BY <1>10, <1>12, <2>1, <2>2, <2>3
    <2>4. CASE j # b /\ k # b
      <3>1. j \in Unread(from, to) /\ k \in Unread(from, to)
        BY <1>12, <2>4
      <3>2. evt[j].d = evt[k].d
        BY <2>1, <2>2, <3>1
      <3> QED BY <1>6, <3>1, <3>2
    <2> QED BY <2>3, <2>4
  <1>16. Posted(new, from, to2)
    BY <1>1, <1>2, <1>4, <1>13, <1>14, <1>15 DEF Posted, Flip
  <1> QED BY <1>1, <1>3, <1>7, <1>9, <1>10, <1>12, <1>16 DEF PostedOne

ReadOne(evt, from, to) ==
    /\ from.i \in Unread(from, to) /\ Posted(evt, Along(from), to)
    /\ \A j : j \in Unread(Along(from), to) <=> j \in Unread(from, to) /\ j # from.i

\* The reader takes the event it looks at, and there is none when the bit is
\* not its own.
LEMMA EventRead ==
    ASSUME NEW evt \in [Indices -> Event], NEW from \in Position, NEW to \in Position, Posted(evt, from, to)
    PROVE  /\ evt[from.i].c = from.c => ReadOne(evt, from, to)
           /\ evt[from.i].c # from.c => Unread(from, to) = {}
  <1>1. PICK a \in Indices, b \in Indices : a = from.i /\ b = to.i
    BY DEF Position
  <1>2. PICK x \in 0..1, y \in 0..1 : x = from.c /\ y = to.c
    BY DEF Position
  <1>3. PICK from2 \in Position : from2 = Along(from)
    BY AlongFacts
  <1>4. PICK z \in Indices, w \in 0..1 : z = from2.i /\ w = from2.c
    BY DEF Position
  <1>5. z = (IF a + 1 >= RING_N THEN 0 ELSE a + 1) /\ w = IF a + 1 >= RING_N THEN 1 - x ELSE x
    BY <1>1, <1>2, <1>3, <1>4, AlongFacts DEF Flip
  <1>6. /\ IF x = y THEN a <= b ELSE b <= a
        /\ \A j \in Indices : evt[j].c = IF j < b THEN y ELSE 1 - y
        /\ \A j, k \in Unread(from, to) : evt[j].d = evt[k].d => j = k
    BY <1>1, <1>2 DEF Posted, Flip
  <1>7. \A j : j \in Unread(from, to) <=> j \in Indices /\ IF x = y THEN a <= j /\ j < b ELSE a <= j \/ j < b
    BY <1>1, <1>2 DEF Unread
  <1>8. \A j : j \in Unread(from2, to) <=> j \in Indices /\ IF w = y THEN z <= j /\ j < b ELSE z <= j \/ j < b
    BY <1>1, <1>2, <1>4 DEF Unread
  <1>9. evt[a].c = x <=> (x # y \/ a < b)
    BY <1>6, SMTT(60) DEF Indices
  <1>10. ASSUME evt[a].c = x PROVE ReadOne(evt, from, to)
    <2>1. x # y \/ a < b
      BY <1>9, <1>10
    <2>2. a \in Unread(from, to)
      BY <1>7, <2>1, SMTT(60) DEF Indices
    <2>3. \A j \in Indices : j \in Unread(from2, to) <=> j \in Unread(from, to) /\ j # a
      BY <1>5, <1>6, <1>7, <1>8, <2>1, RingsAssumption, SMTT(60) DEF Indices
    <2>4. \A j : j \in Unread(from2, to) <=> j \in Unread(from, to) /\ j # a
      BY <1>7, <1>8, <2>3
    <2>5. IF w = y THEN z <= b ELSE b <= z
      BY <1>5, <1>6, <2>1, RingsAssumption, SMTT(60) DEF Indices
    <2>6. Posted(evt, from2, to)
      BY <1>1, <1>2, <1>4, <1>6, <2>4, <2>5 DEF Posted, Flip
    <2> QED BY <1>1, <1>3, <2>2, <2>4, <2>6 DEF ReadOne
  <1>11. ASSUME evt[a].c # x PROVE Unread(from, to) = {}
    <2>1. x = y /\ a = b
      BY <1>6, <1>9, <1>11, SMTT(60) DEF Indices
    <2>2. \A j \in Indices : j \notin Unread(from, to)
      BY <1>7, <2>1, SMTT(60) DEF Indices
    <2> QED BY <1>7, <2>2
  <1> QED BY <1>1, <1>2, <1>10, <1>11

QueuedOne(r, pos, s, next) ==
    /\ s \in [Indices -> 0..1] /\ next \in Position
    /\ s[pos.i] = pos.c /\ Passed(s, pos) = next /\ Cycles(s, next)

\* queue_hid gives the controller an entry, after which it stands where the
\* next one will be.
LEMMA QueuedFacts ==
    ASSUME NEW r \in [Indices -> 0..1], NEW pos \in Position, Cycles(r, pos)
    PROVE  QueuedOne(r, pos, Queued(r, pos).ring, Queued(r, pos).pos)
  <1>1. PICK a \in Indices, x \in 0..1 : a = pos.i /\ x = pos.c /\ pos = [i |-> a, c |-> x]
    BY SMTT(60) DEF Position
  <1>2. a + 1 <= RING_N - 1 /\ \A j \in 0..(RING_N - 2) : r[j] = IF j < a THEN x ELSE 1 - x
    <2>1. a < RING_N - 1 /\ \A j \in 0..(RING_N - 2) : r[j] = IF j < a THEN x ELSE Flip(x)
      BY <1>1 DEF Cycles
    <2> QED BY <2>1, RingsAssumption, SMTT(60) DEF Indices, Flip
  <1>3. PICK f \in [Indices -> 0..1] : f = [r EXCEPT ![a] = x]
    OBVIOUS
  <1>4. RING_N - 1 \in Indices /\ 0 \in Indices /\ 1 - x \in 0..1 /\ (a + 1 < RING_N - 1 => a + 1 \in Indices)
    BY <1>2, RingsAssumption, SMTT(60) DEF Indices
  <1>5. CASE a + 1 >= RING_N - 1
    <2>1. PICK s \in [Indices -> 0..1] : s = [f EXCEPT ![RING_N - 1] = x]
      BY <1>4
    <2>2. PICK n \in Position : n = [i |-> 0, c |-> 1 - x] /\ n.i = 0 /\ n.c = 1 - x
      <3>1. [i |-> 0, c |-> 1 - x] \in Position
        BY <1>4 DEF Position
      <3> QED BY <3>1
    <2>3. Queued(r, pos) = [ring |-> s, pos |-> n]
      BY <1>1, <1>3, <1>5, <2>1, <2>2 DEF Queued, Flip
    <2>4. a + 1 = RING_N - 1 /\ a # RING_N - 1
      BY <1>2, <1>5, RingsAssumption, SMTT(60) DEF Indices
    <2>5. s[a] = x /\ s[RING_N - 1] = x /\ \A j \in Indices : j # a /\ j # RING_N - 1 => s[j] = r[j]
      BY <1>3, <1>4, <2>1, <2>4
    <2>6. Passed(s, pos) = n
      BY <1>1, <2>2, <2>4, <2>5 DEF Passed, Flip
    <2>7. \A j \in 0..(RING_N - 2) : s[j] = IF j < 0 THEN 1 - x ELSE x
      BY <1>2, <2>4, <2>5, RingsAssumption, SMTT(60) DEF Indices
    <2>8. Cycles(s, n)
      <3>1. n.i < RING_N - 1 /\ x = 1 - n.c
        BY <2>2, RingsAssumption, SMTT(60)
      <3> QED BY <2>2, <2>7, <3>1 DEF Cycles, Flip
    <2>9. Queued(r, pos).ring = s /\ Queued(r, pos).pos = n
      <3>1. [ring |-> s, pos |-> n].ring = s /\ [ring |-> s, pos |-> n].pos = n
        OBVIOUS
      <3> QED BY <2>3, <3>1
    <2>10. QueuedOne(r, pos, s, n)
      BY <1>1, <2>5, <2>6, <2>8 DEF QueuedOne
    <2> QED BY <2>9, <2>10
  <1>6. CASE ~(a + 1 >= RING_N - 1)
    <2>1. a + 1 < RING_N - 1 /\ a + 1 # RING_N - 1
      BY <1>6, RingsAssumption, SMTT(60) DEF Indices
    <2>2. PICK n \in Position : n = [i |-> a + 1, c |-> x] /\ n.i = a + 1 /\ n.c = x
      <3>1. [i |-> a + 1, c |-> x] \in Position
        BY <1>4, <2>1 DEF Position
      <3> QED BY <3>1
    <2>3. Queued(r, pos) = [ring |-> f, pos |-> n]
      BY <1>1, <1>3, <1>6, <2>2 DEF Queued
    <2>4. f[a] = x /\ \A j \in Indices : j # a => f[j] = r[j]
      BY <1>3
    <2>5. Passed(f, pos) = n
      BY <1>1, <2>1, <2>2, SMTT(60) DEF Passed
    <2>6. \A j \in 0..(RING_N - 2) : f[j] = IF j < a + 1 THEN x ELSE 1 - x
      BY <1>2, <2>4, RingsAssumption, SMTT(60) DEF Indices
    <2>7. Cycles(f, n)
      BY <2>1, <2>2, <2>6 DEF Cycles, Flip
    <2>8. Queued(r, pos).ring = f /\ Queued(r, pos).pos = n
      <3>1. [ring |-> f, pos |-> n].ring = f /\ [ring |-> f, pos |-> n].pos = n
        OBVIOUS
      <3> QED BY <2>3, <3>1
    <2>9. QueuedOne(r, pos, f, n)
      BY <1>1, <2>4, <2>5, <2>7 DEF QueuedOne
    <2> QED BY <2>8, <2>9
  <1> QED BY <1>5, <1>6

-----------------------------------------------------------------------------
(* The reports *)

\* One more at the end, and one less at the start.
Grown(s, t, k, x) ==
    /\ k \in Nat /\ DOMAIN s = 1..k /\ DOMAIN t = 1..(k + 1)
    /\ (\A i \in 1..k : t[i] = s[i]) /\ t[k + 1] = x
Shifted(s, t, m) ==
    /\ m \in Nat \ {0} /\ DOMAIN s = 1..m /\ DOMAIN t = 1..(m - 1)
    /\ \A i \in 1..(m - 1) : t[i] = s[i + 1]

LEMMA AppendGrows ==
    ASSUME NEW S, NEW s \in Seq(S), NEW x \in S
    PROVE  Append(s, x) \in Seq(S) /\ Grown(s, Append(s, x), Len(s), x)
  <1>1. PICK t : t = Append(s, x)
    OBVIOUS
  <1>2. t \in Seq(S) /\ Len(t) = Len(s) + 1 /\ (\A i \in 1..Len(s) : t[i] = s[i]) /\ t[Len(s) + 1] = x
    BY <1>1, SeqAppend
  <1>3. Len(s) \in Nat /\ DOMAIN s = 1..Len(s) /\ DOMAIN t = 1..Len(t)
    BY <1>2, SeqShape
  <1> QED BY <1>1, <1>2, <1>3 DEF Grown

LEMMA TailShifts ==
    ASSUME NEW S, NEW s \in Seq(S), s # <<>>
    PROVE  Tail(s) \in Seq(S) /\ Head(s) = s[1] /\ s[1] \in S /\ Shifted(s, Tail(s), Len(s))
  <1>1. PICK t : t = Tail(s)
    OBVIOUS
  <1>2. /\ Head(s) = s[1] /\ s[1] \in S /\ Len(s) \in Nat /\ Len(s) # 0
        /\ t \in Seq(S) /\ Len(t) = Len(s) - 1
        /\ \A i \in 1..(Len(s) - 1) : t[i] = s[i + 1]
    BY <1>1, SMTT(60)
  <1>3. DOMAIN s = 1..Len(s) /\ DOMAIN t = 1..Len(t)
    BY <1>2, SeqShape
  <1> QED BY <1>1, <1>2, <1>3 DEF Shifted

Places(d, reports) == {i \in DOMAIN reports : reports[i].d = d}
Numbers(d, reports) == {reports[i].n : i \in Places(d, reports)}
Elements(seen) == {seen[i] : i \in DOMAIN seen}
Rising(seen) == \A i, j \in DOMAIN seen : i < j => seen[i] < seen[j]
Following(d, reports) == \A i, j \in Places(d, reports) : i < j => reports[i].n < reports[j].n

LEMMA KnownIs ==
    ASSUME NEW d, NEW seen, NEW reports, NEW buf, NEW made
    PROVE  KnownOnce(d, seen, reports, buf, made) <=>
             /\ Elements(seen) \cup Numbers(d, reports) \cup ({buf} \ {0}) = 1..made
             /\ Rising(seen) /\ Following(d, reports)
             /\ \A x \in Elements(seen), y \in Numbers(d, reports) : x < y
             /\ buf # 0 => \A x \in Elements(seen) \cup Numbers(d, reports) : x < buf
  <1>1. Places(d, reports) = {i \in DOMAIN reports : reports[i].d = d}
    BY DEF Places
  <1>2. (\A x \in Elements(seen), y \in Numbers(d, reports) : x < y)
           <=> \A i \in DOMAIN seen, j \in Places(d, reports) : seen[i] < reports[j].n
    BY DEF Elements, Numbers
  <1>3. (\A x \in Elements(seen) \cup Numbers(d, reports) : x < buf)
           <=> (\A i \in DOMAIN seen : seen[i] < buf) /\ \A j \in Places(d, reports) : reports[j].n < buf
    BY DEF Elements, Numbers
  <1> QED BY <1>1, <1>2, <1>3 DEF KnownOnce, Elements, Numbers, Rising, Following

\* The device makes a report.
LEMMA KnownMade ==
    ASSUME NEW d, NEW seen, NEW reports, NEW made \in Nat, KnownOnce(d, seen, reports, 0, made)
    PROVE  KnownOnce(d, seen, reports, made + 1, made + 1)
  <1>1. PICK A, B : A = Elements(seen) /\ B = Numbers(d, reports)
    OBVIOUS
  <1>2. A \cup B = 1..made /\ Rising(seen) /\ Following(d, reports) /\ \A x \in A, y \in B : x < y
    BY <1>1, KnownIs
  <1>3. (\A x \in 1..made : x < made + 1) /\ 1..made \cup {made + 1} = 1..(made + 1) /\ made + 1 # 0
    BY SMTT(60)
  <1>4. A \cup B \cup ({made + 1} \ {0}) = 1..(made + 1)
    BY <1>2, <1>3
  <1> QED BY <1>1, <1>2, <1>3, <1>4, KnownIs

LEMMA GrownIndices ==
    ASSUME NEW k \in Nat
    PROVE  /\ \A i : i \in 1..(k + 1) <=> i \in 1..k \/ i = k + 1
           /\ \A i \in 1..k : i < k + 1 /\ ~(k + 1 < i) /\ i # k + 1
           /\ ~(k + 1 < k + 1)
  BY SMTT(60)

LEMMA GrownSeen ==
    ASSUME NEW s, NEW t, NEW k, NEW x, Grown(s, t, k, x)
    PROVE  /\ Elements(t) = Elements(s) \cup {x}
           /\ Rising(s) /\ (\A y \in Elements(s) : y < x) => Rising(t)
  <1>1. /\ k \in Nat /\ DOMAIN s = 1..k /\ DOMAIN t = 1..(k + 1)
        /\ (\A i \in 1..k : t[i] = s[i]) /\ t[k + 1] = x
    BY DEF Grown
  <1>2. /\ \A i : i \in 1..(k + 1) <=> i \in 1..k \/ i = k + 1
        /\ \A i \in 1..k : i < k + 1 /\ ~(k + 1 < i) /\ i # k + 1
        /\ ~(k + 1 < k + 1)
    BY <1>1, GrownIndices
  <1>3. Elements(t) = Elements(s) \cup {x}
    BY <1>1, <1>2 DEF Elements
  <1>4. ASSUME Rising(s), \A y \in Elements(s) : y < x, NEW i \in DOMAIN t, NEW j \in DOMAIN t, i < j
        PROVE  t[i] < t[j]
    <2>1. i \in 1..k
      BY <1>1, <1>2, <1>4
    <2>2. CASE j \in 1..k
      BY <1>1, <1>4, <2>1, <2>2 DEF Rising
    <2>3. CASE j = k + 1
      BY <1>1, <1>4, <2>1, <2>3 DEF Elements
    <2> QED BY <1>1, <1>2, <2>2, <2>3
  <1> QED BY <1>3, <1>4 DEF Rising

LEMMA GrownReports ==
    ASSUME NEW s, NEW t, NEW k, NEW r, Grown(s, t, k, r), NEW e
    PROVE  /\ r.d # e => Places(e, t) = Places(e, s)
           /\ \A i \in Places(e, s) : i \in 1..k /\ t[i] = s[i]
           /\ Numbers(e, t) = Numbers(e, s) \cup (IF r.d = e THEN {r.n} ELSE {})
           /\ Following(e, s) /\ (r.d = e => \A y \in Numbers(e, s) : y < r.n) => Following(e, t)
  <1>1. /\ k \in Nat /\ DOMAIN s = 1..k /\ DOMAIN t = 1..(k + 1)
        /\ (\A i \in 1..k : t[i] = s[i]) /\ t[k + 1] = r
    BY DEF Grown
  <1>2. /\ \A i : i \in 1..(k + 1) <=> i \in 1..k \/ i = k + 1
        /\ \A i \in 1..k : i < k + 1 /\ ~(k + 1 < i) /\ i # k + 1
        /\ ~(k + 1 < k + 1)
    BY <1>1, GrownIndices
  <1>3. \A i \in Places(e, s) : i \in 1..k /\ t[i] = s[i]
    BY <1>1 DEF Places
  <1>4. \A i : i \in Places(e, t) <=> i \in Places(e, s) \/ (i = k + 1 /\ r.d = e)
    BY <1>1, <1>2 DEF Places
  <1>5. Numbers(e, t) = Numbers(e, s) \cup (IF r.d = e THEN {r.n} ELSE {})
    BY <1>1, <1>3, <1>4 DEF Numbers
  <1>6. r.d # e => Places(e, t) = Places(e, s)
    BY <1>4
  <1>7. ASSUME Following(e, s), r.d = e => \A y \in Numbers(e, s) : y < r.n,
               NEW i \in Places(e, t), NEW j \in Places(e, t), i < j
        PROVE  t[i].n < t[j].n
    <2>1. i \in Places(e, s)
      BY <1>2, <1>3, <1>4, <1>7
    <2>2. CASE j \in Places(e, s)
      BY <1>3, <1>7, <2>1, <2>2 DEF Following
    <2>3. CASE j = k + 1 /\ r.d = e
      BY <1>1, <1>3, <1>7, <2>1, <2>3 DEF Numbers
    <2> QED BY <1>4, <2>2, <2>3
  <1> QED BY <1>3, <1>5, <1>6, <1>7 DEF Following

\* xhcid passes the report in the buffer on.
LEMMA KnownPushed ==
    ASSUME NEW e, NEW seen, NEW s, NEW b, NEW made, KnownOnce(e, seen, s, b, made),
           NEW t, NEW k, NEW r, Grown(s, t, k, r), r.d = e => b = r.n /\ b # 0
    PROVE  KnownOnce(e, seen, t, IF r.d = e THEN 0 ELSE b, made)
  <1>1. PICK A, B, C : A = Elements(seen) /\ B = Numbers(e, s) /\ C = Numbers(e, t)
    OBVIOUS
  <1>2. /\ A \cup B \cup ({b} \ {0}) = 1..made /\ Rising(seen) /\ Following(e, s)
        /\ \A x \in A, y \in B : x < y
        /\ b # 0 => \A x \in A \cup B : x < b
    BY <1>1, KnownIs
  <1>3. C = B \cup (IF r.d = e THEN {r.n} ELSE {}) /\ Following(e, t)
    <2>1. r.d = e => \A y \in Numbers(e, s) : y < r.n
      BY <1>1, <1>2
    <2>2. /\ Numbers(e, t) = Numbers(e, s) \cup (IF r.d = e THEN {r.n} ELSE {})
          /\ Following(e, s) /\ (r.d = e => \A y \in Numbers(e, s) : y < r.n) => Following(e, t)
      BY GrownReports
    <2> QED BY <1>1, <1>2, <2>1, <2>2
  <1>4. CASE r.d = e
    <2>1. C = B \cup {b} /\ b # 0
      BY <1>3, <1>4
    <2>2. A \cup C \cup ({0} \ {0}) = 1..made /\ \A x \in A, y \in C : x < y
      BY <1>2, <2>1
    <2> QED BY <1>1, <1>2, <1>3, <1>4, <2>2, KnownIs
  <1>5. CASE r.d # e
    <2>1. C = B
      BY <1>3, <1>5
    <2> QED BY <1>1, <1>2, <1>3, <1>5, <2>1, KnownIs
  <1> QED BY <1>4, <1>5

LEMMA ShiftedReports ==
    ASSUME NEW s, NEW t, NEW m, Shifted(s, t, m), NEW e
    PROVE  /\ Numbers(e, s) = Numbers(e, t) \cup (IF s[1].d = e THEN {s[1].n} ELSE {})
           /\ Following(e, s) => Following(e, t)
           /\ Following(e, s) /\ s[1].d = e => \A y \in Numbers(e, t) : s[1].n < y
  <1>1. /\ m \in Nat /\ m # 0 /\ DOMAIN s = 1..m /\ DOMAIN t = 1..(m - 1)
        /\ \A i \in 1..(m - 1) : t[i] = s[i + 1]
    BY DEF Shifted
  <1>2. /\ 1 \in 1..m /\ \A i \in 1..(m - 1) : i + 1 \in 1..m /\ 1 < i + 1
        /\ \A i \in 1..m : i # 1 => i - 1 \in 1..(m - 1) /\ (i - 1) + 1 = i
        /\ \A i, j \in 1..(m - 1) : i < j => i + 1 < j + 1
    BY <1>1, SMTT(60)
  <1>3. \A i \in Places(e, t) : i \in 1..(m - 1) /\ i + 1 \in Places(e, s) /\ t[i] = s[i + 1]
    BY <1>1, <1>2 DEF Places
  <1>4. \A i \in Places(e, s) : i = 1 \/ \E j \in Places(e, t) : t[j] = s[i]
    BY <1>1, <1>2 DEF Places
  <1>5. 1 \in Places(e, s) <=> s[1].d = e
    BY <1>1, <1>2 DEF Places
  <1>6. \A y \in Numbers(e, t) : \E i \in 1..(m - 1) : i + 1 \in Places(e, s) /\ y = s[i + 1].n
    BY <1>3 DEF Numbers
  <1>7. Numbers(e, s) = Numbers(e, t) \cup (IF s[1].d = e THEN {s[1].n} ELSE {})
    <2>1. \A y \in Numbers(e, t) : y \in Numbers(e, s)
      BY <1>6 DEF Numbers
    <2>2. s[1].d = e => s[1].n \in Numbers(e, s)
      BY <1>5 DEF Numbers
    <2>3. \A y \in Numbers(e, s) : y \in Numbers(e, t) \/ (s[1].d = e /\ y = s[1].n)
      BY <1>4, <1>5 DEF Numbers
    <2> QED BY <2>1, <2>2, <2>3
  <1>8. ASSUME Following(e, s), NEW i \in Places(e, t), NEW j \in Places(e, t), i < j
        PROVE  t[i].n < t[j].n
    <2>1. i + 1 < j + 1
      BY <1>2, <1>3, <1>8
    <2> QED BY <1>3, <1>8, <2>1 DEF Following
  <1>9. ASSUME Following(e, s), s[1].d = e, NEW y \in Numbers(e, t) PROVE s[1].n < y
    <2>1. PICK i \in 1..(m - 1) : i + 1 \in Places(e, s) /\ y = s[i + 1].n
      BY <1>6
    <2> QED BY <1>2, <1>5, <1>9, <2>1 DEF Following
  <1> QED BY <1>7, <1>8, <1>9 DEF Following

\* The kernel takes the first report that waits.
LEMMA KnownTaken ==
    ASSUME NEW e, NEW seen, NEW s, NEW b, NEW made, KnownOnce(e, seen, s, b, made),
           NEW t, NEW m, Shifted(s, t, m),
           NEW now, NEW k, IF s[1].d = e THEN Grown(seen, now, k, s[1].n) ELSE now = seen
    PROVE  KnownOnce(e, now, t, b, made)
  <1>1. PICK A, B, C, D, x : /\ A = Elements(seen) /\ B = Numbers(e, s) /\ C = Numbers(e, t) /\ D = Elements(now)
                             /\ x = s[1].n
    OBVIOUS
  <1>2. /\ A \cup B \cup ({b} \ {0}) = 1..made /\ Rising(seen) /\ Following(e, s)
        /\ \A z \in A, y \in B : z < y
        /\ b # 0 => \A z \in A \cup B : z < b
    BY <1>1, KnownIs
  <1>3. /\ B = C \cup (IF s[1].d = e THEN {x} ELSE {}) /\ Following(e, t)
        /\ s[1].d = e => \A y \in C : x < y
    BY <1>1, <1>2, ShiftedReports
  <1>4. CASE s[1].d = e
    <2>1. B = C \cup {x} /\ \A y \in C : x < y
      BY <1>3, <1>4
    <2>2. D = A \cup {x} /\ Rising(now)
      <3>1. Grown(seen, now, k, x) /\ \A y \in A : y < x
        BY <1>1, <1>2, <1>4, <2>1
      <3>2. /\ Elements(now) = Elements(seen) \cup {x}
            /\ Rising(seen) /\ (\A y \in Elements(seen) : y < x) => Rising(now)
        BY <3>1, GrownSeen
      <3> QED BY <1>1, <1>2, <3>1, <3>2
    <2>3. /\ D \cup C \cup ({b} \ {0}) = 1..made
          /\ \A z \in D, y \in C : z < y
          /\ b # 0 => \A z \in D \cup C : z < b
      BY <1>2, <2>1, <2>2
    <2> QED BY <1>1, <1>3, <2>2, <2>3, KnownIs
  <1>5. CASE s[1].d # e
    <2>1. B = C /\ now = seen
      BY <1>3, <1>5
    <2> QED BY <1>1, <1>2, <1>3, <2>1, KnownIs
  <1> QED BY <1>4, <1>5

-----------------------------------------------------------------------------
(* HidInv *)

\* A device has failed, or works on the transfer that is queued, or has posted
\* its report, which waits; U are the events a reader has still to see.
Device(d, ring, hw, buf, next, dead, evt, U) ==
    \/ d \in dead /\ buf = 0 /\ \A j \in U : evt[j].d = d => ~evt[j].ok
    \/ /\ d \notin dead /\ ring[hw.i] = hw.c /\ Passed(ring, hw) = next /\ buf = 0
       /\ \A j \in U : evt[j].d # d
    \/ /\ d \notin dead /\ hw = next /\ buf # 0
       /\ \E j \in U : evt[j].d = d
       /\ \A j \in U : evt[j].d = d => evt[j].ok
Served(g, v) ==
    /\ Posted(g.evt, v.evt, g.evthw)
    /\ \A d \in Devices :
         /\ Cycles(g.ring[d], v.dev[d])
         /\ Device(d, g.ring[d], g.hw[d], g.buf[d], v.dev[d], g.dead, g.evt, Unread(v.evt, g.evthw))

HidFields == {"ring", "hw", "buf", "evt", "evthw", "saved", "reports", "made", "seen", "dropped", "dead"}
IsView(v) == DOMAIN v = {"evt", "dev"} /\ v.evt \in Position /\ v.dev \in [Devices -> Position]
IsHid(g) ==
    /\ DOMAIN g = HidFields /\ IsView(g.saved)
    /\ g.ring \in [Devices -> [Indices -> 0..1]] /\ g.hw \in [Devices -> Position]
    /\ g.evt \in [Indices -> Event] /\ g.evthw \in Position
    /\ g.buf \in [Devices -> Nat] /\ g.made \in [Devices -> Nat]
    /\ g.reports \in Seq(Report) /\ g.seen \in [Devices -> Seq(Nat)]
    /\ g.dropped \in BOOLEAN
AllKnown(g) == ~g.dropped => \A d \in Devices : KnownOnce(d, g.seen[d], g.reports, g.buf[d], g.made[d])

\* The positions that count: xhcid's own while it drains the event ring, those
\* in the mailbox otherwise.
Reads(v) ==
    /\ IsView(v)
    /\ \A p \in Alive : proc[p].at \in {"top", "drain"} => proc[p].v = v
    /\ (\E p \in Alive : proc[p].at = "drain") \/ v = box.saved

\* With one instance, whoever reads the event ring next finds there, for each
\* device that has not failed, its report, or has a transfer queued for it
\* where the controller looks.
HidInv ==
    dev = "xhcid" /\ ~slipped => IsHid(box) /\ AllKnown(box) /\ \E v : Reads(v) /\ Served(box, v)

LEMMA FlipFacts ==
    /\ \A c \in 0..1 : Flip(c) \in 0..1 /\ Flip(c) # c /\ Flip(Flip(c)) = c
    /\ Flip(1) = 0 /\ Flip(0) = 1
  BY SMTT(60) DEF Flip

\* The controller may go on only with a device whose transfer is queued.
LEMMA DeviceQueued ==
    ASSUME NEW d, NEW ring, NEW hw \in Position, NEW buf, NEW next \in Position, NEW dead, NEW evt, NEW U,
           Device(d, ring, hw, buf, next, dead, evt, U), d \notin dead, Cycles(ring, next), ring[hw.i] = hw.c
    PROVE  Passed(ring, hw) = next /\ buf = 0 /\ \A j \in U : evt[j].d # d
  <1>1. ASSUME hw = next PROVE FALSE
    <2>1. PICK a \in Indices, x \in 0..1 : a = next.i /\ x = next.c
      BY DEF Position
    <2>2. a < RING_N - 1 /\ \A j \in 0..(RING_N - 2) : ring[j] = IF j < a THEN x ELSE Flip(x)
      BY <2>1 DEF Cycles
    <2>3. a \in 0..(RING_N - 2) /\ ~(a < a)
      BY <2>2, RingsAssumption, SMTT(60) DEF Indices
    <2>4. ring[a] = Flip(x) /\ ring[a] = x
      BY <1>1, <2>1, <2>2, <2>3
    <2> QED BY <2>4, FlipFacts
  <1> QED BY <1>1 DEF Device

LEMMA DeviceReports ==
    ASSUME NEW d, NEW ring, NEW hw, NEW next, NEW evt, NEW new, NEW U, NEW W, NEW k, NEW ok \in BOOLEAN,
           NEW buf, NEW dead, d \in dead <=> ~ok, \A j \in U : evt[j].d # d, \A j \in U : new[j] = evt[j],
           \A j : j \in W <=> j \in U \/ j = k,
           new[k].d = d, new[k].ok = ok, IF ok THEN buf # 0 ELSE buf = 0
    PROVE  Device(d, ring, next, buf, next, dead, new, W)
  <1>1. \A j \in W : new[j].d = d => new[j].ok = ok
    OBVIOUS
  <1>2. CASE ok = TRUE
    BY <1>1, <1>2 DEF Device
  <1>3. CASE ok = FALSE
    BY <1>1, <1>3 DEF Device
  <1> QED BY <1>2, <1>3

\* The unread events of device d are the same before and after.
SameEvents(d, evt, new, U, W) ==
    /\ \A j : evt[j].d = d /\ j \in U => j \in W /\ new[j] = evt[j]
    /\ \A j : new[j].d = d /\ j \in W => j \in U /\ new[j] = evt[j]
\* Event k is device d's only unread one, and the one that is read.
OnlyEvent(d, evt, U, W, k) ==
    /\ k \in U /\ evt[k].d = d
    /\ \A j \in U : evt[j].d = d => j = k
    /\ \A j : j \in W <=> j \in U /\ j # k

LEMMA DeviceBeside ==
    ASSUME NEW d, NEW ring, NEW hw, NEW buf, NEW next, NEW dead, NEW evt, NEW new, NEW U, NEW W,
           Device(d, ring, hw, buf, next, dead, evt, U), NEW gone, d \in gone <=> d \in dead,
           SameEvents(d, evt, new, U, W)
    PROVE  Device(d, ring, hw, buf, next, gone, new, W)
  <1>0. /\ \A j : evt[j].d = d /\ j \in U => j \in W /\ new[j] = evt[j]
        /\ \A j : new[j].d = d /\ j \in W => j \in U /\ new[j] = evt[j]
    BY DEF SameEvents
  <1>1. CASE d \in dead /\ buf = 0 /\ \A j \in U : evt[j].d = d => ~evt[j].ok
    BY <1>0, <1>1 DEF Device
  <1>2. CASE /\ d \notin dead /\ ring[hw.i] = hw.c /\ Passed(ring, hw) = next /\ buf = 0
             /\ \A j \in U : evt[j].d # d
    BY <1>0, <1>2 DEF Device
  <1>3. CASE /\ d \notin dead /\ hw = next /\ buf # 0
             /\ \E j \in U : evt[j].d = d
             /\ \A j \in U : evt[j].d = d => evt[j].ok
    <2>1. \E j \in W : new[j].d = d
      BY <1>0, <1>3
    <2>2. \A j \in W : new[j].d = d => new[j].ok
      BY <1>0, <1>3
    <2> QED BY <1>0, <1>3, <2>1, <2>2 DEF Device
  <1> QED BY <1>0, <1>1, <1>2, <1>3 DEF Device

\* xhcid takes an event of a device: its report, after which a transfer is
\* queued again, or its failure.
LEMMA DeviceServed ==
    ASSUME NEW d, NEW ring, NEW hw, NEW buf, NEW next, NEW dead, NEW evt, NEW U, NEW W, NEW k,
           Device(d, ring, hw, buf, next, dead, evt, U), OnlyEvent(d, evt, U, W, k)
    PROVE  /\ evt[k].ok => /\ d \notin dead /\ buf # 0
                           /\ \A s, n : QueuedOne(ring, next, s, n) => Device(d, s, hw, 0, n, dead, evt, W)
           /\ ~evt[k].ok => Device(d, ring, hw, buf, next, dead, evt, W)
  <1>0. k \in U /\ evt[k].d = d /\ (\A j \in U : evt[j].d = d => j = k) /\ \A j : j \in W <=> j \in U /\ j # k
    BY DEF OnlyEvent
  <1>1. \A j \in W : evt[j].d # d
    BY <1>0
  <1>2. CASE evt[k].ok
    <2>1. d \notin dead /\ hw = next /\ buf # 0
      BY <1>0, <1>2 DEF Device
    <2>2. ASSUME NEW s, NEW n, QueuedOne(ring, next, s, n) PROVE Device(d, s, hw, 0, n, dead, evt, W)
      BY <1>1, <2>1, <2>2 DEF Device, QueuedOne
    <2> QED BY <1>2, <2>1, <2>2
  <1>3. CASE ~evt[k].ok
    BY <1>0, <1>1, <1>3 DEF Device
  <1> QED BY <1>2, <1>3

LEMMA HidInvBeside ==
    ASSUME HidInv, Beside, box' = box
    PROVE  HidInv'
  <1>1. SUFFICES ASSUME dev = "xhcid", ~slipped PROVE HidInv'
    BY DEF HidInv, Beside
  <1>2. PICK v : Reads(v) /\ Served(box, v) /\ IsHid(box) /\ AllKnown(box)
    BY <1>1 DEF HidInv
  <1>3. {"top", "drain"} \cap {"entry", "exit"} = {}
    OBVIOUS
  <1>4. \A p \in Alive' : proc'[p].at \in {"top", "drain"} => p \in Alive /\ proc'[p] = proc[p]
    BY <1>3 DEF Beside
  <1>5. \A p \in Alive : proc[p].at = "drain" => p \in Alive' /\ proc'[p] = proc[p]
    BY <1>3 DEF Beside
  <1>6. Reads(v)'
    BY <1>2, <1>4, <1>5 DEF Reads
  <1> QED BY <1>2, <1>6 DEF HidInv

\* The controller's step, and the kernel's.
LEMMA HidArrival ==
    ASSUME HidInv, NEW d \in Devices, NEW ok \in BOOLEAN, ControllerReports(d, ok)
    PROVE  HidInv'
  <1>1. UNCHANGED <<dev, slipped, proc, who>> /\ dev = "xhcid" /\ d \notin box.dead /\ box.ring[d][box.hw[d].i] = box.hw[d].c
    BY DEF ControllerReports, Arrives, KeepsServices
  <1>2. SUFFICES ASSUME ~slipped PROVE HidInv'
    BY <1>1 DEF HidInv
  <1>3. PICK v : Reads(v) /\ Served(box, v) /\ IsHid(box) /\ AllKnown(box)
    BY <1>1, <1>2 DEF HidInv
  <1>4. PICK evt \in [Indices -> Event], to \in Position, from \in Position :
           evt = box.evt /\ to = box.evthw /\ from = v.evt
    BY <1>3 DEF IsHid, Reads, IsView
  <1>5. PICK ring \in [Indices -> 0..1], hw \in Position, next \in Position, made \in Nat :
           ring = box.ring[d] /\ hw = box.hw[d] /\ next = v.dev[d] /\ made = box.made[d]
    BY <1>3 DEF IsHid, Reads, IsView
  <1>6. PICK U : U = Unread(from, to)
    OBVIOUS
  <1>7. Posted(evt, from, to) /\ Cycles(ring, next) /\ Device(d, ring, hw, box.buf[d], next, box.dead, evt, U)
        /\ ring[hw.i] = hw.c /\ d \notin box.dead
    BY <1>1, <1>3, <1>4, <1>5, <1>6 DEF Served
  <1>8. Passed(ring, hw) = next /\ box.buf[d] = 0 /\ \A j \in U : evt[j].d # d
    BY <1>7, DeviceQueued
  <1>9. PICK e \in Event : e = [c |-> to.c, d |-> d, ok |-> ok] /\ e.c = to.c /\ e.d = d /\ e.ok = ok
    <2>1. [c |-> to.c, d |-> d, ok |-> ok] \in Event
      BY DEF Event, Position
    <2> QED BY <2>1
  <1>10. PICK new : new = [evt EXCEPT ![to.i] = e]
    OBVIOUS
  <1>11. PostedOne(evt, new, from, to)
    BY <1>6, <1>7, <1>8, <1>9, <1>10, EventPosted
  <1>12. PICK to2 \in Position : to2 = Along(to)
    BY AlongFacts
  <1>13. PICK W : W = Unread(from, to2)
    OBVIOUS
  <1>14. /\ new \in [Indices -> Event] /\ to.i \notin U /\ Posted(new, from, to2) /\ new[to.i] = e
         /\ \A j : j \in W <=> j \in U \/ j = to.i
         /\ \A j \in U : new[j] = evt[j]
    BY <1>6, <1>10, <1>11, <1>12, <1>13 DEF PostedOne
  <1>15. PICK b \in Nat, m \in Nat : /\ b = (IF ok THEN made + 1 ELSE 0) /\ m = (IF ok THEN made + 1 ELSE made)
                                     /\ IF ok THEN b # 0 ELSE b = 0
    BY SMTT(60)
  <1>16. PICK bufs, mades, hws, deads :
           /\ bufs = [box.buf EXCEPT ![d] = b] /\ mades = [box.made EXCEPT ![d] = m]
           /\ hws = [box.hw EXCEPT ![d] = next]
           /\ deads = IF ok THEN box.dead ELSE box.dead \cup {d}
    OBVIOUS
  <1>17. box' = [box EXCEPT !.buf = bufs, !.made = mades, !.dead = deads, !.hw = hws, !.evt = new, !.evthw = to2]
    <2>1. box' = [box EXCEPT
                 !.buf[d] = IF ok THEN made + 1 ELSE @,
                 !.made[d] = IF ok THEN @ + 1 ELSE @,
                 !.dead = IF ok THEN @ ELSE @ \cup {d},
                 !.hw[d] = Passed(ring, hw),
                 !.evt[to.i] = e,
                 !.evthw = to2]
      BY <1>4, <1>5, <1>9, <1>12 DEF ControllerReports
    <2>2. (IF ok THEN made + 1 ELSE box.buf[d]) = b /\ (IF ok THEN box.made[d] + 1 ELSE box.made[d]) = m
      BY <1>5, <1>8, <1>15
    <2> QED BY <1>4, <1>8, <1>10, <1>16, <2>1, <2>2
  <1>18. PICK h : h = box'
    OBVIOUS
  <1>19. /\ h.buf = bufs /\ h.made = mades /\ h.dead = deads /\ h.hw = hws /\ h.evt = new /\ h.evthw = to2
         /\ h.ring = box.ring /\ h.saved = box.saved /\ h.reports = box.reports /\ h.seen = box.seen
         /\ h.dropped = box.dropped /\ DOMAIN h = HidFields
    BY <1>3, <1>17, <1>18 DEF IsHid, HidFields
  <1>20. /\ bufs \in [Devices -> Nat] /\ mades \in [Devices -> Nat] /\ hws \in [Devices -> Position]
         /\ bufs[d] = b /\ mades[d] = m /\ hws[d] = next /\ (d \in deads <=> ~ok)
         /\ \A f \in Devices \ {d} : /\ bufs[f] = box.buf[f] /\ mades[f] = box.made[f] /\ hws[f] = box.hw[f]
                                     /\ f \in deads <=> f \in box.dead
    BY <1>1, <1>3, <1>16 DEF IsHid
  <1>21. IsHid(h)
    BY <1>3, <1>14, <1>19, <1>20 DEF IsHid
  <1>22. AllKnown(h)
    <2>1. SUFFICES ASSUME ~box.dropped, NEW f \in Devices
                   PROVE  KnownOnce(f, box.seen[f], box.reports, bufs[f], mades[f])
      BY <1>19 DEF AllKnown
    <2>2. KnownOnce(f, box.seen[f], box.reports, box.buf[f], box.made[f])
      BY <1>3, <2>1 DEF AllKnown
    <2>3. CASE f # d \/ ~ok
      <3>1. bufs[f] = box.buf[f] /\ mades[f] = box.made[f]
        BY <1>5, <1>8, <1>15, <1>20, <2>3
      <3> QED BY <2>2, <3>1
    <2>4. CASE f = d /\ ok
      <3>1. bufs[f] = made + 1 /\ mades[f] = made + 1 /\ KnownOnce(f, box.seen[f], box.reports, 0, made)
        BY <1>5, <1>8, <1>15, <1>20, <2>2, <2>4
      <3> QED BY <3>1, KnownMade
    <2> QED BY <2>3, <2>4
  <1>23. Served(h, v)
    <2>1. SUFFICES ASSUME NEW f \in Devices
                   PROVE  /\ Cycles(box.ring[f], v.dev[f])
                          /\ Device(f, box.ring[f], hws[f], bufs[f], v.dev[f], deads, new, W)
      BY <1>4, <1>13, <1>14, <1>19 DEF Served
    <2>2. /\ Cycles(box.ring[f], v.dev[f])
          /\ Device(f, box.ring[f], box.hw[f], box.buf[f], v.dev[f], box.dead, evt, U)
      BY <1>3, <1>4, <1>6 DEF Served
    <2>3. CASE f = d
      <3>1. Device(d, ring, next, b, next, deads, new, W)
        <4>1. PICK k : k = to.i
          OBVIOUS
        <4>2. new[k].d = d /\ new[k].ok = ok /\ \A j : j \in W <=> j \in U \/ j = k
          BY <1>9, <1>14, <4>1
        <4>3. (\A j \in U : new[j] = evt[j]) /\ \A j \in U : evt[j].d # d
          BY <1>8, <1>14
        <4>4. (d \in deads <=> ~ok) /\ IF ok THEN b # 0 ELSE b = 0
          BY <1>15, <1>20
        <4> QED BY <4>2, <4>3, <4>4, DeviceReports
      <3>2. hws[f] = next /\ bufs[f] = b /\ v.dev[f] = next /\ box.ring[f] = ring
        BY <1>5, <1>20, <2>3
      <3> QED BY <2>2, <2>3, <3>1, <3>2
    <2>4. CASE f # d
      <3>1. hws[f] = box.hw[f] /\ bufs[f] = box.buf[f] /\ (f \in deads <=> f \in box.dead)
        BY <1>20, <2>4
      <3>2. /\ \A j : evt[j].d = f /\ j \in U => j \in W /\ new[j] = evt[j]
            /\ \A j : new[j].d = f /\ j \in W => j \in U /\ new[j] = evt[j]
        BY <1>9, <1>14, <2>4
      <3>3. PICK r0, h0, b0, n0, d0 :
              r0 = box.ring[f] /\ h0 = box.hw[f] /\ b0 = box.buf[f] /\ n0 = v.dev[f] /\ d0 = box.dead
        OBVIOUS
      <3>4. Device(f, r0, h0, b0, n0, d0, evt, U) /\ (f \in deads <=> f \in d0)
        BY <2>2, <3>1, <3>3
      <3>5. SameEvents(f, evt, new, U, W)
        BY <3>2 DEF SameEvents
      <3>6. Device(f, r0, h0, b0, n0, deads, new, W)
        BY <3>4, <3>5, DeviceBeside
      <3> QED BY <2>2, <3>1, <3>3, <3>6
    <2> QED BY <2>3, <2>4
  <1>24. Reads(v)'
    <2>1. Alive' = Alive
      BY <1>1 DEF Alive
    <2> QED BY <1>1, <1>3, <1>18, <1>19, <2>1 DEF Reads
  <1> QED BY <1>18, <1>21, <1>22, <1>23, <1>24 DEF HidInv

LEMMA HidPoll ==
    ASSUME HidInv, poll_mouse
    PROVE  HidInv'
  <1>1. UNCHANGED <<dev, slipped, proc>> /\ dev = "xhcid" /\ box.reports # <<>>
    BY DEF poll_mouse, serviceVars
  <1>2. SUFFICES ASSUME ~slipped PROVE HidInv'
    BY <1>1 DEF HidInv
  <1>3. PICK v : Reads(v) /\ Served(box, v) /\ IsHid(box) /\ AllKnown(box)
    BY <1>1, <1>2 DEF HidInv
  <1>4. PICK s \in Seq(Report), seens \in [Devices -> Seq(Nat)] : s = box.reports /\ seens = box.seen
    BY <1>3 DEF IsHid
  <1>5. PICK t \in Seq(Report) : t = Tail(s) /\ Head(s) = s[1] /\ s[1] \in Report /\ Shifted(s, t, Len(s))
    BY <1>1, <1>4, TailShifts
  <1>6. PICK d \in Devices, n \in Nat : d = s[1].d /\ n = s[1].n
    BY <1>5 DEF Report
  <1>7. PICK u \in Seq(Nat) : u = Append(seens[d], n) /\ Grown(seens[d], u, Len(seens[d]), n)
    BY AppendGrows
  <1>8. PICK now : now = [seens EXCEPT ![d] = u]
    OBVIOUS
  <1>9. box' = [box EXCEPT !.reports = t, !.seen = now]
    <2>1. box' = [box EXCEPT !.reports = Tail(@), !.seen[d] = Append(@, n)]
      BY <1>4, <1>5, <1>6 DEF poll_mouse
    <2> QED BY <1>4, <1>5, <1>7, <1>8, <2>1
  <1>10. PICK h : h = box'
    OBVIOUS
  <1>11. /\ h.buf = box.buf /\ h.made = box.made /\ h.dead = box.dead /\ h.hw = box.hw /\ h.evt = box.evt /\ h.evthw = box.evthw
         /\ h.ring = box.ring /\ h.saved = box.saved /\ h.reports = t /\ h.seen = now
         /\ h.dropped = box.dropped /\ DOMAIN h = HidFields
    BY <1>3, <1>9, <1>10 DEF IsHid, HidFields
  <1>12. now \in [Devices -> Seq(Nat)] /\ now[d] = u /\ \A f \in Devices \ {d} : now[f] = seens[f]
    BY <1>8
  <1>13. IsHid(h)
    BY <1>3, <1>11, <1>12 DEF IsHid
  <1>14. AllKnown(h)
    <2>1. SUFFICES ASSUME ~box.dropped, NEW f \in Devices PROVE KnownOnce(f, now[f], t, box.buf[f], box.made[f])
      BY <1>11 DEF AllKnown
    <2>2. KnownOnce(f, seens[f], s, box.buf[f], box.made[f])
      BY <1>3, <1>4, <2>1 DEF AllKnown
    <2>3. PICK k : IF s[1].d = f THEN Grown(seens[f], now[f], k, s[1].n) ELSE now[f] = seens[f]
      BY <1>6, <1>7, <1>12
    <2> QED BY <1>5, <2>2, <2>3, KnownTaken
  <1>15. Served(h, v)
    BY <1>3, <1>11 DEF Served
  <1>16. Reads(v)'
    <2>1. Alive' = Alive
      BY <1>1 DEF Alive
    <2> QED BY <1>1, <1>3, <1>10, <1>11, <2>1 DEF Reads
  <1> QED BY <1>10, <1>13, <1>14, <1>15, <1>16 DEF HidInv

\* The steps of xhcid that leave the rings alone.
LEMMA HidQuietSteps ==
    ASSUME ShapeInv, LaunchInv, HidInv, NEW p, HidStart(p) \/ HidExit(p) \/ HidGoes(p) \/ HidSaves(p)
    PROVE  HidInv'
  <1>1. PICK c, d, w : At(p, c) /\ DriverStep(p, d, w) /\ dev = "xhcid"
                       /\ \/ c = "entry" /\ d = "top" /\ w = box.saved /\ box' = box
                          \/ c = "top" /\ d = "exit" /\ box' = box
                          \/ c = "top" /\ d = "drain" /\ w = proc[p].v /\ box' = box
                          \/ c = "drain" /\ d = "top" /\ w = proc[p].v /\ box' = [box EXCEPT !.saved = w]
    BY DEF HidStart, HidExit, HidGoes, HidSaves
  <1>2. dev' = dev /\ slipped' = slipped
    BY <1>1 DEF DriverStep, KeepsServices
  <1>s. SUFFICES ASSUME ~slipped PROVE HidInv'
    BY <1>2 DEF HidInv
  <1>o. AtMostOne
    BY <1>s DEF LaunchInv
  <1>3. Alive = {p} /\ Alive' = {p} /\ proc[p].at = c /\ proc'[p].at = d /\ proc'[p].v = w
    BY <1>o, <1>1, OnlyStep
  <1>4. PICK v : Reads(v) /\ Served(box, v) /\ IsHid(box) /\ AllKnown(box)
    BY <1>1, <1>s DEF HidInv
  <1>5. CASE box' = box
    <2>1. CASE c \in {"entry", "top"}
      <3>1. v = box.saved /\ (c = "top" => proc[p].v = v)
        BY <1>3, <1>4, <2>1 DEF Reads
      <3>2. d \in {"top", "drain"} => w = v
        BY <1>1, <1>5, <2>1, <3>1
      <3>3. Reads(v)'
        BY <1>3, <1>4, <1>5, <3>1, <3>2 DEF Reads
      <3> QED BY <1>4, <1>5, <3>3 DEF HidInv
    <2>2. CASE c = "drain"
      <3>1. proc[p].v = v /\ box' = [box EXCEPT !.saved = w] /\ w = v /\ d = "top"
        BY <1>1, <1>3, <1>4, <2>2 DEF Reads
      <3>2. box.saved = v
        BY <1>4, <1>5, <3>1 DEF IsHid, HidFields
      <3>3. Reads(v)'
        BY <1>3, <1>4, <1>5, <3>1, <3>2 DEF Reads
      <3> QED BY <1>4, <1>5, <3>3 DEF HidInv
    <2> QED BY <1>1, <2>1, <2>2
  <1>6. CASE c = "drain" /\ d = "top" /\ w = proc[p].v /\ box' = [box EXCEPT !.saved = w]
    <2>1. w = v /\ IsView(v)
      BY <1>3, <1>4, <1>6 DEF Reads
    <2>2. PICK h : h = box'
      OBVIOUS
    <2>3. /\ h.buf = box.buf /\ h.made = box.made /\ h.dead = box.dead /\ h.hw = box.hw /\ h.evt = box.evt
          /\ h.evthw = box.evthw /\ h.ring = box.ring /\ h.saved = v /\ h.reports = box.reports
          /\ h.seen = box.seen /\ h.dropped = box.dropped /\ DOMAIN h = HidFields
      BY <1>4, <1>6, <2>1, <2>2 DEF IsHid, HidFields
    <2>4. IsHid(h) /\ AllKnown(h) /\ Served(h, v)
      BY <1>4, <2>1, <2>3 DEF IsHid, AllKnown, Served
    <2>5. Reads(v)'
      BY <1>3, <1>6, <2>1, <2>2, <2>3 DEF Reads
    <2> QED BY <2>2, <2>4, <2>5 DEF HidInv
  <1> QED BY <1>1, <1>5, <1>6

\* xhcid takes an event.
LEMMA HidTakes ==
    ASSUME ShapeInv, LaunchInv, HidInv, NEW p, HidDequeues(p)
    PROVE  HidInv'
  <1>1. PICK v, e : v = proc[p].v /\ e = box.evt[v.evt.i]
    OBVIOUS
  <1>2. PICK q : q = Queued(box.ring[e.d], v.dev[e.d])
    OBVIOUS
  <1>3. PICK w : w = [evt |-> Along(v.evt), dev |-> IF e.ok THEN [v.dev EXCEPT ![e.d] = q.pos] ELSE v.dev]
    OBVIOUS
  <1>4. /\ dev = "xhcid" /\ At(p, "drain") /\ e.c = v.evt.c /\ DriverStep(p, "drain", w)
        /\ box' = IF e.ok THEN [push_report(box, e.d) EXCEPT !.buf[e.d] = 0, !.ring[e.d] = q.ring] ELSE box
    BY <1>1, <1>2, <1>3 DEF HidDequeues, queue_hid
  <1>5. dev' = dev /\ slipped' = slipped
    BY <1>4 DEF DriverStep, KeepsServices
  <1>s. SUFFICES ASSUME ~slipped PROVE HidInv'
    BY <1>5 DEF HidInv
  <1>o. AtMostOne
    BY <1>s DEF LaunchInv
  <1>6. Alive = {p} /\ Alive' = {p} /\ proc[p].at = "drain" /\ proc'[p].at = "drain" /\ proc'[p].v = w
    BY <1>o, <1>4, OnlyStep
  <1>7. Reads(v) /\ Served(box, v) /\ IsHid(box) /\ AllKnown(box)
    <2>1. PICK u : Reads(u) /\ Served(box, u) /\ IsHid(box) /\ AllKnown(box)
      BY <1>4, <1>s DEF HidInv
    <2>2. u = v
      BY <1>1, <1>6, <2>1 DEF Reads
    <2> QED BY <2>1, <2>2
  <1>8. PICK evt \in [Indices -> Event], to \in Position, from \in Position :
           evt = box.evt /\ to = box.evthw /\ from = v.evt
    BY <1>7 DEF IsHid, Reads, IsView
  <1>8a. PICK from2 \in Position : from2 = Along(from)
    BY AlongFacts
  <1>8b. PICK k \in Indices : k = from.i
    BY DEF Position
  <1>9. PICK U, W : from2 = Along(from) /\ U = Unread(from, to) /\ W = Unread(from2, to) /\ k = from.i
    BY <1>8a, <1>8b
  <1>10. Posted(evt, from, to) /\ evt[k] = e /\ e.c = from.c /\ e \in Event
    BY <1>1, <1>4, <1>7, <1>8, <1>9 DEF Served
  <1>11. k \in U /\ Posted(evt, from2, to) /\ \A j : j \in W <=> j \in U /\ j # k
    <2>1. ReadOne(evt, from, to)
      BY <1>9, <1>10, EventRead
    <2> QED BY <1>9, <2>1 DEF ReadOne
  <1>12. \A j \in U : evt[j].d = e.d => j = k
    BY <1>9, <1>10, <1>11 DEF Posted
  <1>13. PICK d \in Devices : d = e.d
    BY <1>10 DEF Event
  <1>14a. PICK dead : dead = box.dead
    OBVIOUS
  <1>14. PICK ring \in [Indices -> 0..1], hw \in Position, next \in Position, buf \in Nat :
           ring = box.ring[d] /\ hw = box.hw[d] /\ next = v.dev[d] /\ buf = box.buf[d] /\ dead = box.dead
    BY <1>7, <1>14a DEF IsHid, Reads, IsView
  <1>15. Cycles(ring, next) /\ Device(d, ring, hw, buf, next, dead, evt, U)
    BY <1>7, <1>8, <1>9, <1>14 DEF Served
  <1>16. /\ e.ok => /\ d \notin dead /\ buf # 0
                    /\ \A s, n : QueuedOne(ring, next, s, n) => Device(d, s, hw, 0, n, dead, evt, W)
         /\ ~e.ok => Device(d, ring, hw, buf, next, dead, evt, W)
    <2>1. OnlyEvent(d, evt, U, W, k)
      BY <1>10, <1>11, <1>12, <1>13 DEF OnlyEvent
    <2>2. /\ evt[k].ok => /\ d \notin dead /\ buf # 0
                          /\ \A s, n : QueuedOne(ring, next, s, n) => Device(d, s, hw, 0, n, dead, evt, W)
          /\ ~evt[k].ok => Device(d, ring, hw, buf, next, dead, evt, W)
      BY <1>15, <2>1, DeviceServed
    <2> QED BY <1>10, <2>2
  <1>17. ASSUME NEW f \in Devices, f # d
         PROVE  /\ Cycles(box.ring[f], v.dev[f])
                /\ Device(f, box.ring[f], box.hw[f], box.buf[f], v.dev[f], dead, evt, W)
    <2>1. PICK r0, h0, b0, n0 : r0 = box.ring[f] /\ h0 = box.hw[f] /\ b0 = box.buf[f] /\ n0 = v.dev[f]
      OBVIOUS
    <2>2. Cycles(r0, n0) /\ Device(f, r0, h0, b0, n0, dead, evt, U)
      BY <1>7, <1>8, <1>9, <1>14, <2>1 DEF Served
    <2>3. /\ \A j : evt[j].d = f /\ j \in U => j \in W /\ evt[j] = evt[j]
          /\ \A j : evt[j].d = f /\ j \in W => j \in U /\ evt[j] = evt[j]
      BY <1>10, <1>11, <1>13, <1>17
    <2>4. SameEvents(f, evt, evt, U, W)
      BY <2>3 DEF SameEvents
    <2>5. Device(f, r0, h0, b0, n0, dead, evt, W)
      BY <2>2, <2>4, DeviceBeside
    <2> QED BY <2>1, <2>2, <2>5
  <1>18. CASE ~e.ok
    <2>1. w = [evt |-> from2, dev |-> v.dev]
      BY <1>3, <1>8, <1>9, <1>18
    <2>2. DOMAIN w = {"evt", "dev"} /\ w.evt = from2 /\ w.dev = v.dev
      BY <2>1
    <2>3. box' = box
      BY <1>4, <1>18
    <2>4. Served(box, w)
      <3>1. SUFFICES ASSUME NEW f \in Devices
                     PROVE  /\ Cycles(box.ring[f], v.dev[f])
                            /\ Device(f, box.ring[f], box.hw[f], box.buf[f], v.dev[f], dead, evt, W)
        BY <1>8, <1>9, <1>11, <1>14, <2>2 DEF Served
      <3>2. CASE f = d
        BY <1>14, <1>15, <1>16, <1>18, <3>2
      <3> QED BY <1>17, <3>2
    <2>5. Reads(w)'
      BY <1>6, <1>7, <2>2 DEF Reads, IsView
    <2> QED BY <1>7, <2>3, <2>4, <2>5 DEF HidInv
  <1>19. CASE e.ok
    <2>1. PICK s, n : s = q.ring /\ n = q.pos
      OBVIOUS
    <2>2. QueuedOne(ring, next, s, n)
      BY <1>2, <1>13, <1>14, <1>15, <2>1, QueuedFacts
    <2>3. s \in [Indices -> 0..1] /\ n \in Position /\ Cycles(s, n) /\ Device(d, s, hw, 0, n, dead, evt, W)
          /\ d \notin dead /\ buf # 0
      BY <1>16, <1>19, <2>2 DEF QueuedOne
    <2>4. PICK nexts \in [Devices -> Position] :
             nexts = [v.dev EXCEPT ![d] = n] /\ nexts[d] = n /\ \A f \in Devices \ {d} : nexts[f] = v.dev[f]
      <3>1. PICK x \in [Devices -> Position] : x = v.dev
        BY <1>7 DEF Reads, IsView
      <3>2. [x EXCEPT ![d] = n] \in [Devices -> Position]
        BY <2>3
      <3>3. PICK y \in [Devices -> Position] : y = [x EXCEPT ![d] = n]
        BY <3>2
      <3>4. y[d] = n /\ \A f \in Devices \ {d} : y[f] = x[f]
        BY <3>3
      <3> QED BY <3>1, <3>3, <3>4
    <2>5. w = [evt |-> from2, dev |-> nexts]
      BY <1>3, <1>8, <1>9, <1>13, <1>19, <2>1, <2>4
    <2>6. DOMAIN w = {"evt", "dev"} /\ w.evt = from2 /\ w.dev = nexts
      BY <2>5
    <2>7. PICK g : g = push_report(box, d)
      OBVIOUS
    <2>8. PICK r : r = [d |-> d, n |-> buf] /\ r.d = d /\ r.n = buf /\ r \in Report
      <3>1. [d |-> d, n |-> buf] \in Report
        BY DEF Report
      <3> QED BY <3>1
    <2>9. /\ \/ g = [box EXCEPT !.dropped = TRUE]
             \/ g = [box EXCEPT !.reports = Append(box.reports, r)]
      BY <1>14, <2>7, <2>8 DEF push_report
    <2>10. PICK t \in Seq(Report), drops \in BOOLEAN :
             /\ t = g.reports /\ drops = g.dropped /\ DOMAIN g = HidFields
             /\ g.buf = box.buf /\ g.made = box.made /\ g.dead = box.dead /\ g.hw = box.hw /\ g.evt = box.evt
             /\ g.evthw = box.evthw /\ g.ring = box.ring /\ g.saved = box.saved /\ g.seen = box.seen
             /\ ~drops => ~box.dropped /\ Grown(box.reports, t, Len(box.reports), r)
      <3>1. CASE g = [box EXCEPT !.dropped = TRUE]
        BY <1>7, <3>1 DEF IsHid, HidFields
      <3>2. CASE g = [box EXCEPT !.reports = Append(box.reports, r)]
        <4>1. PICK x : x = Append(box.reports, r) /\ x \in Seq(Report) /\ Grown(box.reports, x, Len(box.reports), r)
          BY <1>7, <2>8, AppendGrows DEF IsHid
        <4>2. g = [box EXCEPT !.reports = x]
          BY <3>2, <4>1
        <4> QED BY <1>7, <4>1, <4>2 DEF IsHid, HidFields
      <3> QED BY <2>9, <3>1, <3>2
    <2>11. PICK bufs, rings : bufs = [box.buf EXCEPT ![d] = 0] /\ rings = [box.ring EXCEPT ![d] = s]
      OBVIOUS
    <2>12. PICK h : h = box'
      OBVIOUS
    <2>13. h = [g EXCEPT !.buf = bufs, !.ring = rings]
      <3>1. h = [g EXCEPT !.buf[d] = 0, !.ring[d] = s]
        BY <1>4, <1>13, <1>19, <2>1, <2>7, <2>12
      <3> QED BY <2>10, <2>11, <3>1
    <2>14. /\ h.buf = bufs /\ h.made = box.made /\ h.dead = dead /\ h.hw = box.hw /\ h.evt = evt
           /\ h.evthw = to /\ h.ring = rings /\ h.saved = box.saved /\ h.seen = box.seen
           /\ h.reports = t /\ h.dropped = drops /\ DOMAIN h = HidFields
      BY <1>8, <1>14, <2>10, <2>13 DEF HidFields
    <2>15. /\ bufs \in [Devices -> Nat] /\ rings \in [Devices -> [Indices -> 0..1]] /\ bufs[d] = 0 /\ rings[d] = s
           /\ \A f \in Devices \ {d} : bufs[f] = box.buf[f] /\ rings[f] = box.ring[f]
      BY <1>7, <2>3, <2>11, SMTT(60) DEF IsHid
    <2>16. IsHid(h)
      BY <1>7, <1>8, <2>14, <2>15 DEF IsHid
    <2>17. AllKnown(h)
      <3>1. SUFFICES ASSUME ~drops, NEW f \in Devices PROVE KnownOnce(f, box.seen[f], t, bufs[f], box.made[f])
        BY <2>14 DEF AllKnown
      <3>2. KnownOnce(f, box.seen[f], box.reports, box.buf[f], box.made[f])
        BY <1>7, <2>10, <3>1 DEF AllKnown
      <3>3. bufs[f] = IF r.d = f THEN 0 ELSE box.buf[f]
        BY <2>8, <2>15
      <3>4. r.d = f => box.buf[f] = r.n /\ box.buf[f] # 0
        BY <1>14, <2>3, <2>8
      <3>5. Grown(box.reports, t, Len(box.reports), r)
        BY <2>10, <3>1
      <3>6. KnownOnce(f, box.seen[f], t, IF r.d = f THEN 0 ELSE box.buf[f], box.made[f])
        BY <3>2, <3>4, <3>5, KnownPushed
      <3> QED BY <3>3, <3>6
    <2>18. Served(h, w)
      <3>1. SUFFICES ASSUME NEW f \in Devices
                     PROVE  /\ Cycles(rings[f], nexts[f])
                            /\ Device(f, rings[f], box.hw[f], bufs[f], nexts[f], dead, evt, W)
        BY <1>9, <1>11, <2>6, <2>14 DEF Served
      <3>2. CASE f = d
        BY <1>14, <2>3, <2>4, <2>15, <3>2
      <3>3. CASE f # d
        BY <1>17, <2>4, <2>15, <3>3
      <3> QED BY <3>2, <3>3
    <2>19. Reads(w)'
      BY <1>6, <2>6 DEF Reads, IsView
    <2> QED BY <2>12, <2>16, <2>17, <2>18, <2>19 DEF HidInv
  <1> QED BY <1>18, <1>19

LEMMA HidInvHid ==
    ASSUME ShapeInv, LaunchInv, HidInv, HidNext
    PROVE  HidInv'
  <1>d. dev = "xhcid"
    BY HidStep
  <1>1. CASE ServiceFunction /\ UNCHANGED box
    BY <1>1, FunctionBeside, HidInvBeside
  <1>2. CASE xhci_spawn_pending_driver
    BY <1>1, <1>2, <1>d DEF xhci_spawn_pending_driver, ServiceFunction
  <1>3. CASE \E c \in Callers : xhci_start_service(c) \/ xhci_stop_service(c)
    BY <1>1, <1>3, <1>d DEF xhci_start_service, xhci_stop_service, ServiceFunction
  <1>4. CASE \E d \in Devices, ok \in BOOLEAN : ControllerReports(d, ok)
    BY <1>4, HidArrival
  <1>5. CASE poll_mouse
    BY <1>5, HidPoll
  <1>6. ASSUME NEW p \in DOMAIN proc, HidDriver(p) PROVE HidInv'
    BY <1>6, HidQuietSteps, HidTakes DEF HidDriver
  <1> QED BY <1>2, <1>3, <1>4, <1>5, <1>6 DEF HidNext

LEMMA HidInvInit ==
    ASSUME ServicesInit, HidInit
    PROVE  HidInv
  <1>1. PICK fresh \in Position : fresh = Fresh /\ fresh.i = 0 /\ fresh.c = 1
    <2>1. Fresh \in Position /\ Fresh.i = 0 /\ Fresh.c = 1
      BY RingsAssumption, SMTT(60) DEF Fresh, Position, Indices
    <2> QED BY <2>1
  <1>2. PICK empty \in [Indices -> 0..1] : empty = EmptyRing /\ \A j \in 0..(RING_N - 2) : empty[j] = 0
    <2>1. EmptyRing \in [Indices -> 0..1] /\ \A j \in 0..(RING_N - 2) : EmptyRing[j] = 0
      BY RingsAssumption, SMTT(60) DEF EmptyRing, Indices
    <2> QED BY <2>1
  <1>3. Cycles(empty, fresh)
    <2>1. fresh.i < RING_N - 1 /\ \A j \in 0..(RING_N - 2) : ~(j < fresh.i) /\ Flip(fresh.c) = 0
      BY <1>1, RingsAssumption, SMTT(60) DEF Flip
    <2> QED BY <1>2, <2>1 DEF Cycles
  <1>4. PICK r, n : r = Queued(empty, fresh).ring /\ n = Queued(empty, fresh).pos
    OBVIOUS
  <1>5. /\ r \in [Indices -> 0..1] /\ n \in Position
        /\ r[fresh.i] = fresh.c /\ Passed(r, fresh) = n /\ Cycles(r, n)
    <2>1. QueuedOne(empty, fresh, r, n)
      BY <1>3, <1>4, QueuedFacts
    <2> QED BY <2>1 DEF QueuedOne
  <1>6. PICK evt \in [Indices -> Event] : evt = [i \in Indices |-> [c |-> 0, d |-> "mouse", ok |-> FALSE]]
                                         /\ \A j \in Indices : evt[j].c = 0
    <2>1. PICK e \in Event : e = [c |-> 0, d |-> "mouse", ok |-> FALSE] /\ e.c = 0
      <3>1. [c |-> 0, d |-> "mouse", ok |-> FALSE] \in Event
        BY SMTT(60) DEF Event, Devices
      <3> QED BY <3>1
    <2>2. PICK x \in [Indices -> Event] : x = [i \in Indices |-> e]
      OBVIOUS
    <2> QED BY <2>1, <2>2
  <1>7. PICK rings, hws, bufs, nexts, mades, seens :
          /\ rings = [d \in Devices |-> r] /\ hws = [d \in Devices |-> fresh] /\ bufs = [d \in Devices |-> 0]
          /\ nexts = [d \in Devices |-> n] /\ mades = [d \in Devices |-> 0] /\ seens = [d \in Devices |-> <<>>]
    OBVIOUS
  <1>8. PICK v : v = [evt |-> fresh, dev |-> nexts]
    OBVIOUS
  <1>9. box = [ring |-> rings, hw |-> hws, buf |-> bufs, evt |-> evt, evthw |-> fresh, saved |-> v,
               reports |-> <<>>, made |-> mades, seen |-> seens, dropped |-> FALSE, dead |-> {}]
    BY <1>1, <1>2, <1>4, <1>6, <1>7, <1>8 DEF HidInit, Indices
  <1>10. /\ box.ring = rings /\ box.hw = hws /\ box.buf = bufs /\ box.evt = evt /\ box.evthw = fresh
         /\ box.saved = v /\ box.reports = <<>> /\ box.made = mades /\ box.seen = seens /\ box.dropped = FALSE
         /\ box.dead = {} /\ DOMAIN box = HidFields
    BY <1>9 DEF HidFields
  <1>11. v.evt = fresh /\ v.dev = nexts /\ IsView(v)
    <2>1. v.evt = fresh /\ v.dev = nexts /\ DOMAIN v = {"evt", "dev"}
      BY <1>8
    <2>2. nexts \in [Devices -> Position]
      BY <1>5, <1>7
    <2> QED BY <2>1, <2>2 DEF IsView
  <1>12. IsHid(box)
    <2>1. 0 \in Nat /\ <<>> \in Seq(Nat) /\ <<>> \in Seq(Report)
      BY SMTT(60)
    <2>2. /\ rings \in [Devices -> [Indices -> 0..1]] /\ hws \in [Devices -> Position]
          /\ bufs \in [Devices -> Nat] /\ mades \in [Devices -> Nat] /\ seens \in [Devices -> Seq(Nat)]
      BY <1>5, <1>7, <2>1
    <2> QED BY <1>10, <1>11, <2>1, <2>2 DEF IsHid
  <1>13. AllKnown(box)
    <2>1. SUFFICES ASSUME NEW d \in Devices PROVE KnownOnce(d, <<>>, <<>>, 0, 0)
      BY <1>7, <1>10 DEF AllKnown
    <2>2. DOMAIN <<>> = {} /\ 1..0 = {}
      BY SMTT(60)
    <2> QED BY <2>2 DEF KnownOnce
  <1>14. Posted(evt, fresh, fresh) /\ \A j : j \notin Unread(fresh, fresh)
    <2>1. fresh.i <= fresh.i /\ \A j \in Indices : ~(j < fresh.i) /\ ~(fresh.i <= j /\ j < fresh.i)
      BY <1>1, RingsAssumption, SMTT(60) DEF Indices
    <2>2. \A j : j \notin Unread(fresh, fresh)
      BY <2>1 DEF Unread
    <2>3. Flip(fresh.c) = 0
      BY <1>1, SMTT(60) DEF Flip
    <2> QED BY <1>6, <2>1, <2>2, <2>3 DEF Posted
  <1>15. Served(box, v)
    <2>1. SUFFICES ASSUME NEW d \in Devices
                   PROVE  /\ Cycles(rings[d], nexts[d])
                          /\ Device(d, rings[d], hws[d], bufs[d], nexts[d], {}, evt, Unread(fresh, fresh))
      BY <1>10, <1>11, <1>14 DEF Served
    <2>2. rings[d] = r /\ nexts[d] = n /\ hws[d] = fresh /\ bufs[d] = 0
      BY <1>7
    <2>3. Device(d, r, fresh, 0, n, {}, evt, Unread(fresh, fresh))
      BY <1>5, <1>14 DEF Device
    <2> QED BY <1>5, <2>2, <2>3
  <1>16. Reads(v)
    <2>1. Alive = {}
      <3>1. DOMAIN <<>> = {}
        BY SMTT(60)
      <3> QED BY <3>1 DEF Alive, ServicesInit
    <2> QED BY <1>10, <1>11, <2>1 DEF Reads
  <1> QED BY <1>12, <1>13, <1>15, <1>16 DEF HidInv

LEMMA HidInvGives ==
    LaunchInv /\ HidInv => ReportsKept
  <1>1. SUFFICES ASSUME LaunchInv, HidInv, dev = "xhcid", ~slipped PROVE ReportsKept
    BY DEF ReportsKept, ReportsArriveOnce, DeviceStaysLive
  <1>o. AtMostOne
    BY <1>1 DEF LaunchInv
  <1>2. PICK v : Reads(v) /\ Served(box, v) /\ IsHid(box) /\ AllKnown(box)
    BY <1>1 DEF HidInv
  <1>3. ReportsArriveOnce
    BY <1>2 DEF AllKnown, ReportsArriveOnce
  <1>4. PICK at : at = IF Alive = {} THEN box.saved.evt
                       ELSE LET p == CHOOSE q \in Alive : TRUE
                            IN  IF proc[p].at \in {"top", "drain"} THEN proc[p].v.evt ELSE box.saved.evt
    OBVIOUS
  <1>5. at = v.evt
    <2>1. CASE Alive = {}
      BY <1>2, <1>4, <2>1 DEF Reads
    <2>2. CASE Alive # {}
      <3>1. PICK p : p = CHOOSE q \in Alive : TRUE
        OBVIOUS
      <3>2. p \in Alive
        BY <2>2, <3>1
      <3>3. at = IF proc[p].at \in {"top", "drain"} THEN proc[p].v.evt ELSE box.saved.evt
        BY <1>4, <2>2, <3>1, SMTT(60)
      <3>4. proc[p].at \notin {"top", "drain"} => v = box.saved
        BY <1>2, <1>o, <3>2 DEF Reads, AtMostOne
      <3> QED BY <1>2, <3>2, <3>3, <3>4 DEF Reads
    <2> QED BY <2>1, <2>2
  <1>6a. PICK U : U = Unread(v.evt, box.evthw)
    OBVIOUS
  <1>6. PICK evt \in [Indices -> Event], from \in Position, to \in Position :
           evt = box.evt /\ from = v.evt /\ to = box.evthw /\ U = Unread(from, to)
    BY <1>2, <1>6a DEF IsHid, Reads, IsView
  <1>7. U # {} => evt[from.i].c = from.c
    <2>1. Posted(evt, from, to)
      BY <1>2, <1>6 DEF Served
    <2>2. evt[from.i].c # from.c => Unread(from, to) = {}
      BY <2>1, EventRead
    <2> QED BY <1>6, <2>2
  <1>8. ASSUME NEW d \in Devices \ box.dead
        PROVE  \/ box.ring[d][box.hw[d].i] = box.hw[d].c
               \/ \E i \in 0..(RING_N - 1) : box.evt[i].d = d /\ box.evt[i].ok /\ box.buf[d] # 0
                                             /\ box.evt[at.i].c = at.c
    <2>1. Device(d, box.ring[d], box.hw[d], box.buf[d], v.dev[d], box.dead, evt, U)
      BY <1>2, <1>6 DEF Served
    <2>2. CASE box.ring[d][box.hw[d].i] = box.hw[d].c
      BY <2>2
    <2>3. CASE box.buf[d] # 0 /\ (\E j \in U : evt[j].d = d) /\ \A j \in U : evt[j].d = d => evt[j].ok
      <3>1. PICK j \in U : evt[j].d = d /\ evt[j].ok
        BY <2>3
      <3>2. j \in 0..(RING_N - 1)
        BY <1>6 DEF Unread, Indices
      <3>3. evt[from.i].c = from.c
        BY <1>7, <3>1
      <3> QED BY <1>5, <1>6, <2>3, <3>1, <3>2, <3>3
    <2> QED BY <1>8, <2>1, <2>2, <2>3 DEF Device
  <1>9. DeviceStaysLive
    BY <1>4, <1>8 DEF DeviceStaysLive
  <1> QED BY <1>3, <1>9 DEF ReportsKept

=============================================================================
