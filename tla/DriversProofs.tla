---------------------------- MODULE DriversProofs ----------------------------
(***************************************************************************)
(* What Drivers promises for any number of callers, calls and sectors, and *)
(* a screen of any height.                                                 *)
(*                                                                         *)
(* Beside the invariants of the service layer, the cards and the USB input *)
(* stand those of two more mailboxes: the screen shows the last frame      *)
(* whenever gopd has caught up (PaintInv), and who has waited for the disk *)
(* and gets an answer gets their own (LockInv, DiskInv). The steps of      *)
(* every mailbox are then put together.                                    *)
(***************************************************************************)
EXTENDS Drivers, ServicesProofs

\* How long, in seconds, a prover may take over one leaf.
USE ZenonT(60)

-----------------------------------------------------------------------------
(* The other mailboxes *)

LEMMA DiskStep ==
    ASSUME ShapeInv, LaunchInv \/ dev = "gopd", DiskNext
    PROVE  dev = "ahcid" /\ MailboxStep
  <1>1. CASE ahci_spawn_pending_driver
    BY <1>1 DEF ahci_spawn_pending_driver, SpawnPending, MailboxStep, ServiceFunction
  <1>2. CASE \E c \in Callers : ahci_start_service(c) \/ ahci_stop_service(c)
    BY <1>2 DEF ahci_start_service, ahci_stop_service, Launch, RaiseStop, Stopped, MailboxStep, ServiceFunction
  <1>3. CASE \E c \in Callers, s \in SECTORS : read_sectors(c, s) \/ write_sectors(c, s)
    <2>1. PICK c \in Callers, a \in {"read", "write"}, s \in SECTORS : Request(c, a, s)
      BY <1>3 DEF read_sectors, write_sectors
    <2>3. dev = "ahcid" /\ KernelCall(c, dev, a, s)
      BY <2>1 DEF Request
    <2>2. dev # "gopd" /\ a \in CallerLabels \ (Starting \cup Stopping)
      BY <2>3 DEF CallerLabels, Starting, Stopping, Holding
    <2> QED BY <2>2, <2>3, CallerEnters DEF MailboxStep
  <1>4. CASE \E c \in Callers : HandsOver(c)
    <2>1. PICK c \in Callers : who[c].at \in {"read", "write"} /\
                               \E a \in {"read_wait", "write_wait"} : KernelStep(c, a, who[c].x)
      BY <1>4 DEF HandsOver
    <2>2. dev = "ahcid"
      BY <2>1, LabelTells DEF Holding
    <2>3. /\ \A a \in {"read_wait", "write_wait"} : a \in CallerLabels \ (Starting \cup Stopping)
          /\ dev # "gopd" /\ who[c].at \notin Starting /\ who[c] # Idle
      BY <2>1, <2>2, SMTT(60) DEF CallerLabels, Starting, Stopping, Holding, Idle
    <2> QED BY <2>1, <2>2, <2>3, CallerStep DEF MailboxStep
  <1>5. CASE \E c \in Callers : Answered(c) \/ GivesUp(c)
    <2>1. PICK c \in Callers : who[c].at \in {"read_wait", "write_wait"} /\ KernelStep(c, "idle", 0)
      BY <1>5 DEF Answered, GivesUp
    <2>2. dev = "ahcid"
      BY <2>1, LabelTells DEF Holding
    <2>3. "idle" \in CallerLabels \ (Starting \cup Stopping) /\ who[c].at \notin Starting
      BY <2>1, <2>2 DEF CallerLabels, Starting, Stopping
    <2> QED BY <2>1, <2>2, <2>3, CallerStep DEF MailboxStep
  <1>6. CASE \E p \in DOMAIN proc : DiskDriver(p)
    <2>1. PICK p \in DOMAIN proc : DiskDriver(p)
      BY <1>6
    <2>2. dev = "ahcid" /\ \E b, a, v : At(p, b) /\ DriverStep(p, a, v)
      BY <2>1 DEF DiskDriver, DiskStart, DiskExit, DiskTakes, DiskIssues, DiskAnswers, DiskClears
    <2> QED BY <2>2, OwnMove DEF MailboxStep
  <1> QED BY <1>1, <1>2, <1>3, <1>4, <1>5, <1>6 DEF DiskNext

LEMMA InputStep ==
    ASSUME InputNext
    PROVE  dev = "input" /\ MailboxStep
  <1>1. CASE \E b \in Keyboards, k \in KEYS : KeyMoves(b, k)
    BY <1>1, ArrivalIsUnseen DEF KeyMoves, Arrives, MailboxStep
  <1>2. CASE \E buttons \in 0..1 : MouseMoves(buttons) \/ \E corner \in BOOLEAN : TabletMoves(buttons, corner)
    BY <1>2, ArrivalIsUnseen DEF MouseMoves, TabletMoves, Arrives, MailboxStep
  <1>3. CASE ps2_poll \/ mouse_poll \/ TakesReport \/ read_char
    BY <1>3, PollIsUnseen DEF ps2_poll, mouse_poll, TakesReport, read_char, MailboxStep
  <1> QED BY <1>1, <1>2, <1>3 DEF InputNext

\* gopd has two launches of its own.
LEMMA GopStep ==
    ASSUME ShapeInv, GopNext
    PROVE  /\ dev = "gopd"
           /\ MailboxStep \/ spawn_gopd \/ \E c \in Callers : gop_start_service(c)
  <1>b. "blink" \in Callers
    BY CallersAssumption
  <1>1. CASE spawn_gopd \/ \E c \in Callers : gop_start_service(c)
    BY <1>1 DEF spawn_gopd, gop_start_service
  <1>2. CASE \E c \in Callers : gop_stop_service(c)
    <2>1. PICK c \in Callers : gop_stop_service(c)
      BY <1>2
    <2>2. dev = "gopd"
      BY <2>1 DEF gop_stop_service, Stopped
    <2>3. CASE RaiseStop(c, "gopd") \/ Stopped(c, "gopd")
      BY <2>2, <2>3 DEF MailboxStep, ServiceFunction
    <2>4. CASE who[c].at = "stop_flag" /\ KernelStep(c, "idle", 0)
      <3>1. "idle" \in CallerLabels \ (Starting \cup Stopping) /\ who[c].at \notin Starting
        BY <2>4 DEF CallerLabels, Starting, Stopping
      <3> QED BY <2>2, <2>4, <3>1, CallerStep DEF MailboxStep
    <2> QED BY <2>1, <2>2, <2>3, <2>4 DEF gop_stop_service
  <1>3. CASE \E y \in Rows : Redraw(y) \/ MoveCursor(y)
    <2>1. dev = "gopd" /\ KernelCall("blink", dev, "idle", 0)
      BY <1>3 DEF Redraw, MoveCursor, KernelCall
    <2>2. "idle" \in CallerLabels \ (Starting \cup Stopping)
      BY DEF CallerLabels, Starting, Stopping
    <2> QED BY <1>b, <2>1, <2>2, CallerEnters DEF MailboxStep
  <1>4. CASE \E p \in DOMAIN proc : GopDriver(p)
    <2>1. PICK p \in DOMAIN proc : GopDriver(p)
      BY <1>4
    <2>2. dev = "gopd" /\ \E b, a, v : At(p, b) /\ DriverStep(p, a, v)
      BY <2>1 DEF GopDriver, GopStart, GopExit, GopTakes, GopCopies, GopAcks
    <2> QED BY <2>2, OwnMove DEF MailboxStep
  <1> QED BY <1>1, <1>2, <1>3, <1>4 DEF GopNext

LEMMA GopLaunchIsQuiet ==
    ASSUME ShapeInv, spawn_gopd \/ \E c \in Callers : gop_start_service(c)
    PROVE  Quiet
  <1>f. {pend, enabled, starting, stop, slipped} \subseteq BOOLEAN
    BY DEF ShapeInv, TypeOK
  <1>1. {"start_wait", "start_done"} \subseteq CallerLabels
    BY DEF CallerLabels, Starting, Stopping
  <1>2. CASE spawn_gopd
    BY <1>2, <1>f DEF spawn_gopd, Quiet, WhoSteps, ProcSteps, QueueSteps
  <1>3. ASSUME NEW c \in Callers, gop_start_service(c)
        PROVE  Quiet
    BY <1>1, <1>3, <1>f DEF gop_start_service, Quiet, WhoSteps, ProcSteps, QueueSteps
  <1> QED BY <1>2, <1>3

-----------------------------------------------------------------------------
(* The service layer, always *)

LEMMA ServicesPartInit ==
    ASSUME Init
    PROVE  ShapeInv /\ TableInv /\ LaunchInv
  <1>1. /\ dev \in Followed /\ boot \in [device : BOOLEAN, elf : BOOLEAN, maps : BOOLEAN]
        /\ pend = TRUE /\ enabled = TRUE /\ starting = FALSE /\ stop = FALSE
        /\ queue = <<>> /\ tab = <<>> /\ pids = 0 /\ proc = <<>>
        /\ who = [c \in Callers |-> Idle] /\ slipped = FALSE
    BY DEF Init, ServicesInit
  <1>2. DOMAIN queue = {} /\ DOMAIN tab = {} /\ DOMAIN proc = {} /\ pids \in Nat
    BY <1>1, SMTT(60)
  <1>3. queue \in Seq(ProcNames) /\ tab \in Seq(Entry)
    BY <1>1, SMTT(60)
  <1>4. \A c \in Callers : who[c] = Idle /\ who[c].at = "idle"
    BY <1>1, IdleFields
  <1>5. ShapeInv
    BY <1>1, <1>2, <1>3, <1>4 DEF ShapeInv, TypeOK, CallerLabels
  <1>6. TableInv
    BY <1>2 DEF TableInv
  <1>7. Alive = {} /\ Waiting = {} /\ Starters = {}
    BY <1>2, <1>4 DEF Alive, Waiting, Starters, Starting
  <1>8. LaunchInv
    BY <1>4, <1>7 DEF LaunchInv, Nobody, AtMostOne
  <1> QED BY <1>5, <1>6, <1>8

\* The steps of the mailboxes, each of which belongs to its driver.
LEMMA MailboxSteps ==
    ASSUME ShapeInv, LaunchInv \/ dev = "gopd"
    PROVE  /\ NicNext => dev = "rtl8139d" /\ MailboxStep
           /\ AudioNext => dev = "hdad" /\ MailboxStep
           /\ DiskNext => dev = "ahcid" /\ MailboxStep
           /\ HidNext => dev = "xhcid" /\ MailboxStep
           /\ InputNext => dev = "input" /\ MailboxStep
  BY NicStep, AudioStep, DiskStep, HidStep, InputStep

-----------------------------------------------------------------------------
(* The screen *)

Cell == [frame : Nat, cursor : BOOLEAN]
Picture == [Rows -> Cell]
ScreenFields == {"virt", "req", "ack", "dirty", "cur", "scene", "back", "at", "pub", "fb", "missed"}
IsScreen(g) ==
    /\ DOMAIN g = ScreenFields
    /\ g.virt \in BOOLEAN /\ g.missed \in BOOLEAN
    /\ g.req \in Nat /\ g.ack \in Nat /\ g.scene \in Nat
    /\ g.dirty \subseteq Rows /\ g.cur \in Rows /\ g.at \in Rows
    /\ g.back \in Picture /\ g.pub \in Picture /\ g.fb \in Picture
IsGopLocal(v) == DOMAIN v = {"last", "rows", "pub"} /\ v.last \in Nat /\ v.rows \subseteq Rows
Full(f, y) == [r \in Rows |-> IF r = y THEN [frame |-> f, cursor |-> TRUE] ELSE Plain(f)]

\* What gopd has copied and what it has still to copy, together with what it
\* need not, make the last frame: a flush that is under way is left alone.
PaintInv ==
    dev = "gopd" =>
      /\ IsScreen(box)
      /\ \A p \in Alive : proc[p].at \in {"top", "copy"} => IsGopLocal(proc[p].v)
      /\ NewInstance => box.ack = 0
      /\ \A p \in Alive : proc[p].at = "top" => proc[p].v.last = box.ack
      /\ \A p \in Alive : proc[p].at = "copy" =>
           /\ proc[p].v.last = box.req /\ box.ack # box.req /\ proc[p].v.pub = box.pub
           /\ proc[p].v.rows \subseteq box.dirty
           /\ ~box.missed => \A r \in box.dirty : r \in proc[p].v.rows \/ box.fb[r] = Plain(box.scene)
      /\ Settled /\ ~box.missed => box.fb = Full(box.scene, box.at)
      /\ ~Settled /\ ~box.missed =>
           /\ box.cur = box.at
           /\ \A r \in Rows : IF r \in box.dirty THEN box.pub[r] = Plain(box.scene)
                              ELSE box.fb[r] = Plain(box.scene)

-----------------------------------------------------------------------------
(* The disk *)

WaitFor(op) == IF op = "read" THEN "read_wait" ELSE "write_wait"
Serving(at) == \E p \in Alive : proc[p].at = at
Pending(op, s) ==
    /\ op \in {"read", "write"} /\ box.status = "pending"
    /\ \E c \in Callers : who[c].at = WaitFor(op) /\ who[c].x = s
DiskFields == {"op", "status", "lba", "data", "lock", "sector", "reqs", "ok", "late"}
IsDisk(g) == DOMAIN g = DiskFields /\ DOMAIN g.sector = SECTORS
Awaits(c) == who[c].at \in {"read_wait", "write_wait"}

\* AHCI_IO_LOCK has one holder, and the mailbox is for the sector they want.
LockInv ==
    dev = "ahcid" =>
      /\ IsDisk(box)
      /\ \A c \in Callers : who[c].at \in Holding =>
           box.lock = c /\ who[c].x \in SECTORS /\ who[c].x = box.lba

\* While nobody has given up and there is one instance, an operation in the
\* mailbox, and one in ahcid's hands, is that of the caller who waits, and an
\* answer is theirs too.
DiskInv ==
    dev = "ahcid" /\ ~box.late /\ ~slipped =>
      /\ box.ok
      /\ box.status # "pending" =>
           \E c \in Callers : Awaits(c) /\ (box.status = "ok" => box.sector[who[c].x] = box.data)
      /\ box.op # "none" => Serving("clear") \/ Pending(box.op, box.lba)
      /\ \A p \in Alive : proc[p].at = "issue" =>
           DOMAIN proc[p].v = {"op", "lba", "result"} /\ Pending(proc[p].v.op, proc[p].v.lba)
      /\ \A p \in Alive : proc[p].at = "status" =>
           \E c \in Callers : /\ Awaits(c) /\ box.status = "pending"
                              /\ proc[p].v.result = "ok" => box.sector[who[c].x] = box.data

-----------------------------------------------------------------------------
(* Pictures *)

LEMMA CellFields ==
    ASSUME NEW f \in Nat, NEW b \in BOOLEAN
    PROVE  [frame |-> f, cursor |-> b] \in Cell /\ Plain(f) \in Cell
  BY DEF Cell, Plain

LEMMA CellPainted ==
    ASSUME NEW f, NEW b, NEW t
    PROVE  [[frame |-> f, cursor |-> b] EXCEPT !.cursor = t] = [frame |-> f, cursor |-> t]
  BY SMTT(60)

LEMMA PlainPicture ==
    ASSUME NEW f \in Nat
    PROVE  [r \in Rows |-> Plain(f)] \in Picture
  BY CellFields DEF Picture

LEMMA SamePicture ==
    ASSUME NEW p \in Picture, NEW q \in Picture, \A r \in Rows : p[r] = q[r]
    PROVE  p = q
  BY SMTT(60) DEF Picture

LEMMA CopyFacts ==
    ASSUME NEW p \in Picture, NEW q \in Picture, NEW rows
    PROVE  /\ CopyRows(p, q, rows) \in Picture
           /\ \A r \in Rows : CopyRows(p, q, rows)[r] = IF r \in rows THEN p[r] ELSE q[r]
  <1>1. \A r \in Rows : p[r] \in Cell /\ q[r] \in Cell
    BY DEF Picture
  <1> QED BY <1>1 DEF CopyRows, Picture

LEMMA PaintFacts ==
    ASSUME NEW p \in Picture, NEW y \in Rows
    PROVE  /\ PaintCursor(p, y) \in Picture
           /\ \A r \in Rows : PaintCursor(p, y)[r] = IF r = y THEN [frame |-> p[y].frame, cursor |-> TRUE] ELSE p[r]
  <1>1. \A r \in Rows : p[r] \in Cell
    BY DEF Picture
  <1>2. ASSUME NEW e \in Cell PROVE [e EXCEPT !.cursor = TRUE] = [frame |-> e.frame, cursor |-> TRUE] /\ e.frame \in Nat
    <2>1. PICK f \in Nat, b \in BOOLEAN : e = [frame |-> f, cursor |-> b]
      BY DEF Cell
    <2>2. e.frame = f
      BY <2>1
    <2>3. [e EXCEPT !.cursor = TRUE] = [frame |-> f, cursor |-> TRUE]
      BY <2>1, CellPainted
    <2> QED BY <2>2, <2>3
  <1>3. PaintCursor(p, y) = [r \in Rows |-> IF r = y THEN [p[y] EXCEPT !.cursor = TRUE] ELSE p[r]]
    BY DEF PaintCursor, Picture
  <1>4. \A r \in Rows : (IF r = y THEN [p[y] EXCEPT !.cursor = TRUE] ELSE p[r]) \in Cell
    BY <1>1, <1>2, CellFields
  <1> QED BY <1>1, <1>2, <1>3, <1>4 DEF Picture

LEMMA FullFacts ==
    ASSUME NEW f \in Nat, NEW y \in Rows
    PROVE  /\ Full(f, y) \in Picture
           /\ PaintCursor([r \in Rows |-> Plain(f)], y) = Full(f, y)
  <1>1. Full(f, y) \in Picture /\ \A r \in Rows : Full(f, y)[r] = IF r = y THEN [frame |-> f, cursor |-> TRUE] ELSE Plain(f)
    BY CellFields DEF Full, Picture
  <1>2. PICK p \in Picture : p = [r \in Rows |-> Plain(f)]
    BY PlainPicture
  <1>3. PICK q \in Picture :
          /\ q = PaintCursor(p, y)
          /\ \A r \in Rows : q[r] = IF r = y THEN [frame |-> p[y].frame, cursor |-> TRUE] ELSE p[r]
    BY PaintFacts
  <1>4. Plain(f).frame = f /\ \A r \in Rows : p[r] = Plain(f)
    BY <1>2, SMTT(60) DEF Plain
  <1>5. ASSUME NEW r \in Rows PROVE q[r] = Full(f, y)[r]
    <2>1. CASE r = y
      BY <1>1, <1>3, <1>4, <2>1
    <2>2. CASE r # y
      BY <1>1, <1>3, <1>4, <2>2
    <2> QED BY <2>1, <2>2
  <1>6. q = Full(f, y)
    BY <1>1, <1>5, SamePicture
  <1> QED BY <1>1, <1>2, <1>3, <1>6

\* The rows that a flush of the cursor covers.
LEMMA BetweenFacts ==
    ASSUME NEW a \in Rows, NEW b \in Rows
    PROVE  Between(a, b) \subseteq Rows /\ a \in Between(a, b) /\ b \in Between(a, b)
  <1>1. a \in Int /\ b \in Int
    BY RowsAssumption, SMTT(60) DEF Rows
  <1>2. a <= a /\ b <= b /\ (a <= b \/ b <= a)
    BY <1>1, SMTT(60)
  <1> QED BY <1>2 DEF Between

-----------------------------------------------------------------------------
(* What the kernel does to the screen *)

Flushed(g, h, rows) ==
    /\ h.virt = g.virt /\ h.ack = g.ack /\ h.scene = g.scene /\ h.at = g.at
    /\ ~g.virt => /\ h.req = g.req /\ h.fb = CopyRows(g.back, g.fb, rows)
                  /\ h.pub = g.pub /\ (~h.missed => ~g.missed \/ rows = Rows)
    /\ g.virt /\ g.ack # g.req =>
         h.req = g.req /\ h.fb = g.fb /\ h.pub = g.pub /\ h.dirty = g.dirty /\ h.missed
    /\ g.virt /\ g.ack = g.req =>
         /\ h.req # h.ack /\ h.fb = g.fb /\ h.pub = CopyRows(g.back, g.pub, rows)
         /\ h.dirty = rows /\ h.cur = g.at /\ (~h.missed => ~g.missed \/ rows = Rows)

LEMMA FlushFacts ==
    ASSUME NEW g, IsScreen(g), NEW rows \in SUBSET Rows
    PROVE  IsScreen(request_flush(g, rows)) /\ Flushed(g, request_flush(g, rows), rows)
  <1>0. PICK h : h = request_flush(g, rows)
    OBVIOUS
  <1>1. PICK cf, cp : /\ cf \in Picture /\ cf = CopyRows(g.back, g.fb, rows)
                      /\ cp \in Picture /\ cp = CopyRows(g.back, g.pub, rows)
    <2>1. g.back \in Picture /\ g.fb \in Picture /\ g.pub \in Picture
      BY DEF IsScreen
    <2>2. PICK x \in Picture, y \in Picture, z \in Picture : x = g.back /\ y = g.fb /\ z = g.pub
      BY <2>1
    <2>3. CopyRows(x, y, rows) \in Picture
      BY CopyFacts
    <2>4. CopyRows(x, z, rows) \in Picture
      BY CopyFacts
    <2> QED BY <2>2, <2>3, <2>4
  <1>2. PICK m \in BOOLEAN : m = (g.missed /\ rows # Rows)
    OBVIOUS
  <1>3. PICK n \in Nat : n = g.req + 1 /\ n # g.req
    <2>1. g.req \in Nat
      BY DEF IsScreen
    <2>2. g.req + 1 \in Nat /\ g.req + 1 # g.req
      BY <2>1, SMTT(60)
    <2> QED BY <2>2
  <1>4. CASE ~g.virt
    <2>1. h = [g EXCEPT !.fb = cf, !.missed = m]
      BY <1>0, <1>1, <1>2, <1>4 DEF request_flush
    <2>2. /\ IsScreen(h) /\ h.virt = g.virt /\ h.ack = g.ack /\ h.scene = g.scene /\ h.at = g.at
          /\ h.req = g.req /\ h.fb = cf /\ h.pub = g.pub /\ h.missed = m
      BY <1>1, <1>2, <2>1 DEF IsScreen, ScreenFields
    <2>3. Flushed(g, h, rows)
      BY <1>1, <1>2, <1>4, <2>2 DEF Flushed
    <2> QED BY <1>0, <2>2, <2>3
  <1>5. CASE g.virt /\ g.ack # g.req
    <2>1. h = [g EXCEPT !.missed = TRUE]
      BY <1>0, <1>5 DEF request_flush
    <2> QED BY <1>0, <1>5, <2>1 DEF IsScreen, ScreenFields, Flushed
  <1>6. CASE g.virt /\ g.ack = g.req
    <2>1. h = [g EXCEPT !.pub = cp, !.dirty = rows, !.cur = g.at, !.req = n, !.missed = m]
      BY <1>0, <1>1, <1>2, <1>3, <1>6 DEF request_flush
    <2>2. /\ IsScreen(h) /\ h.virt = g.virt /\ h.ack = g.ack /\ h.scene = g.scene /\ h.at = g.at
          /\ h.req = n /\ h.fb = g.fb /\ h.pub = cp /\ h.dirty = rows /\ h.cur = g.at /\ h.missed = m
      BY <1>1, <1>2, <1>3, <2>1 DEF IsScreen, ScreenFields
    <2>3. Flushed(g, h, rows)
      BY <1>1, <1>2, <1>3, <1>6, <2>2 DEF Flushed
    <2> QED BY <1>0, <2>2, <2>3
  <1> QED BY <1>4, <1>5, <1>6

LEMMA CursorFacts ==
    ASSUME NEW g, IsScreen(g), NEW y \in Rows, NEW h, h = draw_cursor(g, y)
    PROVE  /\ IsScreen(h) /\ h.virt = g.virt /\ h.req = g.req /\ h.ack = g.ack /\ h.dirty = g.dirty
           /\ h.scene = g.scene /\ h.at = g.at /\ h.pub = g.pub /\ h.fb = g.fb /\ h.missed = g.missed
           /\ h.back = IF g.virt THEN g.back ELSE PaintCursor(g.back, y)
  <1>1. PICK b \in Picture : b = PaintCursor(g.back, y)
    BY PaintFacts DEF IsScreen
  <1>2. CASE g.virt
    BY <1>2 DEF draw_cursor
  <1>3. CASE ~g.virt
    <2>1. h = [g EXCEPT !.back = b]
      BY <1>1, <1>3 DEF draw_cursor
    <2> QED BY <1>1, <1>3, <2>1 DEF IsScreen, ScreenFields
  <1> QED BY <1>2, <1>3

\* A redraw, or a move of the cursor, makes the rows it flushes those of the
\* last frame, and leaves the others.
Drawn(rows, f, y) ==
    /\ box'.virt = box.virt /\ box'.ack = box.ack /\ box'.scene = f /\ box'.at = y
    /\ y \in rows /\ (rows = Rows \/ (f = box.scene /\ box.at \in rows))
    /\ ~box.virt =>
         /\ box'.req = box.req /\ box'.pub = box.pub /\ (~box'.missed => ~box.missed \/ rows = Rows)
         /\ \A r \in Rows : box'.fb[r] = IF r \in rows THEN Full(f, y)[r] ELSE box.fb[r]
    /\ box.virt /\ box.ack # box.req =>
         /\ box'.req = box.req /\ box'.fb = box.fb /\ box'.pub = box.pub
         /\ box'.dirty = box.dirty /\ box'.missed
    /\ box.virt /\ box.ack = box.req =>
         /\ box'.req # box'.ack /\ box'.fb = box.fb /\ box'.dirty = rows /\ box'.cur = y
         /\ \A r \in rows : box'.pub[r] = Plain(f)
         /\ ~box'.missed => ~box.missed \/ rows = Rows

LEMMA DrawFacts ==
    ASSUME IsScreen(box), NEW y \in Rows, Redraw(y) \/ MoveCursor(y)
    PROVE  IsScreen(box') /\ \E rows \in SUBSET Rows, f \in Nat : Drawn(rows, f, y)
  <1>1. PICK rows \in SUBSET Rows, f \in Nat, b \in Picture :
          /\ y \in rows /\ (rows = Rows \/ (f = box.scene /\ box.at \in rows))
          /\ \A r \in rows : b[r] = Plain(f)
          /\ box' = request_flush(draw_cursor([box EXCEPT !.scene = f, !.back = b, !.at = y], y), rows)
    <2>1. CASE Redraw(y)
      <3>1. PICK f \in Nat : f = box.scene + 1
        <4>1. box.scene \in Nat
          BY DEF IsScreen
        <4>2. box.scene + 1 \in Nat
          BY <4>1, SMTT(60)
        <4> QED BY <4>2
      <3>2. PICK b \in Picture : b = [r \in Rows |-> Plain(f)]
        BY PlainPicture
      <3>3. box' = request_flush(draw_cursor([box EXCEPT !.scene = f, !.back = b, !.at = y], y), Rows)
        BY <2>1, <3>1, <3>2 DEF Redraw
      <3>4. \A r \in Rows : b[r] = Plain(f)
        BY <3>2
      <3> QED BY <3>3, <3>4
    <2>2. CASE MoveCursor(y)
      <3>1. PICK f \in Nat, a \in Rows, c \in Picture : f = box.scene /\ a = box.at /\ c = box.back
        BY DEF IsScreen
      <3>2. PICK rows : rows = Between(a, y)
        OBVIOUS
      <3>3. rows \subseteq Rows /\ a \in rows /\ y \in rows
        BY <3>2, BetweenFacts
      <3>4. PICK e \in Picture : e = [r \in Rows |-> Plain(f)]
        BY PlainPicture
      <3>5. PICK b \in Picture : b = CopyRows(e, c, rows) /\ \A r \in Rows : b[r] = IF r \in rows THEN e[r] ELSE c[r]
        BY CopyFacts, SMTT(60)
      <3>6. box' = request_flush(draw_cursor([box EXCEPT !.back = b, !.at = y], y), rows)
        BY <2>2, <3>1, <3>2, <3>4, <3>5 DEF MoveCursor
      <3>7. [box EXCEPT !.scene = f, !.back = b, !.at = y] = [box EXCEPT !.back = b, !.at = y]
        BY <3>1 DEF IsScreen, ScreenFields
      <3>8. \A r \in rows : b[r] = Plain(f)
        BY <3>3, <3>4, <3>5
      <3> QED BY <3>1, <3>3, <3>6, <3>7, <3>8
    <2> QED BY <2>1, <2>2
  <1>2. PICK g : g = [box EXCEPT !.scene = f, !.back = b, !.at = y]
    OBVIOUS
  <1>3. /\ IsScreen(g) /\ g.virt = box.virt /\ g.req = box.req /\ g.ack = box.ack /\ g.dirty = box.dirty
        /\ g.pub = box.pub /\ g.fb = box.fb /\ g.missed = box.missed
        /\ g.scene = f /\ g.back = b /\ g.at = y
    BY <1>2 DEF IsScreen, ScreenFields
  <1>4. PICK d : d = draw_cursor(g, y)
    OBVIOUS
  <1>5. /\ IsScreen(d) /\ d.virt = box.virt /\ d.req = box.req /\ d.ack = box.ack /\ d.dirty = box.dirty
        /\ d.scene = f /\ d.at = y /\ d.pub = box.pub /\ d.fb = box.fb /\ d.missed = box.missed
        /\ d.back = IF box.virt THEN b ELSE PaintCursor(b, y)
    BY <1>3, <1>4, CursorFacts, SMTT(60)
  <1>6. IsScreen(box') /\ Flushed(d, box', rows)
    BY <1>1, <1>2, <1>4, <1>5, FlushFacts
  <1>7. box'.virt = box.virt /\ box'.ack = box.ack /\ box'.scene = f /\ box'.at = y
    BY <1>5, <1>6 DEF Flushed
  <1>8. CASE ~box.virt
    <2>1. /\ box'.req = box.req /\ box'.fb = CopyRows(d.back, d.fb, rows)
          /\ box'.pub = box.pub /\ (~box'.missed => ~box.missed \/ rows = Rows)
      BY <1>5, <1>6, <1>8 DEF Flushed
    <2>2. PICK u \in Picture, w \in Picture : u = d.back /\ w = d.fb
      BY <1>5 DEF IsScreen
    <2>3. u = PaintCursor(b, y)
      BY <1>5, <1>8, <2>2
    <2>4. \A r \in Rows : u[r] = IF r = y THEN [frame |-> b[y].frame, cursor |-> TRUE] ELSE b[r]
      BY <2>3, PaintFacts
    <2>5. Plain(f).frame = f
      BY SMTT(60) DEF Plain
    <2>6. \A r \in rows : u[r] = Full(f, y)[r]
      <3>1. TAKE r \in rows
      <3>2. r \in Rows
        OBVIOUS
      <3>3. Full(f, y)[r] = IF r = y THEN [frame |-> f, cursor |-> TRUE] ELSE Plain(f)
        BY <3>2 DEF Full
      <3>4. CASE r = y
        BY <1>1, <2>4, <2>5, <3>2, <3>3, <3>4
      <3>5. CASE r # y
        BY <1>1, <2>4, <3>2, <3>3, <3>5
      <3> QED BY <3>4, <3>5
    <2>7. \A r \in Rows : CopyRows(u, w, rows)[r] = IF r \in rows THEN u[r] ELSE w[r]
      BY CopyFacts, SMTT(60)
    <2>8. box'.fb = CopyRows(u, w, rows) /\ w = box.fb
      BY <1>5, <2>1, <2>2
    <2>9. \A r \in Rows : box'.fb[r] = IF r \in rows THEN Full(f, y)[r] ELSE box.fb[r]
      BY <2>6, <2>7, <2>8, SMTT(60)
    <2>10. Drawn(rows, f, y)
      BY <1>1, <1>7, <1>8, <2>1, <2>9 DEF Drawn
    <2> QED BY <1>6, <2>10
  <1>9. CASE box.virt /\ box.ack # box.req
    <2>1. /\ box'.req = box.req /\ box'.fb = box.fb /\ box'.pub = box.pub
          /\ box'.dirty = box.dirty /\ box'.missed
      BY <1>5, <1>6, <1>9 DEF Flushed
    <2>2. Drawn(rows, f, y)
      BY <1>1, <1>7, <1>9, <2>1 DEF Drawn
    <2> QED BY <1>6, <2>2
  <1>10. CASE box.virt /\ box.ack = box.req
    <2>1. /\ box'.req # box'.ack /\ box'.fb = box.fb /\ box'.pub = CopyRows(d.back, d.pub, rows)
          /\ box'.dirty = rows /\ box'.cur = y /\ (~box'.missed => ~box.missed \/ rows = Rows)
      BY <1>5, <1>6, <1>10 DEF Flushed
    <2>2. PICK w \in Picture : w = d.pub
      BY <1>5 DEF IsScreen
    <2>3. d.back = b
      BY <1>5, <1>10
    <2>4. \A r \in rows : CopyRows(b, w, rows)[r] = b[r]
      BY CopyFacts
    <2>5. \A r \in rows : box'.pub[r] = Plain(f)
      BY <1>1, <2>1, <2>2, <2>3, <2>4
    <2>6. Drawn(rows, f, y)
      BY <1>1, <1>7, <1>10, <2>1, <2>5 DEF Drawn
    <2> QED BY <1>6, <2>6
  <1> QED BY <1>8, <1>9, <1>10 DEF IsScreen

-----------------------------------------------------------------------------
(* ScreenInv *)

LEMMA RunningIsAlive ==
    ASSUME TableInv
    PROVE  is_running(dev) <=> Alive # {}
  <1>1. ASSUME NEW i \in DOMAIN tab, tab[i].name = dev, tab[i].running PROVE tab[i].pid \in Alive
    <2>1. PICK p \in DOMAIN proc : p = tab[i].pid
      BY <1>1 DEF TableInv
    <2>2. PICK j \in DOMAIN tab : tab[j].pid = p /\ tab[j].name = proc[p].name
      BY DEF TableInv
    <2>3. j = i
      BY <2>1, <2>2 DEF TableInv
    <2> QED BY <1>1, <2>1, <2>2, <2>3 DEF Alive
  <1>2. ASSUME NEW p \in Alive PROVE is_running(dev)
    <2>1. p \in DOMAIN proc /\ proc[p].name = dev
      BY DEF Alive
    <2>2. PICK j \in DOMAIN tab : tab[j].pid = p /\ tab[j].name = proc[p].name
      BY <2>1 DEF TableInv
    <2>3. tab[j].running
      BY <2>1, <2>2 DEF TableInv
    <2> QED BY <2>1, <2>2, <2>3 DEF is_running
  <1> QED BY <1>1, <1>2 DEF is_running

LEMMA ServicesFewer ==
    ASSUME ShapeInv, TableInv, ServicesNext
    PROVE  Fewer
  <1>1. CASE async_task_entry
    BY <1>1, EntryFewer
  <1>2. ASSUME NEW p \in DOMAIN proc, exec_blocking_returns(p) PROVE Fewer
    BY <1>2, ReturnFewer
  <1>3. ASSUME NEW p \in DOMAIN proc, ProgramEnds(p) \/ CannotMap(p) PROVE Fewer
    <2>1. dev' = dev /\ queue' = queue /\ ProcSteps
      BY <1>3 DEF ProgramEnds, CannotMap, DriverStep, KeepsServices, ProcSteps
    <2> QED BY <2>1, SameAlive, SameWaiting, FewerOf
  <1>4. CASE Exec
    <2>1. dev' = dev /\ ProcSteps /\ exec_async("program")
      BY <1>4 DEF Exec, ProcSteps
    <2> QED BY <2>1, SameAlive, ProgramWaits, FewerOf
  <1>5. ASSUME (\E pid \in DOMAIN proc : kill(pid)) \/ \E c \in Callers : ServiceCall(c)
        PROVE  Fewer
    <2>1. dev' = dev /\ queue' = queue /\ ProcSteps
      BY <1>5 DEF kill, ServiceCall, service_dispatch, set_enabled, StopCheck, StartCheck, StartCas, StartWait,
                  StartDone, StopWaitGivesUp, ProcSteps
    <2> QED BY <2>1, SameAlive, SameWaiting, FewerOf
  <1> QED BY <1>1, <1>2, <1>3, <1>4, <1>5 DEF ServicesNext

\* What the callers of gopd's service layer do: it is the desktop's task, and
\* it stops a driver that runs.
LEMMA ScreenCalls ==
    ASSUME ShapeInv, TableInv, ScreenInv, dev = "gopd", ServicesNext
    PROVE  /\ \A c \in Callers : c # "blink" => who'[c] = who[c]
           /\ who'["blink"].at \in Stopping => who["blink"].at \in Stopping \/ Alive # {}
  <1>b. "blink" \in Callers /\ \A c \in Callers : c # "blink" => who[c].at = "idle"
    BY CallersAssumption, IdleFields DEF ScreenInv
  <1> DEFINE Calls == /\ \A c \in Callers : c # "blink" => who'[c] = who[c]
                      /\ who'["blink"].at \in Stopping => who["blink"].at \in Stopping \/ Alive # {}
  <1>1. CASE who' = who
    BY <1>1
  <1>2. ASSUME NEW c \in Callers, NEW a, Moves(c, a, 0), c = "blink",
               a \in Stopping => who["blink"].at \in Stopping \/ Alive # {}
        PROVE  Calls
    BY <1>2, MovesFacts
  <1>n. /\ "idle" \notin Stopping /\ "start_cas" \notin Stopping /\ "start_launch" \notin Stopping
        /\ "start_done" \notin Stopping
    BY DEF Stopping
  <1> HIDE DEF Calls
  <1>3. ASSUME NEW pid \in DOMAIN proc, kill(pid) PROVE Calls
    <2>1. PICK a : Moves("blink", a, 0) /\ (a # "idle" => \E i \in DOMAIN tab : tab[i].pid = pid /\ tab[i].name = dev)
      BY <1>3 DEF kill
    <2>2. \E i \in DOMAIN tab : tab[i].pid = pid /\ tab[i].running
      BY <1>3 DEF kill
    <2>3. a # "idle" => is_running(dev)
      BY <2>1, <2>2 DEF TableInv, is_running
    <2> QED BY <1>b, <1>n, <1>2, <2>1, <2>3, RunningIsAlive
  <1>4. ASSUME NEW c \in Callers, ServiceCall(c) PROVE Calls
    <2>1. CASE set_enabled(c)
      BY <2>1, <1>1 DEF set_enabled, Calls
    <2>2. CASE StopCheck(c)
      <3>1. PICK a : Moves(c, a, 0) /\ c = "blink" /\ (a # "idle" => is_running(dev))
        BY <2>2 DEF StopCheck
      <3> QED BY <1>n, <1>2, <3>1, RunningIsAlive
    <2>3. CASE StartCheck(c)
      <3>1. PICK a \in {"start_cas", "idle"} : Moves(c, a, 0) /\ c = "blink"
        BY <2>3 DEF StartCheck
      <3> QED BY <1>n, <1>2, <3>1
    <2>4. CASE StartCas(c)
      <3>1. PICK a \in {"start_launch", "idle"} : Moves(c, a, 0) /\ who[c].at = "start_cas"
        BY <2>4 DEF StartCas
      <3> QED BY <1>b, <1>n, <1>2, <3>1
    <2>5. CASE StartWait(c)
      BY <2>5, <1>b, <1>n, <1>2 DEF StartWait
    <2>6. CASE StartDone(c)
      BY <2>6, <1>b, <1>n, <1>2 DEF StartDone, Moves, Idle
    <2>7. CASE StopWaitGivesUp(c)
      BY <2>7, <1>b, <1>n, <1>2 DEF StopWaitGivesUp, Moves, Idle
    <2> QED BY <1>4, <2>1, <2>2, <2>3, <2>4, <2>5, <2>6, <2>7 DEF ServiceCall, service_dispatch
  <1>5. ASSUME async_task_entry \/ Exec PROVE Calls
    BY <1>1, <1>5 DEF async_task_entry, Exec, Calls
  <1>6. ASSUME NEW p \in DOMAIN proc, exec_blocking_returns(p) \/ ProgramEnds(p) \/ CannotMap(p) PROVE Calls
    BY <1>1, <1>6 DEF exec_blocking_returns, ProgramEnds, CannotMap, DriverStep, Calls
  <1>7. Calls
    BY <1>3, <1>4, <1>5, <1>6 DEF ServicesNext
  <1> QED BY <1>7 DEF Calls

LEMMA ScreenInvServices ==
    ASSUME ShapeInv, TableInv, ScreenInv, ServicesNext, box' = box
    PROVE  ScreenInv'
  <1>1. CASE dev = "gopd"
    <2>1. Fewer
      BY ServicesFewer
    <2>2. /\ \A c \in Callers : c # "blink" => who'[c] = Idle
          /\ who'["blink"].at \in Stopping => Waiting = {}
      BY <1>1, ScreenCalls DEF ScreenInv, AtMostOne
    <2> QED BY <1>1, <2>1, <2>2 DEF ScreenInv, Fewer
  <1>2. CASE dev # "gopd"
    <2>1. dev' = dev
      BY ServicesBeside DEF Beside
    <2> QED BY <1>2, <2>1 DEF ScreenInv
  <1> QED BY <1>1, <1>2

LEMMA GopDriverBox ==
    ASSUME IsScreen(box), NEW p \in DOMAIN proc, GopDriver(p)
    PROVE  DOMAIN box' = ScreenFields /\ box'.virt = box.virt
  <1>1. DOMAIN box = ScreenFields
    BY DEF IsScreen
  <1>2. CASE GopStart(p) \/ GopExit(p) \/ GopTakes(p)
    BY <1>1, <1>2 DEF GopStart, GopExit, GopTakes
  <1>3. CASE GopCopies(p)
    BY <1>1, <1>3 DEF GopCopies, ScreenFields
  <1>4. CASE GopAcks(p)
    BY <1>1, <1>4 DEF GopAcks, ScreenFields
  <1> QED BY <1>2, <1>3, <1>4 DEF GopDriver

LEMMA SpawnFacts ==
    ASSUME IsScreen(box)
    PROVE  LET h == SpawnGopd(box)
           IN  /\ IsScreen(h) /\ h.virt /\ h.req = 0 /\ h.ack = 0
               /\ h.scene = box.scene /\ h.at = box.at /\ h.fb = box.fb /\ h.missed = box.missed
  <1>1. 1 \in Rows /\ 0 \in Nat
    BY RowsAssumption, SMTT(60) DEF Rows
  <1>2. PICK h : h = SpawnGopd(box)
    OBVIOUS
  <1>3. h = [box EXCEPT !.virt = TRUE, !.req = 0, !.ack = 0, !.dirty = {}, !.cur = 1]
    BY <1>2 DEF SpawnGopd
  <1>4. /\ IsScreen(h) /\ h.virt /\ h.req = 0 /\ h.ack = 0
        /\ h.scene = box.scene /\ h.at = box.at /\ h.fb = box.fb /\ h.missed = box.missed
    BY <1>1, <1>3 DEF IsScreen, ScreenFields
  <1> QED BY <1>2, <1>4

\* A step of the screen's that launches nothing and leaves the mailbox.
LEMMA ScreenInvSame ==
    ASSUME ShapeInv, ScreenInv, dev = "gopd", dev' = dev, ProcSteps, queue' = queue,
           box'.virt = box.virt, "blink" \in Callers,
           who' = who \/ \E a : Moves("blink", a, 0) /\ (a \in Stopping => who["blink"].at \in Stopping)
    PROVE  ScreenInv'
  <1>1. Fewer
    BY SameAlive, SameWaiting, FewerOf
  <1>2. /\ \A c \in Callers : c # "blink" => who'[c] = who[c]
        /\ who'["blink"].at \in Stopping => who["blink"].at \in Stopping
    <2>1. CASE who' = who
      BY <2>1
    <2>2. CASE \E a : Moves("blink", a, 0) /\ (a \in Stopping => who["blink"].at \in Stopping)
      <3>1. PICK a : Moves("blink", a, 0) /\ (a \in Stopping => who["blink"].at \in Stopping)
        BY <2>2
      <3>2. who'["blink"].at = a /\ \A c \in Callers : c # "blink" => who'[c] = who[c]
        BY <3>1, MovesFacts
      <3> QED BY <3>1, <3>2
    <2> QED BY <2>1, <2>2
  <1> QED BY <1>1, <1>2 DEF ScreenInv, Fewer

LEMMA ScreenInvGop ==
    ASSUME ShapeInv, TableInv, LaunchInv, ScreenInv, PaintInv, GopNext
    PROVE  ScreenInv'
  <1>d. dev = "gopd" /\ IsScreen(box)
    BY GopStep DEF PaintInv
  <1>b. "blink" \in Callers /\ \A c \in Callers : c # "blink" => who[c].at = "idle"
    BY <1>d, CallersAssumption, IdleFields DEF ScreenInv
  <1>n. /\ "idle" \notin Stopping /\ "start_wait" \notin Stopping /\ "start_done" \notin Stopping
        /\ "stop_flag" \in Stopping /\ "stop_wait" \in Stopping
    BY DEF Stopping
  <1>1. CASE spawn_gopd
    <2>1. /\ ~box.virt /\ who["blink"] = Idle /\ UNCHANGED <<dev, proc, who>>
          /\ \/ box' = SpawnGopd(box) /\ exec_async(dev)
             \/ box' = box /\ queue' = queue
      BY <1>1 DEF spawn_gopd
    <2>2. CASE box' = SpawnGopd(box) /\ exec_async(dev)
      <3>1. Nobody
        BY <1>d, <2>1 DEF ScreenInv
      <3>2. AtMostOne' /\ box'.virt
        BY <1>d, <2>1, <2>2, <3>1, OneWaits, SpawnFacts
      <3> QED BY <1>d, <1>n, <2>1, <3>2, IdleFields DEF ScreenInv
    <2>3. CASE box' = box /\ queue' = queue
      BY <1>b, <1>d, <2>1, <2>3, ScreenInvSame DEF ProcSteps
    <2> QED BY <2>1, <2>2, <2>3
  <1>2. ASSUME NEW c \in Callers, gop_start_service(c) PROVE ScreenInv'
    <2>1. /\ who[c].at = "start_launch" /\ UNCHANGED <<dev, proc>>
          /\ \/ ~box.virt /\ box' = SpawnGopd(box) /\ exec_async(dev) /\ Moves(c, "start_wait", 0)
             \/ box' = box /\ queue' = queue /\ Moves(c, "start_done", 0)
      BY <1>2 DEF gop_start_service
    <2>2. c = "blink"
      BY <1>b, <2>1
    <2>3. CASE ~box.virt /\ box' = SpawnGopd(box) /\ exec_async(dev) /\ Moves(c, "start_wait", 0)
      <3>1. Nobody
        BY <1>d, <2>3 DEF ScreenInv
      <3>2. AtMostOne' /\ box'.virt
        BY <1>d, <2>1, <2>3, <3>1, OneWaits, SpawnFacts
      <3>3. who'["blink"].at = "start_wait" /\ \A d \in Callers : d # "blink" => who'[d] = who[d]
        BY <2>2, <2>3, MovesFacts
      <3> QED BY <1>d, <1>n, <2>1, <3>2, <3>3 DEF ScreenInv
    <2>4. CASE box' = box /\ queue' = queue /\ Moves(c, "start_done", 0)
      BY <1>b, <1>d, <1>n, <2>1, <2>2, <2>4, ScreenInvSame DEF ProcSteps
    <2> QED BY <2>1, <2>3, <2>4
  <1>3. ASSUME NEW c \in Callers, gop_stop_service(c) PROVE ScreenInv'
    <2>1. CASE /\ who[c].at = "stop_flag" /\ box' = box /\ UNCHANGED <<dev, proc, queue>>
               /\ Moves(c, "stop_wait", 0) \/ Moves(c, "idle", 0)
      <3>1. c = "blink"
        BY <1>b, <2>1
      <3> QED BY <1>b, <1>d, <1>n, <2>1, <3>1, ScreenInvSame DEF ProcSteps
    <2>2. CASE Stopped(c, "gopd") /\ box' = [box EXCEPT !.virt = FALSE, !.missed = @ \/ box.req # box.ack]
      <3>1. /\ who[c].at = "stop_wait" /\ ~is_running(dev) /\ Moves(c, "idle", 0) /\ UNCHANGED <<dev, proc, queue>>
        BY <2>2 DEF Stopped, Moves, Idle
      <3>2. c = "blink"
        BY <1>b, <3>1
      <3>3. Nobody
        BY <1>d, <1>n, <3>1, <3>2, RunningIsAlive DEF ScreenInv, Nobody
      <3>4. Nobody' /\ AtMostOne'
        BY <3>1, <3>3 DEF Nobody, AtMostOne, Alive, Waiting
      <3>5. who'["blink"].at = "idle" /\ \A d \in Callers : d # "blink" => who'[d] = who[d]
        BY <3>1, <3>2, MovesFacts
      <3> QED BY <1>d, <1>n, <3>1, <3>4, <3>5 DEF ScreenInv
    <2> QED BY <1>3, <2>1, <2>2 DEF gop_stop_service, RaiseStop, KernelStep, KeepsServices
  <1>4. ASSUME NEW y \in Rows, Redraw(y) \/ MoveCursor(y) PROVE ScreenInv'
    <2>1. KernelCall("blink", "gopd", "idle", 0)
      BY <1>4 DEF Redraw, MoveCursor
    <2>2. dev' = dev /\ queue' = queue /\ proc' = proc /\ Moves("blink", "idle", 0)
      BY <2>1 DEF KernelCall, KeepsServices
    <2>3. box'.virt = box.virt
      BY <1>4, <1>d, DrawFacts DEF Drawn
    <2> QED BY <1>b, <1>d, <1>n, <2>2, <2>3, ScreenInvSame DEF ProcSteps
  <1>5. ASSUME NEW p \in DOMAIN proc, GopDriver(p) PROVE ScreenInv'
    <2>1. \E a, v : DriverStep(p, a, v)
      BY <1>5 DEF GopDriver, GopStart, GopExit, GopTakes, GopCopies, GopAcks
    <2>2. dev' = dev /\ queue' = queue /\ who' = who /\ ProcSteps
      BY <2>1 DEF DriverStep, KeepsServices, ProcSteps
    <2> QED BY <1>5, <1>b, <1>d, <2>2, GopDriverBox, ScreenInvSame
  <1> QED BY <1>1, <1>2, <1>3, <1>4, <1>5 DEF GopNext

-----------------------------------------------------------------------------
(* PaintInv *)

LEMMA PaintInvServices ==
    ASSUME PaintInv, Beside, NewInstance' => NewInstance, box' = box
    PROVE  PaintInv'
  <1>1. CASE dev = "gopd"
    <2>1. \A p \in Alive' : proc'[p].at \in {"top", "copy"} => p \in Alive /\ proc'[p] = proc[p]
      BY DEF Beside
    <2>2. Settled' <=> Settled
      BY DEF Settled
    <2> QED BY <1>1, <2>1, <2>2 DEF PaintInv
  <1>2. CASE dev # "gopd"
    BY <1>2 DEF PaintInv, Beside
  <1> QED BY <1>1, <1>2

\* A row that the cursor is not on is plain.
LEMMA FullRows ==
    ASSUME NEW f, NEW y, NEW r \in Rows
    PROVE  Full(f, y)[r] = IF r = y THEN [frame |-> f, cursor |-> TRUE] ELSE Plain(f)
  BY DEF Full

LEMMA PaintInvDraw ==
    ASSUME ShapeInv, ScreenInv, PaintInv, dev = "gopd", NEW y \in Rows, Redraw(y) \/ MoveCursor(y)
    PROVE  PaintInv'
  <1>1. PICK rows \in SUBSET Rows, f \in Nat : Drawn(rows, f, y)
    BY DrawFacts DEF PaintInv
  <1>2. IsScreen(box) /\ IsScreen(box') /\ (~box.virt => Nobody)
    BY DrawFacts DEF PaintInv, ScreenInv
  <1>3. Alive' = Alive /\ Waiting' = Waiting /\ proc' = proc /\ dev' = dev
    BY DEF Redraw, MoveCursor, KernelCall, KeepsServices, Alive, Waiting
  <1>4. NewInstance' => box'.ack = 0
    BY <1>1, <1>3 DEF PaintInv, NewInstance, Drawn
  <1>5. \A p \in Alive' : /\ proc'[p].at \in {"top", "copy"} => IsGopLocal(proc'[p].v)
                          /\ proc'[p].at = "top" => proc'[p].v.last = box'.ack
    BY <1>1, <1>3 DEF PaintInv, Drawn
  <1>6. ASSUME NEW p \in Alive', proc'[p].at = "copy"
        PROVE  /\ proc'[p].v.last = box'.req /\ box'.ack # box'.req /\ proc'[p].v.pub = box'.pub
               /\ proc'[p].v.rows \subseteq box'.dirty /\ box'.missed
    <2>1. box.virt /\ box.ack # box.req
      BY <1>2, <1>3, <1>6 DEF PaintInv, Nobody
    <2>2. box'.ack = box.ack /\ box'.req = box.req /\ box'.pub = box.pub /\ box'.dirty = box.dirty /\ box'.missed
      BY <1>1, <2>1 DEF Drawn
    <2> QED BY <1>3, <1>6, <2>1, <2>2 DEF PaintInv
  <1>7. \A r \in Rows : Settled /\ ~box.missed /\ r \notin rows => box.fb[r] = Plain(f)
    <2>1. ASSUME NEW r \in Rows, Settled, ~box.missed, r \notin rows PROVE box.fb[r] = Plain(f)
      <3>1. f = box.scene /\ r # box.at
        BY <1>1, <2>1 DEF Drawn
      <3>2. box.fb[r] = Full(f, box.at)[r]
        BY <2>1, <3>1 DEF PaintInv
      <3>3. Full(f, box.at)[r] = Plain(f)
        BY <3>1, FullRows
      <3> QED BY <3>2, <3>3
    <2> QED BY <2>1
  <1>8. Settled' /\ ~box'.missed => box'.fb = Full(box'.scene, box'.at)
    <2>1. SUFFICES ASSUME Settled', ~box'.missed PROVE box'.fb = Full(f, y)
      BY <1>1 DEF Drawn
    <2>2. ~box.virt
      BY <1>1, <1>2, <2>1 DEF Drawn, Settled
    <2>3. /\ ~box.missed \/ rows = Rows
          /\ \A r \in Rows : box'.fb[r] = IF r \in rows THEN Full(f, y)[r] ELSE box.fb[r]
          /\ y \in rows
      BY <1>1, <2>1, <2>2 DEF Drawn
    <2>4. ASSUME NEW r \in Rows PROVE box'.fb[r] = Full(f, y)[r]
      <3>1. CASE r \in rows
        BY <2>3, <3>1
      <3>2. CASE r \notin rows
        <4>1. ~box.missed /\ Settled /\ r # y
          BY <2>2, <2>3, <3>2 DEF Settled
        <4>2. box'.fb[r] = Plain(f)
          BY <1>7, <2>3, <3>2, <4>1
        <4> QED BY <4>1, <4>2, FullRows
      <3> QED BY <3>1, <3>2
    <2>5. Full(f, y) \in Picture /\ box'.fb \in Picture
      BY <1>2, FullFacts DEF IsScreen
    <2> QED BY <2>4, <2>5, SamePicture
  <1>9. ASSUME ~Settled', ~box'.missed
        PROVE  /\ box'.cur = box'.at
               /\ \A r \in Rows : IF r \in box'.dirty THEN box'.pub[r] = Plain(box'.scene)
                                  ELSE box'.fb[r] = Plain(box'.scene)
    <2>1. box.virt /\ box.ack = box.req
      BY <1>1, <1>9 DEF Settled, Drawn
    <2>2. /\ box'.fb = box.fb /\ box'.dirty = rows /\ box'.cur = y /\ box'.at = y /\ box'.scene = f
          /\ \A r \in rows : box'.pub[r] = Plain(f)
          /\ ~box.missed \/ rows = Rows
      BY <1>1, <1>9, <2>1 DEF Drawn
    <2>3. Settled
      BY <2>1 DEF Settled
    <2> QED BY <1>7, <2>2, <2>3
  <1> QED BY <1>2, <1>4, <1>5, <1>6, <1>8, <1>9 DEF PaintInv

LEMMA PaintInvDriver ==
    ASSUME ShapeInv, ScreenInv, PaintInv, NEW p \in DOMAIN proc, GopDriver(p)
    PROVE  PaintInv'
  <1>d. dev = "gopd" /\ IsScreen(box) /\ AtMostOne
    BY DEF GopDriver, GopStart, GopExit, GopTakes, GopCopies, GopAcks, PaintInv, ScreenInv
  <1>0. ASSUME NEW b, NEW a \in {"top", "copy", "exit"}, NEW v, At(p, b), DriverStep(p, a, v)
        PROVE  /\ Alive = {p} /\ Alive' = {p} /\ Waiting' = {} /\ dev' = dev
               /\ proc[p].at = b /\ proc'[p].at = a /\ proc'[p].v = v
               /\ box.virt /\ ~NewInstance'
    <2>1. /\ Alive = {p} /\ Alive' = {p} /\ Waiting' = {} /\ dev' = dev
          /\ proc[p].at = b /\ proc'[p].at = a /\ proc'[p].v = v
      BY <1>0, <1>d, OnlyStep
    <2>2. box.virt
      BY <1>d, <2>1 DEF ScreenInv, Nobody
    <2> QED BY <2>1, <2>2 DEF NewInstance
  <1>1. CASE GopStart(p)
    <2>1. PICK v : v = [last |-> 0, rows |-> {}, pub |-> box.pub]
      OBVIOUS
    <2>2. At(p, "entry") /\ DriverStep(p, "top", v) /\ box' = box
      BY <1>1, <2>1 DEF GopStart
    <2>3. /\ Alive = {p} /\ Alive' = {p} /\ dev' = dev /\ proc[p].at = "entry"
          /\ proc'[p].at = "top" /\ proc'[p].v = v /\ ~NewInstance'
      BY <1>0, <2>2, SMTT(60)
    <2>4. IsGopLocal(v) /\ v.last = 0
      <3>1. DOMAIN v = {"last", "rows", "pub"} /\ v.last = 0 /\ v.rows = {}
        BY <2>1, SMTT(60)
      <3>2. 0 \in Nat
        BY SMTT(60)
      <3> QED BY <3>1, <3>2 DEF IsGopLocal
    <2>5. box.ack = 0
      BY <1>d, <2>3 DEF PaintInv, NewInstance
    <2> QED BY <1>d, <2>2, <2>3, <2>4, <2>5 DEF PaintInv, Settled
  <1>2. CASE GopExit(p)
    <2>1. At(p, "top") /\ DriverStep(p, "exit", 0) /\ box' = box
      BY <1>2 DEF GopExit
    <2>2. Alive' = {p} /\ dev' = dev /\ proc'[p].at = "exit" /\ ~NewInstance'
      BY <1>0, <2>1
    <2> QED BY <1>d, <2>1, <2>2 DEF PaintInv, Settled
  <1>3. CASE GopTakes(p)
    <2>1. PICK v : v = [last |-> box.req, rows |-> box.dirty, pub |-> box.pub]
      OBVIOUS
    <2>2. At(p, "top") /\ DriverStep(p, "copy", v) /\ box' = box /\ box.req # proc[p].v.last
      BY <1>3, <2>1 DEF GopTakes
    <2>3. /\ Alive = {p} /\ Alive' = {p} /\ dev' = dev /\ proc[p].at = "top"
          /\ proc'[p].at = "copy" /\ proc'[p].v = v /\ ~NewInstance'
      BY <1>0, <2>2
    <2>4. IsGopLocal(v) /\ v.last = box.req /\ v.rows = box.dirty /\ v.pub = box.pub
      <3>1. DOMAIN v = {"last", "rows", "pub"} /\ v.last = box.req /\ v.rows = box.dirty /\ v.pub = box.pub
        BY <2>1, SMTT(60)
      <3> QED BY <1>d, <3>1 DEF IsGopLocal, IsScreen
    <2>5. box.ack # box.req
      BY <1>d, <2>2, <2>3 DEF PaintInv
    <2> QED BY <1>d, <2>2, <2>3, <2>4, <2>5 DEF PaintInv, Settled
  <1>4. CASE GopCopies(p)
    <2>1. PICK o : o = proc[p].v
      OBVIOUS
    <2>2. PICK r \in o.rows :
             /\ At(p, "copy") /\ DriverStep(p, "copy", [o EXCEPT !.rows = @ \ {r}])
             /\ box' = [box EXCEPT !.fb[r] = box.pub[r]]
      BY <1>4, <2>1 DEF GopCopies, Lowest
    <2>3. PICK v : v = [o EXCEPT !.rows = @ \ {r}]
      OBVIOUS
    <2>4. PICK w : w = [box.fb EXCEPT ![r] = box.pub[r]]
      OBVIOUS
    <2>5. box' = [box EXCEPT !.fb = w]
      BY <2>2, <2>4
    <2>5a. At(p, "copy") /\ DriverStep(p, "copy", v) /\ "copy" \in {"top", "copy", "exit"}
      BY <2>2, <2>3
    <2>6. /\ Alive = {p} /\ Alive' = {p} /\ dev' = dev /\ proc[p].at = "copy"
          /\ proc'[p].at = "copy" /\ proc'[p].v = v /\ ~NewInstance' /\ box.virt
      BY <1>0, <2>5a
    <2>7. /\ IsGopLocal(o) /\ o.last = box.req /\ box.ack # box.req /\ o.pub = box.pub /\ o.rows \subseteq box.dirty
          /\ ~box.missed => \A s \in box.dirty : s \in o.rows \/ box.fb[s] = Plain(box.scene)
      BY <1>d, <2>1, <2>6 DEF PaintInv
    <2>8. r \in o.rows /\ r \in Rows
      BY <2>2, <2>7 DEF IsGopLocal
    <2>9. IsGopLocal(v) /\ v.last = o.last /\ v.pub = o.pub /\ v.rows = o.rows \ {r}
      BY <2>3, <2>7 DEF IsGopLocal
    <2>10. w \in Picture /\ w[r] = box.pub[r] /\ \A s \in Rows : s # r => w[s] = box.fb[s]
      <3>1. PICK q \in Picture, u \in Picture : q = box.pub /\ u = box.fb
        BY <1>d DEF IsScreen
      <3> QED BY <2>4, <2>8, <3>1 DEF Picture
    <2>11. /\ IsScreen(box') /\ box'.fb = w /\ box'.virt = box.virt /\ box'.req = box.req /\ box'.ack = box.ack
           /\ box'.dirty = box.dirty /\ box'.pub = box.pub /\ box'.missed = box.missed
           /\ box'.scene = box.scene /\ box'.cur = box.cur /\ box'.at = box.at
      BY <1>d, <2>5, <2>10 DEF IsScreen, ScreenFields
    <2>12. ~Settled /\ ~Settled'
      BY <2>6, <2>7, <2>11 DEF Settled
    <2>13. ~box.missed => /\ box.cur = box.at
                          /\ \A s \in Rows : IF s \in box.dirty THEN box.pub[s] = Plain(box.scene)
                                             ELSE box.fb[s] = Plain(box.scene)
      BY <1>d, <2>12 DEF PaintInv
    <2>14. ~box.missed => \A s \in box.dirty : s \in v.rows \/ w[s] = Plain(box.scene)
      <3>1. box.dirty \subseteq Rows
        BY <1>d DEF IsScreen
      <3> QED BY <2>7, <2>8, <2>9, <2>10, <2>13, <3>1
    <2>15. ~box.missed => \A s \in Rows : IF s \in box.dirty THEN box.pub[s] = Plain(box.scene)
                                          ELSE w[s] = Plain(box.scene)
      BY <2>7, <2>8, <2>10, <2>13
    <2>16. v.rows \subseteq box.dirty /\ v.last = box.req /\ v.pub = box.pub
      BY <2>7, <2>9
    <2>17. /\ box'.ack # box'.req /\ v.last = box'.req /\ v.pub = box'.pub /\ v.rows \subseteq box'.dirty
           /\ ~box'.missed => \A s \in box'.dirty : s \in v.rows \/ box'.fb[s] = Plain(box'.scene)
      BY <2>7, <2>11, <2>14, <2>16
    <2>18. ~box'.missed => /\ box'.cur = box'.at
                           /\ \A s \in Rows : IF s \in box'.dirty THEN box'.pub[s] = Plain(box'.scene)
                                              ELSE box'.fb[s] = Plain(box'.scene)
      BY <2>11, <2>13, <2>15
    <2> QED BY <2>6, <2>9, <2>11, <2>12, <2>17, <2>18 DEF PaintInv
  <1>5. CASE GopAcks(p)
    <2>1. PICK v : v = proc[p].v
      OBVIOUS
    <2>2. PICK w : w = PaintCursor(box.fb, box.cur)
      OBVIOUS
    <2>3. At(p, "copy") /\ DriverStep(p, "top", v) /\ v.rows = {} /\ box' = [box EXCEPT !.fb = w, !.ack = v.last]
      BY <1>5, <2>1, <2>2 DEF GopAcks
    <2>4. /\ Alive = {p} /\ Alive' = {p} /\ dev' = dev /\ proc[p].at = "copy"
          /\ proc'[p].at = "top" /\ proc'[p].v = v /\ ~NewInstance' /\ box.virt
      BY <1>0, <2>3
    <2>5. /\ IsGopLocal(v) /\ v.last = box.req /\ box.ack # box.req
          /\ ~box.missed => \A s \in box.dirty : box.fb[s] = Plain(box.scene)
      BY <1>d, <2>1, <2>3, <2>4 DEF PaintInv
    <2>6. PICK u \in Picture, c \in Rows, f \in Nat : u = box.fb /\ c = box.cur /\ f = box.scene
      BY <1>d DEF IsScreen
    <2>7. w = PaintCursor(u, c) /\ w \in Picture
      <3>1. w = PaintCursor(u, c)
        BY <2>2, <2>6
      <3> QED BY <3>1, PaintFacts
    <2>8. /\ IsScreen(box') /\ box'.fb = w /\ box'.virt = box.virt /\ box'.req = box.req /\ box'.ack = v.last
          /\ box'.missed = box.missed /\ box'.scene = box.scene /\ box'.at = box.at
      BY <1>d, <2>3, <2>5, <2>7 DEF IsScreen, ScreenFields, IsGopLocal
    <2>9. ~Settled /\ Settled'
      BY <2>4, <2>5, <2>8 DEF Settled
    <2>10. ~box.missed => w = Full(f, box.at)
      <3>1. SUFFICES ASSUME ~box.missed PROVE w = Full(f, box.at)
        OBVIOUS
      <3>2. c = box.at /\ \A s \in Rows : u[s] = Plain(f)
        BY <1>d, <2>5, <2>6, <2>9, <3>1 DEF PaintInv
      <3>3. u = [r \in Rows |-> Plain(f)]
        BY <2>6, <3>2 DEF Picture
      <3>4. w = PaintCursor([r \in Rows |-> Plain(f)], c)
        BY <2>7, <3>3
      <3> QED BY <3>2, <3>4, FullFacts
    <2> QED BY <1>d, <2>4, <2>5, <2>6, <2>8, <2>9, <2>10 DEF PaintInv
  <1> QED BY <1>1, <1>2, <1>3, <1>4, <1>5 DEF GopDriver

LEMMA PaintInvGop ==
    ASSUME ShapeInv, TableInv, LaunchInv, ScreenInv, PaintInv, GopNext
    PROVE  PaintInv'
  <1>d. dev = "gopd" /\ IsScreen(box)
    BY GopStep DEF PaintInv
  <1>b. "blink" \in Callers /\ \A c \in Callers : c # "blink" => who[c].at = "idle"
    BY <1>d, CallersAssumption, IdleFields DEF ScreenInv
  <1>1. ASSUME ~box.virt, box' = SpawnGopd(box), UNCHANGED <<dev, proc>> PROVE PaintInv'
    <2>1. Alive' = {}
      BY <1>1, <1>d DEF ScreenInv, Nobody, Alive
    <2>2. /\ IsScreen(box') /\ box'.virt /\ box'.req = 0 /\ box'.ack = 0
          /\ box'.scene = box.scene /\ box'.at = box.at /\ box'.fb = box.fb /\ box'.missed = box.missed
      BY <1>1, <1>d, SpawnFacts
    <2>3. Settled /\ Settled'
      BY <1>1, <2>2 DEF Settled
    <2>4. ~box.missed => box.fb = Full(box.scene, box.at)
      BY <1>d, <2>3 DEF PaintInv
    <2>5. ~box'.missed => box'.fb = Full(box'.scene, box'.at)
      BY <2>2, <2>4
    <2> QED BY <2>1, <2>2, <2>3, <2>5 DEF PaintInv
  <1>2. ASSUME box' = box, UNCHANGED <<dev, proc, queue>> PROVE PaintInv'
    <2>1. Alive' = Alive /\ (NewInstance' <=> NewInstance) /\ (Settled' <=> Settled)
      BY <1>2 DEF NewInstance, Alive, Waiting, Settled
    <2> QED BY <1>2, <1>d, <2>1 DEF PaintInv
  <1>3. CASE spawn_gopd
    BY <1>1, <1>2, <1>3 DEF spawn_gopd
  <1>4. ASSUME NEW c \in Callers, gop_start_service(c) PROVE PaintInv'
    BY <1>1, <1>2, <1>4 DEF gop_start_service
  <1>5. ASSUME NEW c \in Callers, gop_stop_service(c) PROVE PaintInv'
    <2>1. CASE box' = box /\ UNCHANGED <<dev, proc, queue>>
      BY <1>2, <2>1
    <2>2. CASE Stopped(c, "gopd") /\ box' = [box EXCEPT !.virt = FALSE, !.missed = @ \/ box.req # box.ack]
      <3>1. who[c].at = "stop_wait" /\ ~is_running(dev) /\ UNCHANGED <<dev, proc, queue>>
        BY <2>2 DEF Stopped
      <3>2. c = "blink"
        BY <1>b, <3>1
      <3>3. Nobody
        BY <1>d, <3>1, <3>2, RunningIsAlive DEF ScreenInv, Nobody, Stopping
      <3>4. Alive' = {} /\ ~NewInstance'
        BY <3>1, <3>3 DEF Nobody, Alive, Waiting, NewInstance
      <3>5. PICK m \in BOOLEAN : m = (box.missed \/ box.req # box.ack)
        OBVIOUS
      <3>6. box' = [box EXCEPT !.virt = FALSE, !.missed = m]
        BY <2>2, <3>5
      <3>7. /\ IsScreen(box') /\ box'.virt = FALSE /\ box'.missed = m
            /\ box'.scene = box.scene /\ box'.at = box.at /\ box'.fb = box.fb
        BY <1>d, <3>6 DEF IsScreen, ScreenFields
      <3>8. ~m => box.fb = Full(box.scene, box.at)
        BY <1>d, <3>5 DEF PaintInv, Settled
      <3>9. Settled' /\ (~box'.missed => box'.fb = Full(box'.scene, box'.at))
        BY <3>7, <3>8 DEF Settled
      <3> QED BY <3>4, <3>7, <3>9 DEF PaintInv
    <2> QED BY <1>5, <2>1, <2>2 DEF gop_stop_service, RaiseStop, KernelStep, KeepsServices
  <1>6. ASSUME NEW y \in Rows, Redraw(y) \/ MoveCursor(y) PROVE PaintInv'
    BY <1>6, <1>d, PaintInvDraw
  <1>7. ASSUME NEW p \in DOMAIN proc, GopDriver(p) PROVE PaintInv'
    BY <1>7, PaintInvDriver
  <1> QED BY <1>3, <1>4, <1>5, <1>6, <1>7 DEF GopNext

-----------------------------------------------------------------------------
(* The whole system *)

ScreenPart == ShapeInv /\ TableInv /\ LaunchInv /\ ScreenInv /\ PaintInv

LEMMA ScreenPartInit ==
    ASSUME Init
    PROVE  ScreenPart
  <1>1. ShapeInv /\ TableInv /\ LaunchInv
    BY ServicesPartInit
  <1>2. \A c \in Callers : who[c] = Idle /\ who[c].at = "idle"
    BY IdleFields DEF Init, ServicesInit
  <1>3. DOMAIN proc = {} /\ DOMAIN queue = {}
    BY SMTT(60) DEF Init, ServicesInit
  <1>4. Alive = {} /\ Waiting = {}
    BY <1>3 DEF Alive, Waiting
  <1>5. ScreenInv
    BY <1>2, <1>4, CallersAssumption DEF ScreenInv, Nobody, AtMostOne, Stopping
  <1>6. PaintInv
    <2>1. SUFFICES ASSUME dev = "gopd" PROVE PaintInv
      BY DEF PaintInv
    <2>2. GopInit
      BY <2>1 DEF Init, NicInit, AudioInit, DiskInit, HidInit, InputInit
    <2>3. 1 \in Rows /\ 0 \in Nat
      BY RowsAssumption, SMTT(60) DEF Rows
    <2>4. PICK z \in Picture, f \in Picture :
             z = [r \in Rows |-> Plain(0)] /\ f = PaintCursor(z, 1) /\ f = Full(0, 1)
      BY <2>3, PlainPicture, FullFacts
    <2>5. box = [virt |-> FALSE, req |-> 0, ack |-> 0, dirty |-> {}, cur |-> 1, scene |-> 0, back |-> f,
                 at |-> 1, pub |-> z, fb |-> f, missed |-> FALSE]
      BY <2>2, <2>4 DEF GopInit
    <2>6. IsScreen(box) /\ box.virt = FALSE /\ box.fb = Full(box.scene, box.at)
      BY <2>3, <2>4, <2>5, SMTT(60) DEF IsScreen, ScreenFields
    <2> QED BY <1>4, <2>6 DEF PaintInv, Settled, NewInstance
  <1> QED BY <1>1, <1>5, <1>6 DEF ScreenPart

LEMMA LaunchInvGop ==
    ASSUME ShapeInv, LaunchInv, ScreenInv, GopNext
    PROVE  LaunchInv'
  <1>1. dev = "gopd"
    BY GopStep
  <1>2. CASE MailboxStep
    BY <1>2, LaunchInvMailbox
  <1>3. CASE spawn_gopd
    <2>1. /\ ~box.virt /\ who["blink"] = Idle /\ UNCHANGED <<dev, proc, who, starting, slipped>> /\ pend' = FALSE
          /\ exec_async(dev) \/ queue' = queue
      BY <1>3 DEF spawn_gopd
    <2>2. Nobody /\ \A c \in Callers : who[c] = Idle
      BY <1>1, <2>1 DEF ScreenInv
    <2>3. CASE exec_async(dev)
      BY <2>1, <2>2, <2>3, LaunchInvFirst
    <2>4. CASE queue' = queue
      <3>1. Fewer
        BY <2>1, <2>4, SameAlive, SameWaiting, FewerOf DEF ProcSteps
      <3> QED BY <2>1, <3>1, LaunchInvSame
    <2> QED BY <2>1, <2>3, <2>4
  <1>4. ASSUME NEW c \in Callers, gop_start_service(c) PROVE LaunchInv'
    <2>1. /\ who[c].at = "start_launch" /\ UNCHANGED <<dev, proc, pend, starting, slipped>>
          /\ \/ exec_async(dev) /\ Moves(c, "start_wait", 0)
             \/ queue' = queue /\ Moves(c, "start_done", 0)
      BY <1>4 DEF gop_start_service
    <2>2. CASE exec_async(dev) /\ Moves(c, "start_wait", 0)
      BY <2>1, <2>2, LaunchInvLaunch
    <2>3. CASE queue' = queue /\ Moves(c, "start_done", 0)
      <3>1. Fewer
        BY <2>1, <2>3, SameAlive, SameWaiting, FewerOf DEF ProcSteps
      <3>2. ~pend /\ who[c].at \in Starting
        BY <2>1, IdleFields DEF LaunchInv, Starting
      <3> QED BY <2>1, <2>3, <3>1, <3>2, LaunchInvMoves
    <2> QED BY <2>1, <2>2, <2>3
  <1> QED BY <1>2, <1>3, <1>4, GopStep

LEMMA ScreenPartStep ==
    ASSUME ScreenPart, [Next]_vars
    PROVE  ScreenPart'
  <1>i. ShapeInv /\ TableInv /\ LaunchInv /\ ScreenInv /\ PaintInv
    BY DEF ScreenPart
  <1>1. CASE ServicesNext /\ UNCHANGED box
    <2>1. ShapeInv' /\ TableInv'
      BY <1>i, <1>1, EntryKeeps, ReturnKeeps, ServiceIsQuiet, QuietKeeps DEF ServicesNext
    <2>2. LaunchInv' /\ ScreenInv' /\ PaintInv'
      BY <1>i, <1>1, LaunchInvServices, ScreenInvServices, ServicesBeside, PaintInvServices
    <2> QED BY <2>1, <2>2 DEF ScreenPart
  <1>2. CASE NicNext \/ AudioNext \/ DiskNext \/ HidNext \/ InputNext
    <2>1. dev # "gopd" /\ MailboxStep
      BY <1>i, <1>2, MailboxSteps
    <2>2. ShapeInv' /\ TableInv' /\ LaunchInv' /\ dev' = dev
      BY <1>i, <2>1, MailboxIsQuiet, QuietKeeps, LaunchInvMailbox DEF Quiet
    <2> QED BY <2>1, <2>2 DEF ScreenPart, ScreenInv, PaintInv
  <1>3. CASE GopNext
    <2>1. Quiet
      BY <1>i, <1>3, GopStep, MailboxIsQuiet, GopLaunchIsQuiet
    <2> QED BY <1>i, <1>3, <2>1, QuietKeeps, LaunchInvGop, ScreenInvGop, PaintInvGop DEF ScreenPart
  <1>4. CASE UNCHANGED vars
    <2>1. UNCHANGED <<dev, boot, pend, enabled, starting, stop, queue, tab, pids, proc, who, calls, slipped, box>>
      BY <1>4 DEF vars, serviceVars
    <2>2. Quiet
      BY <1>i, <2>1, MailboxIsQuiet DEF MailboxStep, Unseen, KeepsServices
    <2>3. Alive' = Alive /\ Waiting' = Waiting /\ Starters' = Starters /\ (Settled' <=> Settled)
      BY <2>1 DEF Alive, Waiting, Starters, Settled
    <2>4. ShapeInv' /\ TableInv'
      BY <1>i, <2>2, QuietKeeps
    <2>5. LaunchInv' /\ ScreenInv'
      BY <1>i, <2>1, <2>3 DEF LaunchInv, ScreenInv, Nobody, AtMostOne
    <2>6. PaintInv'
      BY <1>i, <2>1, <2>3 DEF PaintInv, NewInstance
    <2> QED BY <2>4, <2>5, <2>6 DEF ScreenPart
  <1> QED BY <1>1, <1>2, <1>3, <1>4 DEF Next

\* The service layer and the screen, always.
LEMMA ScreenPartAlways == Spec => []ScreenPart
  <1>1. Init => ScreenPart
    BY ScreenPartInit
  <1>2. ScreenPart /\ [Next]_vars => ScreenPart'
    BY ScreenPartStep
  <1> QED BY <1>1, <1>2, PTL DEF Spec

\* Whatever the order in which drivers and programs are launched, end, are
\* stopped, killed and started again, by any number of callers, the process
\* table has a running entry for exactly the processes in ring 3: MakeRoom
\* forgets none that runs (process.rs:389, is_process_running).
THEOREM ProcessesAreKnown == Spec => []ProcessesKnown
  <1>1. ScreenPart => ProcessesKnown
    <2>1. SUFFICES ASSUME ShapeInv, TableInv PROVE TypeOK /\ TableTellsTruth
      BY DEF ScreenPart, ProcessesKnown
    <2>2. ASSUME NEW p \in DOMAIN proc PROVE \E i \in DOMAIN tab : tab[i].pid = p /\ tab[i].running
      <3>1. PICK i \in DOMAIN tab : tab[i].pid = p
        BY <2>1 DEF TableInv
      <3>2. tab[i].running
        BY <2>1, <3>1 DEF TableInv
      <3> QED BY <3>1, <3>2
    <2>3. \A i \in DOMAIN tab : tab[i].running => tab[i].pid \in DOMAIN proc
      BY <2>1 DEF TableInv
    <2>4. TableTellsTruth
      BY <2>2, <2>3 DEF TableTellsTruth
    <2> QED BY <2>1, <2>4 DEF ShapeInv
  <1> QED BY <1>1, ScreenPartAlways, PTL

\* However many callers start and stop a driver, a second instance is queued
\* or alive only after a start took STARTING beside an instance that its
\* checks had not seen: the check and the exchange in start_service are the
\* only way (rtl8139.rs:198).
THEOREM OneInstanceAtATime == Spec => []OneInstanceUnlessSlipped
  <1>1. ScreenPart => OneInstanceUnlessSlipped
    BY DEF ScreenPart, LaunchInv, OneInstanceUnlessSlipped
  <1> QED BY <1>1, ScreenPartAlways, PTL

\* On a screen of any height gopd never copies rows that the kernel is
\* changing, and once it has caught up the screen shows the last frame with
\* one cursor, unless a flush was dropped or abandoned; not even a start that
\* slips past its checks breaks this (framebuffer.rs:91-106, 253-276).
THEOREM ScreenIsFollowed == Spec => []ScreenFollows
  <1>1. ScreenPart => ScreenFollows
    <2>1. SUFFICES ASSUME PaintInv PROVE NoTearing /\ ScreenIsCurrent
      BY DEF ScreenPart, ScreenFollows
    <2>2. NoTearing
      BY <2>1 DEF PaintInv, NoTearing
    <2>3. ScreenIsCurrent
      <3>1. SUFFICES ASSUME dev = "gopd", Settled, ~box.missed
                     PROVE  box.fb = PaintCursor([r \in Rows |-> Plain(box.scene)], box.at)
        BY DEF ScreenIsCurrent
      <3>2. box.fb = Full(box.scene, box.at) /\ box.scene \in Nat /\ box.at \in Rows
        BY <2>1, <3>1 DEF PaintInv, IsScreen
      <3> QED BY <3>2, FullFacts
    <2> QED BY <2>2, <2>3
  <1> QED BY <1>1, ScreenPartAlways, PTL

-----------------------------------------------------------------------------
(* LockInv and DiskInv *)

LEMMA HoldingFacts ==
    /\ {"read", "write", "read_wait", "write_wait"} \subseteq Holding
    /\ Holding \cap ServiceLabels = {}
    /\ \A op : WaitFor(op) \in {"read_wait", "write_wait"}
  BY DEF Holding, ServiceLabels, Starting, Stopping, WaitFor

LEMMA LockInvBeside ==
    ASSUME LockInv, Beside, box' = box
    PROVE  LockInv'
  BY HoldingFacts DEF LockInv, Beside

LEMMA DiskInvBeside ==
    ASSUME DiskInv, Beside, box' = box
    PROVE  DiskInv'
  <1>1. SUFFICES ASSUME dev = "ahcid", ~box.late, ~slipped PROVE DiskInv'
    BY DEF DiskInv, Beside
  <1>2. \A c \in Callers : (Awaits(c) \/ Awaits(c)') => Awaits(c)' /\ Awaits(c) /\ who'[c] = who[c]
    BY HoldingFacts DEF Beside, Awaits
  <1>3. \A op, s : Pending(op, s) => Pending(op, s)'
    BY <1>2, HoldingFacts DEF Pending, Awaits
  <1>4. Serving("clear") => Serving("clear")'
    BY DEF Serving, Beside
  <1>5. \A p \in Alive' : proc'[p].at \in {"issue", "status"} => p \in Alive /\ proc'[p] = proc[p]
    BY DEF Beside
  <1>6. box.status # "pending" =>
          \E c \in Callers : Awaits(c)' /\ (box.status = "ok" => box.sector[who'[c].x] = box.data)
    BY <1>1, <1>2 DEF DiskInv
  <1>7. box.ok /\ (box.op # "none" => Serving("clear")' \/ Pending(box.op, box.lba)')
    BY <1>1, <1>3, <1>4 DEF DiskInv
  <1>8. (\A p \in Alive : proc[p].at = "issue" =>
           DOMAIN proc[p].v = {"op", "lba", "result"} /\ Pending(proc[p].v.op, proc[p].v.lba))'
    <2>1. SUFFICES ASSUME NEW p \in Alive', proc'[p].at = "issue"
                   PROVE  DOMAIN proc'[p].v = {"op", "lba", "result"} /\ Pending(proc[p].v.op, proc[p].v.lba)'
      OBVIOUS
    <2>2. PICK op, s : op = proc[p].v.op /\ s = proc[p].v.lba
      OBVIOUS
    <2>3. p \in Alive /\ proc'[p] = proc[p] /\ Pending(op, s) /\ DOMAIN proc[p].v = {"op", "lba", "result"}
      BY <1>1, <1>5, <2>1, <2>2 DEF DiskInv
    <2>4. Pending(op, s)'
      BY <1>3, <2>3
    <2> QED BY <2>2, <2>3, <2>4 DEF Pending
  <1>9. ASSUME NEW p \in Alive', proc'[p].at = "status"
        PROVE  \E c \in Callers : /\ Awaits(c)' /\ box.status = "pending"
                                  /\ proc'[p].v.result = "ok" => box.sector[who'[c].x] = box.data
    <2>1. p \in Alive /\ proc'[p] = proc[p]
      BY <1>5, <1>9
    <2>2. PICK c \in Callers : /\ Awaits(c) /\ box.status = "pending"
                               /\ proc[p].v.result = "ok" => box.sector[who[c].x] = box.data
      BY <1>1, <1>9, <2>1 DEF DiskInv
    <2> QED BY <1>2, <2>1, <2>2
  <1> QED BY <1>6, <1>7, <1>8, <1>9 DEF DiskInv

\* The steps of the callers.
LEMMA DiskCall ==
    ASSUME ShapeInv, LockInv, DiskInv, dev = "ahcid", NEW c \in Callers, NEW op \in {"read", "write"},
           NEW s \in SECTORS, Request(c, op, s)
    PROVE  LockInv' /\ DiskInv'
  <1>1. PICK n, w : box' = [box EXCEPT !.lock = c, !.reqs = n, !.lba = s, !.status = "pending", !.data = w]
    BY DEF Request
  <1>2. /\ IsDisk(box') /\ box'.lock = c /\ box'.lba = s /\ box'.status = "pending"
        /\ box'.op = box.op /\ box'.ok = box.ok /\ box'.late = box.late
    BY <1>1 DEF LockInv, IsDisk, DiskFields
  <1>3. Moves(c, op, s) /\ UNCHANGED <<dev, slipped, proc>>
    BY DEF Request, KernelCall, KeepsServices
  <1>4. who'[c].at = op /\ who'[c].x = s /\ \A d \in Callers : d # c => who'[d] = who[d]
    BY <1>3, MovesFacts
  <1>5. \A d \in Callers : who[d].at \notin Holding
    BY CallersAssumption DEF Request, LockInv
  <1>6. LockInv'
    BY <1>2, <1>3, <1>4, <1>5 DEF LockInv
  <1>7. \A d \in Callers : ~Awaits(d)
    BY <1>5, HoldingFacts DEF Awaits
  <1>8. Alive' = Alive /\ (Serving("clear")' <=> Serving("clear"))
    BY <1>3 DEF Alive, Serving
  <1>9. \A o, t : ~Pending(o, t)
    BY <1>7, HoldingFacts DEF Pending, Awaits
  <1> QED BY <1>2, <1>3, <1>6, <1>7, <1>8, <1>9 DEF DiskInv

LEMMA DiskHandsOver ==
    ASSUME ShapeInv, LockInv, DiskInv, dev = "ahcid", NEW c \in Callers, HandsOver(c)
    PROVE  LockInv' /\ DiskInv'
  <1>1. PICK op \in {"read", "write"} : op = who[c].at
    BY DEF HandsOver
  <1>2. box' = [box EXCEPT !.op = op] /\ Moves(c, WaitFor(op), who[c].x) /\ UNCHANGED <<dev, slipped, proc>>
    BY <1>1 DEF HandsOver, KernelStep, KeepsServices, WaitFor
  <1>3. /\ IsDisk(box') /\ box'.lock = box.lock /\ box'.lba = box.lba /\ box'.status = box.status
        /\ box'.op = op /\ box'.ok = box.ok /\ box'.late = box.late
    BY <1>2 DEF LockInv, IsDisk, DiskFields
  <1>4. who'[c].at = WaitFor(op) /\ who'[c].x = who[c].x /\ \A d \in Callers : d # c => who'[d] = who[d]
    BY <1>2, MovesFacts
  <1>5. /\ box.lock = c /\ who[c].x \in SECTORS /\ who[c].x = box.lba
        /\ \A d \in Callers : d # c => who[d].at \notin Holding
    BY <1>1, HoldingFacts DEF LockInv
  <1>6. LockInv'
    BY <1>2, <1>3, <1>4, <1>5 DEF LockInv
  <1>7. \A d \in Callers : ~Awaits(d)
    BY <1>1, <1>5, HoldingFacts DEF Awaits
  <1>8. \A o, t : ~Pending(o, t)
    BY <1>7, HoldingFacts DEF Pending, Awaits
  <1>9. SUFFICES ASSUME ~box.late, ~slipped PROVE DiskInv'
    BY <1>2, <1>3, <1>6 DEF DiskInv
  <1>10. box.status = "pending" /\ box.ok /\ \A p \in Alive : proc[p].at \notin {"issue", "status"}
    BY <1>7, <1>8, <1>9 DEF DiskInv
  <1>11. Pending(op, box.lba)'
    BY <1>3, <1>4, <1>5, <1>10 DEF Pending
  <1>12. Alive' = Alive
    BY <1>2 DEF Alive
  <1> QED BY <1>2, <1>3, <1>10, <1>11, <1>12 DEF DiskInv

LEMMA DiskReturns ==
    ASSUME ShapeInv, LockInv, DiskInv, dev = "ahcid", NEW c \in Callers, Answered(c) \/ GivesUp(c)
    PROVE  LockInv' /\ DiskInv'
  <1>1. Awaits(c) /\ Moves(c, "idle", 0) /\ UNCHANGED <<dev, slipped, proc>>
    BY DEF Answered, GivesUp, KernelStep, KeepsServices, Awaits
  <1>2. who'[c].at = "idle" /\ \A d \in Callers : d # c => who'[d] = who[d]
    BY <1>1, MovesFacts
  <1>3. "idle" \notin Holding /\ \A d \in Callers : d # c => who[d].at \notin Holding
    BY <1>1, HoldingFacts DEF LockInv, Awaits, Holding
  <1>4. \A d \in Callers : who'[d].at \notin Holding
    BY <1>2, <1>3
  <1>5. Alive' = Alive /\ (Serving("clear")' <=> Serving("clear"))
    BY <1>1 DEF Alive, Serving
  <1>6. CASE Answered(c)
    <2>1. PICK k \in BOOLEAN : k = (box.ok /\ (box.status = "ok" => box.sector[who[c].x] = box.data))
      OBVIOUS
    <2>2. box.status # "pending" /\ box' = [box EXCEPT !.lock = "free", !.status = "pending", !.ok = k]
      BY <1>6, <2>1 DEF Answered
    <2>3. IsDisk(box') /\ box'.status = "pending" /\ box'.ok = k /\ box'.op = box.op /\ box'.late = box.late
      BY <2>2 DEF LockInv, IsDisk, DiskFields
    <2>4. LockInv'
      BY <1>1, <1>4, <2>3 DEF LockInv
    <2>5. SUFFICES ASSUME ~box.late, ~slipped PROVE DiskInv'
      BY <1>1, <2>3, <2>4 DEF DiskInv
    <2>6. PICK d \in Callers : Awaits(d) /\ (box.status = "ok" => box.sector[who[d].x] = box.data)
      BY <2>2, <2>5 DEF DiskInv
    <2>7. d = c /\ box.ok
      BY <1>3, <2>5, <2>6, HoldingFacts DEF Awaits, DiskInv
    <2>8. k
      BY <2>1, <2>6, <2>7
    <2>9. \A o, t : ~Pending(o, t)
      BY <2>2 DEF Pending
    <2>10. \A p \in Alive : proc[p].at \notin {"issue", "status"}
      BY <2>2, <2>5, <2>9 DEF DiskInv
    <2>11. box.op # "none" => Serving("clear")
      BY <2>5, <2>9 DEF DiskInv
    <2> QED BY <1>1, <1>5, <2>3, <2>8, <2>10, <2>11 DEF DiskInv
  <1>7. CASE GivesUp(c)
    <2>1. box' = [box EXCEPT !.lock = "free", !.late = TRUE]
      BY <1>7 DEF GivesUp
    <2>2. IsDisk(box') /\ box'.late
      BY <2>1 DEF LockInv, IsDisk, DiskFields
    <2> QED BY <1>1, <1>4, <2>2 DEF LockInv, DiskInv
  <1> QED BY <1>6, <1>7

\* The steps of ahcid: what they leave of the mailbox and of the callers.
DiskKept ==
    /\ IsDisk(box') /\ box'.lock = box.lock /\ box'.lba = box.lba
    /\ box'.ok = box.ok /\ box'.late = box.late

LEMMA DiskDriverBox ==
    ASSUME ShapeInv, LockInv, dev = "ahcid", NEW p, DiskDriver(p)
    PROVE  DiskKept /\ \E b, a, v : At(p, b) /\ DriverStep(p, a, v)
  <1>1. IsDisk(box)
    BY DEF LockInv
  <1>2. CASE DiskStart(p) \/ DiskExit(p) \/ DiskTakes(p)
    BY <1>1, <1>2 DEF DiskStart, DiskExit, DiskTakes, DiskKept
  <1>3. CASE DiskIssues(p)
    <2>1. PICK s : s = proc[p].v.lba
      OBVIOUS
    <2>2. PICK x : x = box.sector[s]
      OBVIOUS
    <2>3. \/ box' = box
          \/ box' = [box EXCEPT !.data = x]
          \/ box' = [box EXCEPT !.sector[s] = box.data]
      BY <1>3, <2>1, <2>2 DEF DiskIssues
    <2>4. DiskKept
      BY <1>1, <2>3 DEF DiskKept, IsDisk, DiskFields
    <2> QED BY <1>3, <2>4 DEF DiskIssues
  <1>4. CASE DiskAnswers(p)
    BY <1>1, <1>4 DEF DiskAnswers, DiskKept, IsDisk, DiskFields
  <1>5. CASE DiskClears(p)
    BY <1>1, <1>5 DEF DiskClears, DiskKept, IsDisk, DiskFields
  <1> QED BY <1>2, <1>3, <1>4, <1>5 DEF DiskDriver

LEMMA LockInvDriver ==
    ASSUME ShapeInv, LockInv, dev = "ahcid", NEW p, DiskDriver(p)
    PROVE  LockInv'
  <1>1. DiskKept /\ dev' = dev /\ who' = who
    BY DiskDriverBox DEF DriverStep, KeepsServices
  <1> QED BY <1>1 DEF LockInv, DiskKept

\* Between taking an operation and clearing it, ahcid works for the caller
\* who waits.
LEMMA DiskInvDriver ==
    ASSUME ShapeInv, LaunchInv, LockInv, DiskInv, dev = "ahcid", NEW p, DiskDriver(p)
    PROVE  DiskInv'
  <1>k. DiskKept /\ dev' = dev /\ slipped' = slipped /\ who' = who
    BY DiskDriverBox DEF DriverStep, KeepsServices
  <1>s. SUFFICES ASSUME ~box.late, ~slipped PROVE DiskInv'
    BY <1>k DEF DiskInv, DiskKept
  <1>o. AtMostOne
    BY <1>s DEF LaunchInv
  <1>a. \A c \in Callers : Awaits(c)' <=> Awaits(c)
    BY <1>k DEF Awaits
  <1>p. box'.status = box.status => \A op, s : Pending(op, s) => Pending(op, s)'
    BY <1>k DEF Pending
  <1>d. /\ box'.ok /\ (box.status # "pending" =>
             \E c \in Callers : Awaits(c) /\ (box.status = "ok" => box.sector[who[c].x] = box.data))
    BY <1>k, <1>s DEF DiskInv, DiskKept
  <1>m. box.op # "none" /\ ~Serving("clear") => Pending(box.op, box.lba)
    BY <1>s DEF DiskInv
  <1>1. CASE DiskStart(p) \/ DiskExit(p)
    <2>1. PICK b \in {"entry", "top"}, a \in {"top", "exit"} : At(p, b) /\ DriverStep(p, a, 0) /\ box' = box
      BY <1>1 DEF DiskStart, DiskExit
    <2>2. Alive = {p} /\ Alive' = {p} /\ proc[p].at = b /\ proc'[p].at = a
      BY <1>o, <2>1, OnlyStep
    <2>3. box.op # "none" => Pending(box.op, box.lba)'
      BY <1>m, <1>p, <2>1, <2>2 DEF Serving
    <2>4. box'.op # "none" => Pending(box.op, box.lba)'
      BY <2>1, <2>3
    <2> QED BY <1>a, <1>d, <1>k, <2>1, <2>2, <2>4 DEF DiskInv
  <1>2. CASE DiskTakes(p)
    <2>1. PICK op, s, v : op = box.op /\ s = box.lba /\ v = [op |-> op, lba |-> s, result |-> "pending"]
      OBVIOUS
    <2>2. At(p, "top") /\ DriverStep(p, "issue", v) /\ box' = box /\ op # "none"
      BY <1>2, <2>1 DEF DiskTakes
    <2>3. Alive = {p} /\ Alive' = {p} /\ proc[p].at = "top" /\ proc'[p].at = "issue" /\ proc'[p].v = v
      BY <1>o, <2>2, OnlyStep
    <2>4. Pending(op, s)'
      BY <1>m, <1>p, <2>1, <2>2, <2>3 DEF Serving
    <2>5. v.op = op /\ v.lba = s /\ DOMAIN v = {"op", "lba", "result"}
      BY <2>1
    <2>6. Pending(box.op, box.lba)' /\ Pending(proc[p].v.op, proc[p].v.lba)'
      BY <2>1, <2>2, <2>3, <2>4, <2>5 DEF Pending
    <2> QED BY <1>a, <1>d, <1>k, <2>2, <2>3, <2>5, <2>6 DEF DiskInv
  <1>3. CASE DiskIssues(p)
    <2>1. PICK v, op, s : v = proc[p].v /\ op = v.op /\ s = v.lba
      OBVIOUS
    <2>2. PICK x : x = box.sector[s]
      OBVIOUS
    <2>3. PICK r \in {"ok", "error"} :
            /\ At(p, "issue") /\ DriverStep(p, "status", [v EXCEPT !.result = r])
            /\ r = "error" => box' = box
            /\ r = "ok" => box' = IF op = "read" THEN [box EXCEPT !.data = x]
                                  ELSE [box EXCEPT !.sector[s] = box.data]
      BY <1>3, <2>1, <2>2 DEF DiskIssues
    <2>4. PICK w : w = [v EXCEPT !.result = r]
      OBVIOUS
    <2>5. Alive = {p} /\ Alive' = {p} /\ proc[p].at = "issue" /\ proc'[p].at = "status" /\ proc'[p].v = w
      BY <1>o, <2>3, <2>4, OnlyStep
    <2>6. DOMAIN v = {"op", "lba", "result"} /\ Pending(op, s)
      BY <1>s, <2>1, <2>5 DEF DiskInv
    <2>7. w.result = r
      BY <2>4, <2>6
    <2>8. PICK c \in Callers : Awaits(c) /\ who[c].x = s /\ s \in SECTORS /\ box.status = "pending"
      BY <2>6, HoldingFacts DEF Pending, LockInv, Awaits
    <2>9. /\ box'.status = "pending" /\ box'.op = box.op
          /\ r = "ok" => box'.sector[s] = box'.data
      <3>1. IsDisk(box)
        BY DEF LockInv
      <3>2. CASE r = "error"
        BY <2>3, <2>8, <3>2
      <3>3. CASE r = "ok" /\ op = "read"
        BY <2>2, <2>3, <2>8, <3>1, <3>3 DEF IsDisk, DiskFields
      <3>4. CASE r = "ok" /\ op # "read"
        BY <2>3, <2>8, <3>1, <3>4 DEF IsDisk, DiskFields
      <3> QED BY <3>2, <3>3, <3>4
    <2>10. box'.op # "none" => Pending(box.op, box.lba)'
      <3>1. box.op # "none" => Pending(box.op, box.lba)
        BY <1>m, <2>5 DEF Serving
      <3> QED BY <1>k, <2>8, <2>9, <3>1 DEF Pending, DiskKept
    <2> QED BY <1>a, <1>d, <1>k, <2>5, <2>7, <2>8, <2>9, <2>10 DEF DiskInv
  <1>4. CASE DiskAnswers(p)
    <2>1. PICK v, r : v = proc[p].v /\ r = v.result
      OBVIOUS
    <2>2. At(p, "status") /\ DriverStep(p, "clear", v) /\ box' = [box EXCEPT !.status = r]
      BY <1>4, <2>1 DEF DiskAnswers
    <2>3. Alive = {p} /\ Alive' = {p} /\ proc[p].at = "status" /\ proc'[p].at = "clear"
      BY <1>o, <2>2, OnlyStep
    <2>4. PICK c \in Callers : Awaits(c) /\ (r = "ok" => box.sector[who[c].x] = box.data)
      BY <1>s, <2>1, <2>3 DEF DiskInv
    <2>5. box'.status = r /\ box'.sector = box.sector /\ box'.data = box.data
      BY <2>2 DEF LockInv, IsDisk, DiskFields
    <2>6. Serving("clear")'
      BY <2>3 DEF Serving
    <2> QED BY <1>a, <1>d, <1>k, <2>3, <2>4, <2>5, <2>6 DEF DiskInv
  <1>5. CASE DiskClears(p)
    <2>1. At(p, "clear") /\ DriverStep(p, "top", 0) /\ box' = [box EXCEPT !.op = "none"]
      BY <1>5 DEF DiskClears
    <2>2. Alive = {p} /\ Alive' = {p} /\ proc'[p].at = "top"
      BY <1>o, <2>1, OnlyStep
    <2>3. /\ box'.op = "none" /\ box'.status = box.status
          /\ box'.sector = box.sector /\ box'.data = box.data
      BY <2>1 DEF LockInv, IsDisk, DiskFields
    <2> QED BY <1>a, <1>d, <1>k, <2>2, <2>3 DEF DiskInv
  <1> QED BY <1>1, <1>2, <1>3, <1>4, <1>5 DEF DiskDriver

LEMMA DiskInvDisk ==
    ASSUME ShapeInv, LaunchInv, LockInv, DiskInv, DiskNext
    PROVE  LockInv' /\ DiskInv'
  <1>d. dev = "ahcid"
    BY DiskStep
  <1>1. CASE ServiceFunction /\ UNCHANGED box
    BY <1>1, FunctionBeside, LockInvBeside, DiskInvBeside
  <1>2. CASE ahci_spawn_pending_driver
    BY <1>1, <1>2, <1>d DEF ahci_spawn_pending_driver, ServiceFunction
  <1>3. CASE \E c \in Callers : ahci_start_service(c) \/ ahci_stop_service(c)
    BY <1>1, <1>3, <1>d DEF ahci_start_service, ahci_stop_service, ServiceFunction
  <1>4. ASSUME NEW c \in Callers, NEW s \in SECTORS, read_sectors(c, s) \/ write_sectors(c, s)
        PROVE  LockInv' /\ DiskInv'
    BY <1>4, <1>d, DiskCall DEF read_sectors, write_sectors
  <1>5. ASSUME NEW c \in Callers, HandsOver(c) \/ Answered(c) \/ GivesUp(c)
        PROVE  LockInv' /\ DiskInv'
    BY <1>5, <1>d, DiskHandsOver, DiskReturns
  <1>6. ASSUME NEW p \in DOMAIN proc, DiskDriver(p)
        PROVE  LockInv' /\ DiskInv'
    BY <1>6, <1>d, LockInvDriver, DiskInvDriver
  <1> QED BY <1>2, <1>3, <1>4, <1>5, <1>6 DEF DiskNext

LEMMA DiskPartInit ==
    ASSUME Init
    PROVE  LockInv /\ DiskInv
  <1>1. SUFFICES ASSUME dev = "ahcid" PROVE LockInv /\ DiskInv
    BY DEF LockInv, DiskInv
  <1>2. DiskInit
    BY <1>1 DEF Init, NicInit, AudioInit, GopInit, HidInit, InputInit
  <1>3. PICK f : f = [s \in SECTORS |-> 0]
    OBVIOUS
  <1>7. DOMAIN f = SECTORS
    BY <1>3
  <1>4. box = [op |-> "none", status |-> "pending", lba |-> 0, data |-> 0, lock |-> "free",
               sector |-> f, reqs |-> 0, ok |-> TRUE, late |-> FALSE]
    BY <1>2, <1>3 DEF DiskInit
  <1>5. IsDisk(box) /\ box.ok /\ box.op = "none" /\ box.status = "pending"
    BY <1>4, <1>7, SMTT(60) DEF IsDisk, DiskFields
  <1>6. DOMAIN proc = {} /\ \A c \in Callers : who[c].at \notin Holding
    <2>1. proc = <<>> /\ who = [c \in Callers |-> Idle]
      BY DEF Init, ServicesInit
    <2>2. DOMAIN proc = {}
      BY <2>1, SMTT(60)
    <2> QED BY <2>1, <2>2, IdleFields DEF Holding
  <1> QED BY <1>5, <1>6 DEF LockInv, DiskInv, Alive

LEMMA DiskPartStep ==
    ASSUME ScreenPart, LockInv, DiskInv, [Next]_vars
    PROVE  LockInv' /\ DiskInv'
  <1>i. ShapeInv /\ TableInv /\ LaunchInv
    BY DEF ScreenPart
  <1>1. CASE ServicesNext /\ UNCHANGED box
    BY <1>i, <1>1, ServicesBeside, LockInvBeside, DiskInvBeside
  <1>2. CASE DiskNext
    BY <1>i, <1>2, DiskInvDisk
  <1>3. CASE NicNext \/ AudioNext \/ HidNext \/ InputNext \/ GopNext
    <2>1. Quiet /\ dev # "ahcid"
      BY <1>i, <1>3, MailboxSteps, GopStep, MailboxIsQuiet, GopLaunchIsQuiet
    <2> QED BY <2>1 DEF Quiet, LockInv, DiskInv
  <1>4. CASE UNCHANGED vars
    <2>1. UNCHANGED <<dev, proc, who, slipped, box>>
      BY <1>4 DEF vars, serviceVars
    <2>2. Beside
      BY <2>1 DEF Beside, Alive
    <2> QED BY <2>1, <2>2, LockInvBeside, DiskInvBeside
  <1> QED BY <1>1, <1>2, <1>3, <1>4 DEF Next

\* For any number of callers and sectors AHCI_IO_LOCK has one holder from the
\* request to its answer, and an answer that reports success is for that
\* request, a read of its sector or a write that is on the disk, as long as
\* nobody gave up waiting and no second ahcid was started (ahci.rs:560-599).
THEOREM DiskAnswersAreOwn == Spec => []AnswersAreOwn
  <1>1. Init => LockInv /\ DiskInv
    BY DiskPartInit
  <1>2. ScreenPart /\ (LockInv /\ DiskInv) /\ [Next]_vars => (LockInv /\ DiskInv)'
    BY DiskPartStep
  <1>3. ScreenPart /\ (LockInv /\ DiskInv) => AnswersAreOwn
    <2>1. SUFFICES ASSUME ShapeInv, LockInv, DiskInv PROVE AnswersAreOwn
      BY DEF ScreenPart
    <2>2. ASSUME NEW c \in Callers, who[c].at \in {"read", "write", "read_wait", "write_wait"}
          PROVE  box.lock = c
      BY <2>1, <2>2, LabelTells, HoldingFacts DEF LockInv
    <2> QED BY <2>1, <2>2 DEF AnswersAreOwn, DiskInv
  <1> QED BY <1>1, <1>2, <1>3, ScreenPartAlways, PTL DEF Spec

-----------------------------------------------------------------------------
(* The sound card and the network card in the whole system *)

LEMMA AudioPartInit ==
    ASSUME Init
    PROVE  AudioInv
  <1>1. CASE AudioInit
    BY <1>1, AudioInvInit DEF Init
  <1>2. CASE NicInit \/ DiskInit \/ HidInit \/ GopInit \/ InputInit
    BY <1>2 DEF AudioInv, NicInit, DiskInit, HidInit, GopInit, InputInit
  <1> QED BY <1>1, <1>2 DEF Init

LEMMA AudioPartStep ==
    ASSUME ScreenPart, AudioInv, [Next]_vars
    PROVE  AudioInv'
  <1>i. ShapeInv /\ TableInv /\ LaunchInv
    BY DEF ScreenPart
  <1>1. CASE ServicesNext /\ UNCHANGED box
    BY <1>i, <1>1, ServicesBeside, AudioInvBeside
  <1>2. CASE AudioNext
    BY <1>i, <1>2, AudioInvAudio
  <1>3. CASE NicNext \/ DiskNext \/ HidNext \/ InputNext \/ GopNext
    <2>1. Quiet /\ dev # "hdad"
      BY <1>i, <1>3, MailboxSteps, GopStep, MailboxIsQuiet, GopLaunchIsQuiet
    <2> QED BY <2>1 DEF Quiet, AudioInv
  <1>4. CASE UNCHANGED vars
    <2>1. UNCHANGED <<dev, proc, who, slipped, box>>
      BY <1>4 DEF vars, serviceVars
    <2>2. Beside
      BY <2>1 DEF Beside, Alive
    <2> QED BY <2>1, <2>2, AudioInvBeside
  <1> QED BY <1>1, <1>2, <1>3, <1>4 DEF Next

\* For any number of callers and settings, with one hdad at a time: the
\* stream runs exactly while the mailbox says that it plays and a driver is
\* there to halt it, a clip is heard word for word unless its samples were
\* written over one that played or waited, and the gain is that of the volume
\* the driver last saw, through stops and restarts (hdad main.rs:172-213).
THEOREM SoundIsAsAsked == Spec => []SoundAsAsked
  <1>1. Init => AudioInv
    BY AudioPartInit
  <1>2. ScreenPart /\ AudioInv /\ [Next]_vars => AudioInv'
    BY AudioPartStep
  <1> QED BY <1>1, <1>2, AudioInvGives, ScreenPartAlways, PTL DEF Spec

LEMMA NicPartInit ==
    ASSUME Init
    PROVE  NicInv
  <1>1. CASE NicInit
    BY <1>1, NicInvInit DEF Init
  <1>2. CASE AudioInit \/ DiskInit \/ HidInit \/ GopInit \/ InputInit
    BY <1>2 DEF NicInv, AudioInit, DiskInit, HidInit, GopInit, InputInit
  <1> QED BY <1>1, <1>2 DEF Init

LEMMA NicPartStep ==
    ASSUME ScreenPart, NicInv, [Next]_vars
    PROVE  NicInv'
  <1>i. ShapeInv /\ TableInv /\ LaunchInv
    BY DEF ScreenPart
  <1>1. CASE ServicesNext /\ UNCHANGED box
    BY <1>i, <1>1, ServicesBeside, NicInvBeside
  <1>2. CASE NicNext
    BY <1>i, <1>2, NicInvNic
  <1>3. CASE AudioNext \/ DiskNext \/ HidNext \/ InputNext \/ GopNext
    <2>1. Quiet /\ dev # "rtl8139d"
      BY <1>i, <1>3, MailboxSteps, GopStep, MailboxIsQuiet, GopLaunchIsQuiet
    <2> QED BY <2>1 DEF Quiet, NicInv
  <1>4. CASE UNCHANGED vars
    <2>1. UNCHANGED <<dev, proc, who, slipped, box>>
      BY <1>4 DEF vars, serviceVars
    <2>2. Beside
      BY <2>1 DEF Beside, Alive
    <2> QED BY <2>1, <2>2, NicInvBeside
  <1> QED BY <1>1, <1>2, <1>3, <1>4 DEF Next

\* For a receive ring of any size and any number of calls and arrivals, with
\* one rtl8139d at a time: what was sent is on the wire whole, in order and
\* once, or waits in the mailbox, unless a send overran its slot
\* (rtl8139.rs:112); and every well-formed frame the card received has reached
\* the kernel once and in order, or is in the mailbox, or is in the ring ahead
\* of CAPR, through stops and restarts (rtl8139d main.rs:83-95).
THEOREM FramesAreKept == Spec => []FramesKept
  <1>1. Init => NicInv
    BY NicPartInit
  <1>2. ScreenPart /\ NicInv /\ [Next]_vars => NicInv'
    BY NicPartStep
  <1> QED BY <1>1, <1>2, NicInvGives, ScreenPartAlways, PTL DEF Spec

LEMMA HidPartInit ==
    ASSUME Init
    PROVE  HidInv
  <1>1. CASE HidInit
    BY <1>1, HidInvInit DEF Init
  <1>2. CASE AudioInit \/ DiskInit \/ NicInit \/ GopInit \/ InputInit
    BY <1>2 DEF HidInv, AudioInit, DiskInit, NicInit, GopInit, InputInit
  <1> QED BY <1>1, <1>2 DEF Init

LEMMA HidPartStep ==
    ASSUME ScreenPart, HidInv, [Next]_vars
    PROVE  HidInv'
  <1>i. ShapeInv /\ TableInv /\ LaunchInv
    BY DEF ScreenPart
  <1>1. CASE ServicesNext /\ UNCHANGED box
    BY <1>i, <1>1, ServicesBeside, HidInvBeside
  <1>2. CASE HidNext
    BY <1>i, <1>2, HidInvHid
  <1>3. CASE AudioNext \/ DiskNext \/ NicNext \/ InputNext \/ GopNext
    <2>1. Quiet /\ dev # "xhcid"
      BY <1>i, <1>3, MailboxSteps, GopStep, MailboxIsQuiet, GopLaunchIsQuiet
    <2> QED BY <2>1 DEF Quiet, HidInv
  <1>4. CASE UNCHANGED vars
    <2>1. UNCHANGED <<dev, proc, who, slipped, box>>
      BY <1>4 DEF vars, serviceVars
    <2>2. Beside
      BY <2>1 DEF Beside, Alive
    <2> QED BY <2>1, <2>2, HidInvBeside
  <1> QED BY <1>1, <1>2, <1>3, <1>4 DEF Next

\* For rings and a report mailbox of any size and any number of calls and
\* reports, with one xhcid at a time: the reports of a device reach the kernel
\* once each and in order, or wait in the report ring or in its buffer, unless
\* the report ring overflowed; and a device that has not failed has a transfer
\* queued where the controller looks, or its report is where the next reader of
\* the event ring looks, through stops and restarts (xhcid main.rs:227-243).
THEOREM ReportsAreKept == Spec => []ReportsKept
  <1>1. Init => HidInv
    BY HidPartInit
  <1>2. ScreenPart /\ HidInv /\ [Next]_vars => HidInv'
    BY HidPartStep
  <1>3. ScreenPart /\ HidInv => ReportsKept
    BY HidInvGives DEF ScreenPart
  <1> QED BY <1>1, <1>2, <1>3, ScreenPartAlways, PTL DEF Spec

=============================================================================
