----------------------------- MODULE GopMailbox -----------------------------
(***************************************************************************)
(* The screen: the back buffer and its flush (framebuffer.rs), the         *)
(* redraws of the main loop, and gopd, which copies published rows to the  *)
(* framebuffer and paints the mouse cursor there.                          *)
(*                                                                         *)
(* The screen is ROWS rows; a row shows a frame of the scene, with or      *)
(* without the cursor, which is one row high.                              *)
(***************************************************************************)
EXTENDS Services

CONSTANT ROWS       \* rows of the screen

ASSUME RowsAssumption == ROWS \in Nat \ {0}

Rows == 1..ROWS
Between(a, b) == {r \in Rows : (a <= r /\ r <= b) \/ (b <= r /\ r <= a)}
Plain(f) == [frame |-> f, cursor |-> FALSE]
PaintCursor(rows, y) == [rows EXCEPT ![y].cursor = TRUE]
CopyRows(from, to, rows) == [r \in Rows |-> IF r \in rows THEN from[r] ELSE to[r]]

\* kmain draws and flushes a first frame before the main loop.
GopInit ==
    /\ dev = "gopd"
    /\ box = [virt |-> FALSE, req |-> 0, ack |-> 0, dirty |-> {}, cur |-> 1,
           scene |-> 0, back |-> PaintCursor([r \in Rows |-> Plain(0)], 1), at |-> 1,
           pub |-> [r \in Rows |-> Plain(0)], fb |-> PaintCursor([r \in Rows |-> Plain(0)], 1),
           missed |-> FALSE]

\* spawn_gopd: at the start of every pass, whenever there is no mailbox.
SpawnGopd(g) == [g EXCEPT !.virt = TRUE, !.req = 0, !.ack = 0, !.dirty = {}, !.cur = 1]

spawn_gopd ==
    /\ dev = "gopd" /\ who["blink"] = Idle /\ boot.device /\ ~box.virt
    /\ pend' = FALSE
    /\ IF boot.elf
       THEN /\ box' = SpawnGopd(box)
            /\ stop' = FALSE /\ exec_async(dev)
       ELSE /\ UNCHANGED <<box, stop, queue>>
    /\ UNCHANGED <<dev, boot, enabled, starting, tab, pids, proc, who, calls, slipped>>

gop_start_service(c) ==
    /\ dev = "gopd" /\ who[c].at = "start_launch"
    /\ IF boot.elf /\ boot.device /\ ~box.virt
       THEN /\ box' = SpawnGopd(box)
            /\ stop' = FALSE /\ exec_async(dev) /\ Moves(c, "start_wait", 0)
       ELSE UNCHANGED <<box, stop, queue>> /\ Moves(c, "start_done", 0)
    /\ UNCHANGED <<dev, boot, pend, enabled, starting, tab, pids, proc, calls, slipped>>

\* Once gopd has gone the kernel flushes by itself again.
gop_stop_service(c) ==
    \/ /\ dev = "gopd" /\ who[c].at = "stop_flag" /\ UNCHANGED box
       /\ IF box.virt THEN RaiseStop(c, "gopd") ELSE KernelStep(c, "idle", 0)
    \/ Stopped(c, "gopd") /\ box' = [box EXCEPT !.virt = FALSE, !.missed = @ \/ box.req # box.ack]

\* request_flush: published if gopd has finished, dropped if it has not,
\* copied directly if there is no gopd.
request_flush(g, rows) ==
    IF ~g.virt THEN [g EXCEPT !.fb = CopyRows(g.back, @, rows), !.missed = @ /\ rows # Rows]
    ELSE IF g.ack # g.req THEN [g EXCEPT !.missed = TRUE]
    ELSE [g EXCEPT !.pub = CopyRows(g.back, @, rows), !.dirty = rows, !.cur = g.at,
                   !.req = @ + 1, !.missed = @ /\ rows # Rows]

\* With gopd the cursor is left to it, otherwise it is painted here.
draw_cursor(g, y) == IF g.virt THEN g ELSE [g EXCEPT !.back = PaintCursor(@, y)]

\* A full redraw; the cursor may have moved too.
Redraw(y) ==
    LET f == box.scene + 1
        g == [box EXCEPT !.scene = f, !.back = [r \in Rows |-> Plain(f)], !.at = y]
    IN  /\ KernelCall("blink", "gopd", "idle", 0)
        /\ box' = request_flush(draw_cursor(g, y), Rows)

\* Mutant: the row the cursor leaves is not flushed.
MoveCursor_NewOnly(y) ==
    LET g == [box EXCEPT !.back[y] = Plain(box.scene), !.at = y]
    IN  /\ KernelCall("blink", "gopd", "idle", 0) /\ y # box.at
        /\ box' = request_flush(draw_cursor(g, y), {y})

\* Only the cursor moved: the rows between its old and its new place.
MoveCursor(y) ==
    LET rows == Between(box.at, y)
        g == [box EXCEPT !.back = CopyRows([r \in Rows |-> Plain(box.scene)], @, rows),
                         !.at = y]
    IN  /\ KernelCall("blink", "gopd", "idle", 0) /\ y # box.at
        /\ box' = request_flush(draw_cursor(g, y), rows)

-----------------------------------------------------------------------------
(* gopd *)

GopStart(p) ==
    /\ dev = "gopd" /\ At(p, "entry") /\ boot.maps
    /\ DriverStep(p, "top", [last |-> 0, rows |-> {}, pub |-> box.pub]) /\ UNCHANGED box

GopExit(p) == dev = "gopd" /\ At(p, "top") /\ stop /\ DriverStep(p, "exit", 0) /\ UNCHANGED box

GopTakes(p) ==
    /\ dev = "gopd" /\ At(p, "top") /\ ~stop /\ box.req # proc[p].v.last
    /\ DriverStep(p, "copy", [last |-> box.req, rows |-> box.dirty, pub |-> box.pub])
    /\ UNCHANGED box

GopCopies(p) ==
    /\ dev = "gopd" /\ At(p, "copy")
    /\ \E r \in Lowest(proc[p].v.rows) :
         /\ box' = [box EXCEPT !.fb[r] = box.pub[r]]
         /\ DriverStep(p, "copy", [proc[p].v EXCEPT !.rows = @ \ {r}])

GopAcks(p) ==
    /\ dev = "gopd" /\ At(p, "copy") /\ proc[p].v.rows = {}
    /\ box' = [box EXCEPT !.fb = PaintCursor(@, box.cur), !.ack = proc[p].v.last]
    /\ DriverStep(p, "top", proc[p].v)

GopDriver(p) == GopStart(p) \/ GopExit(p) \/ GopTakes(p) \/ GopCopies(p) \/ GopAcks(p)

GopNext ==
    \/ spawn_gopd
    \/ \E c \in Callers : gop_start_service(c) \/ gop_stop_service(c)
    \/ \E y \in Rows : Redraw(y) \/ MoveCursor(y)
    \/ \E p \in DOMAIN proc : GopDriver(p)

-----------------------------------------------------------------------------
\* While gopd copies a frame to the screen the kernel leaves the published
\* rows alone, whatever it draws meanwhile (framebuffer.rs:91-106).
NoTearing == dev = "gopd" => \A p \in Alive : proc[p].at = "copy" => box.pub = proc[p].v.pub

Settled == box.virt => box.ack = box.req

\* Once gopd has caught up, the screen shows the last frame and one cursor,
\* at its place, unless a flush has been dropped, or abandoned by a stop,
\* since the last full redraw (framebuffer.rs:253-276).
ScreenIsCurrent ==
    (dev = "gopd" /\ Settled /\ ~box.missed)
    => box.fb = PaintCursor([r \in Rows |-> Plain(box.scene)], box.at)

\* The screen follows the kernel's frames, whole and up to date.
ScreenFollows == NoTearing /\ ScreenIsCurrent
=============================================================================
