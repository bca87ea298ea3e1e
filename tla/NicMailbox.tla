----------------------------- MODULE NicMailbox -----------------------------
(***************************************************************************)
(* The network card: the kernel's send and recv on the shared mailbox      *)
(* (rtl8139.rs), the loop of rtl8139d, and the card's receive ring, which  *)
(* outlives the driver's instances.                                        *)
(*                                                                         *)
(* A frame is a number.  The length word names the frame it was written    *)
(* for, so a frame that leaves with another frame's length shows.  The     *)
(* receive ring has RING units; a packet takes one or two of them, its     *)
(* header the first.  CAPR trails the read position by LAG units.          *)
(***************************************************************************)
EXTENDS Services

CONSTANTS RING,      \* units of the receive ring (65536 bytes in the code)
          LAG        \* CAPR's distance from the read position (16 bytes)

ASSUME RingAssumption == RING \in Nat /\ LAG \in 1..(RING - 1)

Payload == [id |-> 0, len |-> 1, ok |-> FALSE]
ReadAt == (box.capr + LAG) % RING
FillOf(from, to) == (to - from) % RING

NicInit ==
    /\ dev = "rtl8139d"
    /\ box = [txlen |-> 0, txbuf |-> 0, rxready |-> FALSE, rxbuf |-> 0,
           ring |-> [i \in 0..(RING - 1) |-> Payload], capr |-> RING - LAG, cbr |-> 0,
           sent |-> <<>>, wire |-> <<>>, came |-> <<>>, got |-> <<>>, overrun |-> FALSE]

\* The bring-up and the service functions of this driver.
nic_spawn_pending_driver == SpawnPending("rtl8139d") /\ UNCHANGED box
nic_start_service(c) == Launch(c, "rtl8139d") /\ UNCHANGED box
nic_stop_service(c) == (RaiseStop(c, "rtl8139d") \/ Stopped(c, "rtl8139d")) /\ UNCHANGED box

\* send: wait for the slot, give up waiting after a while, fill it anyway.
send ==
    /\ KernelCall("blink", "rtl8139d", "tx_wait", Len(box.sent) + 1)
    /\ UNCHANGED box

SendCopies ==
    /\ who["blink"].at = "tx_wait"
    /\ box' = [box EXCEPT !.txbuf = who["blink"].x, !.overrun = @ \/ box.txlen # 0]
    /\ KernelStep("blink", "tx_len", who["blink"].x)

SendHandsOver ==
    /\ who["blink"].at = "tx_len"
    /\ box' = [box EXCEPT !.txlen = who["blink"].x, !.sent = Append(@, who["blink"].x)]
    /\ KernelStep("blink", "idle", 0)

recv ==
    /\ dev = "rtl8139d" /\ who["blink"] = Idle /\ box.rxready
    /\ box' = [box EXCEPT !.got = Append(@, box.rxbuf), !.rxready = FALSE]
    /\ KernelStep("blink", "idle", 0)

\* The card receives a frame, well formed or not, if the ring has room.
CardReceives(len, ok) ==
    /\ Arrives("rtl8139d")
    /\ FillOf(ReadAt, box.cbr) + len < RING
    /\ box' = [box EXCEPT
                 !.ring = [i \in 0..(RING - 1) |->
                             IF i = box.cbr
                             THEN [id |-> Len(box.came) + 1, len |-> len, ok |-> ok]
                             ELSE IF FillOf(box.cbr, i) < len THEN Payload ELSE box.ring[i]],
                 !.cbr = (@ + len) % RING,
                 !.came = Append(@, IF ok THEN Len(box.came) + 1 ELSE 0)]

-----------------------------------------------------------------------------
(* rtl8139d *)

\* Mutant: a new instance reads from the start of the ring.
NicStart_FromZero(p) ==
    /\ dev = "rtl8139d" /\ At(p, "entry") /\ boot.maps
    /\ DriverStep(p, "top", [len |-> 0, off |-> 0])
    /\ UNCHANGED box

\* A new instance takes up the read position the card's CAPR remembers.
NicStart(p) ==
    /\ dev = "rtl8139d" /\ At(p, "entry") /\ boot.maps
    /\ DriverStep(p, "top", [len |-> 0, off |-> ReadAt])
    /\ UNCHANGED box

NicExit(p) == dev = "rtl8139d" /\ At(p, "top") /\ stop /\ DriverStep(p, "exit", 0) /\ UNCHANGED box

NicLooksAtTx(p) ==
    /\ dev = "rtl8139d" /\ At(p, "top") /\ ~stop
    /\ DriverStep(p, IF box.txlen = 0 THEN "rx" ELSE "tx", [proc[p].v EXCEPT !.len = box.txlen])
    /\ UNCHANGED box

NicTransmits(p) ==
    /\ dev = "rtl8139d" /\ At(p, "tx")
    /\ box' = [box EXCEPT !.wire = Append(@, [len |-> proc[p].v.len, buf |-> box.txbuf])]
    /\ DriverStep(p, "tx_done", proc[p].v)

NicTxDone(p) ==
    /\ dev = "rtl8139d" /\ At(p, "tx_done")
    /\ box' = [box EXCEPT !.txlen = 0]
    /\ DriverStep(p, "rx", proc[p].v)

\* The packet at rx_off: the mailbox is full or the ring is empty, the
\* packet is bad and skipped, or its bytes go into the mailbox.
NicLooksAtRx(p) ==
    LET v == proc[p].v
        next == (v.off + box.ring[v.off].len) % RING
    IN  /\ dev = "rtl8139d" /\ At(p, "rx")
        /\ \/ /\ box.rxready \/ ReadAt = box.cbr
              /\ UNCHANGED box /\ DriverStep(p, "top", v)
           \/ /\ ~box.rxready /\ ReadAt # box.cbr /\ ~box.ring[v.off].ok
              /\ box' = [box EXCEPT !.capr = (next - LAG) % RING]
              /\ DriverStep(p, "top", [v EXCEPT !.off = next])
           \/ /\ ~box.rxready /\ ReadAt # box.cbr /\ box.ring[v.off].ok
              /\ box' = [box EXCEPT !.rxbuf = box.ring[v.off].id]
              /\ DriverStep(p, "rx_done", [v EXCEPT !.len = box.ring[v.off].len])

NicRxDone(p) ==
    LET next == (proc[p].v.off + proc[p].v.len) % RING
    IN  /\ dev = "rtl8139d" /\ At(p, "rx_done")
        /\ box' = [box EXCEPT !.capr = (next - LAG) % RING, !.rxready = TRUE]
        /\ DriverStep(p, "top", [proc[p].v EXCEPT !.off = next])

NicDriver(p) ==
    \/ NicStart(p) \/ NicExit(p) \/ NicLooksAtTx(p) \/ NicTransmits(p) \/ NicTxDone(p)
    \/ NicLooksAtRx(p) \/ NicRxDone(p)

NicNext ==
    \/ nic_spawn_pending_driver
    \/ \E c \in Callers : nic_start_service(c) \/ nic_stop_service(c)
    \/ send \/ SendCopies \/ SendHandsOver \/ recv
    \/ \E len \in 1..2, ok \in BOOLEAN : CardReceives(len, ok)
    \/ \E p \in DOMAIN proc : NicDriver(p)

-----------------------------------------------------------------------------
\* Frames leave whole, in order and once, across restarts of the driver,
\* unless a send stopped waiting for its slot (rtl8139.rs:112) or two
\* instances served the mailbox.
FramesLeaveInOrder ==
    dev # "rtl8139d" \/ box.overrun \/ slipped
    \/ /\ Len(box.wire) <= Len(box.sent)
       /\ \A i \in DOMAIN box.wire : box.wire[i] = [len |-> i, buf |-> i]
       /\ Len(box.wire) >= Len(box.sent) - 1

\* Well-formed frames reach the kernel once each and in order, and one that
\* has not reached it is in the mailbox or still ahead of CAPR: a restart
\* of the driver loses nothing (rtl8139d main.rs:83-95).
FramesArriveOnce ==
    LET ids == {box.came[i] : i \in DOMAIN box.came} \ {0}
        got == {box.got[i] : i \in DOMAIN box.got}
        ahead == {box.ring[i].id : i \in {j \in 0..(RING - 1) :
                     FillOf(ReadAt, j) < FillOf(ReadAt, box.cbr) /\ box.ring[j].ok}}
    IN  \/ dev # "rtl8139d" \/ slipped
        \/ /\ ids = got \cup ahead \cup (IF box.rxready THEN {box.rxbuf} ELSE {})
           /\ \A i, j \in DOMAIN box.got : i < j => box.got[i] < box.got[j]

\* The mailbox of the network card loses, doubles and reorders nothing in
\* either direction, through stops and restarts of rtl8139d.
FramesKept == FramesLeaveInOrder /\ FramesArriveOnce
=============================================================================
