----------------------------- MODULE HidMailbox -----------------------------
(***************************************************************************)
(* USB input: the transfer rings and the event ring the kernel sets up for *)
(* one mouse and one keyboard (xhci.rs), the loop of xhcid that serves     *)
(* them, and the ring of reports it shares with the kernel.                *)
(*                                                                         *)
(* A report is a number, counted per device.  Ring entries are their cycle *)
(* bit; the last entry of a transfer ring is the link back to its start.   *)
(* The controller acts in one step: it fills the report buffer, posts the  *)
(* event and moves on.                                                     *)
(***************************************************************************)
EXTENDS Services

CONSTANTS RING_N,          \* entries of a ring
          REPORT_RING_N    \* reports the mailbox holds

\* A transfer ring has room beside its link, the event ring for each device.
ASSUME RingsAssumption == RING_N \in Nat /\ RING_N >= 2 /\ REPORT_RING_N \in Nat

Devices == {"mouse", "kbd"}
Flip(c) == 1 - c

\* The next entry of a transfer ring, and the link when the ring wraps.
Queued(ring, pos) ==
    LET filled == [ring EXCEPT ![pos.i] = pos.c]
    IN  IF pos.i + 1 >= RING_N - 1
        THEN [ring |-> [filled EXCEPT ![RING_N - 1] = pos.c], pos |-> [i |-> 0, c |-> Flip(pos.c)]]
        ELSE [ring |-> filled, pos |-> [i |-> pos.i + 1, c |-> pos.c]]

\* The controller's side: after an entry, the link if it is its own.
Passed(ring, pos) ==
    IF pos.i + 1 = RING_N - 1 /\ ring[RING_N - 1] = pos.c
    THEN [i |-> 0, c |-> Flip(pos.c)]
    ELSE [pos EXCEPT !.i = @ + 1]

\* Along the event ring, which has no link.
Along(pos) == IF pos.i + 1 >= RING_N THEN [i |-> 0, c |-> Flip(pos.c)] ELSE [pos EXCEPT !.i = @ + 1]

Fresh == [i |-> 0, c |-> 1]
EmptyRing == [i \in 0..(RING_N - 1) |-> IF i = RING_N - 1 THEN 1 ELSE 0]

\* init leaves one transfer queued for each device.
HidInit ==
    /\ dev = "xhcid"
    /\ box = [ring |-> [d \in Devices |-> Queued(EmptyRing, Fresh).ring],
           hw |-> [d \in Devices |-> Fresh], buf |-> [d \in Devices |-> 0],
           evt |-> [i \in 0..(RING_N - 1) |-> [c |-> 0, d |-> "mouse", ok |-> FALSE]], evthw |-> Fresh,
           saved |-> [evt |-> Fresh, dev |-> [d \in Devices |-> Queued(EmptyRing, Fresh).pos]],
           reports |-> <<>>, made |-> [d \in Devices |-> 0], seen |-> [d \in Devices |-> <<>>],
           dropped |-> FALSE, dead |-> {}]

xhci_spawn_pending_driver == SpawnPending("xhcid") /\ UNCHANGED box
xhci_start_service(c) == Launch(c, "xhcid") /\ UNCHANGED box
xhci_stop_service(c) == (RaiseStop(c, "xhcid") \/ Stopped(c, "xhcid")) /\ UNCHANGED box

\* A transfer of device d completes, with a report or with an error.
ControllerReports(d, ok) ==
    /\ Arrives("xhcid")
    /\ d \notin box.dead /\ box.ring[d][box.hw[d].i] = box.hw[d].c
    /\ box' = [box EXCEPT
                 !.buf[d] = IF ok THEN box.made[d] + 1 ELSE @,
                 !.made[d] = IF ok THEN @ + 1 ELSE @,
                 !.dead = IF ok THEN @ ELSE @ \cup {d},
                 !.hw[d] = Passed(box.ring[d], @),
                 !.evt[box.evthw.i] = [c |-> box.evthw.c, d |-> d, ok |-> ok],
                 !.evthw = Along(@)]

\* poll_mouse takes one report; its loop takes them all.
poll_mouse ==
    /\ dev = "xhcid" /\ who["blink"] = Idle /\ box.reports # <<>>
    /\ box' = [box EXCEPT !.reports = Tail(@), !.seen[Head(box.reports).d] = Append(@, Head(box.reports).n)]
    /\ UNCHANGED serviceVars

-----------------------------------------------------------------------------
(* xhcid *)

HidStart(p) ==
    /\ dev = "xhcid" /\ At(p, "entry") /\ boot.maps
    /\ DriverStep(p, "top", box.saved) /\ UNCHANGED box

HidExit(p) == dev = "xhcid" /\ At(p, "top") /\ stop /\ DriverStep(p, "exit", 0) /\ UNCHANGED box

HidGoes(p) == dev = "xhcid" /\ At(p, "top") /\ ~stop /\ DriverStep(p, "drain", proc[p].v) /\ UNCHANGED box

\* push_report drops what does not fit.
push_report(h, d) ==
    IF Len(h.reports) >= REPORT_RING_N
    THEN [h EXCEPT !.dropped = TRUE]
    ELSE [h EXCEPT !.reports = Append(@, [d |-> d, n |-> h.buf[d]])]

queue_hid(d, v) == Queued(box.ring[d], v.dev[d])

\* dequeue and the body of the loop over it: a report is passed on and the
\* next transfer queued; an error is passed over.
HidDequeues(p) ==
    LET v == proc[p].v
        e == box.evt[v.evt.i]
        q == queue_hid(e.d, v)
    IN  /\ dev = "xhcid" /\ At(p, "drain") /\ e.c = v.evt.c
        /\ box' = IF e.ok
                  THEN [push_report(box, e.d) EXCEPT !.buf[e.d] = 0, !.ring[e.d] = q.ring]
                  ELSE box
        /\ DriverStep(p, "drain", [evt |-> Along(v.evt),
                                   dev |-> IF e.ok THEN [v.dev EXCEPT ![e.d] = q.pos] ELSE v.dev])

\* Mutant: the positions in the transfer rings are not saved.
HidSaves_EventsOnly(p) ==
    /\ dev = "xhcid" /\ At(p, "drain") /\ box.evt[proc[p].v.evt.i].c # proc[p].v.evt.c
    /\ box' = [box EXCEPT !.saved.evt = proc[p].v.evt]
    /\ DriverStep(p, "top", proc[p].v)

\* The event ring is empty: the positions go back into the mailbox.
HidSaves(p) ==
    /\ dev = "xhcid" /\ At(p, "drain") /\ box.evt[proc[p].v.evt.i].c # proc[p].v.evt.c
    /\ box' = [box EXCEPT !.saved = proc[p].v]
    /\ DriverStep(p, "top", proc[p].v)

HidDriver(p) == HidStart(p) \/ HidExit(p) \/ HidGoes(p) \/ HidDequeues(p) \/ HidSaves(p)

HidNext ==
    \/ xhci_spawn_pending_driver
    \/ \E c \in Callers : xhci_start_service(c) \/ xhci_stop_service(c)
    \/ \E d \in Devices, ok \in BOOLEAN : ControllerReports(d, ok)
    \/ poll_mouse
    \/ \E p \in DOMAIN proc : HidDriver(p)

-----------------------------------------------------------------------------
\* The reports of device d that the kernel has seen, those that wait in the
\* report ring and the one in the buffer are its reports, once each and in
\* order.
KnownOnce(d, seen, reports, buf, made) ==
    LET waiting == {i \in DOMAIN reports : reports[i].d = d}
    IN  /\ {seen[i] : i \in DOMAIN seen} \cup {reports[i].n : i \in waiting} \cup ({buf} \ {0}) = 1..made
        /\ \A i, j \in DOMAIN seen : i < j => seen[i] < seen[j]
        /\ \A i, j \in waiting : i < j => reports[i].n < reports[j].n
        /\ \A i \in DOMAIN seen, j \in waiting : seen[i] < reports[j].n
        /\ buf # 0 => (\A i \in DOMAIN seen : seen[i] < buf) /\ \A j \in waiting : reports[j].n < buf

\* Reports reach the kernel once each and in order, and one that has not
\* reached it waits in the report ring or in its buffer: a restart of xhcid
\* loses no key edge (xhci.rs:420-425, xhcid main.rs:227-243).
ReportsArriveOnce ==
    dev # "xhcid" \/ slipped \/ box.dropped
    \/ \A d \in Devices : KnownOnce(d, box.seen[d], box.reports, box.buf[d], box.made[d])

\* A device that has not failed can always report again: a transfer of its
\* is queued at the place the controller reads, or a report of its waits
\* where the next reader of the event ring looks (xhcid main.rs:227-243).
DeviceStaysLive ==
    \/ dev # "xhcid" \/ slipped
    \/ \A d \in Devices \ box.dead :
         \/ box.ring[d][box.hw[d].i] = box.hw[d].c
         \/ \E i \in 0..(RING_N - 1) : box.evt[i].d = d /\ box.evt[i].ok /\ box.buf[d] # 0
            /\ LET at == IF Alive = {} THEN box.saved.evt
                         ELSE LET p == CHOOSE q \in Alive : TRUE
                              IN  IF proc[p].at \in {"top", "drain"} THEN proc[p].v.evt ELSE box.saved.evt
               IN  box.evt[at.i].c = at.c

\* USB input survives stops and restarts of xhcid: no report is lost, doubled
\* or reordered, and no device falls silent.
ReportsKept == ReportsArriveOnce /\ DeviceStaysLive
=============================================================================
