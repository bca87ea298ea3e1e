----------------------------- MODULE InputPath ------------------------------
(***************************************************************************)
(* Keyboards and mice: the bytes of the PS/2 controller (ps2.rs, mouse.rs) *)
(* and the reports of USB devices (xhci.rs) meet in one keyboard state,    *)
(* one key buffer and one mouse state.  Reports come as HidMailbox brings  *)
(* them, once each and in order.  No driver process is followed here.      *)
(*                                                                         *)
(* The polls of the main loop take one byte or report at a step, since a   *)
(* poll ends wherever the next byte is not there yet.  down holds the keys *)
(* that are pressed, by keyboard; asked and typed what was pressed and     *)
(* what was put into the key buffer.                                       *)
(***************************************************************************)
EXTENDS Services

CONSTANTS KEYS,       \* the keys of a keyboard
          BUF_SIZE    \* places of the key buffer, one of which stays free

Keyboards == {"ps2", "usb"}
Other(b) == CHOOSE o \in Keyboards : o # b
Shifts == {"lshift", "rshift"}
Ctrls == {"lctrl", "rctrl"}
Modifiers == Shifts \cup Ctrls
Types(k) == k \notin Modifiers \cup {"caps"}

\* Set-1 codes: some keys have the prefix E0, right Ctrl on PS/2 only.
Extended(board, k) == k = "up" \/ (board = "ps2" /\ k = "rctrl")
Code(k) == IF k \in Ctrls THEN "ctrl" ELSE k
Scancode(k, release) == [code |-> Code(k), release |-> release]
Prefix == [code |-> "E0", release |-> FALSE]

InputInit ==
    /\ dev = "input" /\ boot = [device |-> TRUE, elf |-> FALSE, maps |-> FALSE]
    /\ box = [port |-> <<>>, usb |-> <<>>, ext |-> FALSE, shift |-> FALSE, ctrl |-> FALSE, caps |-> FALSE,
              keys |-> <<>>, prev |-> {}, cycle |-> 0, packet |-> 0, buttons |-> 0,
              down |-> [b \in Keyboards |-> {}], asked |-> [b \in Keyboards |-> <<>>],
              typed |-> [b \in Keyboards |-> <<>>], sent |-> <<>>, moved |-> <<>>, tablet |-> 0,
              used |-> [b \in Keyboards |-> {}], both |-> FALSE, torn |-> FALSE, full |-> FALSE, corner |-> FALSE]

-----------------------------------------------------------------------------
(* The user *)

\* A key goes down or up; the PS/2 keyboard sends its codes, the USB
\* keyboard a report of all it holds.
KeyMoves(b, k) ==
    LET release == k \in box.down[b]
        now == IF release THEN box.down[b] \ {k} ELSE box.down[b] \cup {k}
        code == [aux |-> FALSE, sc |-> Scancode(k, release)]
        held == box.down["ps2"] \cup box.down["usb"]
    IN  /\ Arrives("input")
        /\ box' = [box EXCEPT
                     !.down[b] = now,
                     !.port = IF b = "usb" THEN @
                              ELSE @ \o (IF Extended(b, k) THEN <<[aux |-> FALSE, sc |-> Prefix], code>>
                                         ELSE <<code>>),
                     !.usb = IF b = "usb" THEN Append(@, [kind |-> "kbd", keys |-> now]) ELSE @,
                     !.asked[b] = IF ~release /\ Types(k) THEN Append(@, k) ELSE @,
                     !.both = @ \/ (~release /\ \E set \in {Shifts, Ctrls} :
                                      k \in set /\ (held \cup box.used[Other(b)]) \cap set # {}),
                     !.used[b] = @ \cup ({k} \cap Modifiers)]

\* The PS/2 mouse sends a packet of three bytes, the tablet a report.
MouseMoves(buttons) ==
    /\ Arrives("input")
    /\ box' = [box EXCEPT !.port = @ \o <<[aux |-> TRUE, val |-> buttons], [aux |-> TRUE, val |-> 0],
                                          [aux |-> TRUE, val |-> 0]>>,
                          !.sent = Append(@, buttons)]

TabletMoves(buttons, corner) ==
    /\ Arrives("input")
    /\ box' = [box EXCEPT !.usb = Append(@, [kind |-> "mouse", buttons |-> buttons, corner |-> corner]),
                          !.tablet = buttons,
                          !.corner = @ \/ (corner /\ buttons = 0)]

-----------------------------------------------------------------------------
(* The kernel *)

\* KeyBuf.push drops a key that does not fit.
push(x, b, k) ==
    IF Len(x.keys) = BUF_SIZE - 1 THEN [x EXCEPT !.full = TRUE]
    ELSE [x EXCEPT !.keys = Append(@, k), !.typed[b] = Append(@, k)]

\* handle_scancode: prefix, modifiers, releases, then keys.  The same code
\* stands for different keys with and without the prefix.
handle_scancode(x, b, sc) ==
    LET y == [x EXCEPT !.ext = FALSE]
    IN  IF sc = Prefix THEN [x EXCEPT !.ext = TRUE]
        ELSE IF sc.code \in Shifts THEN [y EXCEPT !.shift = ~sc.release]
        ELSE IF sc.code = "ctrl" THEN [y EXCEPT !.ctrl = ~sc.release]
        ELSE IF sc.release THEN y
        ELSE IF sc.code = "caps" THEN [y EXCEPT !.caps = ~@]
        ELSE IF x.ext # (sc.code = "up") THEN y
        ELSE push(y, b, sc.code)

\* ps2::poll, up to a mouse byte; mouse::poll, up to a keyboard byte.
ps2_poll ==
    /\ dev = "input" /\ box.port # <<>> /\ ~Head(box.port).aux
    /\ box' = [handle_scancode(box, "ps2", Head(box.port).sc) EXCEPT !.port = Tail(@)]
    /\ UNCHANGED serviceVars

handle_ps2_byte(x, val) ==
    CASE x.cycle = 0 -> [x EXCEPT !.packet = val, !.cycle = 1]
      [] x.cycle = 1 -> [x EXCEPT !.cycle = 2]
      [] OTHER -> [x EXCEPT !.cycle = 0, !.buttons = x.packet, !.moved = Append(@, x.packet)]

mouse_poll ==
    /\ dev = "input" /\ box.port # <<>> /\ Head(box.port).aux
    /\ box' = [handle_ps2_byte(box, Head(box.port).val) EXCEPT !.port = Tail(@)]
    /\ UNCHANGED serviceVars

\* Op applied for each member of S, starting from x.
ForEach(Op(_, _), x, S) ==
    LET after[T \in SUBSET S] ==
          IF T = {} THEN x ELSE LET k == CHOOSE k \in T : TRUE IN Op(k, after[T \ {k}])
    IN  after[S]

\* Mutant: modifiers that are let go are not reported.
handle_kbd_report_PressOnly(x, keys) ==
    LET Send(k, y) == handle_scancode(IF Extended("usb", k) THEN handle_scancode(y, "usb", Prefix) ELSE y,
                                      "usb", Scancode(k, FALSE))
    IN  [ForEach(Send, x, keys \ x.prev) EXCEPT !.prev = keys, !.torn = @ \/ x.ext]

\* Modifiers that changed, either way, then keys that are newly down.
handle_kbd_report(x, keys) ==
    LET mods == {k \in Modifiers : (k \in keys) # (k \in x.prev)}
        fresh == (keys \ x.prev) \ Modifiers
        Send(k, y) == handle_scancode(IF Extended("usb", k) THEN handle_scancode(y, "usb", Prefix) ELSE y,
                                      "usb", Scancode(k, k \notin keys))
    IN  [ForEach(Send, ForEach(Send, x, mods), fresh) EXCEPT !.prev = keys, !.torn = @ \/ x.ext]

\* A report from the corner without buttons is taken for a first one.
handle_mouse_report(x, r) ==
    IF r.corner /\ r.buttons = 0 THEN x ELSE [x EXCEPT !.buttons = r.buttons]

TakesReport ==
    LET r == Head(box.usb)
        x == [box EXCEPT !.usb = Tail(@)]
    IN  /\ dev = "input" /\ box.usb # <<>>
        /\ box' = IF r.kind = "kbd" THEN handle_kbd_report(x, r.keys) ELSE handle_mouse_report(x, r)
        /\ UNCHANGED serviceVars

\* The main loop empties the key buffer.
read_char ==
    /\ dev = "input" /\ box.keys # <<>>
    /\ box' = [box EXCEPT !.keys = Tail(@)]
    /\ UNCHANGED serviceVars

InputNext ==
    \/ \E b \in Keyboards, k \in KEYS : KeyMoves(b, k)
    \/ \E buttons \in 0..1 : MouseMoves(buttons) \/ \E corner \in BOOLEAN : TabletMoves(buttons, corner)
    \/ ps2_poll \/ mouse_poll \/ TakesReport \/ read_char

-----------------------------------------------------------------------------
Polled == box.port = <<>> /\ box.usb = <<>>

\* No modifier sticks and none is lost: once everything is polled, Shift and
\* Ctrl are on exactly while such a key is down on some keyboard, unless two
\* of a kind were down at once or used on two keyboards: they share one flag
\* (xhci.rs:278-289).
ModifiersFollowKeys ==
    dev = "input" /\ Polled /\ ~box.both =>
      /\ box.shift = (\E b \in Keyboards : box.down[b] \cap Shifts # {})
      /\ box.ctrl = (\E b \in Keyboards : box.down[b] \cap Ctrls # {})

\* Every key press is typed once, in order, whatever the other keyboard, the
\* mice and held keys do, unless the key buffer was full or a USB report came
\* between a PS/2 prefix and its code (ps2.rs:95-103, xhci.rs:291-301).
KeysTypedOnce ==
    dev = "input" /\ ~box.full /\ ~box.torn =>
      \A b \in Keyboards : /\ IsPrefix(box.typed[b], box.asked[b])
                           /\ Polled => box.typed[b] = box.asked[b]

\* Mouse packets stay whole beside keyboard bytes, and the buttons are those
\* of the last report, unless the tablet let go in the corner of the screen,
\* whose report is ignored (mouse.rs:68-77, xhci.rs:261-263).
MouseFollows ==
    dev = "input" =>
      /\ IsPrefix(box.moved, box.sent)
      /\ Polled => box.moved = box.sent
      /\ Polled /\ box.sent = <<>> /\ ~box.corner => box.buttons = box.tablet

\* Two keyboards and two mice share one decoder, one set of flags and one
\* buffer, and still every key, modifier and button comes through.
InputComesThrough == ModifiersFollowKeys /\ KeysTypedOnce /\ MouseFollows
=============================================================================
