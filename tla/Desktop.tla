------------------------------- MODULE Desktop -------------------------------
(***************************************************************************)
(* The window manager of desktop.rs and the parts of the main loop         *)
(* (task_blink in main.rs) that serve it: windows with their animations,   *)
(* taskbar, start menu, jump list, context menu, volume popup, name prompt,*)
(* the two focus variables, and which windows hold an editor.  Desktop     *)
(* icons and the Files windows are in Files, text windows in TextWindows.  *)
(*                                                                         *)
(* Pixels are left out: a press names what lies under the pointer, and a   *)
(* window is at one of a few places.  One step is one round of the main    *)
(* loop: a key or a change of the mouse, with what the loop does about it. *)
(***************************************************************************)
EXTENDS Integers, FiniteSets, SequencesExt

CONSTANTS
    Boot,           \* kinds of the windows kmain() adds, in order
    HiddenAtBoot,   \* ids of those it hides again
    MAIN_TERMINAL,  \* 2 in the code
    MAIN_EDITOR,    \* 3
    SETTINGS,       \* 5
    Places,         \* where a window can be dragged to
    MAX_WINDOWS,    \* bound on the windows
    EVENTS          \* bound on the keys and mouse events

Nobody == -1
None == "none"
NoDrag == [kind |-> None, slot |-> 0, moved |-> FALSE, closed |-> None]
NoMenu == [on |-> None, kind |-> None, id |-> Nobody]

VARIABLES
    dt,         \* the fields of Desktop
    pinned,     \* PINNED_TASKBAR
    key_focus,  \* FOCUSED_WIN, the window that gets the keys
    editors,    \* EDITOR and EXTRA_EDITORS: open and modified, by window
    held,       \* the left button is down
    stuck,      \* the main loop waits for a lock that it holds itself
    wished,     \* history: the windows the user last asked to see
    late,       \* history: the windows that were used while they closed
    events      \* history: how many events there were

deskVars == <<dt, pinned, key_focus, editors, held, stuck, wished, late, events>>

Ids == 0..(MAX_WINDOWS - 1)
Index(d, id) == SelectInSeq(d.windows, LAMBDA w : w.id = id)
Win(d, id) == d.windows[Index(d, id)]
Put(d, w) == [d EXCEPT !.windows[Index(d, w.id)] = w]

-----------------------------------------------------------------------------
(* One window. *)

Window(id, kind) ==
    [id |-> id, kind |-> kind, minimized |-> FALSE, maximized |-> FALSE, anim |-> "opening",
     ever_shown |-> TRUE, dragging |-> FALSE, resizing |-> FALSE, place |-> "own", saved |-> "own"]

show(w) ==
    IF w.minimized THEN [w EXCEPT !.ever_shown = TRUE, !.minimized = FALSE, !.anim = "opening"]
    ELSE [w EXCEPT !.ever_shown = TRUE]
hide(w) == IF w.minimized THEN w ELSE [w EXCEPT !.anim = "closing"]
close(w) == [hide(w) EXCEPT !.ever_shown = FALSE]
hide_instant(w) == [w EXCEPT !.minimized = TRUE, !.anim = None, !.ever_shown = FALSE]

toggle_maximize(w) ==
    IF w.maximized THEN [w EXCEPT !.place = w.saved, !.maximized = FALSE, !.anim = "moving"]
    ELSE [w EXCEPT !.saved = w.place, !.place = "full", !.maximized = TRUE, !.anim = "moving"]

-----------------------------------------------------------------------------
(* The windows, the last one in front. *)

bring_to_front(d, id) ==
    IF Index(d, id) = 0 THEN d
    ELSE [d EXCEPT !.windows = SelectSeq(@, LAMBDA w : w.id # id) \o <<Win(d, id)>>, !.focused = id]

reveal(d, id) == IF Index(d, id) = 0 THEN d ELSE bring_to_front(Put(d, show(Win(d, id))), id)

add_window(d, kind) ==
    [d EXCEPT !.windows = Append(@, Window(d.next_id, kind)), !.focused = d.next_id, !.next_id = @ + 1]

\* The kinds of the windows in the order of their first appearance.
kinds_of(ws) ==
    LET first == SelectSeq([i \in DOMAIN ws |-> i], LAMBDA i : \A j \in 1..(i - 1) : ws[j].kind # ws[i].kind)
    IN [n \in DOMAIN first |-> ws[first[n]].kind]

ids_of(ws, kind) ==
    LET mine == SelectSeq(ws, LAMBDA w : w.kind = kind) IN [i \in DOMAIN mine |-> mine[i].id]

\* The taskbar: the pinned programs, then the other ones with a window.
taskbar_entries(d, pins) ==
    LET shown == SelectSeq(d.windows, LAMBDA w : w.ever_shown)
        kinds == pins \o SelectSeq(kinds_of(shown), LAMBDA k : ~Contains(pins, k))
    IN [i \in DOMAIN kinds |-> [kind |-> kinds[i], ids |-> ids_of(shown, kinds[i])]]

toggle_pinned_taskbar(pins, kind) ==
    IF Contains(pins, kind) THEN SelectSeq(pins, LAMBDA k : k # kind) ELSE Append(pins, kind)

\* A button dropped after a drag is pinned at the slot it was dropped on.
pin_at(pins, kind, slot) ==
    LET others == SelectSeq(pins, LAMBDA k : k # kind)
    IN InsertAt(others, 1 + (IF slot < Len(others) THEN slot ELSE Len(others)), kind)

\* Mutant: a window that comes back gets the focus but stays where it was.
taskbar_button_click_NotRaised(d, pins, kind, slot, just_closed) ==
    LET entries == taskbar_entries(d, pins)
        w == Win(d, entries[slot].ids[1])
    IN IF slot \notin DOMAIN entries \/ entries[slot].kind # kind \/ entries[slot].ids = <<>> THEN d
       ELSE [Put(d, show(w)) EXCEPT !.focused = w.id]

\* The click on a taskbar button, carried out when the mouse is released.
taskbar_button_click(d, pins, kind, slot, just_closed) ==
    LET entries == taskbar_entries(d, pins)
        ids == entries[slot].ids
        w == Win(d, ids[1])
    IN IF slot \notin DOMAIN entries \/ entries[slot].kind # kind THEN d
       ELSE CASE ids = <<>> -> [d EXCEPT !.new_window = kind]
              [] Len(ids) = 1 ->
                   IF w.minimized THEN reveal(d, w.id)
                   ELSE IF d.focused = w.id THEN [Put(d, hide(w)) EXCEPT !.focused = Nobody]
                   ELSE bring_to_front(d, w.id)
              [] OTHER -> IF just_closed = kind THEN d ELSE [d EXCEPT !.jumplist = kind]

-----------------------------------------------------------------------------
(* What a step does besides changing the desktop. *)

boot_windows ==
    LET w(i) == Window(i - 1, Boot[i])
    IN [i \in DOMAIN Boot |-> IF (i - 1) \in HiddenAtBoot THEN hide_instant(w(i)) ELSE w(i)]

DeskInit ==
    /\ dt = [windows |-> boot_windows, focused |-> Len(Boot) - 1, next_id |-> Len(Boot),
             start_menu |-> FALSE, jumplist |-> None, menu |-> NoMenu, popup |-> FALSE,
             volume_drag |-> FALSE, prompt |-> FALSE, dbl_click |-> Nobody, snap |-> None,
             new_window |-> None, task_drag |-> NoDrag]
    /\ pinned = <<>> /\ key_focus = MAIN_TERMINAL /\ editors = << >> /\ held = FALSE /\ stuck = FALSE
    /\ wished = (0..(Len(Boot) - 1)) \ HiddenAtBoot /\ late = {} /\ events = 0

Event == ~stuck /\ events < EVENTS /\ events' = events + 1

\* The desktop becomes d; what the step tells of the user's wishes is recorded.
Becomes(d) ==
    LET old == {w.id : w \in ToSet(dt.windows)}
        turned(id) == Win(d, id).anim # Win(dt, id).anim
        hidden == {id \in old : turned(id) /\ Win(d, id).anim = "closing"}
        onscreen == {id \in old \ hidden : ~Win(d, id).minimized}
        seen == {id \in onscreen : turned(id) \/ (d.focused = id /\ dt.focused # id)
                                      \/ (Win(d, id).ever_shown /\ ~Win(dt, id).ever_shown)}
    IN /\ dt' = d
       /\ wished' = ((wished \cup seen) \ hidden) \cup ({w.id : w \in ToSet(d.windows)} \ old)
       /\ late' = late \cup {id \in seen : Win(dt, id).anim = "closing"}

\* The request for a new window is served in the round it was made in.
serve(d) ==
    IF d.new_window = None THEN d
    ELSE [reveal(add_window(d, d.new_window), d.next_id) EXCEPT !.new_window = None]

fresh_editor == [open |-> TRUE, modified |-> FALSE]
With(eds, id, e) == [i \in DOMAIN eds \cup {id} |-> IF i = id THEN e ELSE eds[i]]

NewBuffers(d) ==
    editors' = IF d.new_window = "editor" THEN With(editors, d.next_id, fresh_editor) ELSE editors

\* After a press the keys follow the focus, if some window has it.
sync_focus(d) == IF d.focused = Nobody THEN key_focus ELSE d.focused

-----------------------------------------------------------------------------
(* update_mouse(): the left button goes down. *)

Press == Event /\ ~held /\ held' = TRUE /\ UNCHANGED stuck

\* A press that no popup swallows: the popups close.
Through == Press /\ dt.menu = NoMenu

dismissed(d) == [d EXCEPT !.jumplist = None, !.popup = FALSE, !.dbl_click = Nobody]

PressAwayFromPrompt ==
    /\ Press /\ dt.prompt
    /\ Becomes([dt EXCEPT !.prompt = FALSE])
    /\ key_focus' = sync_focus(dt')
    /\ UNCHANGED <<pinned, editors>>

open_settings(d) == reveal(d, SETTINGS)

\* The item of the context menu; the last one stands for a click beside it.
PressMenu(item) ==
    LET d == [dt EXCEPT !.menu = NoMenu]
        chosen == CASE dt.menu.on = "background" /\ item = 0 -> open_settings(d)
                    [] dt.menu.on = "background" /\ item \in {1, 2} -> [d EXCEPT !.prompt = TRUE]
                    [] dt.menu.on = "app" /\ item = 0 -> [d EXCEPT !.new_window = dt.menu.kind]
                    [] OTHER -> d
    IN /\ Press /\ dt.menu # NoMenu
       /\ chosen.new_window # None => dt.next_id < MAX_WINDOWS
       /\ Becomes(serve(chosen))
       /\ key_focus' = sync_focus(dt')
       /\ pinned' = IF dt.menu.on = "app" /\ item = 1 THEN toggle_pinned_taskbar(pinned, dt.menu.kind) ELSE pinned
       /\ NewBuffers(chosen)

PressJumplist(id) ==
    /\ Through /\ ~dt.prompt
    /\ id \in ToSet(ids_of(dt.windows, dt.jumplist))
    /\ Becomes(reveal([dt EXCEPT !.jumplist = None], id))
    /\ key_focus' = sync_focus(dt')
    /\ UNCHANGED <<pinned, editors>>

PressVolumePopup ==
    /\ Through /\ ~dt.prompt /\ dt.popup
    /\ Becomes([dt EXCEPT !.jumplist = None, !.volume_drag = TRUE])
    /\ key_focus' = sync_focus(dt')
    /\ UNCHANGED <<pinned, editors>>

PressStartRow(kind) ==
    LET ids == ids_of(dt.windows, kind)
        d == [dismissed(dt) EXCEPT !.start_menu = FALSE]
    IN /\ Through /\ ~dt.prompt /\ dt.start_menu /\ ids # <<>>
       /\ Becomes(IF Len(ids) = 1 THEN reveal(d, ids[1]) ELSE [d EXCEPT !.jumplist = kind])
       /\ key_focus' = sync_focus(dt')
       /\ UNCHANGED <<pinned, editors>>

PressStartButton ==
    /\ Through /\ ~dt.prompt
    /\ Becomes([dismissed(dt) EXCEPT !.start_menu = ~dt.start_menu])
    /\ key_focus' = sync_focus(dt')
    /\ UNCHANGED <<pinned, editors>>

PressVolumeIcon ==
    /\ Through /\ ~dt.prompt
    /\ Becomes([dismissed(dt) EXCEPT !.start_menu = FALSE, !.popup = ~dt.popup])
    /\ key_focus' = sync_focus(dt')
    /\ UNCHANGED <<pinned, editors>>

\* A taskbar button only notes the press; the release acts on it.
PressTaskButton(slot) ==
    LET entries == taskbar_entries(dt, pinned)
    IN /\ Through /\ ~dt.prompt /\ slot \in DOMAIN entries
       /\ Becomes([dismissed(dt) EXCEPT !.start_menu = FALSE,
             !.task_drag = [kind |-> entries[slot].kind, slot |-> slot, moved |-> FALSE, closed |-> dt.jumplist]])
       /\ key_focus' = sync_focus(dt')
       /\ UNCHANGED <<pinned, editors>>

PressDesktop ==
    /\ Through /\ ~dt.prompt
    /\ \A w \in ToSet(dt.windows) : w.maximized => w.minimized
    /\ Becomes([dismissed(dt) EXCEPT !.start_menu = FALSE])
    /\ key_focus' = sync_focus(dt')
    /\ UNCHANGED <<pinned, editors>>

\* Mutant: a press on the title of a maximized window drags it as it is.
grab_title_Maximized(d, w, place, twice) ==
    IF w.maximized THEN Put(d, [w EXCEPT !.dragging = TRUE, !.place = place])
    ELSE IF twice THEN Put(d, toggle_maximize(w))
    ELSE [Put(d, [w EXCEPT !.dragging = TRUE]) EXCEPT !.dbl_click = w.id]

\* The title bar: a maximized window is restored and dragged on from where the
\* pointer is, a second press maximizes, a first one drags.
grab_title(d, w, place, twice) ==
    IF w.maximized THEN Put(d, [toggle_maximize(w) EXCEPT !.dragging = TRUE, !.place = place])
    ELSE IF twice THEN Put(d, toggle_maximize(w))
    ELSE [Put(d, [w EXCEPT !.dragging = TRUE]) EXCEPT !.dbl_click = w.id]

\* The window that is hit comes to the front, then its part acts.
press_part(d, id, part, place, twice) ==
    LET w == Win(d, id)
    IN CASE part = "close" -> [Put(d, close(w)) EXCEPT !.focused = Nobody]
         [] part = "minimize" -> [Put(d, hide(w)) EXCEPT !.focused = Nobody]
         [] part = "newterm" -> [d EXCEPT !.new_window = "terminal"]
         [] part = "maximize" -> Put(d, toggle_maximize(w))
         [] part = "title" -> grab_title(d, w, place, twice)
         [] part = "edge" -> Put(d, [w EXCEPT !.resizing = TRUE])
         [] part = "content" -> d

Parts == {"close", "minimize", "newterm", "maximize", "title", "edge", "content"}

PressWindow(id, part, place) ==
    LET w == Win(dt, id)
        d == press_part(bring_to_front([dismissed(dt) EXCEPT !.start_menu = FALSE], id), id, part, place,
                        dt.dbl_click = id)
    IN /\ Through /\ id < dt.next_id /\ ~w.minimized
       /\ \A i \in (Index(dt, id) + 1)..Len(dt.windows) : dt.windows[i].maximized => dt.windows[i].minimized
       /\ part = "newterm" => id = MAIN_TERMINAL /\ dt.next_id < MAX_WINDOWS
       /\ part = "edge" => ~w.maximized
       /\ (part = "title" /\ w.maximized) \/ place = "own"
       /\ Becomes(serve(d))
       /\ key_focus' = sync_focus(dt')
       /\ UNCHANGED <<pinned, editors>>

-----------------------------------------------------------------------------
(* The button is held, comes up, or the right one goes down. *)

Zones == {None, "left", "right", "top"}

Drag(place, zone) ==
    /\ Event /\ held /\ dt.focused # Nobody
    /\ LET w == Win(dt, dt.focused)
       IN \/ w.resizing /\ zone = None /\ Becomes(Put(dt, [w EXCEPT !.place = place]))
          \/ /\ ~w.resizing /\ w.dragging /\ ~w.maximized
             /\ Becomes([Put(dt, [w EXCEPT !.place = place]) EXCEPT !.snap = zone])
    /\ UNCHANGED <<pinned, key_focus, editors, held, stuck>>

DragTaskButton ==
    /\ Event /\ held /\ dt.task_drag # NoDrag /\ ~dt.task_drag.moved
    /\ Becomes([dt EXCEPT !.task_drag.moved = TRUE])
    /\ UNCHANGED <<pinned, key_focus, editors, held, stuck>>

\* The release: a window dropped at an edge snaps there; nothing is dragged any more.
settle(d) ==
    LET w == Win(d, d.focused)
        snapped == CASE d.snap = "top" -> toggle_maximize(w)
                     [] OTHER -> [w EXCEPT !.place = d.snap, !.anim = "moving"]
        dropped == IF d.snap # None /\ d.focused # Nobody /\ w.dragging THEN Put(d, snapped) ELSE d
    IN [dropped EXCEPT !.snap = None, !.volume_drag = FALSE, !.task_drag = NoDrag,
          !.windows = [i \in DOMAIN @ |-> [@[i] EXCEPT !.dragging = FALSE, !.resizing = FALSE]]]

Release(slot) ==
    LET t == dt.task_drag
        clicked == IF t = NoDrag \/ t.moved THEN dt
                   ELSE taskbar_button_click(dt, pinned, t.kind, t.slot, t.closed)
        moved == t # NoDrag /\ t.moved
        d == settle(clicked)
    IN /\ Event /\ held /\ held' = FALSE
       /\ moved \/ slot = 0
       /\ d.new_window # None => dt.next_id < MAX_WINDOWS
       /\ Becomes(serve(d))
       /\ pinned' = IF moved THEN pin_at(pinned, t.kind, slot) ELSE pinned
       /\ key_focus' = IF d.new_window = None THEN key_focus ELSE d.next_id
       /\ NewBuffers(d)
       /\ UNCHANGED stuck

\* The right button opens a context menu; a Files window and an icon are in Files.
RightPress(on, kind, id) ==
    /\ Event /\ dt.menu = NoMenu
    /\ CASE on = "app" -> /\ ids_of(dt.windows, kind) # <<>> \/ Contains(pinned, kind)
                          /\ id = Nobody
         [] on = "text" -> id < dt.next_id /\ id # Nobody /\ ~Win(dt, id).minimized
                             /\ kind = Win(dt, id).kind /\ kind \in {"editor", "terminal"}
         [] on = "background" -> id = Nobody /\ kind = None
    /\ Becomes(IF dt.prompt THEN [dt EXCEPT !.prompt = FALSE]
               ELSE [dt EXCEPT !.menu = [on |-> on, kind |-> kind, id |-> id], !.jumplist = None,
                               !.start_menu = @ /\ on # "background"])
    /\ UNCHANGED <<pinned, key_focus, editors, held, stuck>>

-----------------------------------------------------------------------------
(* A key.  It goes to the prompt, or to the window in FOCUSED_WIN. *)

Key == Event /\ UNCHANGED <<pinned, held>>

\* Enter and Esc end the prompt.
KeyPrompt ==
    /\ Key /\ dt.prompt
    /\ Becomes([dt EXCEPT !.prompt = FALSE])
    /\ UNCHANGED <<key_focus, editors, stuck>>

on_key(e, k) ==
    CASE k = "type" -> [e EXCEPT !.modified = TRUE]
      [] k = "save" -> [e EXCEPT !.modified = FALSE]
      [] k = "esc" -> IF e.modified THEN [e EXCEPT !.modified = FALSE] ELSE [e EXCEPT !.open = FALSE]
      [] k = "f10" -> [e EXCEPT !.open = FALSE]

\* An editor whose buffer is closed after the key loses its window.
KeyEditor(k) ==
    LET e == on_key(editors[key_focus], k)
    IN /\ Key /\ ~dt.prompt /\ key_focus \in DOMAIN editors
       /\ editors' = [editors EXCEPT ![key_focus] = e]
       /\ Becomes(IF e.open THEN dt ELSE Put(dt, close(Win(dt, key_focus))))
       /\ key_focus' = IF e.open THEN key_focus ELSE MAIN_TERMINAL
       /\ UNCHANGED stuck

TerminalHasKeys == Key /\ ~dt.prompt /\ Win(dt, key_focus).kind = "terminal"

\* The command edit: open_smart() takes the main editor's window if it is minimized.
KeyEdit ==
    LET free == Win(dt, MAIN_EDITOR).minimized
        id == IF free THEN MAIN_EDITOR ELSE dt.next_id
    IN /\ TerminalHasKeys
       /\ free \/ dt.next_id < MAX_WINDOWS
       /\ Becomes(IF free THEN reveal(dt, id) ELSE reveal(add_window(dt, "editor"), id))
       /\ editors' = With(editors, id, fresh_editor)
       /\ key_focus' = id
       /\ UNCHANGED stuck

\* The command newterm.  A key for another terminal than the main one is
\* delivered under the lock of the list that the new terminal is to go into.
KeyNewterm ==
    /\ TerminalHasKeys /\ dt.next_id < MAX_WINDOWS
    /\ IF key_focus = MAIN_TERMINAL
       THEN Becomes(add_window(dt, "terminal")) /\ UNCHANGED stuck
       ELSE stuck' = TRUE /\ UNCHANGED <<dt, wished, late>>
    /\ UNCHANGED <<key_focus, editors>>

\* Mutant: an animation that is over takes its window off the screen.
tick_anims_AnyKind(w) == [w EXCEPT !.minimized = @ \/ w.anim # "moving", !.anim = None]

\* An animation is over: only a closing one takes the window off the screen.
tick_anims(w) == [w EXCEPT !.minimized = @ \/ w.anim = "closing", !.anim = None]

AnimEnds(id) ==
    /\ ~stuck /\ id < dt.next_id /\ Win(dt, id).anim # None
    /\ dt' = Put(dt, tick_anims(Win(dt, id)))
    /\ UNCHANGED <<pinned, key_focus, editors, held, stuck, wished, late, events>>

-----------------------------------------------------------------------------

Kinds == ToSet(Boot)

DeskNext ==
    \/ PressAwayFromPrompt
    \/ \E item \in 0..3 : PressMenu(item)
    \/ \E id \in Ids : PressJumplist(id)
    \/ PressVolumePopup
    \/ \E kind \in Kinds : PressStartRow(kind)
    \/ PressStartButton
    \/ PressVolumeIcon
    \/ \E slot \in 1..MAX_WINDOWS : PressTaskButton(slot)
    \/ PressDesktop
    \/ \E id \in Ids, part \in Parts, place \in Places : PressWindow(id, part, place)
    \/ \E place \in Places, zone \in Zones : Drag(place, zone)
    \/ DragTaskButton
    \/ \E slot \in 0..Cardinality(Kinds) : Release(slot)
    \/ \E on \in {"app", "text", "background"}, kind \in Kinds \cup {None}, id \in Ids \cup {Nobody} :
           RightPress(on, kind, id)
    \/ KeyPrompt
    \/ \E k \in {"type", "save", "esc", "f10"} : KeyEditor(k)
    \/ KeyEdit
    \/ KeyNewterm
    \/ \E id \in Ids : AnimEnds(id)

DeskSpec == DeskInit /\ [][DeskNext]_deskVars

-----------------------------------------------------------------------------
(* Properties. *)

AllPlaces == Places \cup {"own", "left", "right", "full"}

\* Types, and the ids of the windows are distinct and below next_id.
DeskTypeOK ==
    /\ \A w \in ToSet(dt.windows) :
         /\ w.id \in Ids /\ w.id < dt.next_id
         /\ w.kind \in Kinds /\ w.place \in AllPlaces /\ w.saved \in AllPlaces
         /\ w.anim \in {None, "opening", "closing", "moving"}
         /\ {w.minimized, w.maximized, w.ever_shown, w.dragging, w.resizing} \subseteq BOOLEAN
    /\ \A i, j \in DOMAIN dt.windows : dt.windows[i].id = dt.windows[j].id => i = j
    /\ Len(dt.windows) = dt.next_id
    /\ dt.focused \in Ids \cup {Nobody} /\ key_focus \in Ids
    /\ DOMAIN editors \subseteq Ids /\ dt.new_window = None

\* The window with the focus is the one in front: clicks, dragging and the
\* keyboard then mean the same window (bring_to_front(), add_window()).  One
\* window at most is dragged or resized, and only while the button is down
\* (update_mouse() clears both flags of all windows on release).
FocusInFront ==
    LET moved == {w \in ToSet(dt.windows) : w.dragging \/ w.resizing}
    IN /\ DeskTypeOK
       /\ dt.focused # Nobody => dt.windows[Len(dt.windows)].id = dt.focused
       /\ Cardinality(moved) <= 1 /\ (moved # {} => held)

\* A window fills the screen exactly while it is maximized, whatever sequence
\* of snapping, dragging, double clicks and buttons led there, and it has another
\* place to go back to.
FullIsMaximized ==
    \A w \in ToSet(dt.windows) : (w.place = "full" <=> w.maximized) /\ w.saved # "full"

\* When no animation runs, a window is on the screen exactly if it is what the
\* user asked for last, and then it has a taskbar button.  The exception is a
\* window that was used while it closed: show() and bring_to_front() leave the
\* closing animation running.
SettlesAsWished ==
    \A w \in ToSet(dt.windows) :
        w.anim = None /\ w.id \notin late =>
            (w.minimized <=> w.id \notin wished) /\ (w.minimized \/ w.ever_shown)

\* Every window on the screen that was not used while closing is in exactly one
\* group of the taskbar, and no program has two buttons (taskbar_entries()).
TaskbarReachesWindows ==
    LET entries == taskbar_entries(dt, pinned)
    IN /\ \A i, j \in DOMAIN entries : entries[i].kind = entries[j].kind => i = j
       /\ \A w \in ToSet(dt.windows) :
            w.ever_shown => \E i \in DOMAIN entries : Contains(entries[i].ids, w.id)

\* A window that was asked for is on the screen once the animations end, one
\* that was put away is not, and the taskbar leads to both.
WindowsReachable == SettlesAsWished /\ TaskbarReachesWindows
=============================================================================
