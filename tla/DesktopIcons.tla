---------------------------- MODULE DesktopIcons ----------------------------
(***************************************************************************)
(* The desktop's icons, its pin dock, its context menu and its text prompt *)
(* (desktop.rs), and what the main loop does for them (main.rs): opening a *)
(* file or folder, creating and renaming one, keeping the icons in step    *)
(* with /home/desktop.                                                     *)
(*                                                                         *)
(* desktop.rs has no disk access: a click or an Enter leaves a request in  *)
(* req, which the same pass of the main loop carries out (the step         *)
(* "requests") before it looks at the Files windows (the step "files").    *)
(* An icon's position is the number of its grid cell.                      *)
(***************************************************************************)
EXTENDS FsOps

CONSTANTS DESKTOP_PATH,  \* the parts of the path /home/desktop
          Programs,      \* the programs with an icon at boot, in order
          TypedNames,    \* names a user types into a prompt
          CELLS          \* grid cells an icon can be dragged to

VARIABLES
    fs,             \* the mounted file system
    icons,          \* Desktop.icons
    icon_selected,  \* Desktop.icon_selected, as a set of indices
    icon_last,      \* Desktop.icon_last_clicked (0: None)
    icon_drag,      \* Desktop.icon_dragging and icon_drag_moved
    pins,           \* PINNED_FILES
    clip,           \* FS_CLIPBOARD
    menu,           \* Desktop.context_menu with its kind
    prompt,         \* Desktop.text_prompt
    rename_ctx,     \* Desktop.fs_rename_ctx
    req,            \* open_fs_entry_requested / prompt_result
    stuck,          \* the main loop waits for a lock it holds itself
    synced          \* history: nothing but refreshes since the icons were read

iconVars == <<icons, icon_selected, icon_last, icon_drag>>
askVars == <<pins, clip, menu, prompt, rename_ctx>>
deskVars == <<fs, iconVars, askVars, req, stuck, synced>>

NoMenu == [kind |-> "none"]
NoPrompt == [kind |-> "none"]
NoReq == [kind |-> "none"]
NoDrag == [kind |-> "none"]
NoCtx == [parent |-> -1]

IsFs(icon) == icon.kind = "fs"
IconAt(idx) == idx \in 1..Len(icons)
FsIcon(e, f, cell) == [kind |-> "fs", ino |-> e.ino, dir |-> IsDir(f, e.ino), label |-> e.name, cell |-> cell]
ProgramIcon(k, cell) == [kind |-> "program", app |-> k, cell |-> cell]

\* Mutant: the icons of entries that are gone stay.
sync_fs_icons_KeepsGone(ics, f, entries) ==
    FoldLeft(LAMBDA acc, e :
               IF \E k \in 1..Len(acc) : IsFs(acc[k]) /\ acc[k].ino = e.ino
               THEN [k \in 1..Len(acc) |-> IF IsFs(acc[k]) /\ acc[k].ino = e.ino
                                           THEN [acc[k] EXCEPT !.label = e.name] ELSE acc[k]]
               ELSE Append(acc, FsIcon(e, f, Len(acc))),
             ics, entries)

\* The icons of entries that are gone are dropped, the label of the others is
\* refreshed, and an entry without an icon gets one in the cell after the last.
sync_fs_icons(ics, f, entries) ==
    LET kept == SelectSeq(ics, LAMBDA icon : IsFs(icon) =>
                              \E k \in 1..Len(entries) : entries[k].ino = icon.ino)
    IN  FoldLeft(LAMBDA acc, e :
               IF \E k \in 1..Len(acc) : IsFs(acc[k]) /\ acc[k].ino = e.ino
               THEN [k \in 1..Len(acc) |-> IF IsFs(acc[k]) /\ acc[k].ino = e.ino
                                           THEN [acc[k] EXCEPT !.label = e.name] ELSE acc[k]]
               ELSE Append(acc, FsIcon(e, f, Len(acc))),
             kept, entries)

\* refresh_desktop_icons on the file system f: nothing to do when the path does
\* not resolve, and the assert of list_dir when it does not name a directory.
DesktopIno(f) == lookup(f, DESKTOP_PATH)
RefreshPanics(f) == DesktopIno(f) >= 0 /\ ~CanList(f, DesktopIno(f))
refresh_desktop_icons(f) ==
    /\ fs' = IF RefreshPanics(f) THEN Panic(f) ELSE f
    /\ icons' = IF DesktopIno(f) < 0 \/ RefreshPanics(f) \/ f.panic THEN icons
                ELSE sync_fs_icons(icons, f, list_dir(f, DesktopIno(f)))
    /\ synced' = (DesktopIno(f) >= 0)

PinnedAt(ino) == {k \in 1..Len(pins) : pins[k].ino = ino}
Pin(ino, path, name, dir) == [ino |-> ino, path |-> path, name |-> name, dir |-> dir]
toggle_pinned_file(p) ==
    pins' = IF PinnedAt(p.ino) = {} THEN Append(pins, p)
            ELSE RemoveAt(pins, Min(PinnedAt(p.ino)))
pin_file(ps, p) ==
    IF \E k \in 1..Len(ps) : ps[k].ino = p.ino THEN ps ELSE Append(ps, p)

toggle_pinned_desktop(k) ==
    LET at == {i \in 1..Len(icons) : ~IsFs(icons[i]) /\ icons[i].app = k}
    IN  icons' = IF at = {} THEN Append(icons, ProgramIcon(k, Len(icons)))
                 ELSE RemoveAt(icons, Min(at))

OpenReq(ino, dir, name, path) == [kind |-> "open", ino |-> ino, dir |-> dir, name |-> name, path |-> path]

\* A program's window is the desktop's matter; a file or folder is left to the
\* main loop.  Either way the selection is cleared.
open_icon(idx) ==
    /\ req' = IF IconAt(idx) /\ IsFs(icons[idx])
              THEN OpenReq(icons[idx].ino, icons[idx].dir, icons[idx].label, DESKTOP_PATH)
              ELSE NoReq
    /\ IF IconAt(idx) THEN icon_selected' = {} /\ icon_last' = 0
       ELSE UNCHANGED <<icon_selected, icon_last>>

\* of remembers the inode the prompt was opened for (history).
begin_rename(idx) ==
    prompt' = IF IconAt(idx) /\ IsFs(icons[idx])
              THEN [kind |-> "rename_icon", idx |-> idx, of |-> icons[idx].ino] ELSE prompt
begin_new_entry(flags) == prompt' = [kind |-> "new", flags |-> flags]
begin_rename_fs_pane(parent, name, ino) ==
    /\ prompt' = [kind |-> "rename_row", of |-> ino]
    /\ rename_ctx' = [parent |-> parent, name |-> name]
-----------------------------------------------------------------------------
\* A key of the prompt: Esc cancels, Enter turns the typed name, if
\* there is one, into a request.
PromptEsc ==
    /\ prompt # NoPrompt
    /\ prompt' = NoPrompt /\ rename_ctx' = NoCtx
    /\ UNCHANGED <<fs, iconVars, pins, clip, menu, req, stuck, synced>>

RenameReq(parent, old, new) ==
    [kind |-> "rename", parent |-> parent, old |-> old, new |-> new, of |-> prompt.of]
PromptEnter(name) ==
    /\ prompt # NoPrompt
    /\ prompt' = NoPrompt
    /\ \/ name = <<>> /\ req' = NoReq /\ UNCHANGED rename_ctx
       \/ /\ name # <<>> /\ prompt.kind = "new"
          /\ req' = [kind |-> "create", flags |-> prompt.flags, name |-> name]
          /\ UNCHANGED rename_ctx
       \/ /\ name # <<>> /\ prompt.kind = "rename_icon"
          /\ req' = IF IconAt(prompt.idx) /\ IsFs(icons[prompt.idx])
                    THEN RenameReq(-1, icons[prompt.idx].label, name) ELSE NoReq
          /\ UNCHANGED rename_ctx
       \/ /\ name # <<>> /\ prompt.kind = "rename_row"
          /\ req' = IF rename_ctx # NoCtx
                    THEN RenameReq(rename_ctx.parent, rename_ctx.name, name) ELSE NoReq
          /\ rename_ctx' = NoCtx
    /\ UNCHANGED <<fs, iconVars, pins, clip, menu, stuck, synced>>

\* The main loop performs what the prompt asked for, then reads the icons again.
PerformPrompt ==
    /\ req.kind \in {"create", "rename"}
    /\ LET d == DesktopIno(fs)
           f == CASE req.kind = "create" /\ d >= 0 -> create(fs, req.flags, d, req.name).fs
                  [] req.kind = "rename" /\ req.parent >= 0 -> rename(fs, req.parent, req.old, req.new).fs
                  [] req.kind = "rename" /\ req.parent < 0 /\ d >= 0 -> rename(fs, d, req.old, req.new).fs
                  [] OTHER -> fs
       IN  refresh_desktop_icons(f)
    /\ req' = NoReq
    /\ UNCHANGED <<icon_selected, icon_last, icon_drag, askVars, stuck>>
-----------------------------------------------------------------------------
\* The left button goes down on an icon: Shift toggles it in the selection,
\* otherwise it is selected (with its group, if it is in one) and may be dragged.
PressIcon(idx, shift) ==
    /\ IconAt(idx)
    /\ \A k \in 1..(idx - 1) : icons[k].cell # icons[idx].cell    \* icon_at: the first one there
    /\ IF shift
       THEN /\ icon_selected' = IF idx \in icon_selected THEN icon_selected \ {idx}
                                ELSE icon_selected \cup {idx}
            /\ icon_last' = 0
            /\ UNCHANGED icon_drag
       ELSE /\ icon_selected' = IF idx \in icon_selected THEN icon_selected ELSE {idx}
            /\ icon_drag' = [kind |-> "icon", idx |-> idx, moved |-> FALSE]
            /\ UNCHANGED icon_last
    /\ UNCHANGED <<fs, icons, askVars, req, stuck, synced>>

\* A press on the bare desktop starts a marquee.
PressBackground ==
    /\ icon_selected' = {} /\ icon_last' = 0
    /\ icon_drag' = [kind |-> "marquee", moved |-> TRUE]
    /\ UNCHANGED <<fs, icons, askVars, req, stuck, synced>>

\* A press in the dock opens what is pinned there.
PressDock(slot) ==
    /\ slot \in 1..Len(pins)
    /\ req' = OpenReq(pins[slot].ino, pins[slot].dir, pins[slot].name, pins[slot].path)
    /\ UNCHANGED <<fs, iconVars, askVars, stuck, synced>>

\* The icons a drag of idx carries: its group, if it belongs to one.
Carried(idx) ==
    IF Cardinality(icon_selected) > 1 /\ idx \in icon_selected THEN icon_selected ELSE {idx}
Clamped(n) == IF n < 0 THEN 0 ELSE IF n > CELLS THEN CELLS ELSE n

\* Held and moved, by delta cells in all; the marquee selects the icons it covers.
MoveIcons(delta) ==
    /\ icon_drag.kind = "icon" /\ ~icon_drag.moved /\ IconAt(icon_drag.idx)
    /\ icons' = [k \in 1..Len(icons) |-> IF k \in Carried(icon_drag.idx)
                                         THEN [icons[k] EXCEPT !.cell = Clamped(@ + delta)]
                                         ELSE icons[k]]
    /\ icon_drag' = [icon_drag EXCEPT !.moved = TRUE]
    /\ UNCHANGED <<fs, icon_selected, icon_last, askVars, req, stuck, synced>>

MarqueeIcons(cells) ==
    /\ icon_drag.kind = "marquee"
    /\ icon_selected' = {k \in 1..Len(icons) : icons[k].cell \in cells}
    /\ icon_last' = 0
    /\ UNCHANGED <<fs, icons, icon_drag, askVars, req, stuck, synced>>

\* Released: an icon that was not moved is opened by a fast second click and
\* renamed by a slow one.
ReleaseIcon(speed) ==
    /\ icon_drag # NoDrag
    /\ icon_drag' = NoDrag
    /\ \/ /\ icon_drag.kind = "icon" /\ ~icon_drag.moved /\ icon_last = icon_drag.idx
          /\ \/ speed = "fast" /\ open_icon(icon_drag.idx) /\ UNCHANGED prompt
             \/ speed = "slow" /\ begin_rename(icon_drag.idx) /\ UNCHANGED <<req, icon_selected, icon_last>>
             \/ speed = "late" /\ UNCHANGED <<req, prompt, icon_selected, icon_last>>
       \/ /\ icon_drag.kind = "icon" /\ ~icon_drag.moved /\ icon_last # icon_drag.idx
          /\ icon_last' = icon_drag.idx
          /\ UNCHANGED <<icon_selected, req, prompt>>
       \/ /\ icon_drag.moved
          /\ UNCHANGED <<icon_selected, icon_last, req, prompt>>
    /\ UNCHANGED <<fs, icons, pins, clip, menu, rename_ctx, stuck, synced>>
-----------------------------------------------------------------------------
\* A right click on the desktop opens the menu of the icon there, or of the
\* background.
RightClickDesktop(idx) ==
    /\ idx = 0 \/ IconAt(idx)
    /\ menu' = IF idx = 0 THEN [kind |-> "background"] ELSE [kind |-> "icon", idx |-> idx]
    /\ UNCHANGED <<fs, iconVars, pins, clip, prompt, rename_ctx, req, stuck, synced>>

\* A right click on a program in the taskbar or the start menu.
RightClickApp(k) ==
    /\ menu' = [kind |-> "app", app |-> k]
    /\ UNCHANGED <<fs, iconVars, pins, clip, prompt, rename_ctx, req, stuck, synced>>

\* The items of each menu, by number; 99 is a click beside the menu.  The menu
\* closes in every case.
MenuNone == UNCHANGED <<fs, iconVars, pins, clip, prompt, rename_ctx, req, stuck, synced>>
MenuBackground(item) ==
    /\ menu.kind = "background"
    /\ IF item \in {1, 2}
       THEN /\ begin_new_entry(IF item = 1 THEN "file" ELSE "dir")
            /\ UNCHANGED <<fs, iconVars, pins, clip, rename_ctx, req, stuck, synced>>
       ELSE MenuNone
MenuIcon(item) ==
    /\ menu.kind = "icon"
    /\ LET idx == menu.idx
           icon == icons[idx]
       IN  \/ /\ item = 0 /\ open_icon(idx)
              /\ UNCHANGED <<fs, icons, icon_drag, pins, clip, prompt, rename_ctx, stuck, synced>>
           \/ /\ item = 1 /\ IconAt(idx) /\ IsFs(icon)
              /\ toggle_pinned_file(Pin(icon.ino, DESKTOP_PATH, icon.label, icon.dir))
              /\ UNCHANGED <<fs, iconVars, clip, prompt, rename_ctx, req, stuck, synced>>
           \/ /\ item = 2 /\ IconAt(idx) /\ IsFs(icon)
              /\ clip' = IF DesktopIno(fs) < 0 THEN clip
                         ELSE <<[parent |-> DesktopIno(fs), ino |-> icon.ino, name |-> icon.label]>>
              /\ UNCHANGED <<fs, iconVars, pins, prompt, rename_ctx, req, stuck, synced>>
           \/ /\ item = 2 /\ IconAt(idx) /\ ~IsFs(icon)
              /\ toggle_pinned_desktop(icon.app)
              /\ UNCHANGED <<fs, icon_selected, icon_last, icon_drag, pins, clip, prompt, rename_ctx, req, stuck, synced>>
           \/ /\ ~IconAt(idx) \/ item = 99 \/ (item = 1 /\ ~IsFs(icon))
              /\ item # 0 /\ MenuNone
MenuApp(item) ==
    /\ menu.kind = "app"
    /\ IF item = 2
       THEN /\ toggle_pinned_desktop(menu.app)
            /\ UNCHANGED <<fs, icon_selected, icon_last, icon_drag, pins, clip, prompt, rename_ctx, req, stuck, synced>>
       ELSE MenuNone
MenuFsRow(item) ==
    /\ menu.kind = "row"
    /\ \/ /\ item = 0 /\ req' = OpenReq(menu.ino, menu.dir, menu.name, menu.path)
          /\ UNCHANGED <<fs, iconVars, pins, clip, prompt, rename_ctx, stuck, synced>>
       \/ /\ item = 1 /\ toggle_pinned_file(Pin(menu.ino, menu.path, menu.name, menu.dir))
          /\ UNCHANGED <<fs, iconVars, clip, prompt, rename_ctx, req, stuck, synced>>
       \/ /\ item = 2
          /\ clip' = <<[parent |-> menu.parent, ino |-> menu.ino, name |-> menu.name]>> \o
                     [k \in 1..Len(menu.extra) |->
                        [parent |-> menu.parent, ino |-> menu.extra[k].ino, name |-> menu.extra[k].name]]
          /\ UNCHANGED <<fs, iconVars, pins, prompt, rename_ctx, req, stuck, synced>>
       \/ item = 99 /\ MenuNone

\* Paste copies the clipboard into the pane's directory and then refreshes the
\* icons, which takes the DESKTOP lock that update_mouse is running under.
MenuFsPane(item) ==
    /\ menu.kind = "pane"
    /\ IF item = 0 /\ clip # <<>>
       THEN /\ fs' = PasteAll(fs, clip, menu.parent)
            /\ stuck' = ~fs'.panic
            /\ UNCHANGED <<iconVars, pins, clip, prompt, rename_ctx, req, synced>>
       ELSE item \in {0, 99} /\ MenuNone

ClickMenu(item) ==
    /\ menu # NoMenu
    /\ menu' = NoMenu
    /\ \/ MenuBackground(item)
       \/ MenuIcon(item)
       \/ MenuApp(item)
       \/ MenuFsRow(item)
       \/ MenuFsPane(item)

\* A click beside the prompt closes it, and leaves rename_ctx as it is; an icon
\* that is gone has no prompt box to click beside.
ClickBesidePrompt ==
    /\ prompt # NoPrompt
    /\ prompt.kind = "rename_icon" => IconAt(prompt.idx)
    /\ prompt' = NoPrompt
    /\ UNCHANGED <<fs, iconVars, pins, clip, menu, rename_ctx, req, stuck, synced>>

InitDesktop(f) ==
    /\ fs = f
    /\ icons = sync_fs_icons([k \in 1..Len(Programs) |-> ProgramIcon(Programs[k], k - 1)], f,
                             list_dir(f, DesktopIno(f)))
    /\ icon_selected = {} /\ icon_last = 0 /\ icon_drag = NoDrag
    /\ pins = <<>> /\ clip = <<>>
    /\ menu = NoMenu /\ prompt = NoPrompt /\ rename_ctx = NoCtx
    /\ req = NoReq /\ stuck = FALSE /\ synced = TRUE
=============================================================================
