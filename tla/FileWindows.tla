---------------------------- MODULE FileWindows ----------------------------
(***************************************************************************)
(* The Files windows (main.rs): every window has a navigator with its own  *)
(* directory, history, selection, scroll offset and cached listing; rows   *)
(* are dragged between windows, to the desktop and to the dock, copied     *)
(* with Ctrl+C and pasted with Ctrl+V.  Two panes show the same directory: *)
(* the tree lists its folders, the grid everything, and both show the row  *)
(* ".." first unless the directory is the root.  Rows are numbered from 0. *)
(*                                                                         *)
(* One pass of the main loop takes an input (the step "idle"), carries out *)
(* the desktop's request ("requests"), lets the Files windows look at the  *)
(* same click ("files") and draws them ("render").                         *)
(***************************************************************************)
EXTENDS DesktopIcons

CONSTANTS WIN_W, WIN_H,   \* size of a Files window's contents, in pixels
          MAX_WINS,       \* bound: Files windows opened
          MAX_ROW,        \* bound: rows a user points at
          EVENTS          \* bound: clicks, keys and commands

VARIABLES
    navs,      \* HEPFS_NAVS, in the order the windows were opened
    drag,      \* FILE_DRAG
    marquee,   \* FS_MARQUEE: its window, or 0
    click,     \* what the Files windows have yet to see of this pass's click
    step,      \* where the main loop is in its pass
    events     \* inputs so far

winVars == <<navs, drag, marquee>>
vars == <<deskVars, winVars, click, step, events>>

NoSel == [pane |-> "none", idx |-> 0]
NoRow == [ino |-> None]
NoClick == [kind |-> "none"]
NoFileDrag == [win |-> 0]
NoCache == [ino |-> -1, gen |-> 0, entries |-> <<>>]

\* Neither stopped by an assert nor waiting for its own lock.
Running == ~fs.panic /\ ~stuck

hepfs_nav_new ==
    [ino |-> ROOT_INO, path |-> <<>>, back |-> <<>>, fwd |-> <<>>, selected |-> NoSel,
     range |-> {}, scroll |-> 0, cache |-> NoCache]
spawn_files(ns) == Append(ns, hepfs_nav_new)
-----------------------------------------------------------------------------
\* The layout of the grid, in pixels relative to the window's contents.
GRID_CELL_W == 72
GRID_CELL_H == 60
HEPFS_SCROLLBAR_W == 8
ListTop == 23
left_w == (WIN_W * 35) \div 100
right_w == IF WIN_W < left_w + 1 THEN 0 ELSE WIN_W - (left_w + 1)
list_h == IF WIN_H < ListTop THEN 0 ELSE WIN_H - ListTop

grid_cols ==
    LET w == IF right_w < HEPFS_SCROLLBAR_W THEN 0 ELSE right_w - HEPFS_SCROLLBAR_W
        n == w \div GRID_CELL_W
    IN  IF n = 0 THEN 1 ELSE n

grid_idx_at(x, y, scroll) ==
    LET col == Min({(IF x < 0 THEN 0 ELSE x) \div GRID_CELL_W, grid_cols - 1})
        row == (IF y < 0 THEN 0 ELSE y) \div GRID_CELL_H
    IN  (row + scroll) * grid_cols + col

div_ceil(a, b) == (a + b - 1) \div b
MaxScroll(total) ==
    LET total_rows == div_ceil(total, grid_cols)
        visible_rows == Max({div_ceil(list_h, GRID_CELL_H), 1})
    IN  IF total_rows < visible_rows THEN 0 ELSE total_rows - visible_rows

\* The cell of row idx as render_hepfs_window draws it, and whether it does.
CellX(idx) == left_w + 1 + (idx % grid_cols) * GRID_CELL_W
CellY(idx, scroll) == ListTop + (idx \div grid_cols - scroll) * GRID_CELL_H
Drawn(idx, scroll) ==
    /\ idx \div grid_cols >= scroll
    /\ CellY(idx, scroll) + GRID_CELL_H <= ListTop + list_h

fs_marquee_hits(total, scroll, x0, x1, y0, y1) ==
    {idx \in 0..(total - 1) : /\ Drawn(idx, scroll)
                              /\ CellX(idx) < x1 /\ CellX(idx) + GRID_CELL_W > x0
                              /\ CellY(idx, scroll) < y1 /\ CellY(idx, scroll) + GRID_CELL_H > y0}
-----------------------------------------------------------------------------
AtRoot(nav) == nav.ino = ROOT_INO
Entry(f, e) == [ino |-> e.ino, name |-> e.name, dir |-> IsDir(f, e.ino)]

\* The entries a pane shows, without the row "..".
Rows(f, ino, pane) ==
    LET es == list_dir(f, ino)
    IN  SelectSeq([k \in 1..Len(es) |-> Entry(f, es[k])], LAMBDA e : pane = "tree" => e.dir)
resolve_fs_row(f, nav, pane, idx) ==
    LET rows == Rows(f, nav.ino, pane)
        k == IF AtRoot(nav) THEN idx + 1 ELSE idx
    IN  IF k \in 1..Len(rows) THEN rows[k] ELSE NoRow

\* The rows of a set of indices that resolve, in the order of the pane.
ResolveRows(f, nav, pane, idxs) ==
    SelectSeq([k \in 1..(MAX_ROW + 1) |-> IF (k - 1) \in idxs THEN resolve_fs_row(f, nav, pane, k - 1) ELSE NoRow],
              LAMBDA e : e # NoRow)

\* What the highlighted rows of a window stand for.
selected_fs_entries(f, nav) ==
    IF nav.selected = NoSel THEN <<>>
    ELSE LET rows == IF Cardinality(nav.range) > 1 THEN nav.range ELSE {nav.selected.idx}
             es == ResolveRows(f, nav, nav.selected.pane, rows)
         IN  [k \in 1..Len(es) |-> [parent |-> nav.ino, ino |-> es[k].ino, name |-> es[k].name]]

\* list_dir with the flags and the size of every entry.
list_dir_with_info(f, d) ==
    LET es == list_dir(f, d)
    IN  [k \in 1..Len(es) |-> [ino |-> es[k].ino, name |-> es[k].name, dir |-> IsDir(f, es[k].ino),
                               size |-> f.node[es[k].ino].data]]

\* The cached listing is kept while the directory and the generation match.
hepfs_list_dir_cached(f, nav) ==
    IF nav.cache.ino = nav.ino /\ nav.cache.gen = f.gen THEN nav
    ELSE [nav EXCEPT !.cache = [ino |-> nav.ino, gen |-> f.gen, entries |-> list_dir_with_info(f, nav.ino)]]
Total(nav) == Len(nav.cache.entries) + (IF AtRoot(nav) THEN 0 ELSE 1)

\* Drawing refreshes the cache of every window on the screen and clamps its
\* scroll offset; the pass ends with it unless nothing has changed.
Settled(f, ns) ==
    \A w \in 1..Len(ns) : ns[w].cache.ino = ns[w].ino /\ ns[w].cache.gen = f.gen
Finish == step' = IF Settled(fs', navs') THEN "idle" ELSE "render"
Drawing(f, nav) ==
    LET n == hepfs_list_dir_cached(f, nav) IN [n EXCEPT !.scroll = Min({@, MaxScroll(Total(n))})]
render_hepfs_window ==
    /\ step = "render" /\ Running
    /\ IF \A w \in 1..Len(navs) : CanList(fs, navs[w].ino)
       THEN navs' = [w \in 1..Len(navs) |-> Drawing(fs, navs[w])] /\ UNCHANGED fs
       ELSE fs' = Panic(fs) /\ UNCHANGED navs
    /\ step' = "idle"
    /\ UNCHANGED <<iconVars, askVars, req, stuck, synced, drag, marquee, click, events>>
-----------------------------------------------------------------------------
\* Back, forward and ".." move along the history and keep the selected row.
Place(nav) == [ino |-> nav.ino, path |-> nav.path]
GoBack(nav) ==
    IF nav.back = <<>> THEN nav
    ELSE [nav EXCEPT !.fwd = Append(@, Place(nav)), !.back = Front(@), !.ino = Last(nav.back).ino,
                     !.path = Last(nav.back).path, !.range = {}, !.scroll = 0]
GoForward(nav) ==
    IF nav.fwd = <<>> THEN nav
    ELSE [nav EXCEPT !.back = Append(@, Place(nav)), !.fwd = Front(@), !.ino = Last(nav.fwd).ino,
                     !.path = Last(nav.fwd).path, !.range = {}, !.scroll = 0]

\* Mutant: the path stays that of the old directory.
Enter_KeepsPath(nav, ino, name) ==
    [nav EXCEPT !.back = Append(@, Place(nav)), !.fwd = <<>>, !.ino = ino,
                !.selected = NoSel, !.range = {}, !.scroll = 0]

Enter(nav, ino, name) ==
    [nav EXCEPT !.back = Append(@, Place(nav)), !.fwd = <<>>, !.ino = ino, !.path = Append(@, name),
                !.selected = NoSel, !.range = {}, !.scroll = 0]

\* The row that is pressed: Shift extends the selection from the anchor; a
\* plain press selects the row (a row of the group keeps the group) and arms a
\* drag, whose action a fast or slow second press decides.
ShiftPress(nav, c) ==
    IF nav.selected.pane # c.pane THEN nav
    ELSE [nav EXCEPT !.range = Min({nav.selected.idx, c.idx})..Max({nav.selected.idx, c.idx})]
InGroup(nav, c) == c.idx \in nav.range
PlainPress(nav, c) ==
    IF InGroup(nav, c) THEN nav
    ELSE [nav EXCEPT !.selected = [pane |-> c.pane, idx |-> c.idx], !.range = {}]
RowAction(nav, c) ==
    IF nav.selected # [pane |-> c.pane, idx |-> c.idx] THEN "none"
    ELSE CASE c.speed = "fast" -> "open" [] c.speed = "slow" -> "rename" [] OTHER -> "none"
FileDrag(nav, c, e) ==
    LET after == PlainPress(nav, c)
    IN  [win |-> c.win, parent |-> nav.ino, path |-> nav.path, ino |-> e.ino, name |-> e.name, dir |-> e.dir,
         action |-> RowAction(nav, c), moved |-> FALSE, gen |-> fs.gen, pane |-> c.pane,
         extra |-> IF Cardinality(after.range) > 1
                   THEN ResolveRows(fs, nav, c.pane, after.range \ {c.idx}) ELSE <<>>]

PressRow(c) ==
    LET nav == navs[c.win]
        e == resolve_fs_row(fs, nav, c.pane, c.idx)
        Set(n) == navs' = [navs EXCEPT ![c.win] = n]
    IN  \/ /\ ~AtRoot(nav) /\ c.idx = 0
           /\ Set(GoBack(nav)) /\ UNCHANGED <<fs, drag, marquee>>
        \/ /\ AtRoot(nav) \/ c.idx # 0
           /\ ~CanList(fs, nav.ino)
           /\ fs' = Panic(fs) /\ UNCHANGED winVars
        \/ /\ AtRoot(nav) \/ c.idx # 0
           /\ CanList(fs, nav.ino) /\ UNCHANGED fs
           /\ \/ e # NoRow /\ c.shift /\ Set(ShiftPress(nav, c)) /\ UNCHANGED <<drag, marquee>>
              \/ e # NoRow /\ ~c.shift /\ Set(PlainPress(nav, c)) /\ drag' = FileDrag(nav, c, e) /\ UNCHANGED marquee
              \/ /\ e = NoRow /\ c.pane = "grid"
                 /\ Set([nav EXCEPT !.selected = NoSel, !.range = {}])
                 /\ marquee' = c.win /\ UNCHANGED drag
              \/ e = NoRow /\ c.pane = "tree" /\ UNCHANGED winVars

FilesPress ==
    /\ click.kind = "press"
    /\ \/ /\ click.pane = "back"
          /\ navs' = [navs EXCEPT ![click.win] = GoBack(@)] /\ UNCHANGED <<fs, drag, marquee>>
       \/ /\ click.pane = "fwd"
          /\ navs' = [navs EXCEPT ![click.win] = GoForward(@)] /\ UNCHANGED <<fs, drag, marquee>>
       \/ click.pane \in {"tree", "grid"} /\ PressRow(click)
    /\ UNCHANGED <<iconVars, askVars, req, stuck, synced, events>>

\* A right click on a row offers Open, Pin and Copy, on the empty pane Paste.
FilesRightClick ==
    /\ click.kind = "right"
    /\ LET nav == navs[click.win]
           e == resolve_fs_row(fs, nav, click.pane, click.idx)
           group == nav.selected = [pane |-> click.pane, idx |-> click.idx] /\ Cardinality(nav.range) > 1
       IN  \/ ~AtRoot(nav) /\ click.idx = 0 /\ UNCHANGED <<fs, menu>>
           \/ /\ AtRoot(nav) \/ click.idx # 0
              /\ ~CanList(fs, nav.ino) /\ fs' = Panic(fs) /\ UNCHANGED menu
           \/ /\ AtRoot(nav) \/ click.idx # 0
              /\ CanList(fs, nav.ino) /\ UNCHANGED fs
              /\ menu' = IF e = NoRow THEN [kind |-> "pane", parent |-> nav.ino]
                         ELSE [kind |-> "row", parent |-> nav.ino, path |-> nav.path, ino |-> e.ino,
                               name |-> e.name, dir |-> e.dir,
                               extra |-> IF group THEN ResolveRows(fs, nav, click.pane, nav.range \ {click.idx})
                                         ELSE <<>>]
    /\ UNCHANGED <<iconVars, pins, clip, prompt, rename_ctx, req, stuck, synced, winVars, events>>
-----------------------------------------------------------------------------
\* Where a drop in a Files window goes: into the folder of the row it lands
\* on, up from the row "..", otherwise into the directory the window shows.
DropTarget(nav, t) ==
    LET e == resolve_fs_row(fs, nav, t.pane, t.idx)
    IN  CASE t.pane = "bar" -> nav.ino
          [] t.pane # "bar" /\ ~AtRoot(nav) /\ t.idx = 0 ->
                 IF nav.back = <<>> THEN nav.ino ELSE Last(nav.back).ino
          [] OTHER -> IF e = NoRow THEN nav.ino
                      ELSE IF e.dir /\ e.ino # drag.ino THEN e.ino ELSE nav.ino

\* Mutant: everything in the directory goes along.
Dragged_WholeDir ==
    LET es == list_dir(fs, drag.parent) IN [k \in 1..Len(es) |-> es[k].name]

Dragged == <<drag.name>> \o [k \in 1..Len(drag.extra) |-> drag.extra[k].name]

resolve_file_drop(t) ==
    LET nav == navs[t.win]
        lists == t.pane # "bar" /\ (AtRoot(nav) \/ t.idx # 0)
    IN  IF lists /\ ~CanList(fs, nav.ino)
        THEN fs' = Panic(fs) /\ UNCHANGED <<icons, synced>>
        ELSE refresh_desktop_icons(MoveAll(fs, drag.parent, DropTarget(nav, t), Dragged))

resolve_file_drop_outside_windows(t) ==
    \/ /\ t.pane = "dock"
       /\ pins' = FoldLeft(pin_file, pins,
                    <<Pin(drag.ino, drag.path, drag.name, drag.dir)>> \o
                    [k \in 1..Len(drag.extra) |->
                        Pin(drag.extra[k].ino, drag.path, drag.extra[k].name, drag.extra[k].dir)])
       /\ UNCHANGED <<fs, icons, synced>>
    \/ t.pane = "other" /\ UNCHANGED <<fs, icons, synced, pins>>
    \/ /\ t.pane = "desktop" /\ UNCHANGED pins
       /\ refresh_desktop_icons(IF DesktopIno(fs) < 0 \/ DesktopIno(fs) = drag.parent THEN fs
                                ELSE MoveAll(fs, drag.parent, DesktopIno(fs), Dragged))

\* A file is opened by its path: its reader asserts that it names a file.
OpenFile(f, path) ==
    LET i == lookup(f, path) IN IF i >= 0 /\ f.node[i].flags # "file" THEN Panic(f) ELSE f

\* The button is released over a row that was pressed.
FilesRelease ==
    /\ click.kind = "release" /\ drag # NoFileDrag
    /\ drag' = NoFileDrag
    /\ \/ /\ drag.moved
          /\ \/ click.win # 0 /\ resolve_file_drop(click) /\ UNCHANGED pins
             \/ click.win = 0 /\ resolve_file_drop_outside_windows(click)
          /\ UNCHANGED <<navs, prompt, rename_ctx>>
       \/ /\ ~drag.moved /\ UNCHANGED <<icons, synced, pins>>
          /\ \/ drag.action = "none" /\ UNCHANGED <<fs, navs, prompt, rename_ctx>>
             \/ /\ drag.action = "open" /\ drag.dir
                /\ navs' = [navs EXCEPT ![drag.win] = Enter(@, drag.ino, drag.name)]
                /\ UNCHANGED <<fs, prompt, rename_ctx>>
             \/ /\ drag.action = "open" /\ ~drag.dir
                /\ fs' = OpenFile(fs, Append(navs[drag.win].path, drag.name))
                /\ UNCHANGED <<navs, prompt, rename_ctx>>
             \/ /\ drag.action = "rename"
                /\ begin_rename_fs_pane(drag.parent, drag.name, drag.ino)
                /\ UNCHANGED <<fs, navs>>
    /\ UNCHANGED <<icon_selected, icon_last, icon_drag, clip, menu, req, stuck, marquee, events>>

\* The Files windows' part of the pass, then the loop starts over.
FilesStep ==
    /\ step = "files" /\ Running
    /\ FilesPress \/ FilesRightClick \/ FilesRelease
    /\ click' = NoClick
    /\ Finish

\* Opening what the desktop asked for: a folder in a new Files window.
PerformOpen ==
    /\ req.kind = "open"
    /\ req' = NoReq
    /\ IF req.dir
       THEN /\ Len(navs) < MAX_WINS
            /\ navs' = LET ns == spawn_files(navs)
                       IN  [ns EXCEPT ![Len(ns)].ino = req.ino, ![Len(ns)].path = Append(req.path, req.name)]
            /\ UNCHANGED fs
       ELSE fs' = OpenFile(fs, Append(req.path, req.name)) /\ UNCHANGED navs
    /\ UNCHANGED <<iconVars, askVars, stuck, synced>>

RequestsStep ==
    /\ step = "requests" /\ Running
    /\ \/ PerformPrompt /\ UNCHANGED navs
       \/ PerformOpen
    /\ IF click = NoClick THEN Finish ELSE step' = "files"
    /\ UNCHANGED <<drag, marquee, click, events>>
-----------------------------------------------------------------------------
\* After an input the pass goes on with what it left to do.
Continue ==
    IF req' # NoReq THEN step' = "requests"
    ELSE IF click' # NoClick THEN step' = "files"
    ELSE Finish
Input ==
    /\ step = "idle" /\ events < EVENTS /\ Running
    /\ events' = events + 1
Motion == step = "idle" /\ Running /\ UNCHANGED events
Held == drag # NoFileDrag \/ icon_drag # NoDrag \/ marquee # 0

\* A press in a Files window.  update_mouse sees it first: it may pick an item
\* of the open menu or close the prompt, and the row under it is pressed too.
PressFiles(w, pane, idx, shift, speed, item) ==
    /\ Input /\ ~Held /\ w \in 1..Len(navs)
    /\ click' = [kind |-> "press", win |-> w, pane |-> pane, idx |-> idx, shift |-> shift, speed |-> speed]
    /\ \/ item = 99 /\ ClickBesidePrompt
       \/ menu # NoMenu /\ ClickMenu(item)
       \/ menu = NoMenu /\ item = 99 /\ UNCHANGED deskVars
    /\ UNCHANGED winVars /\ Continue

RightClickFiles(w, pane, idx) ==
    /\ Input /\ ~Held /\ w \in 1..Len(navs)
    /\ \/ ClickBesidePrompt /\ click' = NoClick
       \/ UNCHANGED deskVars /\ click' = [kind |-> "right", win |-> w, pane |-> pane, idx |-> idx]
    /\ UNCHANGED winVars /\ Continue

\* A press anywhere else.
PressDesktop(idx, slot, shift, item) ==
    /\ Input /\ ~Held
    /\ click' = NoClick
    /\ \/ item = 99 /\ ClickBesidePrompt
       \/ menu # NoMenu /\ ClickMenu(item)
       \/ /\ menu = NoMenu /\ item = 99
          /\ \/ idx # 0 /\ slot = 0 /\ PressIcon(idx, shift)
             \/ idx = 0 /\ slot # 0 /\ PressDock(slot)
             \/ idx = 0 /\ slot = 0 /\ ~shift /\ PressBackground
    /\ UNCHANGED winVars /\ Continue

RightClick(idx, k) ==
    /\ Input /\ ~Held
    /\ click' = NoClick
    /\ \/ ClickBesidePrompt
       \/ RightClickDesktop(idx)
       \/ RightClickApp(k)
    /\ UNCHANGED winVars /\ Continue

\* Moving with the button held.
MoveFile ==
    /\ Motion /\ drag # NoFileDrag /\ ~drag.moved
    /\ drag' = [drag EXCEPT !.moved = TRUE]
    /\ UNCHANGED <<deskVars, navs, marquee, click>> /\ Continue
MoveDesktop(delta, cells) ==
    /\ Motion /\ click' = NoClick
    /\ MoveIcons(delta) \/ MarqueeIcons(cells)
    /\ UNCHANGED winVars /\ Continue
MarqueeRows(y1) ==
    /\ Motion /\ marquee # 0
    /\ IF CanList(fs, navs[marquee].ino)
       THEN LET nav == hepfs_list_dir_cached(fs, navs[marquee])
                hits == fs_marquee_hits(Total(nav), nav.scroll, left_w + 1, WIN_W, ListTop, y1)
            IN  /\ navs' = [navs EXCEPT ![marquee] =
                       [nav EXCEPT !.selected = IF hits = {} THEN NoSel ELSE [pane |-> "grid", idx |-> Min(hits)],
                                   !.range = hits]]
                /\ UNCHANGED deskVars
       ELSE /\ fs' = Panic(fs)
            /\ UNCHANGED <<iconVars, askVars, req, stuck, synced, navs>>
    /\ UNCHANGED <<drag, marquee, click>> /\ Continue
ScrollFiles(w, row) ==
    /\ Input /\ ~Held /\ w \in 1..Len(navs) /\ CanList(fs, navs[w].ino)
    /\ LET nav == hepfs_list_dir_cached(fs, navs[w])
       IN  /\ row \in 0..MaxScroll(Total(nav)) /\ row # nav.scroll
           /\ navs' = [navs EXCEPT ![w] = [nav EXCEPT !.scroll = row]]
    /\ UNCHANGED <<deskVars, drag, marquee, click>> /\ Continue

\* The button comes up: over the row t of a Files window, or elsewhere.
Release(t, speed) ==
    /\ Motion /\ Held
    /\ marquee' = 0
    /\ click' = IF drag # NoFileDrag THEN t ELSE NoClick
    /\ ReleaseIcon(speed) \/ (icon_drag = NoDrag /\ UNCHANGED deskVars)
    /\ UNCHANGED <<navs, drag>> /\ Continue

\* Keys: the prompt takes them all while it is open.
TypePrompt(name) ==
    /\ Input /\ click' = NoClick
    /\ PromptEnter(name) \/ PromptEsc
    /\ UNCHANGED winVars /\ Continue
CtrlC(w) ==
    /\ Input /\ prompt = NoPrompt /\ w \in 1..Len(navs)
    /\ IF CanList(fs, navs[w].ino) \/ navs[w].selected = NoSel
       THEN clip' = selected_fs_entries(fs, navs[w]) /\ UNCHANGED fs
       ELSE fs' = Panic(fs) /\ UNCHANGED clip
    /\ UNCHANGED <<iconVars, pins, menu, prompt, rename_ctx, req, stuck, synced, winVars, click>> /\ Continue
CtrlV(w) ==
    /\ Input /\ prompt = NoPrompt /\ w \in 1..Len(navs) /\ clip # <<>>
    /\ refresh_desktop_icons(PasteAll(fs, clip, navs[w].ino))
    /\ UNCHANGED <<icon_selected, icon_last, icon_drag, askVars, req, stuck, winVars, click>>
    /\ Continue
=============================================================================
