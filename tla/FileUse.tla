------------------------------ MODULE FileUse ------------------------------
(***************************************************************************)
(* One user at a desktop with Files windows, icons, a dock, a clipboard    *)
(* and a shell: what these promise each other about the files they share.  *)
(***************************************************************************)
EXTENDS Shell

CONSTANT BootFs   \* the file system at boot

Spec == Init(BootFs) /\ [][Next]_shellVars

Dirs == {i \in Inos : fs.node[i].flags = "dir"}
Live == {i \in Inos : fs.node[i].flags # "free"}
Entries == {<<d, s>> \in Dirs \X (1..SLOTS) : fs.node[d].slots[s].ino # None}
Places == {navs[w] : w \in 1..Len(navs)}
            \cup UNION {Range(navs[w].back) \cup Range(navs[w].fwd) : w \in 1..Len(navs)}

(* The state of the main loop is well formed: selections, drags and menus    *)
(* are what the handlers of main.rs and desktop.rs make of them.             *)
UseTypeOK ==
    /\ \A i \in Inos : fs.node[i].flags \in {"free", "file", "dir"}
    /\ \A w \in 1..Len(navs) : /\ navs[w].ino \in Inos /\ navs[w].range \subseteq Rows0
                               /\ navs[w].selected.pane \in {"none", "tree", "grid"}
    /\ drag.win \in 0..Len(navs) /\ marquee \in 0..Len(navs)
    /\ step \in {"idle", "requests", "files", "render"}
    /\ step = "requests" => req # NoReq
    /\ step = "files" => click # NoClick

(* However entries are dragged, pasted, renamed and removed, every file and  *)
(* folder other than the root is listed in exactly one directory and every   *)
(* entry names a live inode, unless something was created in a directory     *)
(* that had been removed under the window or shell using it (hepfs.rs        *)
(* move_entry, copy_entry, remove).  The main loop's state is well formed.   *)
ListedOnce ==
    /\ UseTypeOK
    /\ ~fs.orphan /\ ~fs.panic =>
          /\ \A i \in Live \ {ROOT_INO} :
                Cardinality({e \in Entries : fs.node[e[1]].slots[e[2]].ino = i}) = 1
          /\ \A e \in Entries : fs.node[e[1]].slots[e[2]].ino \in Live

(* A Files window never draws a listing that another window, the desktop or  *)
(* the shell has changed: while the cached generation is current the cached  *)
(* names, inodes and kinds are those of the directory (main.rs               *)
(* hepfs_list_dir_cached).  Sizes are left out: write_file does not bump the *)
(* generation.                                                               *)
CachedListingIsCurrent ==
    \A w \in 1..Len(navs) :
        LET c == navs[w].cache
        IN  c.ino >= 0 /\ c.gen = fs.gen /\ CanList(fs, c.ino) =>
                [k \in 1..Len(c.entries) |-> [ino |-> c.entries[k].ino, name |-> c.entries[k].name,
                                              dir |-> c.entries[k].dir]] = Rows(fs, c.ino, "grid")

(* The desktop shows /home/desktop: after every operation of the mouse and   *)
(* keyboard on files there is one icon per entry, with its name, and no      *)
(* other; only the shell's commands leave the icons behind (desktop.rs       *)
(* sync_fs_icons).                                                           *)
IconsShowDesktop ==
    step = "idle" /\ synced /\ Running /\ DesktopIno(fs) >= 0 =>
        LET shown == {k \in 1..Len(icons) : IsFs(icons[k])}
            es == list_dir(fs, DesktopIno(fs))
        IN  /\ {[ino |-> icons[k].ino, name |-> icons[k].label] : k \in shown} = Range(es)
            /\ Cardinality(shown) = Len(es)

(* A drag carries what is highlighted: the pressed row and the other rows of *)
(* its group, whatever was selected, shift-selected or swept before (main.rs *)
(* FileDrag::extra), as long as the press was in the pane of the selection   *)
(* and nobody has changed the file system since.                             *)
DragCarriesSelection ==
    drag # NoFileDrag /\ drag.gen = fs.gen /\ drag.pane = navs[drag.win].selected.pane =>
        {drag.ino} \cup {drag.extra[k].ino : k \in 1..Len(drag.extra)}
            = {e.ino : e \in Range(selected_fs_entries(fs, navs[drag.win]))}

(* Windows, their histories, the dock and the shell remember a directory by  *)
(* its inode and by its path, and open files by path.  The two agree until   *)
(* an entry leaves its place or gets a namesake, or the shell appends an     *)
(* absolute path to its working directory (main.rs HepfsNav, desktop.rs      *)
(* PINNED_FILES, terminal.rs cwd_path).                                      *)
PathsAgree ==
    ~fs.moved /\ ~fs.twins /\ ~fs.panic =>
        /\ \A p \in Places : lookup(fs, p.path) = p.ino
        /\ \A k \in 1..Len(pins) : lookup(fs, Append(pins[k].path, pins[k].name)) = pins[k].ino
        /\ cwd.mixed \/ lookup(fs, cwd.path) = cwd.ino

(* What is drawn is what is hit: every corner of a grid cell that is on the  *)
(* screen is resolved by the click handler to the row drawn there, at every  *)
(* scroll offset (main.rs grid_idx_at, render_hepfs_window).                 *)
DrawnCellIsHit ==
    \A w \in 1..Len(navs) : LET nav == navs[w] IN
        \A idx \in 0..(Total(nav) - 1) : Drawn(idx, nav.scroll) =>
            \A dx \in {0, GRID_CELL_W - 1}, dy \in {0, GRID_CELL_H - 1} :
                /\ CellX(idx) + dx < WIN_W - HEPFS_SCROLLBAR_W \/ grid_cols = 1
                /\ grid_idx_at(CellX(idx) + dx - left_w - 1, CellY(idx, nav.scroll) + dy - ListTop, nav.scroll) = idx

(* A Files window shows the directory as it is, and a click on what it shows *)
(* means the row drawn there (main.rs hepfs_list_dir_cached, grid_idx_at).   *)
WindowsShowFiles == CachedListingIsCurrent /\ DrawnCellIsHit

(* A drop moves the rows that were taken and nothing else: an inode that     *)
(* changes directory in the release is one of the drag's (main.rs            *)
(* resolve_file_drop), if nobody has changed the file system since the press *)
(* and no directory holds a name twice.                                      *)
ParentOf(f, i) == {d \in Inos : \E s \in 1..SLOTS : f.node[d].slots[s].ino = i}
DropMovesDragged ==
    step = "files" /\ click.kind = "release" /\ drag.gen = fs.gen /\ ~fs.twins /\ fs' # fs =>
        \A i \in Inos \ {ROOT_INO} : ParentOf(fs', i) # ParentOf(fs, i) =>
            i = drag.ino \/ \E k \in 1..Len(drag.extra) : drag.extra[k].ino = i

(* A rename that was asked for on an icon or on a row changes the name of    *)
(* that entry and of no other, although icons are remembered by index and    *)
(* rows by name (desktop.rs prompt_on_key), unless a directory holds a name  *)
(* twice.                                                                    *)
NamesOf(f, i) == {f.node[d].slots[s].name : <<d, s>> \in {e \in Inos \X (1..SLOTS) : f.node[e[1]].slots[e[2]].ino = i}}
RenameHitsPrompted ==
    step = "requests" /\ req.kind = "rename" /\ ~fs.twins /\ fs' # fs =>
        \A i \in Inos \ {ROOT_INO} : NamesOf(fs', i) # NamesOf(fs, i) => i = req.of

(* The user's gestures act on what they were aimed at: a drag carries what   *)
(* is highlighted, a drop moves what the drag carries, and a rename changes  *)
(* the entry it was asked for on (main.rs FileDrag, resolve_file_drop,       *)
(* desktop.rs prompt_on_key).                                                *)
GesturesHitTarget == [][DragCarriesSelection /\ DropMovesDragged /\ RenameHitsPrompted]_shellVars

(* Moving entries by drag and drop never makes a directory its own           *)
(* descendant: every live inode can be reached from the root (hepfs.rs       *)
(* move_entry, "this isn't reachable through the UI today").                 *)
RECURSIVE Below(_, _)
Below(f, ds) ==
    LET next == ds \cup {e.ino : e \in UNION {Range(list_dir(f, d)) : d \in ds}}
    IN  IF next = ds THEN ds ELSE Below(f, next)
AllReachable == ~fs.orphan /\ ~fs.panic => Live \subseteq Below(fs, {ROOT_INO})
=============================================================================
