------------------------------- MODULE Shell -------------------------------
(***************************************************************************)
(* The terminal's file commands (Terminal::execute in terminal.rs) beside  *)
(* the Files windows and the desktop.  They run in the same main loop, on  *)
(* the same file system, and never refresh the icons.                      *)
(*                                                                         *)
(* An argument is a name, or an absolute path given by its parts.          *)
(***************************************************************************)
EXTENDS FileWindows

CONSTANTS Args,      \* arguments a user types: [abs |-> BOOLEAN, parts |-> ...]
          Contents   \* what `write` writes

VARIABLE cwd   \* cwd_ino and cwd_path, and (history) whether an absolute path was appended

shellVars == <<deskVars, winVars, click, step, events, cwd>>

IsName(a) == ~a.abs /\ Len(a.parts) = 1
NameOf(a) == Last(a.parts)    \* trim_start_matches('/') of a one-part argument

\* resolve: an absolute path from the root, a name in the working directory;
\* -1 is None.  A name asserts that the working directory is a directory.
CanResolve(f, a) == a.abs \/ CanList(f, cwd.ino)
resolve(f, a) ==
    IF a.abs THEN lookup(f, a.parts)
    ELSE LET i == find_in_dir(f, cwd.ino, NameOf(a)) IN IF i = None THEN -1 ELSE i

\* A command typed at the prompt of a focused terminal.
Command ==
    /\ Input /\ prompt = NoPrompt
    /\ click' = NoClick
    /\ UNCHANGED <<iconVars, askVars, req, stuck, winVars>>
Changes(f) == fs' = f /\ synced' = (synced /\ f = fs) /\ Finish
Stops == Changes(Panic(fs))

cd(a) ==
    /\ Command
    /\ IF ~CanResolve(fs, a) THEN Stops /\ UNCHANGED cwd
       ELSE /\ UNCHANGED <<fs, synced, step>>
            /\ resolve(fs, a) >= 0 /\ IsDir(fs, resolve(fs, a))
            /\ cwd' = IF a.parts = <<>>
                      THEN [ino |-> ROOT_INO, path |-> <<>>, mixed |-> FALSE]
                      ELSE [ino |-> resolve(fs, a), path |-> cwd.path \o a.parts,
                            mixed |-> cwd.mixed \/ (a.abs /\ cwd.path # <<>>)]
cd_up ==
    /\ Command
    /\ LET path == IF cwd.path = <<>> THEN <<>> ELSE Front(cwd.path)
           i == lookup(fs, path)
       IN  cwd' = [cwd EXCEPT !.ino = IF i < 0 THEN ROOT_INO ELSE i, !.path = path]
    /\ UNCHANGED <<fs, synced, step>>

\* ls lists a directory and cat reads a file; each asserts what it is given.
ls(a) ==
    /\ Command /\ UNCHANGED cwd
    /\ ~CanResolve(fs, a) \/ (resolve(fs, a) >= 0 /\ ~CanList(fs, resolve(fs, a)))
    /\ Stops
cat(a) ==
    /\ Command /\ UNCHANGED cwd
    /\ ~CanResolve(fs, a) \/ (resolve(fs, a) >= 0 /\ fs.node[resolve(fs, a)].flags # "file")
    /\ Stops

mkdir(n) == Command /\ UNCHANGED cwd /\ Changes(create(fs, "dir", cwd.ino, n).fs)
touch(n) == Command /\ UNCHANGED cwd /\ Changes(create(fs, "file", cwd.ino, n).fs)
rm(n) == Command /\ UNCHANGED cwd /\ Changes(remove(fs, cwd.ino, n).fs)

\* Writing to a file that exists, or to a new one of the name n in the working
\* directory; write keeps the slash of an absolute path in that name.
WriteTo(f, a, n, x) ==
    IF resolve(f, a) >= 0 THEN write_file(f, resolve(f, a), x)
    ELSE LET new == create(f, "file", cwd.ino, n)
         IN  IF new.fs.panic THEN new.fs ELSE write_file(new.fs, new.ino, x)
write(a, x) ==
    /\ Command /\ UNCHANGED cwd
    /\ IF CanResolve(fs, a) THEN Changes(WriteTo(fs, a, IF a.abs THEN <<"/">> \o NameOf(a) ELSE NameOf(a), x)) ELSE Stops

ReadStops(a) == ~CanResolve(fs, a) \/ fs.node[resolve(fs, a)].flags # "file"
cp(a, b) ==
    /\ Command /\ UNCHANGED cwd
    /\ CanResolve(fs, a) => resolve(fs, a) >= 0
    /\ IF ReadStops(a) \/ ~CanResolve(fs, b) THEN Stops
       ELSE Changes(WriteTo(fs, b, NameOf(b), fs.node[resolve(fs, a)].data))

\* mv reads the source, removes the entry of that name from the working
\* directory, and writes what it read to the destination.
mv(a, b) ==
    /\ Command /\ UNCHANGED cwd
    /\ CanResolve(fs, a) => resolve(fs, a) >= 0
    /\ IF ReadStops(a) \/ ~CanResolve(fs, b) THEN Stops
       ELSE LET gone == remove(fs, cwd.ino, NameOf(a))
            IN  Changes(IF gone.ok THEN WriteTo(gone.fs, b, NameOf(b), fs.node[resolve(fs, a)].data) ELSE gone.fs)

ShellCommand ==
    \/ \E a \in Args : cd(a) \/ ls(a) \/ cat(a)
    \/ cd_up
    \/ \E a \in {b \in Args : IsName(b)} : mkdir(NameOf(a)) \/ touch(NameOf(a)) \/ rm(NameOf(a))
    \/ \E a \in {b \in Args : Len(b.parts) = 1}, x \in Contents : write(a, x)
    \/ \E a, b \in {c \in Args : Len(c.parts) = 1} : cp(a, b) \/ mv(a, b)
-----------------------------------------------------------------------------
Rows0 == 0..MAX_ROW
Speeds == {"fast", "slow", "late"}
Drops ==
    [kind : {"release"}, win : 1..MAX_WINS, pane : {"tree", "grid", "bar"}, idx : Rows0]
        \cup [kind : {"release"}, win : {0}, pane : {"dock", "desktop", "other"}, idx : {0}]

\* The rows worth pointing at: those of the pane and one below them; how fast a
\* press follows the last one, and Shift, matter only where a row is selected.
Pointable(w, pane) ==
    0..Min({MAX_ROW, Len(Rows(fs, navs[w].ino, pane)) + (IF AtRoot(navs[w]) THEN 0 ELSE 1)})
Mouse ==
    \/ \E w \in 1..Len(navs), pane \in {"tree", "grid"}, shift \in BOOLEAN, speed \in Speeds,
          item \in {0, 1, 2, 99} : \E idx \in Pointable(w, pane) :
          /\ shift => speed = "late" /\ navs[w].selected.pane = pane
          /\ speed # "late" => navs[w].selected = [pane |-> pane, idx |-> idx]
          /\ PressFiles(w, pane, idx, shift, speed, item)
    \/ \E w \in 1..Len(navs), pane \in {"back", "fwd"}, item \in {0, 1, 2, 99} :
          PressFiles(w, pane, 0, FALSE, "late", item)
    \/ \E w \in 1..Len(navs), pane \in {"tree", "grid"} : \E idx \in Pointable(w, pane) : RightClickFiles(w, pane, idx)
    \/ \E idx \in 0..Len(icons), slot \in 0..Len(pins), shift \in BOOLEAN, item \in {0, 1, 2, 99} :
          PressDesktop(idx, slot, shift, item)
    \/ \E idx \in 0..Len(icons), k \in Range(Programs) : RightClick(idx, k)
    \/ MoveFile
    \/ \E delta \in {-1, 1}, cells \in {{}, 0..1, 1..CELLS} : MoveDesktop(delta, cells)
    \/ \E y \in {ListTop, ListTop + 1, WIN_H} : MarqueeRows(y)
    \/ \E w \in 1..Len(navs), row \in 0..MAX_ROW : ScrollFiles(w, row)
    \/ \E t \in Drops, speed \in Speeds :
          (t.win <= Len(navs) /\ (drag # NoFileDrag => speed = "late")
             /\ (drag = NoFileDrag \/ ~drag.moved => t.pane = "other")) /\ Release(t, speed)
Keys ==
    \/ \E n \in TypedNames : TypePrompt(n)
    \/ \E w \in 1..Len(navs) : CtrlC(w) \/ CtrlV(w)

Init(f) ==
    /\ InitDesktop(f)
    /\ navs = <<hepfs_nav_new>>
    /\ drag = NoFileDrag /\ marquee = 0
    /\ click = NoClick /\ step = "render" /\ events = 0
    /\ cwd = [ino |-> ROOT_INO, path |-> <<>>, mixed |-> FALSE]
Next ==
    \/ ShellCommand
    \/ Mouse /\ UNCHANGED cwd
    \/ Keys /\ UNCHANGED cwd
    \/ RequestsStep /\ UNCHANGED cwd
    \/ FilesStep /\ UNCHANGED cwd
    \/ render_hepfs_window /\ UNCHANGED cwd
=============================================================================
