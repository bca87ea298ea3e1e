------------------------------ MODULE Terminal ------------------------------
(***************************************************************************)
(* A terminal window of terminal.rs: the grid of character cells, the      *)
(* input line typed at the prompt with its history and completion, the     *)
(* text selection, and the result of a background job printed over it.     *)
(* What a command does is left open here: it prints something or clears    *)
(* the screen.  The file commands are in Shell.                            *)
(*                                                                         *)
(* A column is a usize of the release build, in which 0 - 1 wraps.         *)
(* Writing a cell outside the row is a panic: the kernel stands still.     *)
(***************************************************************************)
EXTENDS Integers, SequencesExt

CONSTANTS
    Chars,        \* printable characters other than the space
    SCROLLBACK,   \* rows that are kept, 200 in the code
    MAX_COLS,     \* cells of a row, 120 in the code
    USIZE,        \* values of a usize, 2^64 in the code
    Widths,       \* numbers of columns render() finds to fit the window
    Heights,      \* numbers of rows it finds to fit
    Prompt,       \* the text of the prompt
    Words,        \* what tab_complete() can offer
    HISTORY,      \* commands that are remembered, 50 in the code
    Outputs,      \* what a command or a background job may print
    KEYS,         \* bound on the keys, clicks, frames and results
    Pointers      \* rows and columns of the window the mouse is used at

Space == " "
Newline == "newline"
None == <<>>
Clear == <<"clear">>   \* the command of that name, among the outputs

VARIABLES
    term,       \* the fields of Terminal
    clipboard,  \* the text clipboard, which the editor windows share
    plain,      \* history: the line fits its row, and nothing came in between
    keys        \* history: how many keys, clicks, frames and results there were

termVars == <<term, clipboard, plain, keys>>

ASSUME RowFitsUsize == MAX_COLS \in 1..(USIZE - 1)

Cell == 0..(MAX_COLS - 1)
BlankLine == [c \in Cell |-> Space]

-----------------------------------------------------------------------------
(* Printing. *)

advance_row(t) ==
    IF t.row + 1 < SCROLLBACK THEN [t EXCEPT !.row = @ + 1]
    ELSE [t EXCEPT !.lines = Append(Tail(@), BlankLine)]

put_char(t, ch) ==
    IF t.down THEN t
    ELSE IF ch = Newline THEN advance_row([t EXCEPT !.col = 0])
    ELSE IF t.col \notin Cell THEN [t EXCEPT !.down = TRUE]
    ELSE LET u == [t EXCEPT !.lines[t.row + 1][t.col] = ch, !.col = @ + 1]
         IN IF u.col >= u.cols THEN advance_row([u EXCEPT !.col = 0]) ELSE u

print(t, s) == FoldLeft(put_char, t, s)

show_prompt(t) ==
    LET u == print(t, Prompt)
    IN [u EXCEPT !.prompt_row = u.row, !.prompt_col = u.col, !.cmd_cursor = 0]

\* Types s at the end of the input line, as completion and history do.
type_in(t, s) ==
    LET key(u, ch) == put_char([u EXCEPT !.cmd_buf = Append(@, ch), !.cmd_cursor = @ + 1], ch)
    IN FoldLeft(key, t, s)

blank_cells(t, row, from, to) ==
    [t EXCEPT !.lines[row + 1] =
        [c \in Cell |-> IF from <= c /\ c < to THEN Space ELSE @[c]]]

clear_screen(t) ==
    [t EXCEPT !.lines = [r \in 1..SCROLLBACK |-> BlankLine], !.col = 0, !.row = 0]

\* The result of a ping, a download or a process, printed above the line
\* being typed.  The buffer still holds the saved text when it is typed again.
print_async(t, msg) ==
    LET a == [blank_cells(t, t.prompt_row, t.prompt_col, t.cols) EXCEPT !.col = t.prompt_col]
        ended == IF msg # <<>> /\ Last(msg) = Newline THEN msg ELSE Append(msg, Newline)
        b == show_prompt(print(a, ended))
        c == [type_in(b, t.cmd_buf) EXCEPT !.cmd_cursor = Len(t.cmd_buf)]
    IN IF t.cmd_cursor < Len(c.cmd_buf)
       THEN [c EXCEPT !.cmd_cursor = t.cmd_cursor, !.col = c.prompt_col + t.cmd_cursor]
       ELSE c

-----------------------------------------------------------------------------
(* The selection. *)

Before(a, b) == a[1] < b[1] \/ (a[1] = b[1] /\ a[2] <= b[2])

\* Start and end, or None when there is nothing selected.
selection_range(t) ==
    IF t.select_anchor = None \/ t.select_head = None \/ t.select_anchor = t.select_head
    THEN None
    ELSE IF Before(t.select_anchor, t.select_head) THEN <<t.select_anchor, t.select_head>>
    ELSE <<t.select_head, t.select_anchor>>

\* The cells of a row that render() highlights.
selection_cols_for_line(t, line) ==
    LET r == selection_range(t)
    IN IF r = None THEN {}
       ELSE LET from == IF line = r[1][1] THEN r[1][2] ELSE 0
                end == IF line = r[2][1] THEN r[2][2] ELSE t.cols
            IN IF line < r[1][1] \/ line > r[2][1] THEN {}
               ELSE {c \in Cell : from <= c /\ c < end /\ c < t.cols}

TrimRight(s) == CHOOSE p \in Prefixes(s) :
    /\ p = <<>> \/ Last(p) # Space
    /\ \A i \in (Len(p) + 1)..Len(s) : s[i] = Space

Trim(s) == Reverse(TrimRight(Reverse(TrimRight(s))))

Cells(line, from, end) == [i \in 1..(IF end > from THEN end - from ELSE 0) |-> line[from + i - 1]]

Smaller(a, b) == IF a < b THEN a ELSE b

copied_line(t, r, line) ==
    LET from == IF line = r[1][1] THEN r[1][2] ELSE 0
        end == IF line = r[2][1] THEN r[2][2] ELSE t.cols
        kept == TrimRight(Cells(t.lines[line + 1], from, Smaller(end, t.cols)))
    IN IF line = r[2][1] THEN kept ELSE Append(kept, Newline)

\* copy_selection(): the clipboard afterwards.
copy_selection(t, clip) ==
    LET r == selection_range(t)
    IN IF r = None THEN clip
       ELSE FlattenSeq([i \in 1..(r[2][1] - r[1][1] + 1) |-> copied_line(t, r, r[1][1] + i - 1)])

\* A shift held on Left and Right anchors a selection, no shift drops it.
update_selection_anchor(t, shift) ==
    IF ~shift THEN [t EXCEPT !.select_anchor = None, !.select_head = None]
    ELSE IF t.select_anchor = None THEN [t EXCEPT !.select_anchor = <<t.row, t.col>>]
    ELSE t

sync_selection_head(t) ==
    IF t.select_anchor = None THEN t ELSE [t EXCEPT !.select_head = <<t.row, t.col>>]

\* The line and column under a pointer at the given row and column of the
\* window, by what the last frame laid out.
hit_test(t, r, c) ==
    <<Smaller(t.render_start + Smaller(r, t.render_rows - 1), SCROLLBACK - 1),
      Smaller(c, t.cols - 1)>>

select_line(t, row) ==
    LET end == Len(TrimRight(Cells(t.lines[row + 1], 0, t.cols)))
    IN [t EXCEPT !.select_anchor = <<row, 0>>, !.select_head = <<row, end>>]

-----------------------------------------------------------------------------
(* The input line. *)

room(t) == Len(t.cmd_buf) < t.cols - 2

shift_right(line, c, cols) ==
    [i \in Cell |-> IF c < i /\ i < cols THEN line[i - 1] ELSE line[i]]

\* Mutant: the cell under the cursor is left out.
shift_left_Short(line, c, cols) ==
    [i \in Cell |-> IF i = cols - 1 THEN Space
                    ELSE IF c < i /\ i < cols - 1 THEN line[i + 1]
                    ELSE line[i]]

shift_left(line, c, cols) ==
    [i \in Cell |-> IF i = cols - 1 THEN Space
                    ELSE IF c <= i /\ i < cols - 1 THEN line[i + 1]
                    ELSE line[i]]

\* A printable key: at the end of the line, or into the middle of it.
insert_char(t, ch) ==
    IF t.down \/ ~room(t) THEN t
    ELSE IF t.cmd_cursor = Len(t.cmd_buf) THEN type_in(t, <<ch>>)
    ELSE LET u == [t EXCEPT !.cmd_buf = InsertAt(@, t.cmd_cursor + 1, ch),
                            !.lines[t.row + 1] = shift_right(@, t.col, t.cols)]
         IN IF t.col \notin Cell THEN [u EXCEPT !.down = TRUE]
            ELSE [u EXCEPT !.lines[t.row + 1][t.col] = ch, !.col = @ + 1, !.cmd_cursor = @ + 1]

backspace(t) ==
    IF t.cmd_cursor = 0 THEN t
    ELSE LET c == IF t.col = 0 THEN 0 ELSE t.col - 1
         IN [t EXCEPT !.cmd_buf = RemoveAt(@, t.cmd_cursor), !.cmd_cursor = @ - 1, !.col = c,
                      !.lines[t.row + 1] = shift_left(@, c, t.cols)]

paste_clipboard(t, clip) ==
    FoldLeft(insert_char, t, SelectSeq(clip, LAMBDA ch : ch # Newline))

replace_input(t, new) ==
    LET u == blank_cells(t, t.prompt_row, t.prompt_col,
                         Smaller(t.prompt_col + Len(t.cmd_buf), t.cols))
    IN type_in([u EXCEPT !.col = t.prompt_col, !.cmd_buf = <<>>, !.cmd_cursor = 0], new)

\* The word after the last space is completed: a single match replaces it,
\* several are listed and the line is shown again.
tab_complete(t) ==
    LET space == SelectLastInSeq(t.cmd_buf, LAMBDA ch : ch = Space)
        prefix == SubSeq(t.cmd_buf, 1, space)
        word == SubSeq(t.cmd_buf, space + 1, Len(t.cmd_buf))
        matches == {w \in Words : IsPrefix(word, w)}
        listed == FlattenSeq([i \in DOMAIN SetToSeq(matches) |-> SetToSeq(matches)[i] \o <<Space>>])
    IN CASE matches = {} -> t
         [] \E w \in Words : matches = {w} ->
              replace_input(t, prefix \o (CHOOSE w \in Words : matches = {w}) \o <<Space>>)
         [] OTHER ->
              LET u == print(t, <<Newline>> \o listed \o <<Newline>>)
              IN type_in(show_prompt([u EXCEPT !.cmd_buf = <<>>, !.cmd_cursor = 0]), t.cmd_buf)

remember(hist, cmd) ==
    IF cmd = <<>> THEN hist
    ELSE IF Len(hist) < HISTORY THEN Append(hist, cmd)
    ELSE Append(Tail(hist), cmd)

\* Enter: the trimmed line is remembered and carried out.
enter(t, out) ==
    LET u == [put_char(t, Newline) EXCEPT !.cmd_buf = <<>>, !.cmd_cursor = 0, !.history_idx = 0,
                  !.history = remember(@, Trim(t.cmd_buf))]
    IN show_prompt(IF out = Clear THEN clear_screen(u) ELSE print(u, out))

history_up(t) ==
    IF t.history = <<>> THEN t
    ELSE LET i == CASE t.history_idx = 0 -> Len(t.history)
                    [] t.history_idx = 1 -> 1
                    [] OTHER -> t.history_idx - 1
         IN replace_input([t EXCEPT !.history_idx = i], t.history[i])

history_down(t) ==
    CASE t.history_idx = 0 -> t
      [] t.history_idx >= Len(t.history) -> replace_input([t EXCEPT !.history_idx = 0], <<>>)
      [] OTHER -> replace_input([t EXCEPT !.history_idx = @ + 1], t.history[t.history_idx + 1])

move_left(t) == IF t.cmd_cursor = 0 THEN t ELSE [t EXCEPT !.cmd_cursor = @ - 1, !.col = (@ - 1) % USIZE]

move_right(t) ==
    IF t.cmd_cursor = Len(t.cmd_buf) THEN t ELSE [t EXCEPT !.cmd_cursor = @ + 1, !.col = (@ + 1) % USIZE]

-----------------------------------------------------------------------------
(* Steps: one key, one frame, one move of the mouse, one result. *)

new ==
    LET t == [lines |-> [r \in 1..SCROLLBACK |-> BlankLine], cols |-> CHOOSE w \in Widths : TRUE,
              col |-> 0, row |-> 0, cmd_buf |-> <<>>, cmd_cursor |-> 0, prompt_row |-> 0,
              prompt_col |-> 0, history |-> <<>>, history_idx |-> 0, select_anchor |-> None,
              select_head |-> None, render_start |-> 0, render_rows |-> 1, down |-> FALSE]
    IN show_prompt(t)

TermInit == term = new /\ clipboard = <<>> /\ plain = TRUE /\ keys = 0

Fits(t) == t.prompt_col + Len(t.cmd_buf) < t.cols

\* Every key but Left, Right and Copy ends the selection first.
unselected == [term EXCEPT !.select_anchor = None, !.select_head = None]

Input == ~term.down /\ keys < KEYS /\ keys' = keys + 1

\* A key that leaves a new prompt starts a plain line again when it is empty.
Becomes(t) == Input /\ term' = t /\ UNCHANGED clipboard

Keeps(t) == Becomes(t) /\ plain' = (plain /\ Fits(t))

Enter(out) == Becomes(enter(unselected, out)) /\ plain' = Fits(term')
CtrlC ==
    /\ Becomes(show_prompt(print([unselected EXCEPT !.cmd_buf = <<>>], <<"^", "C", Newline>>)))
    /\ plain' = Fits(term')
CtrlL == Becomes(show_prompt(clear_screen(unselected))) /\ plain' = (term'.cmd_buf = <<>>)
CtrlA == Keeps([unselected EXCEPT !.col = term.prompt_col, !.cmd_cursor = 0])
CtrlE ==
    Keeps([unselected EXCEPT !.cmd_cursor = Len(term.cmd_buf),
                             !.col = term.prompt_col + Len(term.cmd_buf)])
Backspace == Keeps(backspace(unselected))
Tab == Keeps(tab_complete(unselected))
Up == Keeps(history_up(unselected))
Down == Keeps(history_down(unselected))
Left(shift) == Keeps(sync_selection_head(move_left(update_selection_anchor(term, shift))))
Right(shift) == Keeps(sync_selection_head(move_right(update_selection_anchor(term, shift))))
Printable(ch) == Keeps(insert_char(unselected, ch))
Paste == Keeps(paste_clipboard(unselected, clipboard))
Copy ==
    /\ Input
    /\ clipboard' = copy_selection(term, clipboard)
    /\ UNCHANGED <<term, plain>>

MouseDown(r, c) ==
    LET p == hit_test(term, r, c) IN Keeps([term EXCEPT !.select_anchor = p, !.select_head = p])
MouseDrag(r, c) == term.select_anchor # None /\ Keeps([term EXCEPT !.select_head = hit_test(term, r, c)])
DoubleClick(r, c) == Keeps(select_line(term, hit_test(term, r, c)[1]))

\* render(): the columns follow the window, and the rows shown end at the cursor.
Render(w, h) ==
    LET t == IF w = term.cols THEN term
             ELSE [term EXCEPT !.cols = w, !.col = IF @ >= w THEN w - 1 ELSE @,
                               !.prompt_col = IF @ >= w THEN 0 ELSE @]
    IN Keeps([t EXCEPT !.render_start = IF t.row + 1 >= h THEN t.row + 1 - h ELSE 0,
                       !.render_rows = IF h = 0 THEN 1 ELSE h])

Async(msg) ==
    /\ Becomes(print_async(term, msg))
    /\ plain' = (plain /\ term.cmd_buf = <<>> /\ Fits(term'))

TermNext ==
    \/ \E out \in Outputs \cup {Clear} : Enter(out)
    \/ CtrlC
    \/ CtrlL
    \/ CtrlA
    \/ CtrlE
    \/ Backspace
    \/ Tab
    \/ Up
    \/ Down
    \/ \E shift \in BOOLEAN : Left(shift)
    \/ \E shift \in BOOLEAN : Right(shift)
    \/ \E ch \in Chars \cup {Space} : Printable(ch)
    \/ Paste
    \/ Copy
    \/ \E p \in Pointers : MouseDown(p[1], p[2])
    \/ \E p \in Pointers : MouseDrag(p[1], p[2])
    \/ \E p \in Pointers : DoubleClick(p[1], p[2])
    \/ \E w \in Widths, h \in Heights : Render(w, h)
    \/ \E msg \in Outputs : Async(msg)

TermSpec == TermInit /\ [][TermNext]_termVars

-----------------------------------------------------------------------------
(* Properties. *)

\* Types, with what the slices and removals of the code rely on: the cursor is
\* in the input line and the history position is an entry.
TermTypeOK ==
    /\ term.row \in 0..(SCROLLBACK - 1) /\ term.cols \in Widths
    /\ DOMAIN term.lines = 1..SCROLLBACK
    /\ term.cmd_cursor \in 0..Len(term.cmd_buf)
    /\ term.history_idx \in 0..Len(term.history) /\ Len(term.history) <= HISTORY
    /\ plain \in BOOLEAN

\* While the input fits its row and no background result arrived over it, the
\* prompt row shows exactly the text Enter would run, and the cursor stands at
\* the character the next key is put before.
InputShown ==
    plain /\ ~term.down =>
        /\ term.row = term.prompt_row
        /\ term.col = term.prompt_col + term.cmd_cursor
        /\ \A c \in term.prompt_col..(term.cols - 1) :
             term.lines[term.row + 1][c] =
                 IF c - term.prompt_col < Len(term.cmd_buf)
                 THEN term.cmd_buf[c - term.prompt_col + 1] ELSE Space

\* Copy takes exactly the cells that are highlighted, row by row, without the
\* blanks that end a row.
Highlighted(line) ==
    LET cells == selection_cols_for_line(term, line)
        text == [i \in 1..MAX_COLS |-> IF (i - 1) \in cells THEN term.lines[line + 1][i - 1] ELSE "none"]
    IN TrimRight(SelectSeq(text, LAMBDA ch : ch # "none"))
CopyIsHighlighted ==
    selection_range(term) # None =>
        LET r == selection_range(term)
            rows == [i \in 1..(r[2][1] - r[1][1] + 1) |->
                        Highlighted(r[1][1] + i - 1) \o
                            (IF r[1][1] + i - 1 = r[2][1] THEN <<>> ELSE <<Newline>>)]
        IN copy_selection(term, clipboard) = FlattenSeq(rows)

\* What the terminal shows is what it uses: the line on the screen is the line
\* Enter runs, the highlighted cells are those Copy takes, and cursor and
\* history position are inside their line and list.
ShownIsUsed == TermTypeOK /\ InputShown /\ CopyIsHighlighted
=============================================================================
