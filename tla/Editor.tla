------------------------------- MODULE Editor -------------------------------
(***************************************************************************)
(* An editor window of editor.rs: the lines of the text, cursor, selection,*)
(* find mode, the text clipboard it shares with the terminals, and the     *)
(* file it saves to.  Colours and the status texts are left out, except    *)
(* that the unsaved-changes warning was given.                             *)
(*                                                                         *)
(* Rows and columns count from 0.  A slice, insertion or removal outside   *)
(* the text is a panic: the kernel stands still (field down).              *)
(***************************************************************************)
EXTENDS Integers, SequencesExt

CONSTANTS
    Chars,     \* printable characters other than the space
    Contents,  \* what the opened file may hold
    PageRows,  \* numbers of rows render() finds to fit the window
    Pointers,  \* rows and columns of the window the mouse is used at
    KEYS       \* bound on the keys, clicks and frames

Space == " "
Newline == "newline"
None == <<>>

VARIABLES
    ed,         \* the fields of Editor
    file,       \* the text on disk, which save() writes
    disk,       \* whether the boot found an NVMe controller
    clipboard,  \* the text clipboard
    clean,      \* history: see ForgetsAnchor and ForgetsMatches
    warned,     \* history: the user was told of the unsaved text as it is now
    keys        \* history: how many keys, clicks and frames there were

edVars == <<ed, file, disk, clipboard, clean, warned, keys>>

Smaller(a, b) == IF a < b THEN a ELSE b
Take(s, n) == SubSeq(s, 1, Smaller(n, Len(s)))
Drop(s, n) == SubSeq(s, n + 1, Len(s))
Before(a, b) == a[1] < b[1] \/ (a[1] = b[1] /\ a[2] <= b[2])

\* The text as one sequence, the way save() writes it, and the lines of one.
Flat(lines) ==
    FoldLeft(LAMBDA acc, line : acc \o <<Newline>> \o line, Head(lines), Tail(lines))
split(text) ==
    LET put(lines, ch) ==
            IF ch = Newline THEN Append(lines, <<>>)
            ELSE [lines EXCEPT ![Len(lines)] = Append(@, ch)]
    IN FoldLeft(put, <<<<>>>>, text)

Row(e, r) == e.lines[r + 1]
Cursor(e) == <<e.row, e.col>>
InText(e, p) == p[1] < Len(e.lines) /\ p[2] <= Len(Row(e, p[1]))

ensure_visible(e) == IF e.row < e.scroll THEN [e EXCEPT !.scroll = e.row] ELSE e
Panic(e) == [e EXCEPT !.down = TRUE]

-----------------------------------------------------------------------------
(* Selection and clipboard. *)

selection_range(e) ==
    IF e.anchor = None \/ e.anchor = Cursor(e) THEN None
    ELSE IF Before(e.anchor, Cursor(e)) THEN <<e.anchor, Cursor(e)>>
    ELSE <<Cursor(e), e.anchor>>

\* What is left of the first and the last selected row is joined; ends outside
\* the text are clamped to it.
delete_selection_if_any(e) ==
    LET r == selection_range(e)
    IN IF r = None \/ e.down THEN e
       ELSE IF r[1][1] >= Len(e.lines) THEN Panic(e)
       ELSE LET s == r[1][1]
                last == Smaller(r[2][1], Len(e.lines) - 1)
                end == Smaller(r[2][2], Len(Row(e, last)))
                from == IF r[1][1] = r[2][1] THEN Smaller(r[1][2], end)
                        ELSE Smaller(r[1][2], Len(Row(e, s)))
                head == IF last = s THEN Take(Take(Row(e, s), end), from) ELSE Take(Row(e, s), from)
            IN [e EXCEPT !.lines = Take(@, s) \o <<head \o Drop(Row(e, last), end)>> \o Drop(@, last + 1),
                         !.row = s, !.col = r[1][2], !.anchor = None, !.modified = TRUE]

update_selection_anchor(e, shift) ==
    IF ~shift THEN [e EXCEPT !.anchor = None]
    ELSE IF e.anchor = None THEN [e EXCEPT !.anchor = Cursor(e)]
    ELSE e

\* The selected text, or None; it slices the text without clamping.
selected(e) ==
    LET r == selection_range(e)
        s == r[1]
        t == r[2]
    IN IF r = None THEN None
       ELSE IF s[1] = t[1] THEN SubSeq(Row(e, s[1]), s[2] + 1, t[2])
       ELSE Flat(<<Drop(Row(e, s[1]), s[2])>> \o SubSeq(e.lines, s[1] + 2, t[1])
                 \o <<Take(Row(e, t[1]), t[2])>>)

CopyPanics(e) == LET r == selection_range(e) IN r # None /\ ~(InText(e, r[1]) /\ InText(e, r[2]))

-----------------------------------------------------------------------------
(* Editing. *)

insert_char(e, ch) ==
    IF e.down THEN e
    ELSE IF ~InText(e, Cursor(e)) THEN Panic(e)
    ELSE [e EXCEPT !.lines[e.row + 1] = InsertAt(@, e.col + 1, ch), !.col = @ + 1, !.modified = TRUE]

split_line(e) ==
    IF e.down THEN e
    ELSE IF ~InText(e, Cursor(e)) THEN Panic(e)
    ELSE [e EXCEPT !.lines = Take(@, e.row) \o <<Take(Row(e, e.row), e.col), Drop(Row(e, e.row), e.col)>>
                             \o Drop(@, e.row + 1),
                   !.row = @ + 1, !.col = 0, !.modified = TRUE]

insert_text(e, text) ==
    LET put(d, ch) == IF ch = Newline THEN split_line(d) ELSE insert_char(d, ch)
    IN [ensure_visible(FoldLeft(put, e, text)) EXCEPT !.modified = TRUE]

paste_clipboard(e, clip) == insert_text(delete_selection_if_any(e), clip)

\* Mutant: joining rows is not taken for a change.
join_rows_Unmarked(e, r) ==
    [e EXCEPT !.lines = Take(@, r) \o <<Row(e, r) \o Row(e, r + 1)>> \o Drop(@, r + 2)]

\* Row r + 1 is appended to row r.
join_rows(e, r) ==
    [e EXCEPT !.lines = Take(@, r) \o <<Row(e, r) \o Row(e, r + 1)>> \o Drop(@, r + 2), !.modified = TRUE]

\* Mutant: after a join the cursor is at the start of the row.
backspace_ToStart(e) ==
    IF selection_range(e) = None /\ e.col = 0 /\ e.row > 0
    THEN ensure_visible([join_rows(e, e.row - 1) EXCEPT !.row = @ - 1, !.col = 0])
    ELSE e

backspace(e) ==
    CASE selection_range(e) # None -> ensure_visible(delete_selection_if_any(e))
      [] selection_range(e) = None /\ e.col > 0 ->
           IF ~InText(e, Cursor(e)) THEN Panic(e)
           ELSE [e EXCEPT !.lines[e.row + 1] = RemoveAt(@, e.col), !.col = @ - 1, !.modified = TRUE]
      [] selection_range(e) = None /\ e.col = 0 /\ e.row > 0 ->
           IF e.row >= Len(e.lines) THEN Panic(e)
           ELSE ensure_visible([join_rows(e, e.row - 1) EXCEPT !.row = @ - 1,
                                                               !.col = Len(Row(e, e.row - 1))])
      [] OTHER -> e

delete(e) ==
    CASE selection_range(e) # None -> ensure_visible(delete_selection_if_any(e))
      [] selection_range(e) = None /\ e.row >= Len(e.lines) -> Panic(e)
      [] OTHER ->
           IF e.col < Len(Row(e, e.row))
           THEN [e EXCEPT !.lines[e.row + 1] = RemoveAt(@, e.col + 1), !.modified = TRUE]
           ELSE IF e.row + 1 < Len(e.lines) THEN join_rows(e, e.row) ELSE e

-----------------------------------------------------------------------------
(* Moving the cursor. *)

\* To a row, at the column or the end of the row if that is nearer.
clamp_col(e, row) ==
    IF row >= Len(e.lines) THEN Panic(e)
    ELSE ensure_visible([e EXCEPT !.row = row, !.col = Smaller(@, Len(Row(e, row)))])

goto(e, row, col) == ensure_visible([e EXCEPT !.row = row, !.col = col])

up(e) == IF e.row > 0 THEN clamp_col(e, e.row - 1) ELSE e
down(e) == IF e.row + 1 < Len(e.lines) THEN clamp_col(e, e.row + 1) ELSE e
left(e) ==
    IF e.col > 0 THEN [e EXCEPT !.col = @ - 1]
    ELSE IF e.row = 0 THEN e
    ELSE IF e.row > Len(e.lines) THEN Panic(e)
    ELSE goto(e, e.row - 1, Len(Row(e, e.row - 1)))
right(e) ==
    IF e.row >= Len(e.lines) THEN Panic(e)
    ELSE IF e.col < Len(Row(e, e.row)) THEN [e EXCEPT !.col = @ + 1]
    ELSE IF e.row + 1 < Len(e.lines) THEN goto(e, e.row + 1, 0)
    ELSE e
home(e, ctrl) == IF ctrl THEN [e EXCEPT !.row = 0, !.col = 0, !.scroll = 0] ELSE [e EXCEPT !.col = 0]
end(e, ctrl) ==
    IF ctrl THEN goto(e, Len(e.lines) - 1, Len(Last(e.lines)))
    ELSE IF e.row >= Len(e.lines) THEN Panic(e)
    ELSE [e EXCEPT !.col = Len(Row(e, e.row))]
page_up(e) == clamp_col(e, IF e.row > e.page THEN e.row - e.page ELSE 0)
page_down(e) == clamp_col(e, Smaller(e.row + e.page, Len(e.lines) - 1))

\* The row and column of the text under the pointer.
hit_test(e, r, c) ==
    LET row == Smaller(e.scroll + Smaller(r, e.page - 1), Len(e.lines) - 1)
    IN <<row, Smaller(c, Len(Row(e, row)))>>

-----------------------------------------------------------------------------
(* Find mode. *)

find_all(lines, query) ==
    LET hits(r) == {c \in 0..(Len(lines[r]) - Len(query)) : SubSeq(lines[r], c + 1, c + Len(query)) = query}
    IN IF query = <<>> THEN <<>>
       ELSE FlattenSeq([r \in DOMAIN lines |->
                [i \in DOMAIN SetToSortSeq(hits(r), <) |-> <<r - 1, SetToSortSeq(hits(r), <)[i]>>]])

to_match(e, i) ==
    goto([e EXCEPT !.idx = i], e.matches[i + 1][1], e.matches[i + 1][2])

find_jump_nearest(e) ==
    LET first == SelectInSeq(e.matches, LAMBDA m : Before(Cursor(e), m))
    IN IF e.matches = <<>> THEN e ELSE to_match(e, IF first = 0 THEN 0 ELSE first - 1)

find_next(e) == IF e.matches = <<>> THEN e ELSE to_match(e, (e.idx + 1) % Len(e.matches))

\* Mutant: the matches are those of the query before the key.
searched_Late(e, query) ==
    find_jump_nearest([e EXCEPT !.query = query, !.matches = find_all(e.lines, e.query)])

searched(e, query) ==
    find_jump_nearest([e EXCEPT !.query = query, !.matches = find_all(e.lines, query)])

-----------------------------------------------------------------------------
(* Steps: one key, one click, one frame. *)

new(text) ==
    [lines |-> split(text), row |-> 0, col |-> 0, scroll |-> 0, page |-> 20, anchor |-> None,
     modified |-> FALSE, open |-> TRUE, find |-> FALSE, query |-> <<>>, matches |-> <<>>, idx |-> 0,
     down |-> FALSE]

EdInit ==
    /\ file \in Contents /\ disk \in BOOLEAN
    /\ ed = new(file)
    /\ clipboard = <<>> /\ clean = TRUE /\ warned = FALSE /\ keys = 0

Input == ed.open /\ ~ed.down /\ keys < KEYS /\ keys' = keys + 1
TextKey == Input /\ ~ed.find

\* Backspace moves the cursor away from the anchor a plain click left there,
\* and a paste from the menu moves the text under the matches of find mode.
\* What the code remembers of positions may be outside the text from then on.
ForgetsAnchor == ed.anchor = Cursor(ed)
ForgetsMatches == ed.query # <<>>

Edits(e) ==
    /\ ed' = e /\ warned' = (warned /\ e = ed)
    /\ UNCHANGED <<file, disk, clipboard>>

Printable(ch) == TextKey /\ Edits(insert_char(delete_selection_if_any(ed), ch)) /\ UNCHANGED clean
Tab ==
    /\ TextKey
    /\ Edits(FoldLeft(insert_char, delete_selection_if_any(ed), [i \in 1..4 |-> Space]))
    /\ UNCHANGED clean
Enter == TextKey /\ Edits(ensure_visible(split_line(delete_selection_if_any(ed)))) /\ UNCHANGED clean
Backspace == TextKey /\ Edits(backspace(ed)) /\ clean' = (clean /\ ~ForgetsAnchor)
Delete == TextKey /\ Edits(delete(ed)) /\ UNCHANGED clean
Paste == TextKey /\ Edits(paste_clipboard(ed, clipboard)) /\ UNCHANGED clean

\* The context menu pastes and copies in find mode as well.
MenuPaste == Input /\ Edits(paste_clipboard(ed, clipboard)) /\ clean' = (clean /\ ~ForgetsMatches)

Copies ==
    /\ IF CopyPanics(ed) THEN ed' = Panic(ed) /\ UNCHANGED clipboard
       ELSE ed' = ed /\ clipboard' = IF selection_range(ed) = None THEN clipboard ELSE selected(ed)
    /\ UNCHANGED <<file, disk, clean, warned>>
Copy == TextKey /\ Copies
MenuCopy == Input /\ Copies

Becomes(e) == ed' = e /\ UNCHANGED <<file, disk, clipboard, clean, warned>>
Moves(e) == TextKey /\ Becomes(e)

Up(shift) == Moves(up(update_selection_anchor(ed, shift)))
Down(shift) == Moves(down(update_selection_anchor(ed, shift)))
Left(shift) == Moves(left(update_selection_anchor(ed, shift)))
Right(shift) == Moves(right(update_selection_anchor(ed, shift)))
Home(shift, ctrl) == Moves(home(update_selection_anchor(ed, shift), ctrl))
End(shift, ctrl) == Moves(end(update_selection_anchor(ed, shift), ctrl))
PageUp(shift) == Moves(page_up(update_selection_anchor(ed, shift)))
PageDown(shift) == Moves(page_down(update_selection_anchor(ed, shift)))

Save ==
    /\ TextKey
    /\ IF disk THEN file' = Flat(ed.lines) /\ ed' = [ed EXCEPT !.modified = FALSE]
       ELSE UNCHANGED <<file, ed>>
    /\ UNCHANGED <<disk, clipboard, clean, warned>>

\* Escape warns of unsaved changes once; pressed again, or F10, closes.
Escape ==
    /\ TextKey
    /\ ed' = IF ed.modified THEN [ed EXCEPT !.modified = FALSE] ELSE [ed EXCEPT !.open = FALSE]
    /\ warned' = (warned \/ ed.modified)
    /\ UNCHANGED <<file, disk, clipboard, clean>>
F10 == Moves([ed EXCEPT !.open = FALSE])

CtrlF ==
    /\ Input
    /\ Becomes(IF ed.find THEN find_next(ed)
               ELSE [ed EXCEPT !.find = TRUE, !.query = <<>>, !.matches = <<>>, !.idx = 0])
FindKey(e) == Input /\ ed.find /\ Becomes(e)
FindChar(ch) == FindKey(searched(ed, Append(ed.query, ch)))
FindBackspace == FindKey(searched(ed, IF ed.query = <<>> THEN <<>> ELSE Front(ed.query)))
FindNext == FindKey(find_next(ed))
FindEscape == FindKey([ed EXCEPT !.find = FALSE, !.query = <<>>, !.matches = <<>>])

Click(p) == Input /\ Becomes(goto([ed EXCEPT !.anchor = p], p[1], p[2]))
MouseDown(r, c) == Click(hit_test(ed, r, c))
MouseDrag(r, c) ==
    LET p == hit_test(ed, r, c) IN Input /\ Becomes(goto(ed, p[1], p[2]))
DoubleClick(r, c) ==
    LET p == hit_test(ed, r, c)
    IN Input /\ Becomes(goto([ed EXCEPT !.anchor = <<p[1], 0>>], p[1], Len(Row(ed, p[1]))))

\* The layout of a frame: the page size, and the scroll that shows the cursor.
Render(h) ==
    LET rows == IF ed.row >= ed.scroll + h THEN ed.row + 1 - h ELSE ed.scroll
    IN Input /\ Becomes([ed EXCEPT !.page = IF h = 0 THEN 1 ELSE h, !.scroll = Smaller(rows, ed.row)])

EdNext ==
    \/ \E ch \in Chars : Printable(ch) \/ FindChar(ch)
    \/ Tab
    \/ Enter
    \/ Backspace
    \/ Delete
    \/ Paste
    \/ MenuPaste
    \/ Copy
    \/ MenuCopy
    \/ \E shift \in BOOLEAN : Up(shift) \/ Down(shift) \/ Left(shift) \/ Right(shift)
    \/ \E shift, ctrl \in BOOLEAN : Home(shift, ctrl) \/ End(shift, ctrl)
    \/ \E shift \in BOOLEAN : PageUp(shift) \/ PageDown(shift)
    \/ Save
    \/ Escape
    \/ F10
    \/ CtrlF
    \/ FindBackspace
    \/ FindNext
    \/ FindEscape
    \/ \E p \in Pointers : MouseDown(p[1], p[2]) \/ MouseDrag(p[1], p[2]) \/ DoubleClick(p[1], p[2])
    \/ \E h \in PageRows : Render(h)

EdSpec == EdInit /\ [][EdNext]_edVars

-----------------------------------------------------------------------------
(* Properties. *)

\* Types, with what every slice of the code relies on: unless the editor has
\* lost track of a position, cursor and anchor are in the text and no key
\* panics.
EdTypeOK ==
    /\ ed.lines # <<>> /\ ed.page > 0 /\ ed.scroll >= 0
    /\ clean => ~ed.down /\ InText(ed, Cursor(ed)) /\ (ed.anchor # None => InText(ed, ed.anchor))

\* In find mode the matches are those of the text as it is, so that Enter goes
\* to one of them; cursor, anchor and matches are places in the text.
MatchesAreCurrent ==
    /\ EdTypeOK
    /\ clean /\ ed.find =>
          /\ ed.matches = find_all(ed.lines, ed.query)
          /\ ed.matches # <<>> => ed.idx < Len(ed.matches)

\* Text that is not on disk is marked modified until the user was warned of it.
NoUnmarkedChange == ~ed.modified => Flat(ed.lines) = file \/ warned

\* Copying a selection and pasting over it leaves the text as it was, with the
\* cursor at the end of what was pasted.
PasteOverCopyKeepsText ==
    clean /\ selection_range(ed) # None =>
        LET e == paste_clipboard(ed, selected(ed))
        IN e.lines = ed.lines /\ Cursor(e) = selection_range(ed)[2]

\* The lines behave as one text: every change is a key that replaces one stretch
\* of it, the selection or what is next to the cursor, and leaves the cursor
\* after what it put there.
Offset(e, p) == Len(Flat(Append(Take(e.lines, p[1]), Take(Row(e, p[1]), p[2]))))
Splice(text, a, b, put) == Take(text, a) \o put \o Drop(text, b)
EditIsSplice ==
    LET r == IF selection_range(ed) = None THEN <<Cursor(ed), Cursor(ed)>> ELSE selection_range(ed)
        a == Offset(ed, r[1])
        b == Offset(ed, r[2])
        text == Flat(ed.lines)
        Replaces(from, to, put) ==
            Flat(ed'.lines) = Splice(text, from, to, put) /\ Offset(ed', Cursor(ed')) = from + Len(put)
    IN clean /\ ed'.lines # ed.lines =>
        \/ \E ch \in Chars : Printable(ch) /\ Replaces(a, b, <<ch>>)
        \/ Enter /\ Replaces(a, b, <<Newline>>)
        \/ Tab /\ Replaces(a, b, [i \in 1..4 |-> Space])
        \/ (Paste \/ MenuPaste) /\ Replaces(a, b, clipboard)
        \/ Backspace /\ Replaces(IF a = b THEN a - 1 ELSE a, b, <<>>)
        \/ Delete /\ Replaces(a, IF a = b THEN b + 1 ELSE b, <<>>)

=============================================================================
