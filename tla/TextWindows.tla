----------------------------- MODULE TextWindows -----------------------------
(***************************************************************************)
(* A terminal and an editor window with the text clipboard between them    *)
(* (clipboard.rs), of which one has the focus and gets the keys.  The two  *)
(* touch each other through the clipboard alone, so the focus is moved only*)
(* after something was copied.                                             *)
(***************************************************************************)
EXTENDS Terminal

CONSTANTS
    Contents, PageRows, EDIT_KEYS,   \* of Editor; its bound on the keys
    REFOCUS_BY                       \* bound on the keys before the focus moves

VARIABLES
    ed, file, disk, clean, warned,   \* of Editor
    focus                            \* the window with the focus

E == INSTANCE Editor WITH KEYS <- EDIT_KEYS

edOnly == <<ed, file, disk, clean, warned>>
textVars == <<termVars, edOnly, focus>>

TextInit == TermInit /\ E!EdInit /\ focus \in {"terminal", "editor"}

InTerminal == focus = "terminal" /\ TermNext /\ UNCHANGED <<edOnly, focus>>
InEditor == focus = "editor" /\ E!EdNext /\ UNCHANGED <<term, plain, focus>>

\* A click on the title bar of the other window.
Refocus ==
    /\ clipboard # <<>> /\ keys <= REFOCUS_BY /\ ~term.down /\ ~ed.down
    /\ focus' \in {"terminal", "editor"} \ {focus}
    /\ UNCHANGED <<termVars, edOnly>>

TextNext == InTerminal \/ InEditor \/ Refocus

TextSpec == TextInit /\ [][TextNext]_textVars

-----------------------------------------------------------------------------
\* The matches of find mode are those of the text, and cursor, anchor and
\* matches are places in it (editor.rs).
MatchesAreCurrent == E!MatchesAreCurrent

\* Text that is not on disk is marked modified until the user was warned of it.
NoUnmarkedChange == E!NoUnmarkedChange

\* Every edit is a splice of one text, and what Copy takes is what a splice
\* replaces, also with what was copied in the terminal.
EditsAreSplices == [][E!EditIsSplice /\ E!PasteOverCopyKeepsText]_<<edOnly, clipboard, keys>>
=============================================================================
