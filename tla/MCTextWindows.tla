---------------------------- MODULE MCTextWindows ----------------------------
(* Small text windows for model checking. *)
EXTENDS TextWindows

TwoWords == {<<"a", "a">>, <<"a", "b">>}
OneLine == {<<>>, <<"b">>}
SmallPrompt == <<"b">>
TwoLines == {<<"a", "newline", "b", "a">>}
TwoPointers == {<<0, 1>>, <<1, 0>>}
=============================================================================
