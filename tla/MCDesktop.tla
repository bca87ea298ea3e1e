----------------------------- MODULE MCDesktop -----------------------------
(* The desktop with three of its boot windows: a terminal on the screen, an  *)
(* editor and the settings hidden.                                           *)
EXTENDS Desktop

MCBoot == <<"terminal", "editor", "settings">>
MCHiddenAtBoot == {1, 2}
=============================================================================
