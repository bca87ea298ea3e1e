----------------------------- MODULE MCFileUse -----------------------------
(* The root holds the desktop directory (inode 1, with the file a, inode 4)  *)
(* and the folder d (inode 2), which holds the folder e (inode 3).           *)
EXTENDS FileUse

A == <<"a">>
D == <<"d">>
E == <<"e">>
DT == <<"desktop">>
Slots(es) == [s \in 1..SLOTS |-> IF s \in 1..Len(es) THEN [ino |-> es[s][1], name |-> es[s][2]] ELSE Hole]
Dir(es) == [flags |-> "dir", slots |-> Slots(es), data |-> 0]
MCBootFs ==
    [node |-> [i \in Inos |-> CASE i = 0 -> Dir(<< <<1, DT>>, <<2, D>> >>)
                                [] i = 1 -> Dir(<< <<4, A>> >>)
                                [] i = 2 -> Dir(<< <<3, E>> >>)
                                [] i = 3 -> Dir(<<>>)
                                [] i = 4 -> [Inode("file") EXCEPT !.data = 1]
                                [] OTHER -> Inode("free")],
     gen |-> 0, panic |-> FALSE, orphan |-> FALSE, moved |-> FALSE, twins |-> FALSE]
MCDesktopPath == <<DT>>
MCPrograms == <<"terminal">>
MCTypedNames == {A, <<>>, <<"x", 1, 1>>}
MCArgs == {[abs |-> FALSE, parts |-> <<A>>], [abs |-> FALSE, parts |-> <<D>>], [abs |-> FALSE, parts |-> <<E>>],
           [abs |-> TRUE, parts |-> <<>>], [abs |-> TRUE, parts |-> <<DT>>]}
=============================================================================
