------------------------------ MODULE FileTree ------------------------------
(***************************************************************************)
(* What HepFS promises: a tree of directories and files.  A node is a      *)
(* directory with named kids or a file with its bytes.  create_file() and  *)
(* create_dir() do not look for an entry of the same name, so a directory  *)
(* may hold two; rename() and move_entry() refuse to make a second one.    *)
(***************************************************************************)
EXTENDS Sequences

CONSTANTS Nodes, Root, Names, Datas

VARIABLE tree

Folder(kids) == [dir |-> TRUE, data |-> <<>>, kids |-> kids]
File(data) == [dir |-> FALSE, data |-> data, kids |-> {}]

Folders(t) == {i \in DOMAIN t : t[i].dir}
Named(t, p, n) == {k \in t[p].kids : k.name = n}

\* Each operation as a relation between the tree before and after.
Create(t, u, p, n, i, node) ==
    /\ i \notin DOMAIN t
    /\ u = [j \in DOMAIN t \cup {i} |->
               IF j = i THEN node
               ELSE IF j = p THEN Folder(t[p].kids \cup {[name |-> n, ino |-> i]})
               ELSE t[j]]

Write(t, u, i, data) ==
    /\ ~t[i].dir
    /\ u = [t EXCEPT ![i] = File(data)]

Remove(t, u, p, k) ==
    /\ t[k.ino].kids = {}
    /\ u = [j \in DOMAIN t \ {k.ino} |->
               IF j = p THEN Folder(t[p].kids \ {k}) ELSE t[j]]

Rename(t, u, p, k, n) ==
    /\ Named(t, p, n) = {}
    /\ u = [t EXCEPT ![p].kids = (@ \ {k}) \cup {[k EXCEPT !.name = n]}]

Move(t, u, p, q, k) ==
    /\ p # q
    /\ Named(t, q, k.name) = {}
    /\ u = [t EXCEPT ![p].kids = @ \ {k}, ![q].kids = @ \cup {k}]

Step(t, u) ==
    \/ \E p \in Folders(t), n \in Names, i \in Nodes :
         Create(t, u, p, n, i, File(<<>>)) \/ Create(t, u, p, n, i, Folder({}))
    \/ \E i \in DOMAIN t, data \in Datas : Write(t, u, i, data)
    \/ \E p \in Folders(t) : \E k \in t[p].kids :
         \/ Remove(t, u, p, k)
         \/ \E n \in Names : Rename(t, u, p, k, n)
         \/ \E q \in Folders(t) : Move(t, u, p, q, k)

Init == tree = [i \in {Root} |-> Folder({})]

Next == \E t \in {tree}, u \in {tree'} : t # u /\ Step(t, u)

Spec == Init /\ [][Next]_tree
=============================================================================
