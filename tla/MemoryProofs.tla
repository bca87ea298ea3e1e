---------------------------- MODULE MemoryProofs ----------------------------
(***************************************************************************)
(* Proofs about Memory: for any number of tasks, pages and chunks, no byte *)
(* is handed out twice unless alloc_contiguous() has lost its race.        *)
(*                                                                         *)
(* Memory in use is of three kinds: blocks the tasks have (h), what their  *)
(* operations have in hand (g), and chunks on the free list (l).  Every    *)
(* operation moves units from one kind to another, takes the units of a    *)
(* page whose bit was clear, or lets some go.  The first part shows, for   *)
(* each of these moves, that what was apart stays apart.                   *)
(***************************************************************************)
EXTENDS Memory, FiniteSetTheorems, SequenceTheorems, WellFoundedInduction, TLAPS

\* How long, in seconds, a prover may take over one leaf.
USE ZenonT(60)

\* No two claims share a unit.
Apart(h, g, l) ==
    /\ \A t, u \in Tasks : \A b \in h[t], c \in h[u] :
         t # u \/ b # c => Units(b) \cap Units(c) = {}
    /\ \A t, u \in Tasks : \A b \in h[t] : Units(b) \cap g[u] = {}
    /\ \A t, u \in Tasks : t # u => g[t] \cap g[u] = {}
    /\ \A i, j \in DOMAIN l : i # j => Units(l[i]) \cap Units(l[j]) = {}
    /\ \A i \in DOMAIN l, t \in Tasks : \A b \in h[t] : Units(l[i]) \cap Units(b) = {}
    /\ \A i \in DOMAIN l, t \in Tasks : Units(l[i]) \cap g[t] = {}

\* Every claim lies on pages whose bits are set.
Within(h, g, l, pages) ==
    /\ \A t \in Tasks : \A b \in h[t] : Units(b) \subseteq UnitsOf(pages)
    /\ \A t \in Tasks : g[t] \subseteq UnitsOf(pages)
    /\ \A i \in DOMAIN l : Units(l[i]) \subseteq UnitsOf(pages)

Sound(h, g, l, pages) == Apart(h, g, l) /\ Within(h, g, l, pages)

\* What a task has in hand, and a block more or less of it.
Put(g, t, X) == [g EXCEPT ![t] = X]
Give1(h, t, b) == [h EXCEPT ![t] = @ \cup {b}]
Take1(h, t, b) == [h EXCEPT ![t] = @ \ {b}]

\* Blocks of Y that are apart from each other and from X.
Pieces(s, Y, X) ==
    /\ \A i \in DOMAIN s : Units(s[i]) \subseteq Y /\ Units(s[i]) \cap X = {}
    /\ \A i, j \in DOMAIN s : i # j => Units(s[i]) \cap Units(s[j]) = {}

-----------------------------------------------------------------------------
(* Moves *)

\* A set of pages has a lowest one: what trailing_ones() finds in a word.
LEMMA LowestPage ==
    ASSUME NEW S, S \subseteq Page, S # {}
    PROVE  Min(S) \in S
  <1>1. S \subseteq Nat
    BY BitmapShape, SMTT(60) DEF Page
  <1> DEFINE R == OpToRel(<, Nat)
  <1>r. IsWellFoundedOn(R, Nat)
    BY NatLessThanWellFounded
  <1>s. \A x, y \in Nat : y < x => <<y, x>> \in R
    BY DEF OpToRel
  <1> HIDE DEF R
  <1>2. PICK x \in S : \A y \in S : ~(<<y, x>> \in R)
    BY <1>1, <1>r, WFMin
  <1>3. ASSUME NEW y \in S PROVE x =< y
    <2>1. x \in Nat /\ y \in Nat /\ ~(<<y, x>> \in R)
      BY <1>1, <1>2
    <2>2. ~(y < x)
      BY <1>s, <2>1
    <2> QED
      BY <2>1, <2>2, SMTT(60)
  <1> QED
    BY <1>3 DEF Min

\* The pages of the memory map can be counted.
LEMMA TrackedIsFinite == Usable \subseteq Page => Cardinality(Usable) \in Nat
  <1>1. IsFiniteSet(Page)
    BY BitmapShape, FS_Interval, SMTT(60) DEF Page
  <1> QED
    BY <1>1, FS_Subset, FS_CardinalityType

\* Units of pages.
LEMMA PageUnits ==
    ASSUME NEW P, NEW Q
    PROVE  /\ UnitsOf(P \cup Q) = UnitsOf(P) \cup UnitsOf(Q)
           /\ P \cap Q = {} => UnitsOf(P) \cap UnitsOf(Q) = {}
           /\ P \subseteq Q => UnitsOf(P) \subseteq UnitsOf(Q)
  BY DEF UnitsOf

\* A claim clear of page p survives the clearing of its bit.
LEMMA ClearPage ==
    ASSUME NEW X, NEW P, NEW p, X \subseteq UnitsOf(P), X \cap UnitsOf({p}) = {}
    PROVE  X \subseteq UnitsOf(P \ {p})
  BY SMTT(60) DEF UnitsOf

\* A page whose bit is clear is in nobody's hands: a task may take it.
LEMMA TakeFresh ==
    ASSUME NEW h, NEW g, NEW l, NEW pages, NEW t \in Tasks, NEW p,
           Sound(h, g, l, pages), p \notin pages, DOMAIN g = Tasks
    PROVE  Sound(h, Put(g, t, g[t] \cup UnitsOf({p})), l, pages \cup {p})
  <1> DEFINE F == UnitsOf({p})
             U == UnitsOf(pages)
  <1>1. F \cap U = {} /\ UnitsOf(pages \cup {p}) = U \cup F
    <2>1. {p} \cap pages = {}
      OBVIOUS
    <2> QED
      BY <2>1, PageUnits
  <1> DEFINE gg == Put(g, t, g[t] \cup UnitsOf({p}))
  <1>2. gg[t] = g[t] \cup F /\ \A u \in Tasks : u # t => gg[u] = g[u]
    BY DEF Put
  <1> HIDE DEF gg
  <1>3. \A u \in Tasks : gg[u] \subseteq g[u] \cup F
    BY <1>2
  <1>w. Within(h, g, l, pages) /\ Apart(h, g, l)
    BY DEF Sound
  <1> HIDE DEF F, U
  <1>4. Within(h, gg, l, pages \cup {p})
    BY <1>1, <1>3, <1>w DEF Within, U
  <1>5. Apart(h, gg, l)
    <2>1. ASSUME NEW u \in Tasks, NEW v \in Tasks, NEW b \in h[u] PROVE Units(b) \cap gg[v] = {}
      <3>1. Units(b) \subseteq U /\ Units(b) \cap g[v] = {}
        BY <1>w DEF Within, Apart, U
      <3> QED
        BY <1>1, <1>3, <3>1
    <2>2. \A u, v \in Tasks : u # v => gg[u] \cap gg[v] = {}
      BY <1>1, <1>2, <1>w, SMTT(60) DEF Within, Apart, U
    <2>3. \A i \in DOMAIN l, u \in Tasks : Units(l[i]) \cap gg[u] = {}
      BY <1>1, <1>3, <1>w DEF Within, Apart, U
    <2> QED
      BY <1>w, <2>1, <2>2, <2>3 DEF Apart
  <1> QED
    BY <1>4, <1>5 DEF Sound, gg

\* A task may let go of what it has in hand.
LEMMA LetGo ==
    ASSUME NEW h, NEW g, NEW l, NEW pages, NEW t \in Tasks, NEW X,
           Sound(h, g, l, pages), X \subseteq g[t], DOMAIN g = Tasks
    PROVE  Sound(h, Put(g, t, X), l, pages)
  <1> DEFINE gg == Put(g, t, X)
  <1>1. \A u \in Tasks : gg[u] \subseteq g[u]
    BY DEF Put
  <1> HIDE DEF gg
  <1>2. Sound(h, gg, l, pages)
    BY <1>1, SMTT(60) DEF Sound, Apart, Within
  <1> QED
    BY <1>2 DEF gg

\* What it has let go of may be cleared.
LEMMA LetGoPage ==
    ASSUME NEW h, NEW g, NEW l, NEW pages, NEW t \in Tasks, NEW X, NEW p,
           Sound(h, g, l, pages), X \subseteq g[t], DOMAIN g = Tasks,
           UnitsOf({p}) \subseteq g[t], X \cap UnitsOf({p}) = {}
    PROVE  Sound(h, Put(g, t, X), l, pages \ {p})
  <1> DEFINE gg == Put(g, t, X)
  <1>1. Sound(h, gg, l, pages)
    BY LetGo
  <1>2. /\ \A u \in Tasks : \A b \in h[u] : Units(b) \cap UnitsOf({p}) = {}
        /\ \A u \in Tasks : gg[u] \cap UnitsOf({p}) = {}
        /\ \A i \in DOMAIN l : Units(l[i]) \cap UnitsOf({p}) = {}
    BY DEF Sound, Apart, Put
  <1> HIDE DEF gg
  <1>3. Within(h, gg, l, pages \ {p})
    BY <1>1, <1>2, ClearPage DEF Sound, Within
  <1> QED
    BY <1>1, <1>3 DEF Sound, gg

\* What a task has in hand becomes a block of its own.
LEMMA HandToBlock ==
    ASSUME NEW h, NEW g, NEW l, NEW pages, NEW t \in Tasks, NEW b,
           Sound(h, g, l, pages), Units(b) \subseteq g[t], DOMAIN g = Tasks, DOMAIN h = Tasks
    PROVE  Sound(Give1(h, t, b), Put(g, t, {}), l, pages)
  <1> DEFINE hh == Give1(h, t, b)
             gg == Put(g, t, {})
  <1>1. gg[t] = {} /\ \A u \in Tasks : u # t => gg[u] = g[u]
    BY DEF Put
  <1>2. hh[t] = h[t] \cup {b} /\ \A u \in Tasks : u # t => hh[u] = h[u]
    BY DEF Give1
  <1> HIDE DEF hh, gg
  <1>w. Within(h, g, l, pages) /\ Apart(h, g, l)
    BY DEF Sound
  <1>3. \A u \in Tasks : \A c \in hh[u] : (c \in h[u]) \/ (u = t /\ c = b)
    BY <1>2
  <1>4. Within(hh, gg, l, pages)
    BY <1>1, <1>3, <1>w DEF Within
  <1>5. \A u \in Tasks : \A c \in h[u] : Units(c) \cap Units(b) = {}
    BY <1>w DEF Apart
  <1>6. \A u \in Tasks : u # t => g[u] \cap Units(b) = {}
    BY <1>w DEF Apart
  <1>7. \A i \in DOMAIN l : Units(l[i]) \cap Units(b) = {}
    BY <1>w DEF Apart
  <1>8. Apart(hh, gg, l)
    <2>1. ASSUME NEW u \in Tasks, NEW v \in Tasks, NEW c \in hh[u], NEW d \in hh[v], u # v \/ c # d
          PROVE  Units(c) \cap Units(d) = {}
      <3>1. CASE c \in h[u] /\ d \in h[v]
        BY <1>w, <2>1, <3>1 DEF Apart
      <3>2. CASE ~(c \in h[u] /\ d \in h[v])
        BY <1>3, <1>5, <2>1, <3>2
      <3> QED
        BY <3>1, <3>2
    <2>2. \A u, v \in Tasks : \A c \in hh[u] : Units(c) \cap gg[v] = {}
      BY <1>1, <1>3, <1>6, <1>w, SMTT(60) DEF Apart
    <2>3. \A u, v \in Tasks : u # v => gg[u] \cap gg[v] = {}
      BY <1>1, <1>w DEF Apart
    <2>4. \A i \in DOMAIN l, u \in Tasks : \A c \in hh[u] : Units(l[i]) \cap Units(c) = {}
      BY <1>3, <1>7, <1>w DEF Apart
    <2>5. \A i \in DOMAIN l, u \in Tasks : Units(l[i]) \cap gg[u] = {}
      BY <1>1, <1>w DEF Apart
    <2>6. \A i, j \in DOMAIN l : i # j => Units(l[i]) \cap Units(l[j]) = {}
      BY <1>w DEF Apart
    <2> QED
      BY <2>1, <2>2, <2>3, <2>4, <2>5, <2>6 DEF Apart
  <1> QED
    BY <1>4, <1>8 DEF Sound, hh, gg

\* A block a task gives back, its own or another's, goes into its hand.
LEMMA BlockToHand ==
    ASSUME NEW h, NEW g, NEW l, NEW pages, NEW t \in Tasks, NEW u \in Tasks, NEW b \in h[u],
           Sound(h, g, l, pages), g[t] = {}, DOMAIN g = Tasks, DOMAIN h = Tasks
    PROVE  Sound(Take1(h, u, b), Put(g, t, Units(b)), l, pages)
  <1> DEFINE hh == Take1(h, u, b)
             gg == Put(g, t, Units(b))
  <1>1. gg[t] = Units(b) /\ \A v \in Tasks : v # t => gg[v] = g[v]
    BY DEF Put
  <1>2. \A v \in Tasks : \A c \in hh[v] : c \in h[v] /\ (v # u \/ c # b)
    BY DEF Take1
  <1> HIDE DEF hh, gg
  <1>w. Within(h, g, l, pages) /\ Apart(h, g, l)
    BY DEF Sound
  <1>3. \A v \in Tasks : gg[v] = g[v] \/ (v = t /\ gg[v] = Units(b))
    BY <1>1
  <1>4. Within(hh, gg, l, pages)
    BY <1>2, <1>3, <1>w DEF Within
  <1>5. Apart(hh, gg, l)
    <2>1. \A v, w \in Tasks : \A c \in hh[v], d \in hh[w] :
            v # w \/ c # d => Units(c) \cap Units(d) = {}
      BY <1>2, <1>w DEF Apart
    <2>2. \A v, w \in Tasks : \A c \in hh[v] : Units(c) \cap gg[w] = {}
      BY <1>2, <1>3, <1>w, SMTT(60) DEF Apart
    <2>3. \A v, w \in Tasks : v # w => gg[v] \cap gg[w] = {}
      BY <1>1, <1>w, SMTT(60) DEF Apart
    <2>4. \A i \in DOMAIN l, v \in Tasks : \A c \in hh[v] : Units(l[i]) \cap Units(c) = {}
      BY <1>2, <1>w DEF Apart
    <2>5. \A i \in DOMAIN l, v \in Tasks : Units(l[i]) \cap gg[v] = {}
      BY <1>3, <1>w DEF Apart
    <2>6. \A i, j \in DOMAIN l : i # j => Units(l[i]) \cap Units(l[j]) = {}
      BY <1>w DEF Apart
    <2> QED
      BY <2>1, <2>2, <2>3, <2>4, <2>5, <2>6 DEF Apart
  <1> QED
    BY <1>4, <1>5 DEF Sound, hh, gg

\* A chunk goes from the free list to a task.
LEMMA Pop ==
    ASSUME NEW h, NEW g, NEW l \in Seq(Block), NEW pages, NEW t \in Tasks,
           Sound(h, g, l, pages), l # <<>>, DOMAIN h = Tasks
    PROVE  Sound(Give1(h, t, Head(l)), g, Tail(l), pages)
  <1> DEFINE hh == Give1(h, t, Head(l))
             k == Tail(l)
             b == l[1]
  <1>1. 1 \in DOMAIN l /\ Head(l) = b
    BY SMTT(60)
  <1>2. \A i \in DOMAIN k : i + 1 \in DOMAIN l /\ i + 1 # 1 /\ k[i] = l[i + 1]
    BY SMTT(60)
  <1>3. \A i, j \in DOMAIN k : i # j => i + 1 # j + 1
    BY SMTT(60)
  <1>4. \A u \in Tasks : \A c \in hh[u] : c \in h[u] \/ (u = t /\ c = b)
    BY <1>1 DEF Give1
  <1>w. Within(h, g, l, pages) /\ Apart(h, g, l)
    BY DEF Sound
  <1> HIDE DEF hh, k, b
  <1>b. /\ \A u \in Tasks : \A c \in h[u] : Units(b) \cap Units(c) = {}
        /\ \A u \in Tasks : Units(b) \cap g[u] = {}
        /\ \A i \in DOMAIN k : Units(k[i]) \cap Units(b) = {}
        /\ Units(b) \subseteq UnitsOf(pages)
    BY <1>1, <1>2, <1>w DEF Apart, Within, b
  <1>k. /\ \A i, j \in DOMAIN k : i # j => Units(k[i]) \cap Units(k[j]) = {}
        /\ \A i \in DOMAIN k, u \in Tasks : \A c \in h[u] : Units(k[i]) \cap Units(c) = {}
        /\ \A i \in DOMAIN k, u \in Tasks : Units(k[i]) \cap g[u] = {}
        /\ \A i \in DOMAIN k : Units(k[i]) \subseteq UnitsOf(pages)
    BY <1>2, <1>3, <1>w, SMTT(60) DEF Apart, Within
  <1>5. Within(hh, g, k, pages)
    BY <1>4, <1>b, <1>k, <1>w DEF Within
  <1>6. Apart(hh, g, k)
    <2>1. ASSUME NEW u \in Tasks, NEW v \in Tasks, NEW c \in hh[u], NEW d \in hh[v], u # v \/ c # d
          PROVE  Units(c) \cap Units(d) = {}
      <3>1. CASE c \in h[u] /\ d \in h[v]
        BY <1>w, <2>1, <3>1 DEF Apart
      <3>2. CASE ~(c \in h[u] /\ d \in h[v])
        BY <1>4, <1>b, <2>1, <3>2
      <3> QED
        BY <3>1, <3>2
    <2>2. \A u, v \in Tasks : \A c \in hh[u] : Units(c) \cap g[v] = {}
      BY <1>4, <1>b, <1>w DEF Apart
    <2>3. \A i \in DOMAIN k, u \in Tasks : \A c \in hh[u] : Units(k[i]) \cap Units(c) = {}
      BY <1>4, <1>b, <1>k
    <2> QED
      BY <1>k, <1>w, <2>1, <2>2, <2>3 DEF Apart
  <1> QED
    BY <1>5, <1>6 DEF Sound, hh, k

\* What a task has in hand goes onto the free list, in pieces that are apart.
LEMMA Prepend ==
    ASSUME NEW h, NEW g, NEW l \in Seq(Block), NEW pages, NEW t \in Tasks, NEW s \in Seq(Block),
           NEW X,
           Sound(h, g, l, pages), DOMAIN g = Tasks, X \subseteq g[t], Pieces(s, g[t], X)
    PROVE  Sound(h, Put(g, t, X), s \o l, pages)
  <1> DEFINE gg == Put(g, t, X)
             k == s \o l
  <1>1. \A i \in DOMAIN k : \/ i \in DOMAIN s /\ k[i] = s[i]
                            \/ i \notin DOMAIN s /\ i - Len(s) \in DOMAIN l /\ k[i] = l[i - Len(s)]
    BY SMTT(60)
  <1>2. \A i, j \in DOMAIN k : i # j => i - Len(s) # j - Len(s)
    BY SMTT(60)
  <1>w. Within(h, g, l, pages) /\ Apart(h, g, l) /\ Sound(h, gg, l, pages)
    BY LetGo DEF Sound
  <1>3. gg[t] = X /\ \A u \in Tasks : u # t => gg[u] = g[u]
    BY DEF Put
  <1> HIDE DEF gg, k
  <1>s. ASSUME NEW i \in DOMAIN s
        PROVE  /\ \A u \in Tasks : \A c \in h[u] : Units(s[i]) \cap Units(c) = {}
               /\ \A u \in Tasks : Units(s[i]) \cap gg[u] = {}
               /\ \A j \in DOMAIN l : Units(s[i]) \cap Units(l[j]) = {}
               /\ Units(s[i]) \subseteq UnitsOf(pages)
    <2>1. Units(s[i]) \subseteq g[t] /\ Units(s[i]) \cap X = {}
      BY DEF Pieces
    <2>2. \A u \in Tasks : \A c \in h[u] : Units(s[i]) \cap Units(c) = {}
      BY <1>w, <2>1 DEF Apart
    <2>3. \A u \in Tasks : Units(s[i]) \cap gg[u] = {}
      BY <1>3, <1>w, <2>1 DEF Apart
    <2>4. \A j \in DOMAIN l : Units(s[i]) \cap Units(l[j]) = {}
      BY <1>w, <2>1 DEF Apart
    <2>5. Units(s[i]) \subseteq UnitsOf(pages)
      BY <1>w, <2>1 DEF Within
    <2> QED
      BY <2>2, <2>3, <2>4, <2>5
  <1>l. /\ \A i \in DOMAIN k, u \in Tasks : \A c \in h[u] : Units(k[i]) \cap Units(c) = {}
        /\ \A i \in DOMAIN k, u \in Tasks : Units(k[i]) \cap gg[u] = {}
        /\ \A i \in DOMAIN k : Units(k[i]) \subseteq UnitsOf(pages)
    BY <1>1, <1>s, <1>w, SMTT(60) DEF Sound, Apart, Within
  <1>k. ASSUME NEW i \in DOMAIN k, NEW j \in DOMAIN k, i # j PROVE Units(k[i]) \cap Units(k[j]) = {}
    <2>1. CASE i \in DOMAIN s /\ j \in DOMAIN s
      BY <1>1, <1>k, <2>1 DEF Pieces
    <2>2. CASE i \in DOMAIN s /\ j \notin DOMAIN s
      BY <1>1, <1>s, <2>2
    <2>3. CASE i \notin DOMAIN s /\ j \in DOMAIN s
      BY <1>1, <1>s, <2>3
    <2>4. CASE i \notin DOMAIN s /\ j \notin DOMAIN s
      BY <1>1, <1>2, <1>k, <1>w, <2>4, SMTT(60) DEF Apart
    <2> QED
      BY <2>1, <2>2, <2>3, <2>4
  <1> QED
    BY <1>l, <1>k, <1>w DEF Sound, Apart, Within, gg, k

\* What a page is sliced into.
LEMMA SlicedFacts ==
    ASSUME NEW p \in Page
    PROVE  /\ Sliced(p) \in Seq(Block) /\ Chunk(p, 0) \in Block /\ DOMAIN Sliced(p) = 1..(CHUNKS - 1)
           /\ \A i \in DOMAIN Sliced(p) : Sliced(p)[i] = Chunk(p, i)
  <1>1. \A i \in 0..(CHUNKS - 1) : Chunk(p, i) \in Block
    BY DEF Chunk, Block
  <1>2. CHUNKS - 1 \in Nat /\ 0 \in 0..(CHUNKS - 1) /\ 1..(CHUNKS - 1) \subseteq 0..(CHUNKS - 1)
    BY ChunksIsPositive, SMTT(60)
  <1>3. Sliced(p) \in [1..(CHUNKS - 1) -> Block]
    BY <1>1, <1>2 DEF Sliced
  <1> QED
    BY <1>1, <1>2, <1>3, SeqDef, SMTT(60) DEF Sliced

\* The chunks of a fresh page: the first to the caller, the others to the list.
LEMMA Slice ==
    ASSUME NEW h, NEW g, NEW l \in Seq(Block), NEW pages, NEW t \in Tasks, NEW p \in Page,
           Sound(h, g, l, pages), DOMAIN g = Tasks, DOMAIN h = Tasks, g[t] = UnitsOf({p})
    PROVE  /\ Sound(Give1(h, t, Chunk(p, 0)), Put(g, t, {}), Sliced(p) \o l, pages)
           /\ Sliced(p) \in Seq(Block) /\ Chunk(p, 0) \in Block
  <1> DEFINE s == Sliced(p)
             X == Units(Chunk(p, 0))
             g1 == Put(g, t, X)
  <1>1. /\ s \in Seq(Block) /\ Chunk(p, 0) \in Block /\ DOMAIN s = 1..(CHUNKS - 1)
        /\ \A i \in DOMAIN s : s[i] = Chunk(p, i)
    BY SlicedFacts
  <1>2. X = {<<p, 0>>} /\ \A i \in DOMAIN s : Units(s[i]) = {<<p, i>>}
    BY <1>1, SMTT(60) DEF Units, Chunk
  <1>3. X \subseteq g[t] /\ \A i \in DOMAIN s : Units(s[i]) \subseteq g[t]
    BY <1>1, <1>2, ChunksIsPositive, SMTT(60) DEF UnitsOf
  <1>5. Units(Chunk(p, 0)) \subseteq g1[t] /\ DOMAIN g1 = Tasks /\ Put(g, t, {}) = Put(g1, t, {})
    BY DEF Put
  <1> HIDE DEF s, X
  <1>4. Pieces(s, g[t], X)
    <2>1. \A i \in DOMAIN s : i # 0
      BY <1>1, SMTT(60)
    <2>2. \A i \in DOMAIN s : Units(s[i]) \cap X = {}
      BY <1>2, <2>1, SMTT(60)
    <2>3. \A i, j \in DOMAIN s : i # j => Units(s[i]) \cap Units(s[j]) = {}
      BY <1>2, SMTT(60)
    <2> QED
      BY <1>3, <2>2, <2>3 DEF Pieces
  <1>6. Sound(h, g1, s \o l, pages)
    BY <1>1, <1>3, <1>4, Prepend
  <1> HIDE DEF g1
  <1>8. Sound(Give1(h, t, Chunk(p, 0)), Put(g1, t, {}), s \o l, pages)
    BY <1>5, <1>6, HandToBlock
  <1> QED
    BY <1>1, <1>5, <1>8 DEF s

-----------------------------------------------------------------------------
(* The invariant *)

HandsOf(f) == [t \in Tasks |-> InHand(f[t])]

\* Where a task is and how far its loops are.
Placed(k) ==
    /\ k.at \in {"idle", "lock_small", "lock_large", "lock_free", "small", "large", "free"} =>
         k.first = 0 /\ k.offset = 0
    /\ k.at \in {"claim", "count"} => k.offset \in Page
    /\ k.at = "test" => k.offset <= RUN /\ (k.offset > 0 => k.first + k.offset <= MAX_PAGES)
    /\ k.at = "take" => k.offset < RUN /\ k.first + RUN <= MAX_PAGES
    /\ k.at = "count_run" => k.offset = RUN /\ k.first + RUN <= MAX_PAGES
    /\ k.at \in {"lock_free", "free"} => k.block.kind \in {"run", "chunk"}
    /\ k.at \in {"clear", "count_free"} =>
         /\ k.block.kind \in {"page", "run"}
         /\ k.offset < (IF k.block.kind = "run" THEN RUN ELSE 1)

\* The inductive invariant: loops stay in their bounds and, without a lost race,
\* whatever is in use is apart and marked.
MemInv ==
    /\ TypeOK
    /\ \A t \in Tasks : Placed(task[t])
    /\ ~raced => Sound(held, HandsOf(task), slab.list, used)

SlabT == [holder : Tasks \cup {Nobody}, list : Seq(Block)]

\* What a task has in hand at each place.
LEMMA HandFacts ==
    ASSUME NEW k
    PROVE  LET end == k.block.page + (IF k.block.kind = "run" THEN RUN ELSE 1) IN
           /\ k.at \in {"idle", "lock_small", "lock_large", "small", "large", "load", "claim", "test"} =>
                InHand(k) = {}
           /\ k.at = "count" => InHand(k) = UnitsOf({k.offset})
           /\ k.at \in {"take", "count_run"} => InHand(k) = UnitsOf(k.first..(k.first + k.offset - 1))
           /\ k.at \in {"lock_free", "free"} => InHand(k) = Units(k.block)
           /\ k.at = "clear" => InHand(k) = UnitsOf((k.block.page + k.offset)..(end - 1))
           /\ k.at = "count_free" => InHand(k) = UnitsOf((k.block.page + k.offset + 1)..(end - 1))
  BY DEF InHand

\* An idle task has nothing in hand.
LEMMA IdleFacts == Idle \in Task /\ Placed(Idle) /\ InHand(Idle) = {}
  <1>1. Idle \in Task
    BY BitmapShape, ChunksIsPositive, SMTT(60) DEF Idle, Task, Places, PageBlock, Block, Page
  <1>2. Placed(Idle)
    BY DEF Placed, Idle
  <1>3. InHand(Idle) = {}
    BY HandFacts DEF Idle
  <1> QED
    BY <1>1, <1>2, <1>3

\* A step of one task leaves the hands of the others alone.
LEMMA OneHand ==
    ASSUME NEW f, DOMAIN f = Tasks, NEW t \in Tasks, NEW k
    PROVE  /\ HandsOf([f EXCEPT ![t] = k]) = Put(HandsOf(f), t, InHand(k))
           /\ DOMAIN HandsOf(f) = Tasks /\ HandsOf(f)[t] = InHand(f[t])
  BY DEF HandsOf, Put

LEMMA TaskFields ==
    ASSUME TypeOK, NEW t \in Tasks
    PROVE  /\ DOMAIN task = Tasks /\ task[t] \in Task /\ task[t].at \in Places
           /\ task[t].heap \in BOOLEAN
           /\ task[t].first \in Nat /\ task[t].offset \in Nat /\ task[t].block \in Block
           /\ task[t].block.page \in Nat
  <1>1. DOMAIN task = Tasks /\ task[t] \in Task
    BY DEF TypeOK
  <1>2. \A b \in Block : b.page \in Nat
    BY BitmapShape, SMTT(60) DEF Block, Page
  <1> QED
    BY <1>1, <1>2 DEF Task

LEMMA PlaceNames ==
    /\ "load" \in Places /\ "claim" \in Places /\ "count" \in Places /\ "test" \in Places
    /\ "take" \in Places /\ "count_run" \in Places /\ "clear" \in Places
  BY DEF Places

\* A task after a turn of a loop.
LEMMA LoopFacts ==
    ASSUME NEW k \in Task, NEW at \in Places, NEW i \in Nat, NEW j \in Nat
    PROVE  /\ Loop(k, at, i, j) \in Task
           /\ Loop(k, at, i, j).at = at /\ Loop(k, at, i, j).heap = k.heap
           /\ Loop(k, at, i, j).first = i /\ Loop(k, at, i, j).offset = j
           /\ Loop(k, at, i, j).block = k.block
  BY DEF Loop, Task

\* The part of the invariant on the tasks.
LEMMA TaskStep ==
    ASSUME MemInv, NEW t \in Tasks, NEW k \in Task, Placed(k), task' = [task EXCEPT ![t] = k]
    PROVE  /\ task' \in [Tasks -> Task] /\ \A u \in Tasks : Placed(task'[u])
           /\ HandsOf(task)' = Put(HandsOf(task), t, InHand(k))
  <1>1. task \in [Tasks -> Task] /\ \A u \in Tasks : Placed(task[u])
    BY DEF MemInv, TypeOK
  <1>2. task' \in [Tasks -> Task]
    BY <1>1
  <1>3. \A u \in Tasks : task'[u] = task[u] \/ task'[u] = k
    BY <1>1
  <1>4. HandsOf(task)' = HandsOf(task')
    BY DEF HandsOf
  <1>5. HandsOf(task') = Put(HandsOf(task), t, InHand(k))
    BY <1>1, OneHand
  <1> QED
    BY <1>1, <1>2, <1>3, <1>4, <1>5

\* A step that moves nothing, or only lets go.
LEMMA QuietStep ==
    ASSUME MemInv, NEW t \in Tasks, NEW k \in Task, Placed(k), InHand(k) \subseteq InHand(task[t]),
           task' = [task EXCEPT ![t] = k], slab' \in SlabT, slab'.list = slab.list, used' = used,
           held' = held, free_pages' \in Int, hung' \in BOOLEAN, raced' = raced
    PROVE  MemInv'
  <1>1. /\ task' \in [Tasks -> Task] /\ \A u \in Tasks : Placed(task'[u])
        /\ HandsOf(task)' = Put(HandsOf(task), t, InHand(k))
    BY TaskStep
  <1>2. TypeOK'
    BY <1>1 DEF MemInv, TypeOK, SlabT
  <1>3. ~raced => Sound(held, HandsOf(task)', slab.list, used)
    <2>1. DOMAIN HandsOf(task) = Tasks /\ HandsOf(task)[t] = InHand(task[t])
      BY OneHand, TaskFields DEF MemInv
    <2> QED
      BY <1>1, <2>1, LetGo, SMTT(60) DEF MemInv
  <1>4. (~raced => Sound(held, HandsOf(task), slab.list, used))'
    BY <1>3
  <1> QED
    BY <1>1, <1>2, <1>4 DEF MemInv

\* The slab that Return leaves.
LEMMA ReturnFacts ==
    ASSUME TypeOK, NEW t \in Tasks, NEW l \in Seq(Block), Return(t, l)
    PROVE  task' = [task EXCEPT ![t] = Idle] /\ slab' \in SlabT /\ slab'.list = l
  BY DEF TypeOK, Return, SlabT

-----------------------------------------------------------------------------
(* alloc_page() *)

LEMMA CallAllocPageStep ==
    ASSUME MemInv, NEW t \in Tasks, call_alloc_page(t)
    PROVE  MemInv'
  <1> DEFINE k == [task[t] EXCEPT !.at = "load"]
  <1>1. TypeOK /\ task[t] \in Task /\ task[t].at = "idle"
    BY TaskFields DEF MemInv, call_alloc_page, At
  <1>2. k \in Task /\ k.at = "load"
    BY <1>1 DEF Task, Places
  <1>3. task' = [task EXCEPT ![t] = k]
    BY DEF call_alloc_page, Go
  <1> HIDE DEF k
  <1>4. Placed(k) /\ InHand(k) = {}
    BY <1>2, HandFacts DEF Placed
  <1>5. /\ slab' \in SlabT /\ slab'.list = slab.list /\ used' = used /\ held' = held
        /\ free_pages' \in Int /\ hung' \in BOOLEAN /\ raced' = raced
    BY <1>1 DEF call_alloc_page, TypeOK, SlabT
  <1> QED
    BY <1>2, <1>3, <1>4, <1>5, QuietStep

LEMMA AllocPageLoadStep ==
    ASSUME MemInv, NEW t \in Tasks, alloc_page_load(t)
    PROVE  MemInv'
  <1>0. PICK o \in Task, w \in Nat : o = task[t] /\ w = task[t].first
    BY TaskFields DEF MemInv
  <1> DEFINE free == WordOf(w) \ used
  <1>1. TypeOK /\ task[t].at = "load"
    BY DEF MemInv, alloc_page_load, At
  <1>2. /\ used' = used /\ held' = held /\ free_pages' \in Int /\ hung' \in BOOLEAN /\ raced' = raced
    BY <1>1 DEF alloc_page_load, TypeOK
  <1>3. CASE w = MAX_PAGES \div WORD
    <2>1. Return(t, slab.list) /\ slab.list \in Seq(Block)
      BY <1>0, <1>1, <1>3 DEF alloc_page_load, TypeOK
    <2>2. task' = [task EXCEPT ![t] = Idle] /\ slab' \in SlabT /\ slab'.list = slab.list
      BY <1>1, <2>1, ReturnFacts
    <2> QED
      BY <1>2, <2>2, IdleFacts, QuietStep
  <1>4. CASE w # MAX_PAGES \div WORD
    <2> DEFINE m == Min(free)
               k == IF free = {} THEN Loop(o, "load", w + 1, 0) ELSE Loop(o, "claim", w, m)
    <2>1. task' = [task EXCEPT ![t] = k] /\ slab' \in SlabT /\ slab'.list = slab.list
      BY <1>0, <1>1, <1>4 DEF alloc_page_load, TypeOK, SlabT
    <2>2. free # {} => m \in Page
      BY LowestPage DEF WordOf
    <2>3. \A p \in Page : p \in Nat
      BY BitmapShape, SMTT(60) DEF Page
    <2> HIDE DEF m
    <2>4. k \in Task /\ (k.at = "load" \/ (k.at = "claim" /\ k.offset \in Page))
      <3>1. Loop(o, "load", w + 1, 0) \in Task /\ Loop(o, "load", w + 1, 0).at = "load"
        BY LoopFacts, PlaceNames, SMTT(60)
      <3>2. ASSUME NEW q \in Nat
            PROVE  /\ Loop(o, "claim", w, q) \in Task /\ Loop(o, "claim", w, q).at = "claim"
                   /\ Loop(o, "claim", w, q).offset = q
        BY LoopFacts, PlaceNames, SMTT(60)
      <3> QED
        BY <2>2, <2>3, <3>1, <3>2
    <2> HIDE DEF k
    <2>5. Placed(k) /\ InHand(k) = {}
      BY <2>4, HandFacts DEF Placed
    <2> QED
      BY <1>2, <2>1, <2>4, <2>5, QuietStep
  <1> QED
    BY <1>3, <1>4

LEMMA AllocPageClaimStep ==
    ASSUME MemInv, NEW t \in Tasks, alloc_page_claim(t)
    PROVE  MemInv'
  <1>0. PICK o \in Task, w \in Nat, p \in Nat : o = task[t] /\ w = task[t].first /\ p = task[t].offset
    BY TaskFields DEF MemInv
  <1>1. TypeOK /\ task[t].at = "claim" /\ p \in Page /\ InHand(task[t]) = {}
    BY <1>0, HandFacts DEF MemInv, alloc_page_claim, At, Placed
  <1>2. /\ held' = held /\ free_pages' \in Int /\ hung' \in BOOLEAN /\ raced' = raced
        /\ slab' \in SlabT /\ slab'.list = slab.list
    BY <1>1 DEF alloc_page_claim, TypeOK, SlabT
  <1>3. CASE p \in used
    <2> DEFINE k == Loop(o, "load", w + 1, 0)
    <2>1. task' = [task EXCEPT ![t] = k]
      BY <1>0, <1>3 DEF alloc_page_claim
    <2>u. used' = used
      BY <1>0, <1>3 DEF alloc_page_claim
    <2>2. k \in Task /\ k.at = "load"
      BY LoopFacts, PlaceNames, SMTT(60)
    <2> HIDE DEF k
    <2>3. Placed(k) /\ InHand(k) = {}
      BY <2>2, HandFacts DEF Placed
    <2> QED
      BY <1>2, <2>1, <2>u, <2>2, <2>3, QuietStep
  <1>4. CASE p \notin used
    <2> DEFINE k == Loop(o, "count", w, p)
    <2>1. task' = [task EXCEPT ![t] = k] /\ used' = used \cup {p}
      BY <1>0, <1>4 DEF alloc_page_claim
    <2>2. k \in Task /\ k.at = "count" /\ k.offset = p
      BY LoopFacts, PlaceNames, SMTT(60)
    <2> HIDE DEF k
    <2>3. Placed(k) /\ InHand(k) = UnitsOf({p})
      BY <1>1, <2>2, HandFacts DEF Placed
    <2>4. /\ task' \in [Tasks -> Task] /\ \A u \in Tasks : Placed(task'[u])
          /\ HandsOf(task)' = Put(HandsOf(task), t, UnitsOf({p}))
      BY <2>1, <2>2, <2>3, TaskStep
    <2>5. DOMAIN HandsOf(task) = Tasks /\ HandsOf(task)[t] = {}
      BY <1>1, OneHand, TaskFields
    <2>6. {} \cup UnitsOf({p}) = UnitsOf({p})
      OBVIOUS
    <2>7. ~raced => Sound(held, HandsOf(task)', slab.list, used')
      BY <1>4, <2>1, <2>4, <2>5, <2>6, TakeFresh, SMTT(60) DEF MemInv
    <2>8. (~raced => Sound(held, HandsOf(task), slab.list, used))'
      BY <1>2, <2>7
    <2>9. TypeOK'
      BY <1>1, <1>2, <2>1, <2>4 DEF TypeOK, SlabT
    <2> QED
      BY <2>4, <2>8, <2>9 DEF MemInv
  <1> QED
    BY <1>3, <1>4

LEMMA AllocPageCountStep ==
    ASSUME MemInv, NEW t \in Tasks, alloc_page_count(t)
    PROVE  MemInv'
  <1> DEFINE p == task[t].offset
             b == IF task[t].heap THEN Chunk(p, 0) ELSE PageBlock(p)
             l == IF task[t].heap THEN Sliced(p) \o slab.list ELSE slab.list
  <1>1. /\ TypeOK /\ task[t].at = "count" /\ p \in Page /\ InHand(task[t]) = UnitsOf({p})
        /\ slab.list \in Seq(Block) /\ DOMAIN held = Tasks
    BY TaskFields, HandFacts DEF MemInv, alloc_page_count, At, Placed, TypeOK
  <1>2. used' = used /\ free_pages' \in Int /\ hung' \in BOOLEAN /\ raced' = raced
    BY <1>1, SMTT(60) DEF alloc_page_count, TypeOK
  <1>3. held' = Give1(held, t, b) /\ Return(t, l)
    BY DEF alloc_page_count, Give, Give1
  <1>4. /\ DOMAIN HandsOf(task) = Tasks /\ HandsOf(task)[t] = UnitsOf({p})
    BY <1>1, OneHand, TaskFields
  <1>5. b \in Block /\ Sliced(p) \in Seq(Block)
    <2>1. Chunk(p, 0) \in Block /\ Sliced(p) \in Seq(Block)
      BY <1>1, SlicedFacts
    <2>2. PageBlock(p) \in Block
      BY <1>1, ChunksIsPositive, SMTT(60) DEF PageBlock, Block
    <2> QED
      BY <2>1, <2>2
  <1>6. l \in Seq(Block)
    BY <1>1, <1>5, SMTT(60)
  <1>7. ~raced => Sound(Give1(held, t, b), Put(HandsOf(task), t, {}), l, used)
    <2>1. CASE task[t].heap
      BY <1>1, <1>4, <2>1, Slice DEF MemInv
    <2>2. CASE ~task[t].heap
      <3>1. Units(PageBlock(p)) \subseteq HandsOf(task)[t]
        BY <1>4 DEF Units, PageBlock
      <3> QED
        BY <1>1, <1>4, <2>2, <3>1, HandToBlock DEF MemInv
    <2> QED
      BY <2>1, <2>2
  <1> HIDE DEF p, b, l
  <1>8. task' = [task EXCEPT ![t] = Idle] /\ slab' \in SlabT /\ slab'.list = l
    BY <1>1, <1>3, <1>6, ReturnFacts
  <1>9. /\ task' \in [Tasks -> Task] /\ \A u \in Tasks : Placed(task'[u])
        /\ HandsOf(task)' = Put(HandsOf(task), t, {})
    BY <1>8, IdleFacts, TaskStep
  <1>10. held' \in [Tasks -> SUBSET Block]
    BY <1>1, <1>3, <1>5 DEF TypeOK, Give1
  <1>11. TypeOK'
    BY <1>1, <1>2, <1>8, <1>9, <1>10 DEF TypeOK, SlabT
  <1>12. (~raced => Sound(held, HandsOf(task), slab.list, used))'
    BY <1>2, <1>3, <1>7, <1>8, <1>9
  <1> QED
    BY <1>9, <1>11, <1>12 DEF MemInv

-----------------------------------------------------------------------------
(* alloc_contiguous() *)

LEMMA TestStep ==
    ASSUME MemInv, NEW t \in Tasks, alloc_contiguous_test(t)
    PROVE  MemInv'
  <1>0. PICK o \in Task, i \in Nat, j \in Nat : o = task[t] /\ i = task[t].first /\ j = task[t].offset
    BY TaskFields DEF MemInv
  <1>1. /\ TypeOK /\ task[t].at = "test" /\ j <= RUN /\ (j > 0 => i + j <= MAX_PAGES)
        /\ slab.list \in Seq(Block)
    BY <1>0 DEF MemInv, alloc_contiguous_test, At, Placed, TypeOK
  <1>2. used' = used /\ held' = held /\ free_pages' \in Int /\ hung' \in BOOLEAN /\ raced' = raced
    BY <1>1 DEF alloc_contiguous_test, TypeOK
  <1>3. CASE j < RUN /\ i + j >= MAX_PAGES
    <2>1. Return(t, slab.list)
      BY <1>0, <1>3 DEF alloc_contiguous_test
    <2>2. task' = [task EXCEPT ![t] = Idle] /\ slab' \in SlabT /\ slab'.list = slab.list
      BY <1>1, <2>1, ReturnFacts
    <2> QED
      BY <1>2, <2>2, IdleFacts, QuietStep
  <1>4. CASE ~(j < RUN /\ i + j >= MAX_PAGES)
    <2> DEFINE k == IF j = RUN THEN Loop(o, "take", i, 0)
                    ELSE IF i + j \in used THEN Loop(o, "test", i + 1, 0)
                    ELSE Loop(o, "test", i, j + 1)
    <2>1. task' = [task EXCEPT ![t] = k] /\ slab' \in SlabT /\ slab'.list = slab.list
      BY <1>0, <1>1, <1>4 DEF alloc_contiguous_test, TypeOK, SlabT
    <2>2. /\ Loop(o, "take", i, 0) \in Task /\ Loop(o, "take", i, 0).at = "take"
          /\ Loop(o, "take", i, 0).first = i /\ Loop(o, "take", i, 0).offset = 0
      BY LoopFacts, PlaceNames, SMTT(60)
    <2>3. /\ Loop(o, "test", i + 1, 0) \in Task /\ Loop(o, "test", i + 1, 0).at = "test"
          /\ Loop(o, "test", i + 1, 0).first = i + 1 /\ Loop(o, "test", i + 1, 0).offset = 0
      BY LoopFacts, PlaceNames, SMTT(60)
    <2>4. /\ Loop(o, "test", i, j + 1) \in Task /\ Loop(o, "test", i, j + 1).at = "test"
          /\ Loop(o, "test", i, j + 1).first = i /\ Loop(o, "test", i, j + 1).offset = j + 1
      BY LoopFacts, PlaceNames, SMTT(60)
    <2>5. /\ k \in Task
          /\ \/ k.at = "take" /\ k.first = i /\ k.offset = 0 /\ j = RUN
             \/ k.at = "test" /\ k.offset = 0
             \/ k.at = "test" /\ k.first = i /\ k.offset = j + 1 /\ j # RUN
      BY <2>2, <2>3, <2>4
    <2> HIDE DEF k
    <2>6. Placed(k)
      BY <1>1, <1>4, <2>5, RunIsLarge, BitmapShape, SMTT(60) DEF Placed
    <2>7. InHand(k) = {}
      <3>1. CASE k.at = "take"
        <4>1. InHand(k) = UnitsOf(i..(i + 0 - 1))
          BY <2>5, <3>1, HandFacts
        <4>2. i..(i + 0 - 1) = {}
          BY SMTT(60)
        <4> QED
          BY <4>1, <4>2 DEF UnitsOf
      <3>2. CASE k.at = "test"
        BY <3>2, HandFacts
      <3> QED
        BY <2>5, <3>1, <3>2
    <2> QED
      BY <1>2, <2>1, <2>5, <2>6, <2>7, QuietStep
  <1> QED
    BY <1>3, <1>4

\* A page more of the run, which is fresh unless the race is lost.
LEMMA TakeStep ==
    ASSUME MemInv, NEW t \in Tasks, alloc_contiguous_take(t)
    PROVE  MemInv'
  <1>0. PICK o \in Task, i \in Nat, j \in Nat : o = task[t] /\ i = task[t].first /\ j = task[t].offset
    BY TaskFields DEF MemInv
  <1>1. TypeOK /\ task[t].at = "take" /\ j < RUN /\ i + RUN <= MAX_PAGES
    BY <1>0 DEF MemInv, alloc_contiguous_take, At, Placed
  <1>2. /\ held' = held /\ free_pages' \in Int /\ hung' \in BOOLEAN /\ used' = used \cup {i + j}
        /\ raced' \in BOOLEAN /\ (~raced' => ~raced /\ i + j \notin used)
        /\ slab' \in SlabT /\ slab'.list = slab.list
    BY <1>0, <1>1 DEF alloc_contiguous_take, TypeOK, SlabT
  <1> DEFINE k == IF j + 1 = RUN THEN Loop(o, "count_run", i, j + 1) ELSE Loop(o, "take", i, j + 1)
  <1>3. task' = [task EXCEPT ![t] = k]
    BY <1>0 DEF alloc_contiguous_take
  <1>4. /\ k \in Task /\ k.first = i /\ k.offset = j + 1
        /\ k.at = IF j + 1 = RUN THEN "count_run" ELSE "take"
    <2>1. /\ Loop(o, "count_run", i, j + 1) \in Task /\ Loop(o, "count_run", i, j + 1).at = "count_run"
          /\ Loop(o, "count_run", i, j + 1).first = i /\ Loop(o, "count_run", i, j + 1).offset = j + 1
      BY LoopFacts, PlaceNames, SMTT(60)
    <2>2. /\ Loop(o, "take", i, j + 1) \in Task /\ Loop(o, "take", i, j + 1).at = "take"
          /\ Loop(o, "take", i, j + 1).first = i /\ Loop(o, "take", i, j + 1).offset = j + 1
      BY LoopFacts, PlaceNames, SMTT(60)
    <2> QED
      BY <2>1, <2>2
  <1> HIDE DEF k
  <1>5. Placed(k)
    BY <1>1, <1>4, RunIsLarge, SMTT(60) DEF Placed
  <1>6. InHand(k) = InHand(task[t]) \cup UnitsOf({i + j})
    <2>1. InHand(task[t]) = UnitsOf(i..(i + j - 1)) /\ InHand(k) = UnitsOf(i..(i + (j + 1) - 1))
      BY <1>0, <1>1, <1>4, HandFacts
    <2>2. i..(i + (j + 1) - 1) = (i..(i + j - 1)) \cup {i + j}
      BY SMTT(60)
    <2> QED
      BY <2>1, <2>2, PageUnits, SMTT(60)
  <1>7. /\ task' \in [Tasks -> Task] /\ \A u \in Tasks : Placed(task'[u])
        /\ HandsOf(task)' = Put(HandsOf(task), t, InHand(k))
    BY <1>3, <1>4, <1>5, TaskStep
  <1>8. DOMAIN HandsOf(task) = Tasks /\ HandsOf(task)[t] = InHand(task[t])
    BY <1>1, OneHand, TaskFields
  <1>9. ~raced' => Sound(held, HandsOf(task)', slab.list, used')
    <2> DEFINE p == i + j
    <2>1. /\ used' = used \cup {p} /\ (~raced' => ~raced /\ p \notin used)
          /\ HandsOf(task)' = Put(HandsOf(task), t, HandsOf(task)[t] \cup UnitsOf({p}))
      BY <1>2, <1>6, <1>7, <1>8
    <2>2. ~raced => Sound(held, HandsOf(task), slab.list, used)
      BY DEF MemInv
    <2> HIDE DEF p
    <2> QED
      BY <1>8, <2>1, <2>2, TakeFresh, SMTT(60)
  <1>10. (~raced => Sound(held, HandsOf(task), slab.list, used))'
    BY <1>2, <1>9
  <1>11. used' \subseteq Page
    <2>1. i + j \in Page
      BY <1>1, BitmapShape, RunIsLarge, SMTT(60) DEF Page
    <2> QED
      BY <1>1, <1>2, <2>1 DEF TypeOK
  <1>12. TypeOK'
    BY <1>1, <1>2, <1>7, <1>11 DEF TypeOK, SlabT
  <1> QED
    BY <1>7, <1>10, <1>12 DEF MemInv

\* The run is the caller's.
LEMMA CountRunStep ==
    ASSUME MemInv, NEW t \in Tasks, alloc_contiguous_count(t)
    PROVE  MemInv'
  <1>0. PICK i \in Nat : i = task[t].first
    BY TaskFields DEF MemInv
  <1> DEFINE b == RunBlock(i)
  <1>1. /\ TypeOK /\ task[t].at = "count_run" /\ task[t].offset = RUN /\ i + RUN <= MAX_PAGES
        /\ slab.list \in Seq(Block) /\ DOMAIN held = Tasks
    BY <1>0 DEF MemInv, alloc_contiguous_count, At, Placed, TypeOK
  <1>2. used' = used /\ free_pages' \in Int /\ hung' \in BOOLEAN /\ raced' = raced
    BY <1>1, RunIsLarge, SMTT(60) DEF alloc_contiguous_count, TypeOK
  <1>3. held' = Give1(held, t, b) /\ Return(t, slab.list)
    BY <1>0 DEF alloc_contiguous_count, Give, Give1
  <1>4. DOMAIN HandsOf(task) = Tasks /\ HandsOf(task)[t] = InHand(task[t])
    BY <1>1, OneHand, TaskFields
  <1>5. b \in Block
    BY <1>1, ChunksIsPositive, RunIsLarge, BitmapShape, SMTT(60) DEF RunBlock, Block, Page
  <1>6. Units(b) = InHand(task[t])
    <2>1. Units(b) = UnitsOf(i..(i + RUN - 1))
      BY DEF Units, RunBlock
    <2> QED
      BY <1>0, <1>1, <2>1, HandFacts
  <1> HIDE DEF b
  <1>7. ~raced => Sound(Give1(held, t, b), Put(HandsOf(task), t, {}), slab.list, used)
    BY <1>1, <1>4, <1>6, HandToBlock DEF MemInv
  <1>8. task' = [task EXCEPT ![t] = Idle] /\ slab' \in SlabT /\ slab'.list = slab.list
    BY <1>1, <1>3, ReturnFacts
  <1>9. /\ task' \in [Tasks -> Task] /\ \A u \in Tasks : Placed(task'[u])
        /\ HandsOf(task)' = Put(HandsOf(task), t, {})
    BY <1>8, IdleFacts, TaskStep
  <1>10. held' \in [Tasks -> SUBSET Block]
    BY <1>1, <1>3, <1>5 DEF TypeOK, Give1
  <1>11. TypeOK'
    BY <1>1, <1>2, <1>8, <1>9, <1>10 DEF TypeOK, SlabT
  <1>12. (~raced => Sound(held, HandsOf(task), slab.list, used))'
    BY <1>2, <1>3, <1>7, <1>8, <1>9
  <1> QED
    BY <1>9, <1>11, <1>12 DEF MemInv

-----------------------------------------------------------------------------
(* free_page() *)

\* A page goes back: into the hand of the task that frees it.
LEMMA CallFreePageStep ==
    ASSUME MemInv, NEW t \in Tasks, NEW u \in Tasks, NEW b \in held[u], call_free_page(t, u, b)
    PROVE  MemInv'
  <1> DEFINE k == [task[t] EXCEPT !.at = "clear", !.block = b]
  <1>1. /\ TypeOK /\ task[t] \in Task /\ task[t].at = "idle" /\ b.kind = "page" /\ b \in Block
        /\ task[t].first = 0 /\ task[t].offset = 0 /\ InHand(task[t]) = {} /\ DOMAIN held = Tasks
    BY TaskFields, HandFacts DEF MemInv, call_free_page, At, TypeOK, Placed
  <1>2. k \in Task /\ k.at = "clear" /\ k.block = b /\ k.offset = 0
    BY <1>1 DEF Task, Places
  <1>3. task' = [task EXCEPT ![t] = k] /\ held' = Take1(held, u, b)
    BY DEF call_free_page, Take1
  <1> HIDE DEF k
  <1>4. Placed(k)
    BY <1>1, <1>2, SMTT(60) DEF Placed
  <1>5. InHand(k) = Units(b)
    <2>1. PICK pg \in Nat : pg = b.page
      BY <1>1, BitmapShape, SMTT(60) DEF Block, Page
    <2>2. InHand(k) = UnitsOf((pg + 0)..(pg + 1 - 1))
      <3>1. k.at = "clear" /\ k.block.kind # "run" /\ k.block.page = pg /\ k.offset = 0
        BY <1>1, <1>2, <2>1
      <3>2. PICK n \in Nat, j \in Nat :
              n = (IF k.block.kind = "run" THEN RUN ELSE 1) /\ n = 1 /\ j = k.offset /\ j = 0
        BY <3>1, SMTT(60)
      <3>3. InHand(k) = UnitsOf((pg + j)..(pg + n - 1))
        BY <1>2, <2>1, <3>2, SMTT(60) DEF InHand
      <3> QED
        BY <3>2, <3>3
    <2>3. (pg + 0)..(pg + 1 - 1) = {pg}
      BY SMTT(60)
    <2> QED
      BY <1>1, <2>1, <2>2, <2>3 DEF Units
  <1>6. /\ task' \in [Tasks -> Task] /\ \A v \in Tasks : Placed(task'[v])
        /\ HandsOf(task)' = Put(HandsOf(task), t, Units(b))
    BY <1>2, <1>3, <1>4, <1>5, TaskStep
  <1>7. DOMAIN HandsOf(task) = Tasks /\ HandsOf(task)[t] = {}
    BY <1>1, OneHand, TaskFields
  <1>8. ~raced => Sound(held', HandsOf(task)', slab.list, used)
    BY <1>1, <1>3, <1>6, <1>7, BlockToHand, SMTT(60) DEF MemInv
  <1>9. used' = used /\ slab' = slab /\ raced' = raced /\ free_pages' = free_pages /\ hung' = hung
    BY DEF call_free_page
  <1>10. (~raced => Sound(held, HandsOf(task), slab.list, used))'
    BY <1>8, <1>9
  <1>11. held' \in [Tasks -> SUBSET Block]
    BY <1>1, <1>3 DEF TypeOK, Take1
  <1>12. TypeOK'
    BY <1>1, <1>6, <1>9, <1>11 DEF TypeOK
  <1> QED
    BY <1>6, <1>10, <1>12 DEF MemInv

\* Its bit is cleared, and with that it is in nobody's hands.
LEMMA FreePageClearStep ==
    ASSUME MemInv, NEW t \in Tasks, free_page_clear(t)
    PROVE  MemInv'
  <1> DEFINE k == [task[t] EXCEPT !.at = "count_free"]
  <1>0. PICK pg \in Nat, j \in Nat, n \in Nat :
          /\ pg = task[t].block.page /\ j = task[t].offset
          /\ n = (IF task[t].block.kind = "run" THEN RUN ELSE 1)
    BY TaskFields, RunIsLarge DEF MemInv
  <1>1. TypeOK /\ task[t] \in Task /\ task[t].at = "clear" /\ j < n
    BY <1>0, TaskFields DEF MemInv, free_page_clear, At, Placed
  <1>2. /\ k \in Task /\ k.at = "count_free" /\ k.block = task[t].block /\ k.offset = j
    BY <1>0, <1>1 DEF Task, Places
  <1>3. task' = [task EXCEPT ![t] = k] /\ used' = used \ {pg + j}
    BY <1>0 DEF free_page_clear, Go
  <1> HIDE DEF k
  <1>4. Placed(k)
    BY <1>0, <1>1, <1>2 DEF MemInv, Placed
  <1> DEFINE X == UnitsOf((pg + j + 1)..(pg + n - 1))
             p == pg + j
  <1>5. /\ InHand(task[t]) = UnitsOf((pg + j)..(pg + n - 1)) /\ InHand(k) = X
    <2>1. InHand(task[t]) = UnitsOf((pg + j)..(pg + n - 1))
      BY <1>0, <1>1, SMTT(60) DEF InHand
    <2>2. pg = k.block.page /\ j = k.offset /\ n = (IF k.block.kind = "run" THEN RUN ELSE 1)
      BY <1>0, <1>2
    <2>3. InHand(k) = X
      BY <1>2, <2>2, SMTT(60) DEF InHand
    <2> QED
      BY <2>1, <2>3
  <1>6. /\ (pg + j + 1)..(pg + n - 1) \subseteq (pg + j)..(pg + n - 1)
        /\ {pg + j} \subseteq (pg + j)..(pg + n - 1)
        /\ (pg + j + 1)..(pg + n - 1) \cap {pg + j} = {}
    BY <1>1, SMTT(60)
  <1>7. X \subseteq InHand(task[t]) /\ UnitsOf({p}) \subseteq InHand(task[t]) /\ X \cap UnitsOf({p}) = {}
    BY <1>5, <1>6, PageUnits, SMTT(60)
  <1>8. /\ task' \in [Tasks -> Task] /\ \A u \in Tasks : Placed(task'[u])
        /\ HandsOf(task)' = Put(HandsOf(task), t, X)
    BY <1>2, <1>3, <1>4, <1>5, TaskStep
  <1>9. DOMAIN HandsOf(task) = Tasks /\ HandsOf(task)[t] = InHand(task[t])
    BY <1>1, OneHand, TaskFields
  <1>10. used' = used \ {p}
    BY <1>3
  <1> HIDE DEF X, p
  <1>11. ~raced => Sound(held, HandsOf(task)', slab.list, used')
    <2> DEFINE g == HandsOf(task)
    <2>1. /\ X \subseteq g[t] /\ UnitsOf({p}) \subseteq g[t] /\ X \cap UnitsOf({p}) = {}
          /\ DOMAIN g = Tasks
      BY <1>7, <1>9
    <2>2. ~raced => Sound(held, g, slab.list, used)
      BY DEF MemInv
    <2> HIDE DEF g
    <2>3. ~raced => Sound(held, Put(g, t, X), slab.list, used \ {p})
      BY <2>1, <2>2, LetGoPage
    <2> QED
      BY <1>8, <1>10, <2>3 DEF g
  <1>12. held' = held /\ slab' = slab /\ raced' = raced /\ free_pages' = free_pages /\ hung' = hung
    BY DEF free_page_clear
  <1>13. (~raced => Sound(held, HandsOf(task), slab.list, used))'
    BY <1>11, <1>12
  <1>14. TypeOK'
    BY <1>1, <1>8, <1>10, <1>12 DEF TypeOK
  <1> QED
    BY <1>8, <1>13, <1>14 DEF MemInv

LEMMA FreePageCountStep ==
    ASSUME MemInv, NEW t \in Tasks, free_page_count(t)
    PROVE  MemInv'
  <1>0. PICK o \in Task, j \in Nat : o = task[t] /\ j = task[t].offset
    BY TaskFields DEF MemInv
  <1>1. TypeOK /\ task[t].at = "count_free" /\ slab.list \in Seq(Block) /\ Placed(o)
    BY <1>0 DEF MemInv, free_page_count, At, TypeOK
  <1>2. used' = used /\ held' = held /\ hung' \in BOOLEAN /\ raced' = raced /\ free_pages' \in Int
    BY <1>1, SMTT(60) DEF free_page_count, TypeOK
  <1>3. CASE task[t].block.kind = "run" /\ j + 1 < RUN
    <2> DEFINE k == Loop(o, "clear", 0, j + 1)
    <2>1. task' = [task EXCEPT ![t] = k] /\ slab' \in SlabT /\ slab'.list = slab.list
      BY <1>0, <1>1, <1>3 DEF free_page_count, TypeOK, SlabT
    <2>2. k \in Task /\ k.at = "clear" /\ k.offset = j + 1 /\ k.block = o.block
      BY LoopFacts, PlaceNames, SMTT(60)
    <2> HIDE DEF k
    <2>3. Placed(k)
      BY <1>0, <1>3, <2>2 DEF Placed
    <2>4. InHand(k) = InHand(task[t])
      <3>1. PICK pg \in Nat : pg = o.block.page
        BY <1>0, <1>1, TaskFields
      <3>2. RUN \in Nat /\ o.block.kind = "run" /\ k.block.kind = "run" /\ j + 1 \in Nat
        BY <1>0, <1>3, <2>2, RunIsLarge, SMTT(60)
      <3>4. InHand(k) = UnitsOf((pg + (j + 1))..(pg + RUN - 1))
        BY <2>2, <3>1, <3>2, SMTT(60) DEF InHand
      <3>5. InHand(o) = UnitsOf((pg + j + 1)..(pg + RUN - 1))
        <4>1. o.at = "count_free" /\ o.block.kind = "run" /\ o.block.page = pg /\ o.offset = j
          BY <1>0, <1>1, <3>1, <3>2
        <4>2. PICK n \in Nat : n = (IF o.block.kind = "run" THEN RUN ELSE 1) /\ n = RUN
          BY <3>2, <4>1
        <4>3. InHand(o) = UnitsOf((pg + j + 1)..(pg + n - 1))
          BY <1>0, <1>1, <3>1, <4>2, SMTT(60) DEF InHand
        <4> QED
          BY <4>2, <4>3
      <3>3. pg + (j + 1) = pg + j + 1
        BY SMTT(60)
      <3> QED
        BY <1>0, <3>3, <3>4, <3>5
    <2> QED
      BY <1>2, <2>1, <2>2, <2>3, <2>4, QuietStep
  <1>4. CASE ~(task[t].block.kind = "run" /\ j + 1 < RUN)
    <2>1. Return(t, slab.list)
      BY <1>0, <1>4 DEF free_page_count
    <2>2. task' = [task EXCEPT ![t] = Idle] /\ slab' \in SlabT /\ slab'.list = slab.list
      BY <1>1, <2>1, ReturnFacts
    <2> QED
      BY <1>2, <2>2, IdleFacts, QuietStep
  <1> QED
    BY <1>3, <1>4

-----------------------------------------------------------------------------
(* The heap *)

\* A step that changes where a task is and nothing it has in hand.
LEMMA MoveStep ==
    ASSUME MemInv, NEW t \in Tasks, NEW k \in Task, Placed(k), InHand(k) \subseteq InHand(task[t]),
           task' = [task EXCEPT ![t] = k],
           UNCHANGED <<used, free_pages, slab, held, hung, raced>>
    PROVE  MemInv'
  <1>1. /\ slab' \in SlabT /\ slab'.list = slab.list /\ used' = used /\ held' = held
        /\ free_pages' \in Int /\ hung' \in BOOLEAN /\ raced' = raced
    BY DEF MemInv, TypeOK, SlabT
  <1> QED
    BY <1>1, QuietStep

LEMMA CallAllocStep ==
    ASSUME MemInv, NEW t \in Tasks, NEW at \in {"lock_small", "lock_large"}, call_alloc(t, at)
    PROVE  MemInv'
  <1> DEFINE k == [task[t] EXCEPT !.at = at]
  <1>1. /\ task[t] \in Task /\ task[t].at = "idle" /\ task[t].first = 0 /\ task[t].offset = 0
    BY TaskFields DEF MemInv, call_alloc, At, Placed
  <1>2. k \in Task /\ k.at = at /\ k.first = 0 /\ k.offset = 0
    BY <1>1 DEF Task, Places
  <1>3. task' = [task EXCEPT ![t] = k] /\ UNCHANGED <<used, free_pages, slab, held, hung, raced>>
    BY DEF call_alloc, Go
  <1> HIDE DEF k
  <1>4. Placed(k) /\ InHand(k) = {}
    BY <1>2, HandFacts DEF Placed
  <1> QED
    BY <1>2, <1>3, <1>4, MoveStep

\* A block goes back to the heap.
LEMMA CallDeallocStep ==
    ASSUME MemInv, NEW t \in Tasks, NEW u \in Tasks, NEW b \in held[u], call_dealloc(t, u, b)
    PROVE  MemInv'
  <1> DEFINE k == [task[t] EXCEPT !.at = "lock_free", !.block = b]
  <1>1. /\ TypeOK /\ task[t] \in Task /\ task[t].at = "idle" /\ b.kind \in {"run", "chunk"} /\ b \in Block
        /\ task[t].first = 0 /\ task[t].offset = 0 /\ InHand(task[t]) = {} /\ DOMAIN held = Tasks
    BY TaskFields, HandFacts DEF MemInv, call_dealloc, At, TypeOK, Placed
  <1>2. k \in Task /\ k.at = "lock_free" /\ k.block = b /\ k.offset = 0 /\ k.first = 0
    BY <1>1 DEF Task, Places
  <1>3. task' = [task EXCEPT ![t] = k] /\ held' = Take1(held, u, b)
    BY DEF call_dealloc, Take1
  <1> HIDE DEF k
  <1>4. Placed(k) /\ InHand(k) = Units(b)
    BY <1>1, <1>2, HandFacts DEF Placed
  <1>6. /\ task' \in [Tasks -> Task] /\ \A v \in Tasks : Placed(task'[v])
        /\ HandsOf(task)' = Put(HandsOf(task), t, Units(b))
    BY <1>2, <1>3, <1>4, TaskStep
  <1>7. DOMAIN HandsOf(task) = Tasks /\ HandsOf(task)[t] = {}
    BY <1>1, OneHand, TaskFields
  <1>8. ~raced => Sound(held', HandsOf(task)', slab.list, used)
    BY <1>1, <1>3, <1>6, <1>7, BlockToHand, SMTT(60) DEF MemInv
  <1>9. used' = used /\ slab' = slab /\ raced' = raced /\ free_pages' = free_pages /\ hung' = hung
    BY DEF call_dealloc
  <1>10. (~raced => Sound(held, HandsOf(task), slab.list, used))'
    BY <1>8, <1>9
  <1>11. held' \in [Tasks -> SUBSET Block]
    BY <1>1, <1>3 DEF TypeOK, Take1
  <1>12. TypeOK'
    BY <1>1, <1>6, <1>9, <1>11 DEF TypeOK
  <1> QED
    BY <1>6, <1>10, <1>12 DEF MemInv

LEMMA LockStep ==
    ASSUME MemInv, NEW t \in Tasks, lock_slab(t)
    PROVE  MemInv'
  <1> DEFINE a == Inside[task[t].at]
             k == [task[t] EXCEPT !.at = a, !.heap = TRUE]
  <1>1. /\ TypeOK /\ task[t] \in Task /\ task[t].at \in {"lock_small", "lock_large", "lock_free"}
        /\ task[t].first = 0 /\ task[t].offset = 0 /\ Placed(task[t])
    BY TaskFields DEF MemInv, lock_slab, Inside, Placed
  <1>2. /\ a \in {"small", "large", "free"} /\ (a = "free" <=> task[t].at = "lock_free")
    BY <1>1, SMTT(60) DEF Inside
  <1>3. task' = [task EXCEPT ![t] = k]
    BY DEF lock_slab
  <1> HIDE DEF a
  <1>4. /\ k \in Task /\ k.at = a /\ k.first = 0 /\ k.offset = 0 /\ k.block = task[t].block
    BY <1>1, <1>2 DEF Task, Places
  <1> HIDE DEF k
  <1>5. Placed(k)
    BY <1>1, <1>2, <1>4 DEF Placed
  <1>6. InHand(k) = InHand(task[t])
    <2>1. CASE a = "free"
      <3>1. k.at = "free" /\ task[t].at = "lock_free"
        BY <1>2, <1>4, <2>1
      <3>2. InHand(k) = Units(k.block) /\ InHand(task[t]) = Units(task[t].block)
        BY <3>1, HandFacts
      <3> QED
        BY <1>4, <3>2
    <2>2. CASE a # "free"
      <3>1. k.at \in {"small", "large"} /\ task[t].at \in {"lock_small", "lock_large"}
        BY <1>1, <1>2, <1>4, <2>2
      <3> QED
        BY <3>1, HandFacts
    <2> QED
      BY <2>1, <2>2
  <1>7. /\ slab' \in SlabT /\ slab'.list = slab.list /\ used' = used /\ held' = held
        /\ free_pages' \in Int /\ hung' \in BOOLEAN /\ raced' = raced
    BY <1>1 DEF lock_slab, TypeOK, SlabT
  <1> QED
    BY <1>3, <1>4, <1>5, <1>6, <1>7, QuietStep

\* A chunk from the free list.
LEMMA PopStep ==
    ASSUME MemInv, NEW t \in Tasks, alloc_pop(t)
    PROVE  MemInv'
  <1> DEFINE l == slab.list
  <1>1. /\ TypeOK /\ task[t].at = "small" /\ InHand(task[t]) = {} /\ DOMAIN held = Tasks
        /\ l \in Seq(Block) /\ l # <<>> /\ Head(l) \in Block /\ Tail(l) \in Seq(Block)
    <2>1. /\ TypeOK /\ task[t].at = "small" /\ DOMAIN held = Tasks /\ l \in Seq(Block) /\ l # <<>>
      BY DEF MemInv, alloc_pop, At, TypeOK
    <2>2. Head(l) \in Block /\ Tail(l) \in Seq(Block)
      BY <2>1, SMTT(60)
    <2>3. InHand(task[t]) = {}
      BY <2>1, HandFacts
    <2> QED
      BY <2>1, <2>2, <2>3
  <1>2. used' = used /\ free_pages' = free_pages /\ hung' = hung /\ raced' = raced
    BY DEF alloc_pop
  <1>3. held' = Give1(held, t, Head(l)) /\ Return(t, Tail(l))
    BY DEF alloc_pop, Give, Give1
  <1>4. task' = [task EXCEPT ![t] = Idle] /\ slab' \in SlabT /\ slab'.list = Tail(l)
    BY <1>1, <1>3, ReturnFacts
  <1>5. /\ task' \in [Tasks -> Task] /\ \A u \in Tasks : Placed(task'[u])
        /\ HandsOf(task)' = Put(HandsOf(task), t, {})
    BY <1>4, IdleFacts, TaskStep
  <1>6. Put(HandsOf(task), t, {}) = HandsOf(task)
    BY <1>1 DEF Put, HandsOf
  <1>7. ~raced => Sound(Give1(held, t, Head(l)), HandsOf(task), Tail(l), used)
    BY <1>1, Pop DEF MemInv
  <1>8. (~raced => Sound(held, HandsOf(task), slab.list, used))'
    BY <1>2, <1>3, <1>4, <1>5, <1>6, <1>7
  <1>9. held' \in [Tasks -> SUBSET Block]
    BY <1>1, <1>3 DEF TypeOK, Give1
  <1>10. TypeOK'
    BY <1>1, <1>2, <1>4, <1>5, <1>9 DEF TypeOK, SlabT
  <1> QED
    BY <1>5, <1>8, <1>10 DEF MemInv

LEMMA RefillStep ==
    ASSUME MemInv, NEW t \in Tasks, alloc_refill(t)
    PROVE  MemInv'
  <1> DEFINE k == [task[t] EXCEPT !.at = "load"]
  <1>1. task[t] \in Task /\ task[t].at = "small"
    BY TaskFields DEF MemInv, alloc_refill, At
  <1>2. k \in Task /\ k.at = "load"
    BY <1>1 DEF Task, Places
  <1>3. task' = [task EXCEPT ![t] = k] /\ UNCHANGED <<used, free_pages, slab, held, hung, raced>>
    BY DEF alloc_refill, Go
  <1> HIDE DEF k
  <1>4. Placed(k) /\ InHand(k) = {}
    BY <1>2, HandFacts DEF Placed
  <1> QED
    BY <1>2, <1>3, <1>4, MoveStep

LEMMA LargeStep ==
    ASSUME MemInv, NEW t \in Tasks, alloc_large(t)
    PROVE  MemInv'
  <1> DEFINE k == [task[t] EXCEPT !.at = "test"]
  <1>1. task[t] \in Task /\ task[t].at = "large" /\ task[t].first = 0 /\ task[t].offset = 0
    BY TaskFields DEF MemInv, alloc_large, At, Placed
  <1>2. k \in Task /\ k.at = "test" /\ k.first = 0 /\ k.offset = 0
    BY <1>1 DEF Task, Places
  <1>3. task' = [task EXCEPT ![t] = k] /\ UNCHANGED <<used, free_pages, slab, held, hung, raced>>
    BY DEF alloc_large, Go
  <1> HIDE DEF k
  <1>4. Placed(k)
    BY <1>2, RunIsLarge, SMTT(60) DEF Placed
  <1>5. InHand(k) = {}
    BY <1>2, HandFacts
  <1> QED
    BY <1>2, <1>3, <1>4, <1>5, MoveStep

\* A chunk back onto the free list.
LEMMA PushStep ==
    ASSUME MemInv, NEW t \in Tasks, dealloc_push(t)
    PROVE  MemInv'
  <1> DEFINE b == task[t].block
             l == <<b>> \o slab.list
  <1>1. /\ TypeOK /\ task[t].at = "free" /\ InHand(task[t]) = Units(b) /\ b \in Block
        /\ slab.list \in Seq(Block)
    BY HandFacts, TaskFields DEF MemInv, dealloc_push, At, TypeOK
  <1>2. used' = used /\ held' = held /\ free_pages' = free_pages /\ hung' = hung /\ raced' = raced
    BY DEF dealloc_push
  <1>3. Return(t, l)
    BY DEF dealloc_push
  <1>4. DOMAIN HandsOf(task) = Tasks /\ HandsOf(task)[t] = Units(b)
    BY <1>1, OneHand, TaskFields
  <1> HIDE DEF b
  <1>5. <<b>> \in Seq(Block) /\ l \in Seq(Block)
    BY <1>1, SMTT(60)
  <1>6. Pieces(<<b>>, HandsOf(task)[t], {})
    BY <1>4, SMTT(60) DEF Pieces
  <1>7. ~raced => Sound(held, Put(HandsOf(task), t, {}), l, used)
    BY <1>1, <1>4, <1>5, <1>6, Prepend DEF MemInv
  <1>8. task' = [task EXCEPT ![t] = Idle] /\ slab' \in SlabT /\ slab'.list = l
    BY <1>1, <1>3, <1>5, ReturnFacts
  <1> HIDE DEF l
  <1>9. /\ task' \in [Tasks -> Task] /\ \A u \in Tasks : Placed(task'[u])
        /\ HandsOf(task)' = Put(HandsOf(task), t, {})
    BY <1>8, IdleFacts, TaskStep
  <1>10. TypeOK'
    BY <1>1, <1>2, <1>8, <1>9 DEF TypeOK, SlabT
  <1>11. (~raced => Sound(held, HandsOf(task), slab.list, used))'
    BY <1>2, <1>7, <1>8, <1>9
  <1> QED
    BY <1>9, <1>10, <1>11 DEF MemInv

LEMMA DeallocLargeStep ==
    ASSUME MemInv, NEW t \in Tasks, dealloc_large(t)
    PROVE  MemInv'
  <1> DEFINE k == [task[t] EXCEPT !.at = "clear"]
  <1>0. PICK pg \in Nat : pg = task[t].block.page
    BY TaskFields DEF MemInv
  <1>1. /\ task[t] \in Task /\ task[t].at = "free" /\ task[t].block.kind = "run"
        /\ task[t].first = 0 /\ task[t].offset = 0
    BY TaskFields DEF MemInv, dealloc_large, At, Placed
  <1>2. k \in Task /\ k.at = "clear" /\ k.block = task[t].block /\ k.offset = 0
    BY <1>1 DEF Task, Places
  <1>3. task' = [task EXCEPT ![t] = k] /\ UNCHANGED <<used, free_pages, slab, held, hung, raced>>
    BY DEF dealloc_large, Go
  <1> HIDE DEF k
  <1>4. Placed(k)
    BY <1>1, <1>2, RunIsLarge, SMTT(60) DEF Placed
  <1>5. InHand(k) = InHand(task[t])
    <2>1. InHand(task[t]) = Units(task[t].block)
      BY <1>1, HandFacts
    <2>2. Units(task[t].block) = UnitsOf(pg..(pg + RUN - 1))
      BY <1>0, <1>1 DEF Units
    <2>3. PICK n \in Nat, j \in Nat :
            n = (IF k.block.kind = "run" THEN RUN ELSE 1) /\ n = RUN /\ j = k.offset /\ j = 0
      BY <1>1, <1>2, RunIsLarge
    <2>4. pg = k.block.page
      BY <1>0, <1>2
    <2>5. InHand(k) = UnitsOf((pg + j)..(pg + n - 1))
      BY <1>2, <2>3, <2>4, SMTT(60) DEF InHand
    <2>6. pg + j = pg
      BY <2>3, SMTT(60)
    <2> QED
      BY <2>1, <2>2, <2>3, <2>5, <2>6
  <1> QED
    BY <1>2, <1>3, <1>4, <1>5, MoveStep

\* A system call allocates in one step, from the list or from a fresh page.
LEMMA SyscallStep ==
    ASSUME MemInv, NEW t \in Tasks, syscall_alloc(t)
    PROVE  MemInv'
  <1> DEFINE l == slab.list
             g == HandsOf(task)
  <1>1. /\ TypeOK /\ task[t].at = "idle" /\ DOMAIN held = Tasks /\ l \in Seq(Block)
        /\ task' = task /\ raced' = raced
    BY DEF MemInv, syscall_alloc, At, TypeOK
  <1>2. DOMAIN g = Tasks /\ g[t] = {}
    <2>1. InHand(task[t]) = {}
      BY <1>1, HandFacts
    <2> QED
      BY <1>1, <2>1, OneHand, TaskFields
  <1>3. HandsOf(task)' = g /\ \A u \in Tasks : Placed(task'[u])
    BY <1>1 DEF HandsOf, MemInv
  <1>4. CASE UNCHANGED <<used, free_pages, slab, held>> /\ hung' = TRUE
    <2>1. TypeOK'
      BY <1>1, <1>4 DEF TypeOK
    <2>2. (~raced => Sound(held, HandsOf(task), slab.list, used))'
      BY <1>1, <1>3, <1>4 DEF MemInv
    <2> QED
      BY <1>3, <2>1, <2>2 DEF MemInv
  <1>5. CASE /\ l # <<>> /\ Give(t, Head(l)) /\ slab' = [slab EXCEPT !.list = Tail(@)]
             /\ UNCHANGED <<used, free_pages, hung>>
    <2>1. Head(l) \in Block /\ Tail(l) \in Seq(Block)
      BY <1>1, <1>5, SMTT(60)
    <2>2. held' = Give1(held, t, Head(l))
      BY <1>5 DEF Give, Give1
    <2>3. slab' \in SlabT /\ slab'.list = Tail(l)
      BY <1>1, <1>5, <2>1 DEF TypeOK, SlabT
    <2>4. held' \in [Tasks -> SUBSET Block]
      BY <1>1, <2>1, <2>2 DEF TypeOK, Give1
    <2>5. TypeOK'
      BY <1>1, <1>5, <2>3, <2>4 DEF TypeOK, SlabT
    <2>6. ~raced => Sound(Give1(held, t, Head(l)), g, Tail(l), used)
      BY <1>1, <1>5, Pop DEF MemInv
    <2>7. (~raced => Sound(held, HandsOf(task), slab.list, used))'
      BY <1>1, <1>3, <1>5, <2>2, <2>3, <2>6
    <2> QED
      BY <1>3, <2>5, <2>7 DEF MemInv
  <1>6. CASE /\ l = <<>> /\ used # Page
             /\ LET p == Min(Page \ used)
                IN /\ used' = used \cup {p}
                   /\ Give(t, Chunk(p, 0))
                   /\ slab' = [slab EXCEPT !.list = Sliced(p)]
             /\ free_pages' = free_pages - 1
             /\ UNCHANGED hung
    <2> DEFINE m == Min(Page \ used)
    <2>0. m \in Page \ used
      BY <1>1, <1>6, LowestPage DEF TypeOK
    <2>p. PICK p \in Page : p = m
      BY <2>0
    <2>1. /\ p \notin used /\ used' = used \cup {p} /\ held' = Give1(held, t, Chunk(p, 0))
          /\ slab' = [slab EXCEPT !.list = Sliced(p)] /\ free_pages' = free_pages - 1 /\ hung' = hung
      BY <1>6, <2>0, <2>p DEF Give, Give1
    <2> HIDE DEF m
    <2> DEFINE g1 == Put(g, t, g[t] \cup UnitsOf({p}))
    <2>2. g1[t] = UnitsOf({p}) /\ DOMAIN g1 = Tasks /\ Put(g1, t, {}) = g
      <3>1. g1 \in [Tasks -> {g1[u] : u \in Tasks}] /\ g1[t] = UnitsOf({p})
            /\ \A u \in Tasks : u # t => g1[u] = g[u]
        BY <1>2 DEF Put
      <3>2. g = [u \in Tasks |-> g[u]]
        BY DEF HandsOf
      <3> HIDE DEF g, g1
      <3>3. Put(g1, t, {}) = [u \in Tasks |-> g[u]]
        BY <1>2, <3>1 DEF Put
      <3> QED
        BY <3>1, <3>2, <3>3
    <2>3. ~raced => Sound(held, g1, l, used \cup {p})
      BY <1>2, <2>1, TakeFresh DEF MemInv
    <2> HIDE DEF g1, g
    <2>4. ~raced => Sound(Give1(held, t, Chunk(p, 0)), Put(g1, t, {}), Sliced(p) \o l, used \cup {p})
      BY <1>1, <2>2, <2>3, Slice
    <2>5. Sliced(p) \in Seq(Block) /\ Chunk(p, 0) \in Block /\ Sliced(p) \o l = Sliced(p)
      <3>1. Sliced(p) \in Seq(Block) /\ Chunk(p, 0) \in Block
        BY SlicedFacts
      <3> QED
        BY <1>6, <3>1, SMTT(60)
    <2>6. slab' \in SlabT /\ slab'.list = Sliced(p)
      BY <1>1, <2>1, <2>5 DEF TypeOK, SlabT
    <2>7. held' \in [Tasks -> SUBSET Block] /\ used' \subseteq Page
      BY <1>1, <2>1, <2>5 DEF TypeOK, Give1
    <2>8. TypeOK'
      BY <1>1, <2>1, <2>6, <2>7, SMTT(60) DEF TypeOK, SlabT
    <2>9. (~raced => Sound(held, HandsOf(task), slab.list, used))'
      BY <1>1, <1>3, <2>1, <2>2, <2>4, <2>5, <2>6
    <2> QED
      BY <1>3, <2>8, <2>9 DEF MemInv
  <1> QED
    BY <1>4, <1>5, <1>6 DEF syscall_alloc

-----------------------------------------------------------------------------
(* The allocator *)

\* After init() nothing is in use.
LEMMA MemInvInit == Init => MemInv
  <1> SUFFICES ASSUME Init PROVE MemInv
    OBVIOUS
  <1>1. TypeOK
    <2>1. Cardinality(Usable) \in Int
      BY UsableIsTracked, TrackedIsFinite, SMTT(60) DEF Page
    <2>2. <<>> \in Seq(Block)
      BY SMTT(60)
    <2> QED
      BY <2>1, <2>2, IdleFacts DEF Init, TypeOK
  <1>2. \A t \in Tasks : Placed(task[t])
    BY IdleFacts DEF Init
  <1>3. Sound(held, HandsOf(task), slab.list, used)
    <2>1. /\ \A t \in Tasks : held[t] = {} /\ HandsOf(task)[t] = {}
          /\ slab.list = <<>> /\ DOMAIN slab.list = {}
      BY IdleFacts, SMTT(60) DEF Init, HandsOf
    <2> QED
      BY <2>1 DEF Sound, Apart, Within
  <1> QED
    BY <1>1, <1>2, <1>3 DEF MemInv

LEMMA MemInvNext == MemInv /\ [Next]_vars => MemInv'
  <1> SUFFICES ASSUME MemInv, [Next]_vars PROVE MemInv'
    OBVIOUS
  <1>1. ASSUME NEW t \in Tasks, Step(t) PROVE MemInv'
    BY <1>1, CallAllocPageStep, AllocPageLoadStep, AllocPageClaimStep, AllocPageCountStep, TestStep,
       TakeStep, CountRunStep, CallFreePageStep, CallDeallocStep, FreePageClearStep,
       FreePageCountStep, CallAllocStep, LockStep, PopStep, RefillStep, LargeStep, PushStep,
       DeallocLargeStep, SyscallStep
       DEF Step
  <1>2. CASE UNCHANGED vars
    <2>1. /\ used' = used /\ free_pages' = free_pages /\ slab' = slab /\ task' = task /\ held' = held
          /\ hung' = hung /\ raced' = raced
      BY <1>2 DEF vars
    <2>2. TypeOK' /\ \A t \in Tasks : Placed(task'[t])
      BY <2>1 DEF MemInv, TypeOK
    <2>3. HandsOf(task)' = HandsOf(task)
      BY <2>1 DEF HandsOf
    <2>4. (~raced => Sound(held, HandsOf(task), slab.list, used))'
      BY <2>1, <2>3 DEF MemInv
    <2> QED
      BY <2>2, <2>4 DEF MemInv
  <1> QED
    BY <1>1, <1>2 DEF Next, Spin

\* The invariant holds of pmm.rs and heap.rs under every interleaving.
THEOREM MemoryInvariant == Spec => []MemInv
  BY MemInvInit, MemInvNext, PTL DEF Spec

\* As long as alloc_contiguous() has not lost its race, no byte is handed out
\* twice by alloc_page(), alloc_contiguous() or the free lists of the heap, and
\* all that is in use lies on pages whose bits are set.
THEOREM MemoryOwnedOnce == Spec => []OwnedOnce
  <1>1. MemInv => OwnedOnce
    <2> SUFFICES ASSUME MemInv PROVE OwnedOnce
      OBVIOUS
    <2>1. ASSUME ~raced, NEW c \in Claims
          PROVE  \/ \E t \in Tasks : \E b \in held[t] : c = [by |-> <<t, b>>, units |-> Units(b)]
                 \/ \E t \in Tasks : c = [by |-> <<t>>, units |-> InHand(task[t])]
                 \/ \E i \in DOMAIN slab.list : c = [by |-> <<i>>, units |-> Units(slab.list[i])]
      <3>1. CASE c \in HeldClaims
        <4>1. PICK t \in Tasks : c \in {[by |-> <<t, b>>, units |-> Units(b)] : b \in held[t]}
          BY <3>1 DEF HeldClaims
        <4> QED
          BY <4>1
      <3>2. CASE c \in HandClaims
        BY <3>2 DEF HandClaims
      <3>3. CASE c \in ListClaims
        BY <3>3 DEF ListClaims
      <3> QED
        BY <2>1, <3>1, <3>2, <3>3 DEF Claims
    <2>2. \A t \in Tasks : HandsOf(task)[t] = InHand(task[t])
      BY DEF HandsOf
    <2>3. ASSUME ~raced, NEW c \in Claims, NEW d \in Claims, c # d PROVE c.units \cap d.units = {}
      <3>1. Apart(held, HandsOf(task), slab.list)
        BY <2>3 DEF MemInv, Sound
      <3>2. CASE \E t \in Tasks : \E b \in held[t] : c = [by |-> <<t, b>>, units |-> Units(b)]
        BY <2>1, <2>2, <2>3, <3>1, <3>2, SMTT(60) DEF Apart
      <3>3. CASE \E t \in Tasks : c = [by |-> <<t>>, units |-> InHand(task[t])]
        BY <2>1, <2>2, <2>3, <3>1, <3>3, SMTT(60) DEF Apart
      <3>4. CASE \E i \in DOMAIN slab.list : c = [by |-> <<i>>, units |-> Units(slab.list[i])]
        BY <2>1, <2>2, <2>3, <3>1, <3>4, SMTT(60) DEF Apart
      <3> QED
        BY <2>1, <2>3, <3>2, <3>3, <3>4
    <2>4. ASSUME ~raced, NEW c \in Claims PROVE c.units \subseteq UnitsOf(used)
      BY <2>1, <2>2, <2>4, SMTT(60) DEF MemInv, Sound, Within
    <2> QED
      BY <2>3, <2>4 DEF OwnedOnce, MemInv
  <1> QED
    BY <1>1, MemoryInvariant, PTL
-----------------------------------------------------------------------------
(* FREE_PAGES *)

\* One task's turn.
Only(t) == \A u \in Tasks : u # t => task'[u] = task[u]

\* Pages are apart when their units are.
LEMMA UnitPages ==
    ASSUME NEW P, NEW Q
    PROVE  /\ UnitsOf(P) \cap UnitsOf(Q) = {} => P \cap Q = {}
           /\ UnitsOf(P) \subseteq UnitsOf(Q) => P \subseteq Q
  <1>1. 0 \in 0..(CHUNKS - 1)
    BY ChunksIsPositive, SMTT(60)
  <1>2. \A R, p : p \in R <=> <<p, 0>> \in UnitsOf(R)
    BY <1>1, SMTT(60) DEF UnitsOf
  <1> QED BY <1>2

LEMMA ClaimedFacts ==
    ASSUME NEW k
    PROVE  /\ k.at = "count" => Claimed(k) = {k.offset}
           /\ k.at \in {"take", "count_run"} => Claimed(k) = k.first..(k.first + k.offset - 1)
           /\ k.at \notin {"count", "take", "count_run"} => Claimed(k) = {}
           /\ Claimed(k) = {} \/ InHand(k) = UnitsOf(Claimed(k))
  <1>1. /\ k.at = "count" => Claimed(k) = {k.offset}
        /\ k.at \in {"take", "count_run"} => Claimed(k) = k.first..(k.first + k.offset - 1)
        /\ k.at \notin {"count", "take", "count_run"} => Claimed(k) = {}
    BY DEF Claimed
  <1> QED BY <1>1, HandFacts

\* Without a lost race the pages that tasks have claimed are marked and apart.
LEMMA ClaimedApart ==
    ASSUME MemInv, ~raced
    PROVE  /\ \A t \in Tasks : Claimed(task[t]) \subseteq used
           /\ \A t, u \in Tasks : t # u => Claimed(task[t]) \cap Claimed(task[u]) = {}
           /\ \A t, u \in Tasks : \A p : t # u /\ UnitsOf({p}) \subseteq InHand(task[t]) =>
                p \in used /\ p \notin Claimed(task[u])
           /\ Uncounted \subseteq used
  <1>1. \A t \in Tasks : HandsOf(task)[t] = InHand(task[t])
    BY DEF HandsOf
  <1>2. Apart(held, HandsOf(task), slab.list) /\ Within(held, HandsOf(task), slab.list, used)
    BY DEF MemInv, Sound
  <1>3. /\ \A t \in Tasks : InHand(task[t]) \subseteq UnitsOf(used)
        /\ \A t, u \in Tasks : t # u => InHand(task[t]) \cap InHand(task[u]) = {}
    BY <1>1, <1>2 DEF Apart, Within
  <1>4. ASSUME NEW t \in Tasks PROVE Claimed(task[t]) \subseteq used
    <2>1. Claimed(task[t]) = {} \/ InHand(task[t]) = UnitsOf(Claimed(task[t]))
      BY ClaimedFacts
    <2>2. UnitsOf(Claimed(task[t])) \subseteq UnitsOf(used) => Claimed(task[t]) \subseteq used
      BY UnitPages
    <2> QED BY <1>3, <2>1, <2>2
  <1>5. ASSUME NEW t \in Tasks, NEW u \in Tasks, t # u PROVE Claimed(task[t]) \cap Claimed(task[u]) = {}
    <2>1. CASE Claimed(task[t]) = {} \/ Claimed(task[u]) = {}
      BY <2>1
    <2>2. CASE InHand(task[t]) = UnitsOf(Claimed(task[t])) /\ InHand(task[u]) = UnitsOf(Claimed(task[u]))
      <3>1. UnitsOf(Claimed(task[t])) \cap UnitsOf(Claimed(task[u])) = {}
        BY <1>3, <1>5, <2>2
      <3>2. UnitsOf(Claimed(task[t])) \cap UnitsOf(Claimed(task[u])) = {} =>
              Claimed(task[t]) \cap Claimed(task[u]) = {}
        BY UnitPages, SMTT(60)
      <3> QED BY <3>1, <3>2
    <2> QED BY <2>1, <2>2, ClaimedFacts
  <1>6. ASSUME NEW t \in Tasks, NEW u \in Tasks, NEW p, t # u, UnitsOf({p}) \subseteq InHand(task[t])
        PROVE  p \in used /\ p \notin Claimed(task[u])
    <2>1. UnitsOf({p}) \subseteq UnitsOf(used) /\ UnitsOf({p}) \cap InHand(task[u]) = {}
      BY <1>3, <1>6
    <2>2. {p} \subseteq used
      BY <2>1, UnitPages
    <2>3. InHand(task[u]) = UnitsOf(Claimed(task[u])) => {p} \cap Claimed(task[u]) = {}
      <3>1. UnitsOf({p}) \cap UnitsOf(Claimed(task[u])) = {} => {p} \cap Claimed(task[u]) = {}
        BY UnitPages, SMTT(60)
      <3> QED BY <2>1, <3>1
    <2> QED BY <2>2, <2>3, ClaimedFacts
  <1>7. Uncounted \subseteq used
    BY <1>4 DEF Uncounted
  <1> QED BY <1>4, <1>5, <1>6, <1>7

\* What one task's turn does to the pages that are claimed.
LEMMA UncountedStep ==
    ASSUME MemInv, ~raced, NEW t \in Tasks, Only(t)
    PROVE  Uncounted' = (Uncounted \ Claimed(task[t])) \cup Claimed(task'[t])
  <1>1. \A u \in Tasks : u # t => Claimed(task'[u]) = Claimed(task[u]) /\ Claimed(task[u]) \cap Claimed(task[t]) = {}
    BY ClaimedApart DEF Only
  <1>2. \A p : p \in Uncounted <=> \E u \in Tasks : p \in Claimed(task[u])
    BY DEF Uncounted
  <1>3. \A p : p \in Uncounted' <=> \E u \in Tasks : p \in Claimed(task'[u])
    BY DEF Uncounted, Claimed
  <1> QED BY <1>1, <1>2, <1>3

LEMMA BooksAreFinite ==
    /\ TypeOK => IsFiniteSet(Page \ used) /\ IsFiniteSet(used)
    /\ IsFiniteSet(Freeing) /\ Cardinality(Freeing) \in Nat
    /\ MemInv /\ ~raced => /\ IsFiniteSet((Page \ used) \cup Uncounted)
                           /\ Cardinality((Page \ used) \cup Uncounted) \in Nat
  <1>1. IsFiniteSet(Page)
    BY BitmapShape, FS_Interval, SMTT(60) DEF Page
  <1>2. TypeOK => IsFiniteSet(Page \ used) /\ IsFiniteSet(used)
    <2>1. TypeOK => (Page \ used) \in SUBSET Page /\ used \in SUBSET Page
      BY DEF TypeOK
    <2> QED BY <1>1, <2>1, FS_Subset
  <1>3. IsFiniteSet(Freeing) /\ Cardinality(Freeing) \in Nat
    <2>1. Freeing \in SUBSET Tasks
      BY DEF Freeing
    <2> QED BY <2>1, TasksAssumption, FS_Subset, FS_CardinalityType
  <1>4. ASSUME MemInv, ~raced
        PROVE  /\ IsFiniteSet((Page \ used) \cup Uncounted)
               /\ Cardinality((Page \ used) \cup Uncounted) \in Nat
    <2>1. ((Page \ used) \cup Uncounted) \in SUBSET Page
      BY <1>4, ClaimedApart DEF MemInv, TypeOK
    <2> QED BY <1>1, <2>1, FS_Subset, FS_CardinalityType
  <1> QED BY <1>2, <1>3, <1>4

\* The operations that touch neither the bitmap nor FREE_PAGES.
LEMMA ExactSame ==
    ASSUME MemInv, FreePagesExact, NEW t \in Tasks, Only(t), used' = used, free_pages' = free_pages,
           raced' = raced, Claimed(task[t]) = {}, Claimed(task'[t]) = {},
           task[t].at # "count_free", task'[t].at # "count_free"
    PROVE  FreePagesExact'
  <1>1. SUFFICES ASSUME ~raced PROVE FreePagesExact'
    BY DEF FreePagesExact
  <1>2. Uncounted' = Uncounted
    BY <1>1, UncountedStep
  <1>3. Freeing' = Freeing
    BY DEF Freeing, Only
  <1>4. Page' = Page
    BY DEF Page
  <1> QED BY <1>1, <1>2, <1>3, <1>4 DEF FreePagesExact

\* A page is claimed: it counts as free until it is subtracted.
LEMMA ExactClaim ==
    ASSUME MemInv, FreePagesExact, NEW t \in Tasks, Only(t), NEW p \in Page, p \notin used,
           used' = used \cup {p}, free_pages' = free_pages, raced' = raced,
           Claimed(task'[t]) = Claimed(task[t]) \cup {p},
           task[t].at # "count_free", task'[t].at # "count_free"
    PROVE  FreePagesExact'
  <1>1. SUFFICES ASSUME ~raced PROVE FreePagesExact'
    BY DEF FreePagesExact
  <1>2. Uncounted' = (Uncounted \ Claimed(task[t])) \cup Claimed(task[t]) \cup {p}
    BY <1>1, UncountedStep
  <1>3. Claimed(task[t]) \subseteq Uncounted
    BY DEF Uncounted
  <1>4. (Page \ used') \cup Uncounted' = (Page \ used) \cup Uncounted
    BY <1>2, <1>3
  <1>5. Freeing' = Freeing
    BY DEF Freeing, Only
  <1>6. ((Page \ used) \cup Uncounted)' = (Page \ used) \cup Uncounted
    BY <1>4 DEF Page
  <1> QED BY <1>1, <1>5, <1>6 DEF FreePagesExact

\* The pages that a task has claimed are subtracted.
LEMMA ExactCount ==
    ASSUME MemInv, FreePagesExact, NEW t \in Tasks, Only(t), NEW n \in Nat,
           used' = used, free_pages' = free_pages - n, raced' = raced,
           Cardinality(Claimed(task[t])) = n, Claimed(task'[t]) = {},
           task[t].at # "count_free", task'[t].at # "count_free"
    PROVE  FreePagesExact'
  <1>1. SUFFICES ASSUME ~raced PROVE FreePagesExact'
    BY DEF FreePagesExact
  <1> DEFINE A == (Page \ used) \cup Uncounted
             C == Claimed(task[t])
  <1>2. Uncounted' = Uncounted \ C
    BY <1>1, UncountedStep
  <1>3. C \subseteq Uncounted /\ C \subseteq used
    BY <1>1, ClaimedApart DEF Uncounted
  <1>4. ((Page \ used) \cup Uncounted)' = A \ C /\ A \cap C = C
    BY <1>2, <1>3 DEF Page
  <1>5. Freeing' = Freeing
    BY DEF Freeing, Only
  <1>6. IsFiniteSet(A) /\ Cardinality(A) \in Nat /\ Cardinality(Freeing) \in Nat
    BY <1>1, BooksAreFinite
  <1>7. free_pages + Cardinality(Freeing) = Cardinality(A) /\ free_pages \in Int
    BY <1>1 DEF FreePagesExact, MemInv, TypeOK
  <1> HIDE DEF A, C
  <1>8. Cardinality(A \ C) = Cardinality(A) - Cardinality(A \cap C)
    BY <1>6, FS_Difference
  <1>9. Cardinality(A \ C) = Cardinality(A) - n
    BY <1>4, <1>8 DEF C
  <1>10. free_pages - n + Cardinality(Freeing) = Cardinality(A \ C)
    BY <1>6, <1>7, <1>9, SMTT(60)
  <1> QED BY <1>4, <1>5, <1>10 DEF FreePagesExact

\* A bit is cleared, and the page added later.
LEMMA ExactClear ==
    ASSUME MemInv, FreePagesExact, NEW t \in Tasks, Only(t), NEW p \in Page,
           UnitsOf({p}) \subseteq InHand(task[t]), Claimed(task[t]) = {}, Claimed(task'[t]) = {},
           used' = used \ {p}, free_pages' = free_pages, raced' = raced,
           task[t].at # "count_free", task'[t].at = "count_free"
    PROVE  FreePagesExact'
  <1>1. SUFFICES ASSUME ~raced PROVE FreePagesExact'
    BY DEF FreePagesExact
  <1> DEFINE A == (Page \ used) \cup Uncounted
  <1>2. Uncounted' = Uncounted
    BY <1>1, UncountedStep
  <1>3. \A u \in Tasks : p \notin Claimed(task[u])
    BY <1>1, ClaimedApart
  <1>4. p \notin Uncounted
    BY <1>3 DEF Uncounted
  <1>5. p \in used
    <2>1. UnitsOf({p}) \subseteq UnitsOf(used)
      BY <1>1 DEF MemInv, Sound, Within, HandsOf
    <2>2. {p} \subseteq used
      BY <2>1, UnitPages
    <2> QED BY <2>2
  <1>6. ((Page \ used) \cup Uncounted)' = A \cup {p} /\ p \notin A
    BY <1>2, <1>4, <1>5 DEF Page
  <1>7. Freeing' = Freeing \cup {t} /\ t \notin Freeing
    <2>1. \A u : u \in Freeing <=> u \in Tasks /\ task[u].at = "count_free"
      BY DEF Freeing
    <2>2. \A u : u \in Freeing' <=> u \in Tasks /\ task'[u].at = "count_free"
      BY DEF Freeing
    <2>3. \A u : u \in Freeing' <=> u \in Freeing \/ u = t
      BY <2>1, <2>2 DEF Only
    <2> QED BY <2>1, <2>3
  <1>8. IsFiniteSet(A) /\ Cardinality(A) \in Nat /\ IsFiniteSet(Freeing) /\ Cardinality(Freeing) \in Nat
    BY <1>1, BooksAreFinite
  <1>9. free_pages + Cardinality(Freeing) = Cardinality(A) /\ free_pages \in Int
    BY <1>1 DEF FreePagesExact, MemInv, TypeOK
  <1> HIDE DEF A
  <1>10. Cardinality(A \cup {p}) = Cardinality(A) + 1
    BY <1>6, <1>8, FS_AddElement
  <1>11. Cardinality(Freeing \cup {t}) = Cardinality(Freeing) + 1
    BY <1>7, <1>8, FS_AddElement
  <1>12. free_pages + Cardinality(Freeing \cup {t}) = Cardinality(A \cup {p})
    BY <1>8, <1>9, <1>10, <1>11, SMTT(60)
  <1> QED BY <1>6, <1>7, <1>12 DEF FreePagesExact

\* It is added.
LEMMA ExactAdd ==
    ASSUME MemInv, FreePagesExact, NEW t \in Tasks, Only(t), Claimed(task[t]) = {}, Claimed(task'[t]) = {},
           used' = used, free_pages' = free_pages + 1, raced' = raced,
           task[t].at = "count_free", task'[t].at # "count_free"
    PROVE  FreePagesExact'
  <1>1. SUFFICES ASSUME ~raced PROVE FreePagesExact'
    BY DEF FreePagesExact
  <1> DEFINE A == (Page \ used) \cup Uncounted
  <1>2. Uncounted' = Uncounted
    BY <1>1, UncountedStep
  <1>3. ((Page \ used) \cup Uncounted)' = A
    BY <1>2 DEF Page
  <1>4. Freeing' = Freeing \ {t} /\ t \in Freeing
    BY DEF Freeing, Only
  <1>5. Cardinality(A) \in Nat /\ IsFiniteSet(Freeing) /\ Cardinality(Freeing) \in Nat
    BY <1>1, BooksAreFinite
  <1>6. free_pages + Cardinality(Freeing) = Cardinality(A) /\ free_pages \in Int
    BY <1>1 DEF FreePagesExact, MemInv, TypeOK
  <1> HIDE DEF A
  <1>7. Cardinality(Freeing \ {t}) = Cardinality(Freeing) - 1
    BY <1>4, <1>5, FS_RemoveElement
  <1>8. free_pages + 1 + Cardinality(Freeing \ {t}) = Cardinality(A)
    BY <1>5, <1>6, <1>7, SMTT(60)
  <1> QED BY <1>3, <1>4, <1>8 DEF FreePagesExact

-----------------------------------------------------------------------------
(* The books, operation by operation *)

Locks ==
    /\ \A t \in Tasks : task[t].heap <=> slab.holder = t
    /\ hung => slab.holder # Nobody

LEMMA GoFacts ==
    ASSUME TypeOK, NEW t \in Tasks, NEW at, Go(t, at)
    PROVE  Only(t) /\ task'[t].at = at /\ task'[t].heap = task[t].heap
  <1>1. task[t] \in Task /\ DOMAIN task = Tasks
    BY TaskFields
  <1> QED BY <1>1 DEF Go, Only, Task

LEMMA TurnFacts ==
    ASSUME TypeOK, NEW t \in Tasks, NEW k, task' = [task EXCEPT ![t] = k]
    PROVE  Only(t) /\ task'[t] = k
  BY TaskFields DEF Only

LEMMA IdleClaims == Idle.at = "idle" /\ Idle.heap = FALSE /\ Claimed(Idle) = {}
  <1>1. Idle.at = "idle" /\ Idle.heap = FALSE
    BY DEF Idle
  <1> QED BY <1>1, ClaimedFacts

LEMMA LocksSame ==
    ASSUME Locks, NEW t \in Tasks, Only(t), task'[t].heap = task[t].heap,
           slab'.holder = slab.holder, hung' = hung
    PROVE  Locks'
  BY DEF Locks, Only

LEMMA LocksReturn ==
    ASSUME TypeOK, Locks, ~hung, hung' = hung, NEW t \in Tasks, NEW l, Return(t, l)
    PROVE  Locks' /\ Only(t) /\ task'[t] = Idle
  <1>1. Only(t) /\ task'[t] = Idle
    BY TurnFacts DEF Return
  <1>2. slab'.holder = IF task[t].heap THEN Nobody ELSE slab.holder
    BY DEF Return
  <1>3. \A u \in Tasks : Nobody # u
    BY TasksAssumption DEF Nobody
  <1>4. ASSUME NEW u \in Tasks PROVE task'[u].heap <=> slab'.holder = u
    <2>1. CASE u = t
      BY <1>1, <1>2, <1>3, <2>1, IdleClaims DEF Locks
    <2>2. CASE u # t
      BY <1>1, <1>2, <1>3, <2>2 DEF Locks, Only
    <2> QED BY <2>1, <2>2
  <1> QED BY <1>1, <1>4 DEF Locks

\* A step that goes on from one place without a claim to another.
Quietly(t) ==
    /\ UNCHANGED <<used, free_pages, raced, hung>> /\ Only(t) /\ slab'.holder = slab.holder
    /\ task'[t].heap = task[t].heap
    /\ Claimed(task[t]) = {} /\ Claimed(task'[t]) = {}
    /\ task[t].at # "count_free" /\ task'[t].at # "count_free"

LEMMA BooksQuiet ==
    ASSUME MemInv, FreePagesExact, Locks, NEW t \in Tasks, Quietly(t)
    PROVE  FreePagesExact' /\ Locks'
  BY ExactSame, LocksSame DEF Quietly

LEMMA BooksGo ==
    ASSUME MemInv, FreePagesExact, Locks, NEW t \in Tasks,
           NEW at \in {"load", "test", "clear", "lock_small", "lock_large"}, Go(t, at),
           task[t].at \in {"idle", "small", "large", "free"},
           UNCHANGED <<used, free_pages, slab, hung, raced>>
    PROVE  FreePagesExact' /\ Locks'
  <1>1. Only(t) /\ task'[t].at = at /\ task'[t].heap = task[t].heap
    BY GoFacts DEF MemInv
  <1>2. Claimed(task[t]) = {} /\ Claimed(task'[t]) = {}
    BY <1>1, ClaimedFacts
  <1>3. Quietly(t)
    BY <1>1, <1>2 DEF Quietly
  <1> QED BY <1>3, BooksQuiet

LEMMA BooksReturn ==
    ASSUME MemInv, FreePagesExact, Locks, NEW t \in Tasks, NEW l, Return(t, l), ~hung,
           task[t].at \in {"load", "test", "small", "free"},
           UNCHANGED <<used, free_pages, hung, raced>>
    PROVE  FreePagesExact' /\ Locks'
  <1>1. Locks' /\ Only(t) /\ task'[t] = Idle
    BY LocksReturn DEF MemInv
  <1>2. Claimed(task[t]) = {} /\ Claimed(task'[t]) = {} /\ task'[t].at = "idle"
    BY <1>1, ClaimedFacts, IdleClaims
  <1> QED BY <1>1, <1>2, ExactSame

LEMMA BooksLoad ==
    ASSUME MemInv, FreePagesExact, Locks, NEW t \in Tasks, alloc_page_load(t)
    PROVE  FreePagesExact' /\ Locks'
  <1>1. PICK o \in Task, w \in Nat : o = task[t] /\ w = task[t].first
    BY TaskFields DEF MemInv
  <1>2. ~hung /\ task[t].at = "load" /\ UNCHANGED <<used, free_pages, hung, raced>>
    BY DEF alloc_page_load, At
  <1>3. CASE Return(t, slab.list)
    BY <1>2, <1>3, BooksReturn
  <1>4. CASE ~Return(t, slab.list)
    <2>1. PICK k : /\ task' = [task EXCEPT ![t] = k] /\ slab' = slab
                   /\ \/ k = Loop(o, "load", w + 1, 0)
                      \/ k = Loop(o, "claim", w, Min(WordOf(w) \ used))
      BY <1>1, <1>4 DEF alloc_page_load
    <2>3. k.at \in {"load", "claim"} /\ k.heap = o.heap
      <3>1. CASE k = Loop(o, "load", w + 1, 0)
        BY <3>1, SMTT(60) DEF Loop, Task
      <3>2. CASE k = Loop(o, "claim", w, Min(WordOf(w) \ used))
        <4>1. PICK m : m = Min(WordOf(w) \ used)
          OBVIOUS
        <4>2. k = Loop(o, "claim", w, m)
          BY <3>2, <4>1
        <4> QED BY <4>2, SMTT(60) DEF Loop, Task
      <3> QED BY <2>1, <3>1, <3>2
    <2>4. Only(t) /\ task'[t] = k
      BY <2>1, TurnFacts DEF MemInv
    <2>5. Claimed(task[t]) = {} /\ Claimed(k) = {}
      BY <1>2, <2>3, ClaimedFacts
    <2>6. Quietly(t)
      BY <1>1, <1>2, <2>1, <2>3, <2>4, <2>5 DEF Quietly
    <2> QED BY <2>6, BooksQuiet
  <1> QED BY <1>3, <1>4

LEMMA BooksClaim ==
    ASSUME MemInv, FreePagesExact, Locks, NEW t \in Tasks, alloc_page_claim(t)
    PROVE  FreePagesExact' /\ Locks'
  <1>1. PICK o \in Task, w \in Nat, p \in Nat : o = task[t] /\ w = task[t].first /\ p = task[t].offset
    BY TaskFields DEF MemInv
  <1>2. /\ task[t].at = "claim" /\ p \in Page /\ UNCHANGED <<free_pages, slab, hung, raced>>
        /\ used' = used \cup {p}
    BY <1>1 DEF MemInv, alloc_page_claim, At, Placed
  <1>3. PICK k : /\ task' = [task EXCEPT ![t] = k]
                 /\ k = IF p \in used THEN Loop(o, "load", w + 1, 0) ELSE Loop(o, "count", w, p)
    BY <1>1 DEF alloc_page_claim
  <1>4. Only(t) /\ task'[t] = k
    BY <1>3, TurnFacts DEF MemInv
  <1>5. Claimed(task[t]) = {}
    BY <1>2, ClaimedFacts
  <1>6. CASE p \in used
    <2>1. k.at = "load" /\ k.heap = o.heap
      BY <1>3, <1>6, SMTT(60) DEF Loop, Task
    <2>2. Claimed(k) = {}
      BY <2>1, ClaimedFacts
    <2>3. Quietly(t)
      BY <1>1, <1>2, <1>4, <1>5, <1>6, <2>1, <2>2 DEF Quietly
    <2> QED BY <2>3, BooksQuiet
  <1>7. CASE p \notin used
    <2>1. k.at = "count" /\ k.heap = o.heap /\ k.offset = p
      BY <1>3, <1>7, SMTT(60) DEF Loop, Task
    <2>2. Claimed(k) = {p}
      BY <2>1, ClaimedFacts
    <2>3. FreePagesExact'
      BY <1>2, <1>4, <1>5, <1>7, <2>1, <2>2, ExactClaim
    <2> QED BY <1>1, <1>2, <1>4, <2>1, <2>3, LocksSame
  <1> QED BY <1>6, <1>7

LEMMA BooksCount ==
    ASSUME MemInv, FreePagesExact, Locks, NEW t \in Tasks, alloc_page_count(t) \/ alloc_contiguous_count(t)
    PROVE  FreePagesExact' /\ Locks'
  <1>1. PICK n \in Nat :
          /\ free_pages' = free_pages - n /\ (\E l : Return(t, l)) /\ ~hung /\ UNCHANGED <<used, hung, raced>>
          /\ \/ n = 1 /\ task[t].at = "count"
             \/ n = RUN /\ task[t].at = "count_run"
    <2>1. RUN \in Nat /\ 1 \in Nat
      BY RunIsLarge
    <2> QED BY <2>1 DEF alloc_page_count, alloc_contiguous_count, At
  <1>2. Cardinality(Claimed(task[t])) = n
    <2>1. CASE n = 1 /\ task[t].at = "count"
      BY <2>1, ClaimedFacts, FS_Singleton
    <2>2. CASE n = RUN /\ task[t].at = "count_run"
      <3>1. PICK a \in Nat : a = task[t].first
        BY TaskFields DEF MemInv
      <3>2. Claimed(task[t]) = a..(a + RUN - 1)
        BY <2>2, <3>1, ClaimedFacts DEF MemInv, Placed
      <3>3. a \in Int /\ a + RUN - 1 \in Int /\ ~(a > a + RUN - 1) /\ (a + RUN - 1) - a + 1 = RUN
        BY RunIsLarge, SMTT(60)
      <3>4. PICK b \in Int : b = a + RUN - 1
        BY <3>3
      <3>5. Cardinality(a..b) = IF a > b THEN 0 ELSE b - a + 1
        BY <3>3, FS_Interval
      <3> QED BY <2>2, <3>2, <3>3, <3>4, <3>5
    <2> QED BY <1>1, <2>1, <2>2
  <1>3. Locks' /\ Only(t) /\ task'[t] = Idle
    BY <1>1, LocksReturn DEF MemInv
  <1>4. FreePagesExact'
    BY <1>1, <1>2, <1>3, IdleClaims, ExactCount
  <1> QED BY <1>3, <1>4

LEMMA BooksTest ==
    ASSUME MemInv, FreePagesExact, Locks, NEW t \in Tasks, alloc_contiguous_test(t)
    PROVE  FreePagesExact' /\ Locks'
  <1>1. PICK o \in Task, i \in Nat, j \in Nat : o = task[t] /\ i = task[t].first /\ j = task[t].offset
    BY TaskFields DEF MemInv
  <1>2. ~hung /\ task[t].at = "test" /\ UNCHANGED <<used, free_pages, hung, raced>>
    BY DEF alloc_contiguous_test, At
  <1>3. CASE Return(t, slab.list)
    BY <1>2, <1>3, BooksReturn
  <1>4. CASE ~Return(t, slab.list)
    <2>1. PICK k : /\ task' = [task EXCEPT ![t] = k] /\ slab' = slab
                   /\ \/ k = Loop(o, "take", i, 0)
                      \/ k = Loop(o, "test", i + 1, 0)
                      \/ k = Loop(o, "test", i, j + 1)
      BY <1>1, <1>4 DEF alloc_contiguous_test
    <2>2. /\ k.heap = o.heap /\ k.at \in {"take", "test"}
          /\ k.at = "take" => k.first = i /\ k.offset = 0
      <3>1. CASE k = Loop(o, "take", i, 0)
        BY <3>1, SMTT(60) DEF Loop, Task
      <3>2. CASE k = Loop(o, "test", i + 1, 0)
        BY <3>2, SMTT(60) DEF Loop, Task
      <3>3. CASE k = Loop(o, "test", i, j + 1)
        BY <3>3, SMTT(60) DEF Loop, Task
      <3> QED BY <2>1, <3>1, <3>2, <3>3
    <2>3. Only(t) /\ task'[t] = k
      BY <2>1, TurnFacts DEF MemInv
    <2>4. i..(i + 0 - 1) = {}
      BY SMTT(60)
    <2>5. Claimed(task[t]) = {} /\ Claimed(k) = {}
      BY <1>2, <2>2, <2>4, ClaimedFacts
    <2>6. Quietly(t)
      BY <1>1, <1>2, <2>1, <2>2, <2>3, <2>5 DEF Quietly
    <2> QED BY <2>6, BooksQuiet
  <1> QED BY <1>3, <1>4

LEMMA BooksTake ==
    ASSUME MemInv, FreePagesExact, Locks, NEW t \in Tasks, alloc_contiguous_take(t)
    PROVE  FreePagesExact' /\ Locks'
  <1>1. PICK o \in Task, i \in Nat, j \in Nat : o = task[t] /\ i = task[t].first /\ j = task[t].offset
    BY TaskFields DEF MemInv
  <1>2. /\ task[t].at = "take" /\ UNCHANGED <<free_pages, slab, hung>>
        /\ used' = used \cup {i + j} /\ raced' = (raced \/ i + j \in used)
    BY <1>1 DEF alloc_contiguous_take, At
  <1>3. PICK k : task' = [task EXCEPT ![t] = k] /\ \E at \in {"count_run", "take"} : k = Loop(o, at, i, j + 1)
    BY <1>1 DEF alloc_contiguous_take
  <1>4. k.at \in {"count_run", "take"} /\ k.heap = o.heap /\ k.first = i /\ k.offset = j + 1
    BY <1>3, SMTT(60) DEF Loop, Task
  <1>5. Only(t) /\ task'[t] = k
    BY <1>3, TurnFacts DEF MemInv
  <1>6. Locks'
    BY <1>1, <1>2, <1>4, <1>5, LocksSame
  <1>7. CASE i + j \in used \/ raced
    BY <1>2, <1>6, <1>7 DEF FreePagesExact
  <1>8. CASE i + j \notin used /\ ~raced
    <2>1. i + j \in Page
      <3>1. j < RUN /\ i + RUN <= MAX_PAGES
        BY <1>1, <1>2 DEF MemInv, Placed
      <3> QED BY <3>1, BitmapShape, RunIsLarge, SMTT(60) DEF Page
    <2>2. Claimed(task[t]) = i..(i + j - 1) /\ Claimed(k) = i..(i + (j + 1) - 1)
      BY <1>1, <1>2, <1>4, ClaimedFacts
    <2>3. i..(i + (j + 1) - 1) = i..(i + j - 1) \cup {i + j}
      BY SMTT(60)
    <2>4. raced' = raced
      BY <1>2, <1>8 DEF MemInv, TypeOK
    <2>5. FreePagesExact'
      BY <1>2, <1>4, <1>5, <1>8, <2>1, <2>2, <2>3, <2>4, ExactClaim
    <2> QED BY <1>6, <2>5
  <1> QED BY <1>7, <1>8

\* A block goes back, to alloc_page() or to the heap.
LEMMA BooksGivenBack ==
    ASSUME MemInv, FreePagesExact, Locks, NEW t \in Tasks, NEW u, NEW b,
           call_free_page(t, u, b) \/ call_dealloc(t, u, b)
    PROVE  FreePagesExact' /\ Locks'
  <1>1. PICK o \in Task : o = task[t]
    BY TaskFields DEF MemInv
  <1>2. PICK at \in {"clear", "lock_free"} : task' = [task EXCEPT ![t] = [task[t] EXCEPT !.at = at, !.block = b]]
    BY DEF call_free_page, call_dealloc
  <1>a. PICK k : k = [o EXCEPT !.at = at, !.block = b]
    OBVIOUS
  <1>b. task' = [task EXCEPT ![t] = k]
    BY <1>1, <1>2, <1>a
  <1>c. task[t].at = "idle" /\ UNCHANGED <<used, free_pages, slab, hung, raced>>
    BY DEF call_free_page, call_dealloc, At
  <1>3. k.at = at /\ k.heap = o.heap
    BY <1>a DEF Task
  <1>4. Only(t) /\ task'[t] = k
    BY <1>b, TurnFacts DEF MemInv
  <1>5. Claimed(task[t]) = {} /\ Claimed(k) = {}
    BY <1>c, <1>3, ClaimedFacts
  <1>6. Quietly(t)
    BY <1>1, <1>c, <1>3, <1>4, <1>5 DEF Quietly
  <1> QED BY <1>6, BooksQuiet

LEMMA BooksClear ==
    ASSUME MemInv, FreePagesExact, Locks, NEW t \in Tasks, free_page_clear(t)
    PROVE  FreePagesExact' /\ Locks'
  <1>1. PICK p : p = task[t].block.page + task[t].offset
    OBVIOUS
  <1>2. /\ task[t].at = "clear" /\ Go(t, "count_free") /\ used' = used \ {p}
        /\ UNCHANGED <<free_pages, slab, hung, raced>>
    BY <1>1 DEF free_page_clear, At
  <1>3. Only(t) /\ task'[t].at = "count_free" /\ task'[t].heap = task[t].heap
    BY <1>2, GoFacts DEF MemInv
  <1>4. Locks'
    BY <1>2, <1>3, LocksSame
  <1>5. Claimed(task[t]) = {} /\ Claimed(task'[t]) = {}
    BY <1>2, <1>3, ClaimedFacts
  <1>6. SUFFICES ASSUME ~raced PROVE FreePagesExact'
    BY <1>2, <1>4 DEF FreePagesExact
  <1>7. UnitsOf({p}) \subseteq InHand(task[t])
    <2>1. PICK q \in Nat, j \in Nat, e \in Nat :
            /\ q = task[t].block.page /\ j = task[t].offset
            /\ e = IF task[t].block.kind = "run" THEN RUN ELSE 1
      BY TaskFields, RunIsLarge DEF MemInv
    <2>2. j < e
      BY <1>2, <2>1 DEF MemInv, Placed
    <2>3. InHand(task[t]) = UnitsOf((q + j)..(q + e - 1))
      BY <1>2, <2>1, SMTT(60) DEF InHand
    <2>4. {q + j} \subseteq (q + j)..(q + e - 1)
      BY <2>2, SMTT(60)
    <2>5. UnitsOf({q + j}) \subseteq UnitsOf((q + j)..(q + e - 1))
      BY <2>4, PageUnits, SMTT(60)
    <2> QED BY <1>1, <2>1, <2>3, <2>5
  <1>8. p \in Page
    <2>1. UnitsOf({p}) \subseteq UnitsOf(used)
      BY <1>6, <1>7 DEF MemInv, Sound, Within, HandsOf
    <2>2. {p} \subseteq used
      BY <2>1, UnitPages
    <2> QED BY <2>2 DEF MemInv, TypeOK
  <1> QED BY <1>2, <1>3, <1>5, <1>7, <1>8, ExactClear

LEMMA BooksAdd ==
    ASSUME MemInv, FreePagesExact, Locks, NEW t \in Tasks, free_page_count(t)
    PROVE  FreePagesExact' /\ Locks'
  <1>1. PICK o \in Task, j \in Nat : o = task[t] /\ j = task[t].offset
    BY TaskFields DEF MemInv
  <1>2. ~hung /\ task[t].at = "count_free" /\ free_pages' = free_pages + 1 /\ UNCHANGED <<used, hung, raced>>
    BY DEF free_page_count, At
  <1>3. Claimed(task[t]) = {}
    BY <1>2, ClaimedFacts
  <1>4. CASE Return(t, slab.list)
    <2>1. Locks' /\ Only(t) /\ task'[t] = Idle
      BY <1>2, <1>4, LocksReturn DEF MemInv
    <2> QED BY <1>2, <1>3, <2>1, IdleClaims, ExactAdd
  <1>5. CASE ~Return(t, slab.list)
    <2>1. PICK k : task' = [task EXCEPT ![t] = k] /\ slab' = slab /\ k = Loop(o, "clear", 0, j + 1)
      BY <1>1, <1>5 DEF free_page_count
    <2>2. k.at = "clear" /\ k.heap = o.heap
      BY <2>1, SMTT(60) DEF Loop, Task
    <2>3. Only(t) /\ task'[t] = k
      BY <2>1, TurnFacts DEF MemInv
    <2>4. Claimed(k) = {}
      BY <2>2, ClaimedFacts
    <2> QED BY <1>1, <1>2, <1>3, <2>1, <2>2, <2>3, <2>4, ExactAdd, LocksSame
  <1> QED BY <1>4, <1>5

LEMMA BooksLock ==
    ASSUME MemInv, FreePagesExact, Locks, NEW t \in Tasks, lock_slab(t)
    PROVE  FreePagesExact' /\ Locks'
  <1>1. PICK o \in Task : o = task[t]
    BY TaskFields DEF MemInv
  <1>2. o.at \in {"lock_small", "lock_large", "lock_free"}
    BY <1>1 DEF lock_slab, Inside
  <1>3. PICK at \in {"small", "large", "free"} : at = Inside[o.at]
    BY <1>2, SMTT(60) DEF Inside
  <1>4. PICK k : task' = [task EXCEPT ![t] = k] /\ k = [o EXCEPT !.at = at, !.heap = TRUE]
    BY <1>1, <1>3 DEF lock_slab
  <1>5. /\ ~hung /\ slab.holder = Nobody /\ slab' = [slab EXCEPT !.holder = t]
        /\ UNCHANGED <<used, free_pages, hung, raced>>
    BY DEF lock_slab
  <1>6. k.at = at /\ k.heap = TRUE
    BY <1>4 DEF Task
  <1>7. Only(t) /\ task'[t] = k
    BY <1>4, TurnFacts DEF MemInv
  <1>8. Claimed(task[t]) = {} /\ Claimed(k) = {}
    BY <1>1, <1>2, <1>6, ClaimedFacts
  <1>9. FreePagesExact'
    BY <1>1, <1>2, <1>5, <1>6, <1>7, <1>8, ExactSame
  <1>10. slab'.holder = t
    BY <1>5 DEF MemInv, TypeOK
  <1>11. \A u \in Tasks : Nobody # u
    BY TasksAssumption DEF Nobody
  <1>12. ASSUME NEW u \in Tasks PROVE task'[u].heap <=> slab'.holder = u
    <2>1. CASE u = t
      BY <1>6, <1>7, <1>10, <2>1
    <2>2. CASE u # t
      BY <1>5, <1>7, <1>10, <1>11, <2>2 DEF Locks, Only
    <2> QED BY <2>1, <2>2
  <1> QED BY <1>5, <1>9, <1>12 DEF Locks

LEMMA BooksSyscall ==
    ASSUME MemInv, FreePagesExact, Locks, NEW t \in Tasks, syscall_alloc(t)
    PROVE  FreePagesExact' /\ Locks'
  <1>1. ~hung /\ task' = task /\ raced' = raced
    BY DEF syscall_alloc, At
  <1>2. Uncounted' = Uncounted /\ Freeing' = Freeing /\ Page' = Page
    BY <1>1 DEF Uncounted, Freeing, Page, Claimed
  <1>3. CASE UNCHANGED <<used, free_pages>>
    <2>1. FreePagesExact'
      BY <1>1, <1>2, <1>3 DEF FreePagesExact
    <2>2. Locks'
      <3>1. \/ hung' = TRUE /\ slab' = slab /\ slab.holder # Nobody
            \/ hung' = hung /\ \E l : slab' = [slab EXCEPT !.list = l]
        BY DEF syscall_alloc
      <3>2. slab'.holder = slab.holder
        BY <3>1 DEF MemInv, TypeOK
      <3>3. \A u \in Tasks : task'[u].heap <=> slab'.holder = u
        BY <1>1, <3>2 DEF Locks
      <3>4. hung' => slab'.holder # Nobody
        BY <1>1, <3>1, <3>2
      <3> QED BY <3>3, <3>4 DEF Locks
    <2> QED BY <2>1, <2>2
  <1>4. CASE ~UNCHANGED <<used, free_pages>>
    <2>1. PICK p : p = Min(Page \ used)
      OBVIOUS
    <2>2. /\ used # Page /\ used' = used \cup {p} /\ slab' = [slab EXCEPT !.list = Sliced(p)]
          /\ free_pages' = free_pages - 1 /\ hung' = hung
      BY <1>4, <2>1 DEF syscall_alloc
    <2>3. p \in Page /\ p \notin used
      <3>1. Page \ used # {}
        BY <2>2 DEF MemInv, TypeOK
      <3>2. Min(Page \ used) \in Page \ used
        BY <3>1, LowestPage
      <3> QED BY <2>1, <3>2
    <2>4. Locks'
      <3>1. slab'.holder = slab.holder
        BY <2>2 DEF MemInv, TypeOK
      <3> QED BY <1>1, <2>2, <3>1 DEF Locks
    <2>5. SUFFICES ASSUME ~raced PROVE FreePagesExact'
      BY <1>1, <2>4 DEF FreePagesExact
    <2> DEFINE A == (Page \ used) \cup Uncounted
    <2>6. p \in A /\ ((Page \ used) \cup Uncounted)' = A \ {p}
      BY <1>2, <2>2, <2>3, <2>5, ClaimedApart
    <2>7. IsFiniteSet(A) /\ Cardinality(A) \in Nat /\ Cardinality(Freeing) \in Nat
      BY <2>5, BooksAreFinite
    <2>8. free_pages + Cardinality(Freeing) = Cardinality(A) /\ free_pages \in Int
      BY <2>5 DEF FreePagesExact, MemInv, TypeOK
    <2> HIDE DEF A
    <2>9. Cardinality(A \ {p}) = Cardinality(A) - 1
      BY <2>6, <2>7, FS_RemoveElement
    <2>10. free_pages - 1 + Cardinality(Freeing) = Cardinality(A \ {p})
      BY <2>7, <2>8, <2>9, SMTT(60)
    <2> QED BY <1>2, <2>2, <2>6, <2>10 DEF FreePagesExact
  <1> QED BY <1>3, <1>4

LEMMA BooksStep ==
    ASSUME MemInv, FreePagesExact, Locks, NEW t \in Tasks, Step(t)
    PROVE  FreePagesExact' /\ Locks'
  <1>1. CASE call_alloc_page(t) \/ \E at \in {"lock_small", "lock_large"} : call_alloc(t, at)
    BY <1>1, BooksGo DEF call_alloc_page, call_alloc, At
  <1>2. CASE alloc_refill(t) \/ alloc_large(t) \/ dealloc_large(t)
    BY <1>2, BooksGo DEF alloc_refill, alloc_large, dealloc_large, At
  <1>3. CASE alloc_pop(t) \/ dealloc_push(t)
    BY <1>3, BooksReturn DEF alloc_pop, dealloc_push, At
  <1> QED BY <1>1, <1>2, <1>3, BooksLoad, BooksClaim, BooksCount, BooksTest, BooksTake, BooksGivenBack,
             BooksClear, BooksAdd, BooksLock, BooksSyscall DEF Step

\* Without a lost race FREE_PAGES never drifts from the bitmap, for any number
\* of tasks and pages and in every interleaving of alloc_page(),
\* alloc_contiguous(), free_page() and the heap, and SLAB is held exactly while
\* a task is inside the heap: whichever way alloc() and dealloc() return, they
\* drop it, and a system call spins for ever only on a preempted holder.
THEOREM MemoryBooksBalance == Spec => []BooksBalance
  <1>1. Init => BooksBalance
    <2> SUFFICES ASSUME Init PROVE BooksBalance
      OBVIOUS
    <2>1. Uncounted = {} /\ Freeing = {}
      BY IdleClaims DEF Init, Uncounted, Freeing
    <2>2. (Page \ used) \cup Uncounted = Usable
      BY <2>1, UsableIsTracked DEF Init, Page
    <2>3. free_pages = Cardinality(Usable) /\ Cardinality(Usable) \in Nat
      BY UsableIsTracked, TrackedIsFinite DEF Init, Page
    <2>4. free_pages + Cardinality(Freeing) = Cardinality((Page \ used) \cup Uncounted)
      <3>1. Cardinality(Freeing) = 0
        BY <2>1, FS_EmptySet
      <3>2. free_pages + 0 = free_pages
        BY <2>3, SMTT(60)
      <3> QED BY <2>2, <2>3, <3>1, <3>2
    <2>5. \A t \in Tasks : task[t].heap <=> slab.holder = t
      BY TasksAssumption, IdleClaims DEF Init, Nobody
    <2> QED BY <2>4, <2>5 DEF BooksBalance, FreePagesExact, Init
  <1>2. MemInv /\ BooksBalance /\ [Next]_vars => BooksBalance'
    <2> SUFFICES ASSUME MemInv, BooksBalance, [Next]_vars PROVE BooksBalance'
      OBVIOUS
    <2>1. FreePagesExact /\ Locks
      BY DEF BooksBalance, Locks
    <2>2. ASSUME NEW t \in Tasks, Step(t) PROVE BooksBalance'
      BY <2>1, <2>2, BooksStep DEF BooksBalance, Locks
    <2>3. CASE UNCHANGED vars
      <3>1. UNCHANGED <<used, free_pages, slab, task, hung, raced>>
        BY <2>3 DEF vars
      <3>2. Uncounted' = Uncounted /\ Freeing' = Freeing /\ Page' = Page
        BY <3>1 DEF Uncounted, Freeing, Page, Claimed
      <3> QED BY <3>1, <3>2 DEF BooksBalance, FreePagesExact
    <2> QED BY <2>2, <2>3 DEF Next, Spin
  <1> QED BY <1>1, <1>2, MemoryInvariant, PTL DEF Spec
=============================================================================
