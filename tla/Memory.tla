------------------------------- MODULE Memory -------------------------------
(***************************************************************************)
(* Kernel memory: the page bitmap of pmm.rs, which takes no lock, and the  *)
(* slab heap of heap.rs above it, which is one spin::Mutex.  Tasks are     *)
(* preempted between any two steps; a system call runs with interrupts     *)
(* off and is one step.                                                    *)
(*                                                                         *)
(* One size class stands for the ten, whose free lists never meet.         *)
(***************************************************************************)
EXTENDS Integers, Sequences, FiniteSets, FiniteSetsExt

CONSTANTS
    Tasks,
    MAX_PAGES,  \* pages tracked by the bitmap
    WORD,       \* pages per word of the bitmap, 64 in the code
    Usable,     \* pages of usable regions above 1 MB in the boot memory map
    RUN,        \* pages of a large allocation
    CHUNKS      \* chunks of the size class in a page

ASSUME TasksAssumption == IsFiniteSet(Tasks) /\ "nobody" \notin Tasks
ASSUME BitmapShape == MAX_PAGES \in Nat \ {0} /\ WORD \in Nat \ {0} /\ MAX_PAGES % WORD = 0
ASSUME UsableIsTracked == Usable \subseteq 0..(MAX_PAGES - 1)
ASSUME RunIsLarge == RUN \in Nat /\ RUN > 1
ASSUME ChunksIsPositive == CHUNKS \in Nat \ {0}

VARIABLES
    used,        \* BITMAP: the pages whose bit is set
    free_pages,  \* FREE_PAGES
    slab,        \* SLAB: who holds its mutex, and the free list
    task,        \* where each task is
    held,        \* what each task has been given
    hung,        \* a system call spins on SLAB with interrupts off
    raced        \* history: alloc_contiguous() claimed a page taken meanwhile

vars == <<used, free_pages, slab, task, held, hung, raced>>

Page == 0..(MAX_PAGES - 1)
Nobody == "nobody"

PageBlock(p) == [kind |-> "page", page |-> p, index |-> 0]
RunBlock(p) == [kind |-> "run", page |-> p, index |-> 0]
Chunk(p, i) == [kind |-> "chunk", page |-> p, index |-> i]
Block == [kind : {"page", "run", "chunk"}, page : Page, index : 0..(CHUNKS - 1)]

Places ==
    {"idle", "lock_small", "lock_large", "lock_free", "small", "large", "free",
     "load", "claim", "count", "test", "take", "count_run", "clear", "count_free"}

\* "first" and "offset" are the loop variables i and j; "heap" says for whom.
Task == [at : Places, heap : BOOLEAN, first : Nat, offset : Nat, block : Block]

TypeOK ==
    /\ used \subseteq Page
    /\ free_pages \in Int
    /\ slab \in [holder : Tasks \cup {Nobody}, list : Seq(Block)]
    /\ task \in [Tasks -> Task]
    /\ held \in [Tasks -> SUBSET Block]
    /\ hung \in BOOLEAN /\ raced \in BOOLEAN

Idle == [at |-> "idle", heap |-> FALSE, first |-> 0, offset |-> 0, block |-> PageBlock(0)]

\* After init(): all used but the usable pages.
Init ==
    /\ used = Page \ Usable
    /\ free_pages = Cardinality(Usable)
    /\ slab = [holder |-> Nobody, list |-> <<>>]
    /\ task = [t \in Tasks |-> Idle]
    /\ held = [t \in Tasks |-> {}]
    /\ hung = FALSE /\ raced = FALSE

\* Nothing runs any more once a system call spins with interrupts off.
At(t, at) == ~hung /\ task[t].at = at
Go(t, at) == task' = [task EXCEPT ![t].at = at]

\* Task k at another place, with these values of i and j.
Loop(k, at, i, j) == [k EXCEPT !.at = at, !.first = i, !.offset = j]

\* alloc() or dealloc() returns: the heap's lock is dropped, if it was taken.
Return(t, list) ==
    /\ task' = [task EXCEPT ![t] = Idle]
    /\ slab' = [holder |-> IF task[t].heap THEN Nobody ELSE slab.holder, list |-> list]

Give(t, block) == held' = [held EXCEPT ![t] = @ \cup {block}]

\* The chunks of a fresh page after the first one, in ascending order.
Sliced(p) == [i \in 1..(CHUNKS - 1) |-> Chunk(p, i)]

-----------------------------------------------------------------------------
(* alloc_page() *)

\* A caller outside the heap: run_elf(), paging, HepFS buffers, drivers.
call_alloc_page(t) ==
    /\ At(t, "idle")
    /\ Go(t, "load")
    /\ UNCHANGED <<used, free_pages, slab, held, hung, raced>>

WordOf(w) == {p \in Page : p \div WORD = w}

\* Load a word and look for its first free bit; None after the last word.
alloc_page_load(t) ==
    LET w == task[t].first
        free == WordOf(w) \ used
    IN /\ At(t, "load")
       /\ IF w = MAX_PAGES \div WORD
          THEN Return(t, slab.list)
          ELSE /\ task' = [task EXCEPT ![t] =
                             IF free = {} THEN Loop(@, "load", w + 1, 0)
                             ELSE Loop(@, "claim", w, Min(free))]
               /\ UNCHANGED slab
       /\ UNCHANGED <<used, free_pages, held, hung, raced>>

\* Mutant: fetch_or() without a look at the old value.
alloc_page_claimBlindly(t) ==
    /\ At(t, "claim")
    /\ used' = used \cup {task[t].offset}
    /\ Go(t, "count")
    /\ UNCHANGED <<free_pages, slab, held, hung, raced>>

\* fetch_or(); on to the next word if the page was taken since the load.
alloc_page_claim(t) ==
    LET p == task[t].offset IN
    /\ At(t, "claim")
    /\ used' = used \cup {p}
    /\ task' = [task EXCEPT ![t] = IF p \in used THEN Loop(@, "load", task[t].first + 1, 0)
                                   ELSE Loop(@, "count", task[t].first, p)]
    /\ UNCHANGED <<free_pages, slab, held, hung, raced>>

\* FREE_PAGES, and the page is the caller's; the heap slices it into chunks.
alloc_page_count(t) ==
    LET p == task[t].offset IN
    /\ At(t, "count")
    /\ free_pages' = free_pages - 1
    /\ Give(t, IF task[t].heap THEN Chunk(p, 0) ELSE PageBlock(p))
    /\ Return(t, IF task[t].heap THEN Sliced(p) \o slab.list ELSE slab.list)
    /\ UNCHANGED <<used, hung, raced>>

-----------------------------------------------------------------------------
(* alloc_contiguous(), as the heap calls it. *)

alloc_contiguous_test(t) ==
    LET i == task[t].first
        j == task[t].offset
    IN
    /\ At(t, "test")
    /\ IF j < RUN /\ i + j >= MAX_PAGES
       THEN Return(t, slab.list)
       ELSE /\ task' = [task EXCEPT ![t] = IF j = RUN THEN Loop(@, "take", i, 0)
                                          ELSE IF i + j \in used THEN Loop(@, "test", i + 1, 0)
                                          ELSE Loop(@, "test", i, j + 1)]
            /\ UNCHANGED slab
    /\ UNCHANGED <<used, free_pages, held, hung, raced>>

alloc_contiguous_take(t) ==
    LET i == task[t].first
        j == task[t].offset
    IN
    /\ At(t, "take")
    /\ used' = used \cup {i + j}
    /\ raced' = (raced \/ i + j \in used)
    /\ task' = [task EXCEPT ![t] = Loop(@, IF j + 1 = RUN THEN "count_run" ELSE "take", i, j + 1)]
    /\ UNCHANGED <<free_pages, slab, held, hung>>

\* Mutant: one page is subtracted for the whole run.
alloc_contiguous_countOne(t) ==
    /\ At(t, "count_run")
    /\ free_pages' = free_pages - 1
    /\ Give(t, RunBlock(task[t].first))
    /\ Return(t, slab.list)
    /\ UNCHANGED <<used, hung, raced>>

alloc_contiguous_count(t) ==
    /\ At(t, "count_run")
    /\ free_pages' = free_pages - RUN
    /\ Give(t, RunBlock(task[t].first))
    /\ Return(t, slab.list)
    /\ UNCHANGED <<used, hung, raced>>

-----------------------------------------------------------------------------
(* free_page() *)

\* A task gives back a page, which another may have asked for.
call_free_page(t, u, b) ==
    /\ At(t, "idle") /\ b.kind = "page"
    /\ task' = [task EXCEPT ![t].at = "clear", ![t].block = b]
    /\ held' = [held EXCEPT ![u] = @ \ {b}]
    /\ UNCHANGED <<used, free_pages, slab, hung, raced>>

free_page_clear(t) ==
    /\ At(t, "clear")
    /\ used' = used \ {task[t].block.page + task[t].offset}
    /\ Go(t, "count_free")
    /\ UNCHANGED <<free_pages, slab, held, hung, raced>>

\* The pages of a large allocation one after the other.
free_page_count(t) ==
    /\ At(t, "count_free")
    /\ free_pages' = free_pages + 1
    /\ IF task[t].block.kind = "run" /\ task[t].offset + 1 < RUN
       THEN /\ task' = [task EXCEPT ![t] = Loop(@, "clear", 0, task[t].offset + 1)]
            /\ UNCHANGED slab
       ELSE Return(t, slab.list)
    /\ UNCHANGED <<used, held, hung, raced>>

-----------------------------------------------------------------------------
(* The heap. *)

call_alloc(t, at) ==
    /\ At(t, "idle") /\ at \in {"lock_small", "lock_large"}
    /\ Go(t, at)
    /\ UNCHANGED <<used, free_pages, slab, held, hung, raced>>

call_dealloc(t, u, b) ==
    /\ At(t, "idle") /\ b.kind \in {"run", "chunk"}
    /\ task' = [task EXCEPT ![t].at = "lock_free", ![t].block = b]
    /\ held' = [held EXCEPT ![u] = @ \ {b}]
    /\ UNCHANGED <<used, free_pages, slab, hung, raced>>

Inside == [lock_small |-> "small", lock_large |-> "large", lock_free |-> "free"]

lock_slab(t) ==
    /\ ~hung /\ task[t].at \in DOMAIN Inside /\ slab.holder = Nobody
    /\ slab' = [slab EXCEPT !.holder = t]
    /\ task' = [task EXCEPT ![t].at = Inside[task[t].at], ![t].heap = TRUE]
    /\ UNCHANGED <<used, free_pages, held, hung, raced>>

\* alloc(): the head of the free list, or a fresh page.
alloc_pop(t) ==
    /\ At(t, "small") /\ slab.list # <<>>
    /\ Give(t, Head(slab.list))
    /\ Return(t, Tail(slab.list))
    /\ UNCHANGED <<used, free_pages, hung, raced>>

alloc_refill(t) ==
    /\ At(t, "small") /\ slab.list = <<>>
    /\ Go(t, "load")
    /\ UNCHANGED <<used, free_pages, slab, held, hung, raced>>

alloc_large(t) ==
    /\ At(t, "large")
    /\ Go(t, "test")
    /\ UNCHANGED <<used, free_pages, slab, held, hung, raced>>

dealloc_push(t) ==
    /\ At(t, "free") /\ task[t].block.kind = "chunk"
    /\ Return(t, <<task[t].block>> \o slab.list)
    /\ UNCHANGED <<used, free_pages, held, hung, raced>>

dealloc_large(t) ==
    /\ At(t, "free") /\ task[t].block.kind = "run"
    /\ Go(t, "clear")
    /\ UNCHANGED <<used, free_pages, slab, held, hung, raced>>

-----------------------------------------------------------------------------
(* A process in a system call that builds a String or a Vec. *)

syscall_alloc(t) ==
    /\ At(t, "idle")
    /\ \/ /\ slab.holder # Nobody
          /\ hung' = TRUE
          /\ UNCHANGED <<used, free_pages, slab, held>>
       \/ /\ slab.holder = Nobody /\ slab.list # <<>>
          /\ Give(t, Head(slab.list))
          /\ slab' = [slab EXCEPT !.list = Tail(@)]
          /\ UNCHANGED <<used, free_pages, hung>>
       \/ /\ slab.holder = Nobody /\ slab.list = <<>> /\ used # Page
          /\ LET p == Min(Page \ used)
             IN /\ used' = used \cup {p}
                /\ Give(t, Chunk(p, 0))
                /\ slab' = [slab EXCEPT !.list = Sliced(p)]
          /\ free_pages' = free_pages - 1
          /\ UNCHANGED hung
    /\ UNCHANGED <<task, raced>>

-----------------------------------------------------------------------------
Step(t) ==
    \/ call_alloc_page(t) \/ alloc_page_load(t) \/ alloc_page_claim(t) \/ alloc_page_count(t)
    \/ alloc_contiguous_test(t) \/ alloc_contiguous_take(t) \/ alloc_contiguous_count(t)
    \/ \E u \in Tasks : \E b \in held[u] : call_free_page(t, u, b) \/ call_dealloc(t, u, b)
    \/ free_page_clear(t) \/ free_page_count(t)
    \/ \E at \in {"lock_small", "lock_large"} : call_alloc(t, at)
    \/ lock_slab(t) \/ alloc_pop(t) \/ alloc_refill(t) \/ alloc_large(t)
    \/ dealloc_push(t) \/ dealloc_large(t)
    \/ syscall_alloc(t)

Spin == hung /\ UNCHANGED vars

Next == (\E t \in Tasks : Step(t)) \/ Spin

Spec == Init /\ [][Next]_vars

-----------------------------------------------------------------------------
(* Properties. *)

\* A page is made of CHUNKS units; a chunk is one, a large block RUN pages.
UnitsOf(pages) == pages \X (0..(CHUNKS - 1))
Units(b) ==
    CASE b.kind = "chunk" -> {<<b.page, b.index>>}
      [] b.kind = "page"  -> UnitsOf({b.page})
      [] b.kind = "run"   -> UnitsOf(b.page..(b.page + RUN - 1))

\* What a task k in the middle of an operation has claimed and not yet handed
\* over, or taken back and not yet released.
InHand(k) ==
    LET end == k.block.page + (IF k.block.kind = "run" THEN RUN ELSE 1)
    IN CASE k.at = "count"      -> UnitsOf({k.offset})
         [] k.at \in {"take", "count_run"} -> UnitsOf(k.first..(k.first + k.offset - 1))
         [] k.at \in {"lock_free", "free"} -> Units(k.block)
         [] k.at = "clear"      -> UnitsOf((k.block.page + k.offset)..(end - 1))
         [] k.at = "count_free" -> UnitsOf((k.block.page + k.offset + 1)..(end - 1))
         [] OTHER -> {}

\* Everything in use: the blocks of the tasks, their operations, the free list.
HeldClaims == UNION {{[by |-> <<t, c>>, units |-> Units(c)] : c \in held[t]} : t \in Tasks}
HandClaims == {[by |-> <<t>>, units |-> InHand(task[t])] : t \in Tasks}
ListClaims == {[by |-> <<i>>, units |-> Units(slab.list[i])] : i \in DOMAIN slab.list}
Claims == HeldClaims \cup HandClaims \cup ListClaims

\* As long as alloc_contiguous() has not lost its race, no byte of memory is
\* handed out twice, be it by the bitmap or by the free list, and whatever is
\* in use or on the free list lies on a page whose bit is set.  Chunks and
\* pages are always inside their page and the bitmap.
OwnedOnce ==
    /\ TypeOK
    /\ ~raced => LET claims == Claims IN
                 /\ \A c, d \in claims : c # d => c.units \cap d.units = {}
                 /\ \A c \in claims : c.units \subseteq UnitsOf(used)

\* Pages whose bits an operation has set, before it subtracts them from
\* FREE_PAGES; the operations that have cleared a bit and not yet added it.
Claimed(k) ==
    CASE k.at = "count" -> {k.offset}
      [] k.at \in {"take", "count_run"} -> k.first..(k.first + k.offset - 1)
      [] OTHER -> {}
Uncounted == UNION {Claimed(task[t]) : t \in Tasks}
Freeing == {t \in Tasks : task[t].at = "count_free"}

\* As long as alloc_contiguous() has not lost its race, FREE_PAGES, which the
\* desktop shows, is off the bitmap by the operations under way and no more:
\* no interleaving makes it drift.
FreePagesExact ==
    ~raced => free_pages + Cardinality(Freeing) = Cardinality((Page \ used) \cup Uncounted)

\* The allocator's books: FREE_PAGES as above, and SLAB is locked exactly while
\* a task is inside the heap, whichever way it leaves.  A system call, which
\* has interrupts off, can therefore spin on SLAB for ever only if a task was
\* preempted in there (heap.rs:132).
BooksBalance ==
    /\ FreePagesExact
    /\ \A t \in Tasks : task[t].heap <=> slab.holder = t
    /\ hung => slab.holder # Nobody
=============================================================================
