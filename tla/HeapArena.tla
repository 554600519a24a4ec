------------------------------ MODULE HeapArena ------------------------------
(***************************************************************************)
(* The runtime's heap arena: musl's anonymous mmap and munmap calls are    *)
(* served, from any thread, out of pages reserved at load. The search and  *)
(* the bookkeeping are under a spin lock; the pages are zeroed after it is *)
(* released.                                                                *)
(***************************************************************************)
EXTENDS Integers, FiniteSets

CONSTANTS
    Pages,       \* kPages
    Mappers      \* allocations that may be held at a time

ASSUME HeapAssumption == Pages \in Nat \ {0}

VARIABLES
    used,        \* g_used, as the set of used pages
    hint,        \* g_hint
    usedPages,   \* g_usedPages
    held,        \* per mapper: the pages it was given, where from, whether zeroed, which it wrote
    dirty        \* pages whose bytes are not zero

heapVars == <<used, hint, usedPages, held, dirty>>

Page == 0..(Pages - 1)
Run(first, pages) == first..(first + pages - 1)
Given(first, pages, zeroed, real) ==
    [first |-> first, pages |-> pages, zeroed |-> zeroed, real |-> real, wrote |-> {}]
Nothing == Given(0, 0, TRUE, FALSE)
Holding == [first: 0..Pages, pages: 0..(Pages + 1), zeroed: BOOLEAN, real: BOOLEAN, wrote: SUBSET Page]
(* What a mapper holds of the arena; g_used counts every page of it.        *)
Span(m) == IF held[m].real THEN {} ELSE Run(held[m].first, held[m].pages)

HeapTypeOK ==
    /\ used \subseteq Page /\ hint \in 0..Pages /\ usedPages \in 0..Pages
    /\ held \in [Mappers -> Holding] /\ dirty \subseteq Page

HeapInit ==
    /\ used = {} /\ hint = 0 /\ usedPages = 0
    /\ held = [m \in Mappers |-> Nothing] /\ dirty = {}

----------------------------------------------------------------------------
Fits(first, pages) == first + pages <= Pages /\ Run(first, pages) \cap used = {}
Fitting(from, pages) == {first \in from..Pages : Fits(first, pages)}
First(S) == CHOOSE s \in S : \A t \in S : s <= t
(* The first run of free pages from the hint, else from the start, else kPages. *)
Find(pages) ==
    IF Fitting(hint, pages) # {} THEN First(Fitting(hint, pages))
    ELSE IF Fitting(0, pages) # {} THEN First(Fitting(0, pages)) ELSE Pages

(* __mmap: from the arena under the lock, or the real mmap, whose memory     *)
(* lies elsewhere.                                                           *)
Mmap(m, pages) ==
    /\ held[m] = Nothing
    /\ LET found == Find(pages) IN
       IF found = Pages
       THEN /\ held' = [held EXCEPT ![m] = Given(0, pages, TRUE, TRUE)]
            /\ UNCHANGED <<used, hint, usedPages>>
       ELSE /\ used' = used \cup Run(found, pages)
            /\ hint' = found + pages
            /\ usedPages' = usedPages + pages
            /\ held' = [held EXCEPT ![m] = Given(found, pages, FALSE, FALSE)]
    /\ UNCHANGED dirty

(* The memset of Allocate, before the pages are handed to the caller. *)
Zero(m) ==
    /\ ~held[m].zeroed
    /\ held' = [held EXCEPT ![m].zeroed = TRUE]
    /\ dirty' = dirty \ Span(m)
    /\ UNCHANGED <<used, hint, usedPages>>

(* The mapper writes what it was handed. *)
Write(m, page) ==
    /\ held[m].zeroed /\ page \in Span(m)
    /\ dirty' = dirty \cup {page}
    /\ held' = [held EXCEPT ![m].wrote = @ \cup {page}]
    /\ UNCHANGED <<used, hint, usedPages>>

(* A plausible bug: one page is counted off, however many are freed.        *)
OnePageReleased(m) == usedPages - (IF held[m].real THEN 0 ELSE 1)
PagesAfter(m) == usedPages - Cardinality(Span(m) \cap used)
(* __munmap of what a mapper was handed. *)
Munmap(m) ==
    /\ held[m].zeroed /\ held[m] # Nothing
    /\ used' = used \ Span(m)
    /\ usedPages' = PagesAfter(m)
    /\ hint' = IF ~held[m].real /\ held[m].first < hint THEN held[m].first ELSE hint
    /\ held' = [held EXCEPT ![m] = Nothing]
    /\ UNCHANGED dirty

HeapNext ==
    \/ \E m \in Mappers, pages \in 1..(Pages + 1) : Mmap(m, pages)
    \/ \E m \in Mappers : Zero(m) \/ Munmap(m) \/ \E page \in Page : Write(m, page)
HeapSpec == HeapInit /\ [][HeapNext]_heapVars

----------------------------------------------------------------------------
(* No page is in two hands, and every page in nobody's hands can be handed   *)
(* out again: g_used is exactly what is held.                                *)
PagesHaveOneHolder ==
    /\ \A m, n \in Mappers : m # n => Span(m) \cap Span(n) = {}
    /\ used = UNION {Span(m) : m \in Mappers}

(* g_usedPages, which the logged peak comes from, counts the used pages. *)
UsedPagesCounted == usedPages = Cardinality(used)

(* What mmap handed out was zero, as musl's calloc relies on, and keeps what  *)
(* its holder wrote, although the memset of another call runs unlocked.      *)
BytesAreTheHolders ==
    \A m \in Mappers : held[m].zeroed => Span(m) \cap dirty = held[m].wrote

(* Memory is taken from the system only when the arena has no room for it.   *)
SystemOnlyWhenFull ==
    [][\A m \in Mappers : held'[m].real /\ ~held[m].real => Fitting(0, held'[m].pages) = {}]_heapVars

(* The arena as the runtime relies on it (heaparena, __mmap, __munmap). *)
ArenaInvariant == PagesHaveOneHolder /\ UsedPagesCounted /\ BytesAreTheHolders

=============================================================================
