----------------------------- MODULE PageAlloc -----------------------------
(***************************************************************************)
(* The buddy allocator of physical pages (kernel/memory/physicalalloc.cpp) *)
(* and its callers' use of it.  A page is named by the index in g_pages of *)
(* its first kilobyte, and a page order by its size in kilobytes.  A free  *)
(* list is the sequence of its pages, head first; a page struct's next     *)
(* pointer is null when the page is in no list or the last one of its list.*)
(***************************************************************************)
EXTENDS Naturals, SequencesExt

CONSTANTS
    Chunks,     \* number of 16KB pages physical_page_allocator_init finds
    MaxLent,    \* bound: pages in use at the same time
    MaxRef      \* bound: ref_count of a shared page

ASSUME PageAllocAssumption ==
    Chunks \in Nat /\ MaxLent \in Nat /\ MaxRef \in Nat

Orders == {1, 4, 16}
Pages == 0 .. 16 * Chunks - 1

VARIABLES
    g_free_pages_lists,
    ref_count,  \* PhysicalPage::ref_count
    lent        \* pages in use: [page, order], as their users will free them

vars == <<g_free_pages_lists, ref_count, lent>>

Block == [page : Pages, order : Orders]

TypeOK ==
    /\ g_free_pages_lists \in [Orders -> Seq(Pages)]
    /\ ref_count \in [Pages -> Nat]
    /\ lent \subseteq Block

\* physical_page_allocator_init: the list starts with the lowest address.
Init ==
    /\ g_free_pages_lists =
         [o \in Orders |->
            IF o = 16 THEN [k \in 1 .. Chunks |-> 16 * (k - 1)] ELSE <<>>]
    /\ ref_count = [p \in Pages |-> 0]
    /\ lent = {}

-----------------------------------------------------------------------------
append_page_to_free_pages_list(lists, p, o) ==
    [lists EXCEPT ![o] = <<p>> \o @]

pop_page_from_free_pages_list(lists, o) == [lists EXCEPT ![o] = Tail(@)]

remove_page_from_free_pages_list(lists, S, o) ==
    [lists EXCEPT ![o] = SelectSeq(@, LAMBDA p : p \notin S)]

split_page_overlapping(lists, p, o) ==
    LET s == o \div 4
    IN [lists EXCEPT ![s] = <<p + 2 * s, p + s, p + s, p>> \o @]

\* The four chunks of a page are appended in ascending order.
split_page_in_smaller_chunks(lists, p, o) ==
    LET s == o \div 4
    IN [lists EXCEPT ![s] = <<p + 3 * s, p + 2 * s, p + s, p>> \o @]

\* _physical_page_alloc makes sure the list of an order has a page, if the
\* bigger orders can provide one.
refill_4KB(lists) ==
    IF lists[4] # <<>> \/ lists[16] = <<>> THEN lists
    ELSE split_page_in_smaller_chunks(
           pop_page_from_free_pages_list(lists, 16), Head(lists[16]), 16)

refill_1KB(lists) ==
    LET bigger == refill_4KB(lists)
    IN IF lists[1] # <<>> THEN lists
       ELSE IF bigger[4] = <<>> THEN bigger
       ELSE split_page_in_smaller_chunks(
              pop_page_from_free_pages_list(bigger, 4), Head(bigger[4]), 4)

refill(lists, o) ==
    CASE o = 16 -> lists
      [] o = 4  -> refill_4KB(lists)
      [] o = 1  -> refill_1KB(lists)

\* When there is no page the call fails and changes nothing.
physical_page_alloc(o) ==
    LET lists == refill(g_free_pages_lists, o)
    IN /\ lists[o] # <<>> /\ Cardinality(lent) < MaxLent
       /\ g_free_pages_lists' = pop_page_from_free_pages_list(lists, o)
       /\ ref_count' = [ref_count EXCEPT ![Head(lists[o])] = 1]
       /\ lent' = lent \cup {[page |-> Head(lists[o]), order |-> o]}

-----------------------------------------------------------------------------
first_buddy(p, o) == p - (p % (4 * o))

buddies(p, o) == {first_buddy(p, o) + k * o : k \in 0 .. 3}

\* this_buddy->next != nullptr
has_next(lists, p) ==
    \E o \in Orders : \E k \in 1 .. Len(lists[o]) - 1 : lists[o][k] = p

all_buddies_free(lists, p, o) == \A b \in buddies(p, o) : has_next(lists, b)

\* _physical_page_free, one operator per order: append the page, or take its
\* buddies out of their list and free the page they form.
free_16KB(lists, p) == append_page_to_free_pages_list(lists, p, 16)

free_4KB(lists, p) ==
    IF all_buddies_free(lists, p, 4)
      THEN free_16KB(remove_page_from_free_pages_list(
                       lists, buddies(p, 4) \ {p}, 4), first_buddy(p, 4))
      ELSE append_page_to_free_pages_list(lists, p, 4)

free_1KB(lists, p) ==
    IF all_buddies_free(lists, p, 1)
      THEN free_4KB(remove_page_from_free_pages_list(
                      lists, buddies(p, 1) \ {p}, 1), first_buddy(p, 1))
      ELSE append_page_to_free_pages_list(lists, p, 1)

_physical_page_free(lists, p, o) ==
    CASE o = 16 -> free_16KB(lists, p)
      [] o = 4  -> free_4KB(lists, p)
      [] o = 1  -> free_1KB(lists, p)

\* One user drops its reference; the last one gives the page back.
physical_page_free(b) ==
    /\ b \in lent
    /\ ref_count' = [ref_count EXCEPT ![b.page] = @ - 1]
    /\ IF ref_count[b.page] = 1
         THEN /\ g_free_pages_lists' =
                   _physical_page_free(g_free_pages_lists, b.page, b.order)
              /\ lent' = lent \ {b}
         ELSE UNCHANGED <<g_free_pages_lists, lent>>

\* ref_count++ by vm_create_address_space (the page of the vector table) and
\* by FramebufferDevice::mmap.
share_page(b) ==
    /\ b \in lent /\ b.order = 4 /\ ref_count[b.page] < MaxRef
    /\ ref_count' = [ref_count EXCEPT ![b.page] = @ + 1]
    /\ UNCHANGED <<g_free_pages_lists, lent>>

Next ==
    \/ \E o \in Orders : physical_page_alloc(o)
    \/ \E b \in lent : physical_page_free(b) \/ share_page(b)

Spec == Init /\ [][Next]_vars

-----------------------------------------------------------------------------
(* Properties                                                              *)

Extent(b) == b.page .. b.page + b.order - 1

FreeBlocks ==
    {b \in Block : \E k \in DOMAIN g_free_pages_lists[b.order] :
                     g_free_pages_lists[b.order][k] = b.page}

\* Every kilobyte of memory belongs to exactly one page that is free or in
\* use: splitting, freeing and sharing never hand memory out twice and never
\* lose any.
PagesConserved ==
    /\ FreeBlocks \cap lent = {}
    /\ \A a, b \in FreeBlocks \cup lent :
         a # b => Extent(a) \cap Extent(b) = {}
    /\ \A p \in Pages : \E b \in FreeBlocks \cup lent : p \in Extent(b)
    /\ \A o \in Orders : IsInjective(g_free_pages_lists[o])

\* kassert(page->ref_count == 0) in pop_page_from_free_pages_list and
\* kassert(page->ref_count > 0) in physical_page_free never fail: the
\* reference counts agree with the lists.
RefCountsAgree ==
    /\ \A b \in lent : ref_count[b.page] > 0
    /\ \A p \in Pages : (\A b \in lent : b.page # p) => ref_count[p] = 0

\* Whatever pages of the three orders are allocated, shared and freed, memory
\* is neither handed out twice nor lost, and no assertion about a reference
\* count fails.
PagesSound == TypeOK /\ PagesConserved /\ RefCountsAgree
=============================================================================
