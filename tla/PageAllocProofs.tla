-------------------------- MODULE PageAllocProofs --------------------------
(***************************************************************************)
(* The buddy allocator, for every amount of memory: no kilobyte is handed  *)
(* out twice or lost, and no assertion about a reference count fails.      *)
(***************************************************************************)
EXTENDS PageAlloc, TLAPS

-----------------------------------------------------------------------------
(* Blocks and free lists                                                   *)

Lists == {L \in [Orders -> Seq(Pages)] : \A o \in Orders : IsInjective(L[o])}

Blocks(L) ==
    {b \in Block : \E k \in DOMAIN L[b.order] : L[b.order][k] = b.page}

At(p, o) == [page |-> p, order |-> o]

\* The blocks of B are aligned, lie inside memory, do not overlap and leave
\* nothing out.
Tiling(B) ==
    /\ \A b \in B : b.page % b.order = 0 /\ b.page + b.order <= 16 * Chunks
    /\ \A a, b \in B : a # b => Extent(a) \cap Extent(b) = {}
    /\ \A p \in Pages : \E b \in B : p \in Extent(b)

\* The free lists L and the pages U in use share out the memory.
Sound(L, U) ==
    /\ L \in Lists /\ U \subseteq Block
    /\ Blocks(L) \cap U = {} /\ Tiling(Blocks(L) \cup U)

\* A block is determined by its page and its order.
LEMMA BlockIsAt ==
    /\ \A b \in Block : /\ b.page \in Pages /\ b.order \in Orders
                        /\ b = At(b.page, b.order)
    /\ \A p \in Pages, o \in Orders :
         At(p, o) \in Block /\ At(p, o).page = p /\ At(p, o).order = o
BY DEF Block, At

\* Pages are numbers.
LEMMA PageRange ==
    /\ Chunks \in Nat /\ 16 * Chunks \in Nat
    /\ \A p : p \in Pages <=> p \in Nat /\ p < 16 * Chunks
BY PageAllocAssumption DEF Pages

\* Putting the pages of s in front of the list of an order.
LEMMA Prepend ==
    ASSUME NEW L \in Lists, NEW o \in Orders, NEW s \in Seq(Pages), IsInjective(s),
           \A k \in 1 .. Len(s) : At(s[k], o) \notin Blocks(L)
    PROVE  LET M == [L EXCEPT ![o] = s \o @]
           IN M \in Lists /\ Blocks(M) = Blocks(L) \cup {At(s[k], o) : k \in 1 .. Len(s)}
<1> DEFINE M == [L EXCEPT ![o] = s \o @]
           old == L[o]
           new == s \o old
           added == {At(s[k], o) : k \in 1 .. Len(s)}
<1>1. old \in Seq(Pages) /\ IsInjective(old) /\ L \in [Orders -> Seq(Pages)]
  BY DEF Lists
<1>2. M \in [Orders -> Seq(Pages)] /\ M[o] = new /\ \A q \in Orders : q # o => M[q] = L[q]
  BY <1>1
<1>3. /\ new \in Seq(Pages) /\ DOMAIN new = 1 .. Len(s) + Len(old)
      /\ DOMAIN s = 1 .. Len(s) /\ DOMAIN old = 1 .. Len(old)
      /\ Len(s) \in Nat /\ Len(old) \in Nat
      /\ \A k \in 1 .. Len(s) : new[k] = s[k] /\ s[k] \in Pages
      /\ \A k \in 1 .. Len(old) : new[Len(s) + k] = old[k] /\ old[k] \in Pages
  BY <1>1
<1> HIDE DEF new
<1>4. \A k \in 1 .. Len(s), j \in 1 .. Len(old) : s[k] # old[j]
  <2> SUFFICES ASSUME NEW k \in 1 .. Len(s), NEW j \in 1 .. Len(old), s[k] = old[j]
               PROVE  FALSE
    OBVIOUS
  <2>1. At(s[k], o) \in Block /\ At(s[k], o).order = o /\ At(s[k], o).page = s[k]
    BY <1>3, BlockIsAt
  <2>2. At(s[k], o) \in Blocks(L)
    BY <1>3, <2>1 DEF Blocks
  <2> QED
    BY <2>2
<1>5. ASSUME NEW i \in DOMAIN new, NEW j \in DOMAIN new, new[i] = new[j] PROVE i = j
  <2>1. CASE i <= Len(s) /\ j <= Len(s)
    BY <1>3, <1>5, <2>1 DEF IsInjective
  <2>2. CASE i > Len(s) /\ j > Len(s)
    <3>1. i - Len(s) \in 1 .. Len(old) /\ j - Len(s) \in 1 .. Len(old)
      BY <1>3, <2>2
    <3>2. new[Len(s) + (i - Len(s))] = old[i - Len(s)] /\ new[Len(s) + (j - Len(s))] = old[j - Len(s)]
      BY <1>3, <3>1
    <3>3. Len(s) + (i - Len(s)) = i /\ Len(s) + (j - Len(s)) = j
      BY <1>3
    <3>4. old[i - Len(s)] = old[j - Len(s)]
      BY <1>5, <3>2, <3>3
    <3>5. i - Len(s) = j - Len(s)
      BY <1>1, <1>3, <3>1, <3>4 DEF IsInjective
    <3> QED
      BY <1>3, <3>5
  <2>3. ASSUME NEW x \in DOMAIN new, NEW y \in DOMAIN new, x <= Len(s), y > Len(s)
        PROVE  new[x] # new[y]
    <3>1. y - Len(s) \in 1 .. Len(old) /\ Len(s) + (y - Len(s)) = y /\ x \in 1 .. Len(s)
      BY <1>3, <2>3
    <3>2. new[Len(s) + (y - Len(s))] = old[y - Len(s)] /\ new[x] = s[x]
      BY <1>3, <3>1
    <3> QED
      BY <1>4, <3>1, <3>2
  <2>4. ~(i <= Len(s) /\ j > Len(s)) /\ ~(i > Len(s) /\ j <= Len(s))
    BY <1>5, <2>3
  <2>5. i \in Nat /\ j \in Nat /\ Len(s) \in Nat
    BY <1>3
  <2>6. i <= Len(s) <=> ~(i > Len(s))
    BY <2>5
  <2>7. j <= Len(s) <=> ~(j > Len(s))
    BY <2>5
  <2> QED
    BY <2>1, <2>2, <2>4, <2>6, <2>7, Zenon
<1>6. M \in Lists
  <2>1. IsInjective(new)
    BY <1>5 DEF IsInjective
  <2> QED
    BY <1>1, <1>2, <2>1 DEF Lists
<1>7. ASSUME NEW b \in Blocks(M) PROVE b \in Blocks(L) \cup added
  <2>1. b \in Block /\ b.order \in Orders /\ b.page \in Pages /\ b = At(b.page, b.order)
    BY BlockIsAt DEF Blocks
  <2>2. PICK k \in DOMAIN M[b.order] : M[b.order][k] = b.page
    BY DEF Blocks
  <2>3. CASE b.order # o
    BY <1>2, <2>1, <2>2, <2>3 DEF Blocks
  <2>4. CASE b.order = o
    <3>1. k \in DOMAIN new /\ new[k] = b.page
      BY <1>2, <2>2, <2>4
    <3>2. CASE k <= Len(s)
      BY <1>3, <2>1, <2>4, <3>1, <3>2
    <3>3. CASE k > Len(s)
      <4>1. k - Len(s) \in 1 .. Len(old) /\ Len(s) + (k - Len(s)) = k
        BY <1>3, <3>1, <3>3
      <4>2. old[k - Len(s)] = b.page
        BY <1>3, <3>1, <4>1
      <4> QED
        BY <1>3, <2>1, <2>4, <4>1, <4>2 DEF Blocks
    <3> QED
      BY <1>3, <3>1, <3>2, <3>3
  <2> QED
    BY <2>3, <2>4
<1>8. ASSUME NEW b \in Blocks(L) PROVE b \in Blocks(M)
  <2>1. b \in Block /\ b.order \in Orders
    BY BlockIsAt DEF Blocks
  <2>2. PICK k \in DOMAIN L[b.order] : L[b.order][k] = b.page
    BY DEF Blocks
  <2>3. CASE b.order # o
    BY <1>2, <2>1, <2>2, <2>3 DEF Blocks
  <2>4. CASE b.order = o
    <3>0. k \in 1 .. Len(old) /\ old[k] = b.page
      BY <1>3, <2>2, <2>4, Zenon
    <3>1. Len(s) + k \in DOMAIN new /\ new[Len(s) + k] = b.page
      <4> HIDE DEF old
      <4>1. Len(s) + k \in DOMAIN new
        BY <1>3, <3>0
      <4>2. new[Len(s) + k] = old[k]
        BY <1>3, <3>0, Zenon
      <4> QED
        BY <3>0, <4>1, <4>2, Zenon
    <3>2. Len(s) + k \in DOMAIN M[b.order] /\ M[b.order][Len(s) + k] = b.page
      BY <1>2, <2>4, <3>1, Zenon
    <3> QED
      BY <2>1, <3>2, Zenon DEF Blocks
  <2> QED
    BY <2>3, <2>4
<1>9. ASSUME NEW b \in added PROVE b \in Blocks(M)
  <2>1. PICK k \in 1 .. Len(s) : b = At(s[k], o)
    OBVIOUS
  <2>2. b \in Block /\ b.order = o /\ b.page = s[k]
    BY <1>3, <2>1, BlockIsAt
  <2>3. k \in DOMAIN new /\ new[k] = s[k]
    BY <1>3
  <2> QED
    BY <1>2, <2>2, <2>3 DEF Blocks
<1> QED
  BY <1>6, <1>7, <1>8, <1>9

\* Taking the first page off a list.
LEMMA Pop ==
    ASSUME NEW L \in Lists, NEW o \in Orders, L[o] # <<>>
    PROVE  LET M == pop_page_from_free_pages_list(L, o)
               b == At(Head(L[o]), o)
           IN /\ M \in Lists /\ b \in Blocks(L) /\ Head(L[o]) \in Pages
              /\ Blocks(M) = Blocks(L) \ {b}
<1> DEFINE M == pop_page_from_free_pages_list(L, o)
           old == L[o]
           new == Tail(old)
           p == Head(old)
<1>1. old \in Seq(Pages) /\ old # <<>> /\ IsInjective(old) /\ L \in [Orders -> Seq(Pages)]
  BY DEF Lists
<1>2. M \in [Orders -> Seq(Pages)] /\ M[o] = new /\ \A q \in Orders : q # o => M[q] = L[q]
  BY <1>1 DEF pop_page_from_free_pages_list
<1>3. /\ new \in Seq(Pages) /\ DOMAIN new = 1 .. Len(old) - 1 /\ DOMAIN old = 1 .. Len(old)
      /\ Len(old) \in Nat \ {0} /\ p = old[1] /\ p \in Pages
      /\ \A k \in 1 .. Len(old) - 1 : new[k] = old[k + 1]
  BY <1>1
<1> HIDE DEF new, p, old, M
<1>4. IsInjective(new)
  <2>1. ASSUME NEW i \in DOMAIN new, NEW j \in DOMAIN new, new[i] = new[j] PROVE i = j
    <3>1. i + 1 \in DOMAIN old /\ j + 1 \in DOMAIN old /\ old[i + 1] = old[j + 1]
      BY <1>3, <2>1
    <3>2. i + 1 = j + 1
      BY <1>1, <3>1 DEF IsInjective
    <3> QED
      BY <1>3, <3>2
  <2> QED
    BY <2>1 DEF IsInjective
<1>5. M \in Lists
  BY <1>1, <1>2, <1>4 DEF Lists
<1>6. At(p, o) \in Block /\ At(p, o).page = p /\ At(p, o).order = o
  BY <1>3, BlockIsAt
<1>7. At(p, o) \in Blocks(L)
  <2>1. 1 \in DOMAIN L[o] /\ L[o][1] = p
    BY <1>3 DEF old
  <2> QED
    BY <1>6, <2>1 DEF Blocks
<1>8. ASSUME NEW b \in Blocks(M) PROVE b \in Blocks(L) /\ b # At(p, o)
  <2>1. b \in Block /\ b.order \in Orders
    BY BlockIsAt DEF Blocks
  <2>2. PICK k \in DOMAIN M[b.order] : M[b.order][k] = b.page
    BY DEF Blocks
  <2>3. CASE b.order # o
    BY <1>2, <1>6, <2>1, <2>2, <2>3 DEF Blocks
  <2>4. CASE b.order = o
    <3>1. k + 1 \in DOMAIN old /\ old[k + 1] = b.page /\ k + 1 # 1 /\ 1 \in DOMAIN old
      BY <1>2, <1>3, <2>2, <2>4
    <3>2. b.page # p
      BY <1>1, <1>3, <3>1 DEF IsInjective
    <3> QED
      BY <1>6, <2>1, <2>4, <3>1, <3>2 DEF Blocks, old
  <2> QED
    BY <2>3, <2>4
<1>9. ASSUME NEW b \in Blocks(L), b # At(p, o) PROVE b \in Blocks(M)
  <2>1. b \in Block /\ b.order \in Orders /\ b = At(b.page, b.order)
    BY BlockIsAt DEF Blocks
  <2>2. PICK k \in DOMAIN L[b.order] : L[b.order][k] = b.page
    BY DEF Blocks
  <2>3. CASE b.order # o
    BY <1>2, <2>1, <2>2, <2>3 DEF Blocks
  <2>4. CASE b.order = o
    <3>1. b.page # p
      BY <1>9, <2>1, <2>4
    <3>2. k \in 1 .. Len(old) /\ k # 1 /\ old[k] = b.page
      BY <1>3, <2>2, <2>4, <3>1 DEF old
    <3>3. k - 1 \in 1 .. Len(old) - 1 /\ (k - 1) + 1 = k
      BY <1>3, <3>2
    <3>4. new[k - 1] = b.page
      BY <1>3, <3>2, <3>3
    <3> QED
      BY <1>2, <1>3, <2>1, <2>4, <3>3, <3>4 DEF Blocks
  <2> QED
    BY <2>3, <2>4
<1> QED
  BY <1>3, <1>5, <1>7, <1>8, <1>9 DEF M, p, old

-----------------------------------------------------------------------------
(* Sharing out the memory                                                  *)

\* No two blocks of a tiling begin at the same page.
LEMMA OneBlockPerPage ==
    ASSUME NEW B \in SUBSET Block, Tiling(B), NEW a \in B, NEW b \in B,
           a.page \in Extent(b)
    PROVE  a = b
<1>1. a.page \in Nat /\ a.order \in {1, 4, 16}
  BY BlockIsAt, PageRange DEF Orders
<1>2. a.page \in Extent(a)
  BY <1>1 DEF Extent
<1> QED
  BY <1>2 DEF Tiling

FourPages(p, s) == {p, p + s, p + 2 * s, p + 3 * s}

FourBlocks(p, s) == {At(p, s), At(p + s, s), At(p + 2 * s, s), At(p + 3 * s, s)}

\* Replacing a block by its four quarters gives a tiling again.
LEMMA Quarters ==
    ASSUME NEW B \in SUBSET Block, Tiling(B), NEW b \in B, NEW s \in {1, 4},
           b.order = 4 * s
    PROVE  /\ FourBlocks(b.page, s) \subseteq Block /\ B \cap FourBlocks(b.page, s) = {}
           /\ FourPages(b.page, s) \subseteq Pages
           /\ Tiling((B \ {b}) \cup FourBlocks(b.page, s))
<1> DEFINE p == b.page
           new == {At(p, s), At(p + s, s), At(p + 2 * s, s), At(p + 3 * s, s)}
<1>1. /\ p \in Nat /\ p + 4 * s <= 16 * Chunks /\ 16 * Chunks \in Nat
      /\ s \in Orders /\ p \in Pages
  BY BlockIsAt, PageRange DEF Tiling, Orders
<1>2. {p, p + s, p + 2 * s, p + 3 * s} \subseteq Pages
  BY <1>1, PageRange
<1>3. \A a \in new : /\ a \in Block /\ a.order = s
                     /\ a.page \in {p, p + s, p + 2 * s, p + 3 * s}
  BY <1>1, <1>2, BlockIsAt
<1>4. Extent(b) = p .. p + 4 * s - 1
  BY <1>1 DEF Extent
<1>5. \A a \in new : Extent(a) \subseteq Extent(b)
  <2> SUFFICES ASSUME NEW a \in new, NEW x \in Extent(a) PROVE x \in Extent(b)
    OBVIOUS
  <2>1. x \in a.page .. a.page + s - 1 /\ a.page \in {p, p + s, p + 2 * s, p + 3 * s}
    BY <1>3 DEF Extent
  <2> DEFINE t == a.page
  <2> HIDE DEF p, new, t
  <2>2. t \in Nat /\ t >= p /\ t + s <= p + 4 * s
    <3>1. t \in {p, p + s, p + 2 * s, p + 3 * s}
      BY <2>1 DEF t
    <3> QED
      BY <1>1, <3>1
  <2>3. x \in t .. t + s - 1
    BY <2>1 DEF t
  <2>4. x \in p .. p + 4 * s - 1
    BY <1>1, <2>2, <2>3
  <2> QED
    BY <1>4, <2>4, Zenon
<1>6. ASSUME NEW a \in new PROVE a \notin B
  <2> SUFFICES ASSUME a \in B PROVE FALSE
    OBVIOUS
  <2>1. a.page \in Extent(b)
    <3>1. a.page \in {p, p + s, p + 2 * s, p + 3 * s}
      BY <1>3
    <3> HIDE DEF p, new
    <3> QED
      BY <1>1, <1>4, <3>1
  <2>2. a = b
    BY <2>1, OneBlockPerPage
  <2>3. a.order = s
    BY <1>3
  <2> QED
    BY <2>2, <2>3
<1>7. ASSUME NEW a \in new PROVE a.page % a.order = 0 /\ a.page + a.order <= 16 * Chunks
  <2>1. p % (4 * s) = 0
    BY DEF Tiling
  <2>2. a.order = s /\ a.page \in {p, p + s, p + 2 * s, p + 3 * s}
    BY <1>3
  <2> HIDE DEF p, new
  <2>3. CASE s = 1
    BY <1>1, <2>1, <2>2, <2>3
  <2>4. CASE s = 4
    <3>1. p % 16 = 0
      BY <2>1, <2>4
    <3> QED
      BY <1>1, <2>2, <2>4, <3>1, SMT
  <2> QED
    BY <2>3, <2>4
<1>8. ASSUME NEW a \in new, NEW c \in new, a # c PROVE Extent(a) \cap Extent(c) = {}
  <2>1. \A q \in {p, p + s, p + 2 * s, p + 3 * s} : Extent(At(q, s)) = q .. q + s - 1
    BY <1>1, <1>2, BlockIsAt DEF Extent
  <2>2. PICK q \in {p, p + s, p + 2 * s, p + 3 * s} : a = At(q, s)
    OBVIOUS
  <2>3. PICK r \in {p, p + s, p + 2 * s, p + 3 * s} : c = At(r, s)
    OBVIOUS
  <2>4. q # r /\ Extent(a) = q .. q + s - 1 /\ Extent(c) = r .. r + s - 1
    BY <1>8, <2>1, <2>2, <2>3
  <2> HIDE DEF p, new
  <2>5. CASE s = 1
    BY <1>1, <2>4, <2>5
  <2>6. CASE s = 4
    BY <1>1, <2>4, <2>6
  <2> QED
    BY <2>5, <2>6
<1>9. ASSUME NEW x \in Extent(b) PROVE \E a \in new : x \in Extent(a)
  <2>1. \A q \in {p, p + s, p + 2 * s, p + 3 * s} :
          At(q, s) \in new /\ Extent(At(q, s)) = q .. q + s - 1
    BY <1>1, <1>2, BlockIsAt DEF Extent
  <2>2. x \in p .. p + 4 * s - 1
    BY <1>4
  <2> HIDE DEF p, new
  <2>3. \E q \in {p, p + s, p + 2 * s, p + 3 * s} : x \in q .. q + s - 1
    BY <1>1, <2>2
  <2> QED
    BY <2>1, <2>3
<1> HIDE DEF p, new
<1>10. Tiling((B \ {b}) \cup new)
  <2> DEFINE C == (B \ {b}) \cup new
  <2>1. \A a \in C : a.page % a.order = 0 /\ a.page + a.order <= 16 * Chunks
    BY <1>7 DEF Tiling
  <2>2. ASSUME NEW a \in C, NEW c \in C, a # c PROVE Extent(a) \cap Extent(c) = {}
    <3>1. CASE a \in new /\ c \in new
      BY <1>8, <2>2, <3>1
    <3>2. CASE a \notin new /\ c \notin new
      BY <2>2, <3>2 DEF Tiling
    <3>3. ASSUME NEW x \in new, NEW y \in B \ {b} PROVE Extent(x) \cap Extent(y) = {}
      <4>1. Extent(b) \cap Extent(y) = {}
        BY DEF Tiling
      <4> QED
        BY <1>5, <4>1
    <3> QED
      BY <3>1, <3>2, <3>3
  <2>3. ASSUME NEW x \in Pages PROVE \E a \in C : x \in Extent(a)
    <3>1. PICK c \in B : x \in Extent(c)
      BY DEF Tiling
    <3> QED
      BY <1>9, <3>1
  <2> HIDE DEF C
  <2>4. Tiling(C)
    BY <2>1, <2>2, <2>3 DEF Tiling
  <2> QED
    BY <2>4 DEF C
<1>11. new \subseteq Block /\ B \cap new = {}
  BY <1>3, <1>6
<1> QED
  BY <1>2, <1>10, <1>11 DEF p, new, FourPages, FourBlocks

\* Splitting the first page of a list.
LEMMA Split ==
    ASSUME NEW L, NEW U, Sound(L, U), NEW s \in {1, 4}, NEW o, o = 4 * s, L[o] # <<>>
    PROVE  Sound(split_page_in_smaller_chunks(
                   pop_page_from_free_pages_list(L, o), Head(L[o]), o), U)
<1> DEFINE p == Head(L[o])
           b == At(p, o)
           M == pop_page_from_free_pages_list(L, o)
           chunks == <<p + 3 * s, p + 2 * s, p + s, p>>
           R == [M EXCEPT ![s] = chunks \o @]
           new == {At(p, s), At(p + s, s), At(p + 2 * s, s), At(p + 3 * s, s)}
           B == Blocks(L) \cup U
<1>1. o \in Orders /\ s \in Orders /\ o \div 4 = s
  BY DEF Orders
<1>2. /\ L \in Lists /\ U \subseteq Block /\ Blocks(L) \cap U = {} /\ Tiling(B)
      /\ B \in SUBSET Block
  BY DEF Sound, Blocks
<1>3. /\ M \in Lists /\ b \in Blocks(L) /\ p \in Pages /\ Blocks(M) = Blocks(L) \ {b}
  BY <1>1, <1>2, Pop
<1>4. b.page = p /\ b.order = 4 * s
  BY <1>1, <1>3, BlockIsAt
<1> HIDE DEF b, M, p, B
<1>5. /\ new \subseteq Block /\ B \cap new = {}
      /\ {p, p + s, p + 2 * s, p + 3 * s} \subseteq Pages
      /\ Tiling((B \ {b}) \cup new)
  <2>1. b \in B
    BY <1>3 DEF B
  <2>2. /\ FourBlocks(b.page, s) \subseteq Block /\ B \cap FourBlocks(b.page, s) = {}
        /\ FourPages(b.page, s) \subseteq Pages
        /\ Tiling((B \ {b}) \cup FourBlocks(b.page, s))
    BY <1>2, <1>4, <2>1, Quarters
  <2> QED
    BY <1>4, <2>2 DEF FourPages, FourBlocks
<1>6. /\ chunks \in Seq(Pages) /\ Len(chunks) = 4
      /\ {At(chunks[k], s) : k \in 1 .. Len(chunks)} = new
  <2>1. chunks \in Seq(Pages) /\ Len(chunks) = 4
    BY <1>5
  <2>2. chunks[1] = p + 3 * s /\ chunks[2] = p + 2 * s /\ chunks[3] = p + s /\ chunks[4] = p
    OBVIOUS
  <2>3. 1 .. Len(chunks) = {1, 2, 3, 4}
    BY <2>1
  <2> HIDE DEF chunks
  <2>4. {At(chunks[k], s) : k \in {1, 2, 3, 4}} = new
    BY <2>2
  <2> QED
    BY <2>1, <2>3, <2>4
<1>7. IsInjective(chunks)
  <2>1. p \in Nat
    BY <1>3, PageRange
  <2>2. DOMAIN chunks = {1, 2, 3, 4}
    BY <1>6
  <2>3. chunks[1] = p + 3 * s /\ chunks[2] = p + 2 * s /\ chunks[3] = p + s /\ chunks[4] = p
    OBVIOUS
  <2> HIDE DEF chunks
  <2> QED
    BY <2>1, <2>2, <2>3 DEF IsInjective
<1> HIDE DEF chunks, new
<1>8. \A k \in 1 .. Len(chunks) : At(chunks[k], s) \notin Blocks(M)
  BY <1>3, <1>5, <1>6 DEF B
<1>9. R \in Lists /\ Blocks(R) = Blocks(M) \cup new
  BY <1>1, <1>3, <1>6, <1>7, <1>8, Prepend
<1>10. split_page_in_smaller_chunks(M, p, o) = R
  BY <1>1 DEF split_page_in_smaller_chunks, chunks
<1> HIDE DEF R
<1>11. Blocks(R) \cap U = {}
  BY <1>2, <1>3, <1>5, <1>9 DEF B
<1>12. Blocks(R) \cup U = (B \ {b}) \cup new
  BY <1>2, <1>3, <1>9 DEF B
<1>13. Sound(R, U)
  BY <1>2, <1>5, <1>9, <1>11, <1>12 DEF Sound
<1> QED
  BY <1>10, <1>13 DEF M, p

\* _physical_page_alloc may split pages first.
LEMMA Refill ==
    ASSUME NEW L, NEW U, Sound(L, U), NEW o \in Orders
    PROVE  Sound(refill(L, o), U)
<1>1. Sound(refill_4KB(L), U)
  <2>1. CASE L[4] # <<>> \/ L[16] = <<>>
    BY <2>1 DEF refill_4KB
  <2>2. CASE L[4] = <<>> /\ L[16] # <<>>
    <3>1. Sound(split_page_in_smaller_chunks(
                  pop_page_from_free_pages_list(L, 16), Head(L[16]), 16), U)
      BY <2>2, Split
    <3> QED
      BY <2>2, <3>1 DEF refill_4KB
  <2> QED
    BY <2>1, <2>2
<1>2. Sound(refill_1KB(L), U)
  <2> DEFINE bigger == refill_4KB(L)
  <2>1. Sound(bigger, U)
    BY <1>1
  <2>2. refill_1KB(L) = IF L[1] # <<>> THEN L ELSE IF bigger[4] = <<>> THEN bigger
                        ELSE split_page_in_smaller_chunks(
                               pop_page_from_free_pages_list(bigger, 4), Head(bigger[4]), 4)
    BY DEF refill_1KB
  <2> HIDE DEF bigger
  <2>3. bigger[4] # <<>> => Sound(split_page_in_smaller_chunks(
          pop_page_from_free_pages_list(bigger, 4), Head(bigger[4]), 4), U)
    BY <2>1, Split
  <2> QED
    BY <2>1, <2>2, <2>3
<1> QED
  BY <1>1, <1>2 DEF refill, Orders

-----------------------------------------------------------------------------
(* Freeing                                                                 *)

\* A page in use is in no free list, so it has no next page ...
LEMMA LentHasNoNext ==
    ASSUME NEW L, NEW U, Sound(L, U), NEW b \in U
    PROVE  ~has_next(L, b.page)
<1> SUFFICES ASSUME has_next(L, b.page) PROVE FALSE
  OBVIOUS
<1>1. /\ L \in [Orders -> Seq(Pages)] /\ b \in Block /\ Blocks(L) \cap U = {}
      /\ Tiling(Blocks(L) \cup U) /\ Blocks(L) \cup U \in SUBSET Block
  BY DEF Sound, Lists, Blocks
<1>2. PICK o \in Orders : \E k \in 1 .. Len(L[o]) - 1 : L[o][k] = b.page
  BY DEF has_next
<1>3. PICK k \in 1 .. Len(L[o]) - 1 : L[o][k] = b.page
  BY <1>2
<1>4. k \in DOMAIN L[o] /\ b.page \in Pages
  <2>1. L[o] \in Seq(Pages)
    BY <1>1
  <2> QED
    BY <1>1, <2>1, BlockIsAt
<1>5. At(b.page, o) \in Block /\ At(b.page, o).page = b.page /\ At(b.page, o).order = o
  BY <1>4, BlockIsAt
<1>6. At(b.page, o) \in Blocks(L)
  BY <1>3, <1>4, <1>5 DEF Blocks
<1>7. b.page \in Extent(b)
  <2>1. b.page \in Nat /\ b.order \in {1, 4, 16}
    BY <1>1, BlockIsAt, PageRange DEF Orders
  <2> QED
    BY <2>1 DEF Extent
<1>8. At(b.page, o) = b
  BY <1>1, <1>5, <1>6, <1>7, OneBlockPerPage
<1> QED
  BY <1>1, <1>6, <1>8

\* ... and so _physical_page_free, which looks at that page too when it asks
\* whether all buddies are free, never merges them.
LEMMA NeverMerges ==
    ASSUME NEW L, NEW U, Sound(L, U), NEW b \in U
    PROVE  _physical_page_free(L, b.page, b.order)
             = append_page_to_free_pages_list(L, b.page, b.order)
<1>1. b \in Block /\ b \in Blocks(L) \cup U
  BY DEF Sound
<1>2. b.page \in Nat /\ b.order \in {1, 4, 16} /\ b.page % b.order = 0
  BY <1>1, BlockIsAt, PageRange DEF Orders, Sound, Tiling
<1>3. ASSUME b.order \in {1, 4} PROVE ~all_buddies_free(L, b.page, b.order)
  <2>1. b.page \in buddies(b.page, b.order)
    <3> DEFINE p == b.page
               o == b.order
    <3>1. p \in Nat /\ (o = 1 \/ o = 4) /\ p % o = 0
      BY <1>2, <1>3
    <3> HIDE DEF p, o
    <3>2. \E k \in 0 .. 3 : p = p - (p % (4 * o)) + k * o
      <4>1. CASE o = 1
        <5>1. p % 4 \in 0 .. 3 /\ p = p - (p % 4) + (p % 4) * 1
          BY <3>1, SMT
        <5> QED
          BY <4>1, <5>1
      <4>2. CASE o = 4
        <5>1. p % 4 = 0
          BY <3>1, <4>2
        <5>2. p % 16 \in {0, 4, 8, 12}
          BY <3>1, <5>1, SMT
        <5>3. \E k \in 0 .. 3 : p % 16 = k * 4
          BY <5>2
        <5>4. \E k \in 0 .. 3 : p = p - (p % 16) + k * 4
          BY <3>1, <5>2, <5>3
        <5> QED
          BY <4>2, <5>4
      <4> QED
        BY <3>1, <4>1, <4>2
    <3>3. p \in buddies(p, o)
      BY <3>2 DEF buddies, first_buddy
    <3> QED
      BY <3>3 DEF p, o
  <2> QED
    BY <2>1, LentHasNoNext DEF all_buddies_free
<1>4. CASE b.order = 16
  BY <1>4 DEF _physical_page_free, free_16KB
<1>5. CASE b.order = 4
  <2>1. ~all_buddies_free(L, b.page, 4)
    BY <1>3, <1>5
  <2>2. free_4KB(L, b.page) = append_page_to_free_pages_list(L, b.page, 4)
    BY <2>1 DEF free_4KB
  <2>3. _physical_page_free(L, b.page, 4) = free_4KB(L, b.page)
    BY DEF _physical_page_free
  <2> QED
    BY <1>5, <2>2, <2>3
<1>6. CASE b.order = 1
  <2>1. ~all_buddies_free(L, b.page, 1)
    BY <1>3, <1>6
  <2>2. free_1KB(L, b.page) = append_page_to_free_pages_list(L, b.page, 1)
    BY <2>1 DEF free_1KB
  <2>3. _physical_page_free(L, b.page, 1) = free_1KB(L, b.page)
    BY DEF _physical_page_free
  <2> QED
    BY <1>6, <2>2, <2>3
<1> QED
  BY <1>2, <1>4, <1>5, <1>6

-----------------------------------------------------------------------------
(* The inductive invariant                                                 *)

IInv ==
    /\ Sound(g_free_pages_lists, lent)
    /\ ref_count \in [Pages -> Nat] /\ RefCountsAgree

\* At first the memory is one list of 16KB pages.
LEMMA InitInvariant == Init => IInv
<1> SUFFICES ASSUME Init PROVE IInv
  OBVIOUS
<1> DEFINE L == g_free_pages_lists
           first == [k \in 1 .. Chunks |-> 16 * (k - 1)]
<1>1. Chunks \in Nat /\ 16 * Chunks \in Nat /\ Orders = {1, 4, 16}
  BY PageRange DEF Orders
<1>2. L[16] = first /\ L[1] = <<>> /\ L[4] = <<>> /\ lent = {}
  BY <1>1 DEF Init
<1>3. first \in Seq(Pages) /\ DOMAIN first = 1 .. Chunks /\ IsInjective(first)
  <2>1. \A k \in 1 .. Chunks : 16 * (k - 1) \in Pages
    BY <1>1, PageRange
  <2>2. IsInjective(first)
    BY <1>1 DEF IsInjective
  <2> QED
    BY <1>1, <2>1, <2>2
<1>4. IsInjective(<<>>) /\ <<>> \in Seq(Pages)
  BY DEF IsInjective
<1>5. L \in Lists
  <2>1. L \in [Orders -> Seq(Pages)]
    BY <1>3, <1>4 DEF Init
  <2> QED
    BY <1>1, <1>2, <1>3, <1>4, <2>1 DEF Lists
<1>6. ASSUME NEW b \in Blocks(L)
      PROVE  \E k \in 1 .. Chunks : b.page = 16 * (k - 1) /\ b.order = 16
  <2>1. b.order \in {1, 4, 16}
    BY <1>1, BlockIsAt DEF Blocks
  <2>2. PICK k \in DOMAIN L[b.order] : L[b.order][k] = b.page
    BY DEF Blocks
  <2>3. b.order = 16
    BY <1>2, <2>1, <2>2
  <2> QED
    BY <1>2, <1>3, <2>2, <2>3
<1>7. ASSUME NEW k \in 1 .. Chunks PROVE At(16 * (k - 1), 16) \in Blocks(L)
  <2>1. 16 * (k - 1) \in Pages
    BY <1>1, PageRange
  <2>2. /\ At(16 * (k - 1), 16) \in Block /\ At(16 * (k - 1), 16).page = 16 * (k - 1)
        /\ At(16 * (k - 1), 16).order = 16
    BY <1>1, <2>1, BlockIsAt
  <2>3. k \in DOMAIN L[16] /\ L[16][k] = 16 * (k - 1)
    BY <1>2, <1>3
  <2> HIDE DEF L
  <2> QED
    BY <2>2, <2>3 DEF Blocks
<1>8. Tiling(Blocks(L) \cup lent)
  <2> DEFINE B == Blocks(L)
  <2>1. \A b \in B : b.page % b.order = 0 /\ b.page + b.order <= 16 * Chunks
    <3> SUFFICES ASSUME NEW b \in B
                 PROVE  b.page % b.order = 0 /\ b.page + b.order <= 16 * Chunks
      OBVIOUS
    <3>1. PICK k \in 1 .. Chunks : b.page = 16 * (k - 1) /\ b.order = 16
      BY <1>6
    <3>2. (16 * (k - 1)) % 16 = 0
      BY <1>1, SMT
    <3> QED
      BY <1>1, <3>1, <3>2
  <2>2. ASSUME NEW a \in B, NEW b \in B, a # b PROVE Extent(a) \cap Extent(b) = {}
    <3>1. PICK k \in 1 .. Chunks : a.page = 16 * (k - 1) /\ a.order = 16
      BY <1>6
    <3>2. PICK j \in 1 .. Chunks : b.page = 16 * (j - 1) /\ b.order = 16
      BY <1>6
    <3>3. a.page # b.page
      BY <2>2, <3>1, <3>2, BlockIsAt DEF Blocks
    <3> QED
      BY <1>1, <3>1, <3>2, <3>3 DEF Extent
  <2>3. ASSUME NEW p \in Pages PROVE \E b \in B : p \in Extent(b)
    <3> DEFINE k == (p \div 16) + 1
               b == At(16 * (k - 1), 16)
    <3>1. k \in 1 .. Chunks /\ p \in 16 * (k - 1) .. 16 * (k - 1) + 16 - 1
      BY <1>1, PageRange, SMT
    <3> HIDE DEF k
    <3>2. b \in B /\ b.page = 16 * (k - 1) /\ b.order = 16
      BY <1>1, <1>7, <3>1, BlockIsAt DEF At
    <3>3. p \in Extent(b)
      BY <3>1, <3>2 DEF Extent
    <3> QED
      BY <3>2, <3>3
  <2> HIDE DEF B
  <2>4. Tiling(B)
    BY <2>1, <2>2, <2>3 DEF Tiling
  <2>5. Blocks(L) \cup lent = B
    BY <1>2 DEF B
  <2> QED
    BY <2>4, <2>5
<1>9. Sound(L, lent)
  <2>1. lent \subseteq Block /\ Blocks(L) \cap lent = {}
    BY <1>2
  <2> HIDE DEF L
  <2> QED
    BY <1>5, <1>8, <2>1 DEF Sound
<1>10. ref_count \in [Pages -> Nat] /\ RefCountsAgree
  BY <1>2 DEF Init, RefCountsAgree
<1> QED
  BY <1>9, <1>10 DEF IInv

\* physical_page_alloc.
LEMMA AllocStep ==
    ASSUME IInv, NEW o \in Orders, physical_page_alloc(o)
    PROVE  IInv'
<1> DEFINE L == refill(g_free_pages_lists, o)
           M == pop_page_from_free_pages_list(L, o)
           p == Head(L[o])
           b == At(p, o)
<1>1. /\ L[o] # <<>> /\ g_free_pages_lists' = M
      /\ ref_count' = [ref_count EXCEPT ![p] = 1]
      /\ lent' = lent \cup {b}
  BY DEF physical_page_alloc, At
<1>2. Sound(L, lent)
  BY Refill DEF IInv
<1> HIDE DEF L
<1>3. /\ L \in Lists /\ lent \subseteq Block /\ Blocks(L) \cap lent = {}
      /\ Tiling(Blocks(L) \cup lent)
  BY <1>2 DEF Sound
<1>4. M \in Lists /\ b \in Blocks(L) /\ p \in Pages /\ Blocks(M) = Blocks(L) \ {b}
  BY <1>1, <1>3, Pop
<1>5. b \in Block /\ b.page = p
  BY <1>4, BlockIsAt
<1> HIDE DEF M, p, b
<1>6. Sound(M, lent')
  <2>1. Blocks(M) \cup lent' = Blocks(L) \cup lent /\ Blocks(M) \cap lent' = {}
    BY <1>1, <1>3, <1>4
  <2> QED
    BY <1>1, <1>3, <1>4, <1>5, <2>1 DEF Sound
<1>7. ref_count' \in [Pages -> Nat] /\ RefCountsAgree'
  <2>1. ref_count \in [Pages -> Nat] /\ RefCountsAgree
    BY DEF IInv
  <2>2. ref_count' \in [Pages -> Nat]
    BY <1>1, <1>4, <2>1
  <2>3. \A q \in Pages : ref_count'[q] = IF q = p THEN 1 ELSE ref_count[q]
    BY <1>1, <1>4, <2>1
  <2>4. \A a \in lent' : a.page \in Pages
    BY <1>1, <1>3, <1>5, BlockIsAt
  <2>5. \A a \in lent' : ref_count'[a.page] > 0
    BY <1>1, <1>5, <2>1, <2>3, <2>4 DEF RefCountsAgree
  <2>6. \A q \in Pages : (\A a \in lent' : a.page # q) => ref_count'[q] = 0
    BY <1>1, <1>5, <2>1, <2>3 DEF RefCountsAgree
  <2> QED
    BY <2>2, <2>5, <2>6 DEF RefCountsAgree
<1> QED
  BY <1>1, <1>6, <1>7 DEF IInv

\* physical_page_free.
LEMMA FreeStep ==
    ASSUME IInv, NEW b \in lent, physical_page_free(b)
    PROVE  IInv'
<1> DEFINE L == g_free_pages_lists
           p == b.page
           o == b.order
           B == Blocks(L) \cup lent
<1>1. /\ L \in Lists /\ lent \subseteq Block /\ Blocks(L) \cap lent = {} /\ Tiling(B)
      /\ B \in SUBSET Block /\ Sound(L, lent)
  BY DEF IInv, Sound, Blocks
<1>2. b \in Block /\ p \in Pages /\ o \in Orders /\ b = At(p, o)
  BY <1>1, BlockIsAt
<1>3. ref_count \in [Pages -> Nat] /\ RefCountsAgree /\ ref_count[p] > 0
  BY DEF IInv, RefCountsAgree
<1>4. ref_count' \in [Pages -> Nat]
      /\ \A q \in Pages : ref_count'[q] = IF q = p THEN ref_count[p] - 1 ELSE ref_count[q]
  BY <1>2, <1>3 DEF physical_page_free
<1>5. \A a \in lent : a.page \in Pages
  BY <1>1, BlockIsAt
<1>6. CASE ref_count[p] = 1
  <2>1. g_free_pages_lists' = append_page_to_free_pages_list(L, p, o) /\ lent' = lent \ {b}
    BY <1>1, <1>6, NeverMerges DEF physical_page_free
  <2> DEFINE s == <<p>>
             M == [L EXCEPT ![o] = s \o @]
  <2>2. g_free_pages_lists' = M
    BY <2>1 DEF append_page_to_free_pages_list
  <2>3. s \in Seq(Pages) /\ IsInjective(s) /\ Len(s) = 1 /\ s[1] = p
    BY <1>2 DEF IsInjective
  <2>4. {At(s[k], o) : k \in 1 .. Len(s)} = {b}
    <3>1. 1 .. Len(s) = {1}
      BY <2>3
    <3> QED
      BY <1>2, <2>3, <3>1
  <2>5. \A k \in 1 .. Len(s) : At(s[k], o) \notin Blocks(L)
    BY <1>1, <2>4
  <2> HIDE DEF s, L, o, p
  <2>6. M \in Lists /\ Blocks(M) = Blocks(L) \cup {b}
    BY <1>1, <1>2, <2>3, <2>4, <2>5, Prepend
  <2> HIDE DEF M
  <2>7. Sound(M, lent')
    <3>1. Blocks(M) \cup lent' = Blocks(L) \cup lent /\ Blocks(M) \cap lent' = {}
      BY <1>1, <2>1, <2>6
    <3> QED
      BY <1>1, <2>1, <2>6, <3>1 DEF Sound
  <2>8. \A a \in lent' : a.page # p
    <3> SUFFICES ASSUME NEW a \in lent', a.page = p PROVE FALSE
      OBVIOUS
    <3>1. p \in Extent(b)
      <4>1. b.page \in Nat /\ b.order \in {1, 4, 16}
        BY <1>2, BlockIsAt, PageRange DEF Orders
      <4> QED
        BY <4>1 DEF Extent, p
    <3>2. a \in B /\ b \in B
      BY <2>1
    <3>3. a = b
      BY <1>1, <3>1, <3>2, OneBlockPerPage
    <3> QED
      BY <2>1, <3>3
  <2>9. RefCountsAgree'
    <3>1. \A a \in lent' : a \in lent /\ ref_count'[a.page] = ref_count[a.page]
      BY <1>4, <1>5, <2>1, <2>8
    <3>2. ASSUME NEW q \in Pages, \A a \in lent' : a.page # q PROVE ref_count'[q] = 0
      <4>1. q # p => \A a \in lent : a.page # q
        BY <2>1, <3>2 DEF p
      <4>2. q # p => ref_count[q] = 0
        BY <1>3, <4>1 DEF RefCountsAgree
      <4> QED
        BY <1>4, <1>6, <4>2
    <3>3. \A a \in lent' : ref_count'[a.page] > 0
      BY <1>3, <3>1 DEF RefCountsAgree
    <3> QED
      BY <3>2, <3>3 DEF RefCountsAgree
  <2> QED
    BY <1>4, <2>2, <2>7, <2>9 DEF IInv
<1>7. CASE ref_count[p] # 1
  <2>1. g_free_pages_lists' = L /\ lent' = lent
    BY <1>7 DEF physical_page_free
  <2>2. ref_count[p] \in Nat /\ ref_count[p] - 1 > 0
    BY <1>2, <1>3, <1>7
  <2>3. RefCountsAgree'
    <3>1. \A a \in lent' : ref_count'[a.page] > 0
      BY <1>3, <1>4, <1>5, <2>1, <2>2 DEF RefCountsAgree
    <3>2. \A q \in Pages : (\A a \in lent' : a.page # q) => ref_count'[q] = 0
      BY <1>3, <1>4, <2>1 DEF RefCountsAgree
    <3> QED
      BY <3>1, <3>2 DEF RefCountsAgree
  <2> QED
    BY <1>1, <1>4, <2>1, <2>3 DEF IInv
<1> QED
  BY <1>6, <1>7

\* Another user of a page.
LEMMA ShareStep ==
    ASSUME IInv, NEW b \in lent, share_page(b)
    PROVE  IInv'
<1>1. /\ UNCHANGED <<g_free_pages_lists, lent>>
      /\ ref_count' = [ref_count EXCEPT ![b.page] = ref_count[b.page] + 1]
  BY DEF share_page
<1>2. lent \subseteq Block /\ ref_count \in [Pages -> Nat] /\ RefCountsAgree
  BY DEF IInv, Sound
<1>3. \A a \in lent : a.page \in Pages
  BY <1>2, BlockIsAt
<1>4. /\ ref_count' \in [Pages -> Nat]
      /\ \A q \in Pages : ref_count'[q] = IF q = b.page THEN ref_count[q] + 1
                                          ELSE ref_count[q]
  BY <1>1, <1>2, <1>3
<1>5. RefCountsAgree'
  <2>1. \A a \in lent' : ref_count'[a.page] > 0
    BY <1>1, <1>2, <1>3, <1>4 DEF RefCountsAgree
  <2>2. \A q \in Pages : (\A a \in lent' : a.page # q) => ref_count'[q] = 0
    BY <1>1, <1>2, <1>4 DEF RefCountsAgree
  <2> QED
    BY <2>1, <2>2 DEF RefCountsAgree
<1> QED
  BY <1>1, <1>4, <1>5 DEF IInv

\* The free pages and those in use tile the memory, and the reference counts
\* agree with the lists.
THEOREM PageAllocInvariant == Spec => []IInv
<1>1. Init => IInv
  BY InitInvariant
<1>2. IInv /\ [Next]_vars => IInv'
  <2> SUFFICES ASSUME IInv, [Next]_vars PROVE IInv'
    OBVIOUS
  <2>1. CASE \E o \in Orders : physical_page_alloc(o)
    BY <2>1, AllocStep
  <2>2. CASE \E b \in lent : physical_page_free(b) \/ share_page(b)
    BY <2>2, FreeStep, ShareStep
  <2>3. CASE UNCHANGED vars
    BY <2>3 DEF vars, IInv, RefCountsAgree
  <2> QED
    BY <2>1, <2>2, <2>3 DEF Next
<1> QED
  BY <1>1, <1>2, PTL DEF Spec

\* However much memory there is and whatever is allocated, shared and freed:
\* memory is neither handed out twice nor lost, and no assertion about a
\* reference count fails.
THEOREM PagesStaySound == Spec => []PagesSound
<1>1. IInv => PagesSound
  <2> SUFFICES ASSUME IInv PROVE PagesSound
    OBVIOUS
  <2>1. FreeBlocks = Blocks(g_free_pages_lists)
    BY DEF FreeBlocks, Blocks
  <2>2. PagesConserved
    BY <2>1 DEF IInv, Sound, Tiling, Lists, PagesConserved
  <2>3. TypeOK
    BY DEF IInv, Sound, Lists, TypeOK
  <2> QED
    BY <2>2, <2>3 DEF IInv, PagesSound
<1> QED
  BY <1>1, PageAllocInvariant, PTL

\* physical_page_free on the last reference gives back only that page: buddies
\* are never joined, whatever is free.
THEOREM BuddiesNeverMerge ==
    Spec => [][\A b \in lent :
                 physical_page_free(b) /\ ref_count[b.page] = 1 =>
                   g_free_pages_lists' = append_page_to_free_pages_list(
                     g_free_pages_lists, b.page, b.order)]_vars
<1>1. IInv => \A b \in lent :
                physical_page_free(b) /\ ref_count[b.page] = 1 =>
                  g_free_pages_lists' = append_page_to_free_pages_list(
                    g_free_pages_lists, b.page, b.order)
  BY NeverMerges DEF IInv, physical_page_free
<1> QED
  BY <1>1, PageAllocInvariant, PTL
=============================================================================
