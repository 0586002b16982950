-------------------------- MODULE VirtqueueProofs --------------------------
(***************************************************************************)
(* What the proofs about the virtio drivers share, for every queue size:   *)
(* the free list of descriptors under allocation and release, and the used *)
(* buffers that an interrupt handler has yet to visit.                     *)
(***************************************************************************)
EXTENDS Virtqueue, FiniteSetTheorems, WellFoundedInduction, TLAPS

-----------------------------------------------------------------------------
(* Natural numbers                                                         *)

\* Every nonempty set of natural numbers has a least element: the proofs
\* below argue about the least number for which a claim would fail.
LEMMA LeastNatural ==
    ASSUME NEW S \in SUBSET Nat, S # {}
    PROVE  \E m \in S : \A k \in S : m <= k
<1> DEFINE less == {pair \in Nat \X Nat : pair[1] < pair[2]}
<1>1. IsWellFoundedOn(less, Nat)
  BY NatLessThanWellFounded DEF OpToRel
<1> HIDE DEF less
<1>2. PICK m \in S : \A k \in S : ~ (<<k, m>> \in less)
  BY <1>1, WFMin
<1>3. \A k \in S : ~(k < m)
  BY <1>2 DEF less
<1> QED
  BY <1>3

\* Two functions that start with the same value and go on by the same rule
\* agree as far as both are defined.
LEMMA IterationUnique ==
    ASSUME NEW f, NEW n \in Nat, NEW g, NEW h, g[0] = h[0],
           \A k \in 0 .. n - 1 : g[k + 1] = f[g[k]] /\ h[k + 1] = f[h[k]]
    PROVE  \A k \in 0 .. n : g[k] = h[k]
<1> DEFINE bad == {k \in 0 .. n : g[k] # h[k]}
<1> SUFFICES ASSUME bad # {} PROVE FALSE
  OBVIOUS
<1>0. bad \in SUBSET Nat
  OBVIOUS
<1> HIDE DEF bad
<1>1. PICK m \in bad : \A k \in bad : m <= k
  BY <1>0, LeastNatural
<1> USE DEF bad
<1>2. m # 0 /\ m - 1 \in 0 .. n - 1 /\ m - 1 \notin bad
  BY <1>1
<1>3. g[m - 1] = h[m - 1]
  BY <1>2
<1> QED
  BY <1>1, <1>2, <1>3

\* A function can be iterated as often as one likes.
LEMMA Iteration ==
    ASSUME NEW D, NEW d \in D, NEW f \in [D -> D]
    PROVE  \E g \in [Nat -> D] : g[0] = d /\ \A k \in Nat : g[k + 1] = f[g[k]]
<1> DEFINE upto(n) == {g \in [0 .. n -> D] :
                         g[0] = d /\ \A k \in 0 .. n - 1 : g[k + 1] = f[g[k]]}
           bad == {n \in Nat : upto(n) = {}}
           first(n) == CHOOSE g : g \in upto(n)
           last == [n \in Nat |-> first(n)[n]]
<1>1. bad = {}
  <2> SUFFICES ASSUME bad # {} PROVE FALSE
    OBVIOUS
  <2>1. bad \in SUBSET Nat
    OBVIOUS
  <2> HIDE DEF bad
  <2>2. PICK m \in bad : \A k \in bad : m <= k
    BY <2>1, LeastNatural
  <2>3. m \in Nat /\ upto(m) = {}
    BY <2>2 DEF bad
  <2>4. m # 0
    <3>1. [k \in 0 .. 0 |-> d] \in upto(0)
      OBVIOUS
    <3> QED
      BY <2>3, <3>1
  <2>5. m - 1 \in Nat /\ m - 1 \notin bad
    BY <2>2, <2>3, <2>4
  <2>6. upto(m - 1) # {}
    BY <2>5 DEF bad
  <2>7. PICK g : g \in upto(m - 1)
    BY <2>6
  <2>8. [k \in 0 .. m |-> IF k = m THEN f[g[m - 1]] ELSE g[k]] \in upto(m)
    BY <2>3, <2>4, <2>7
  <2> QED
    BY <2>3, <2>8
<1>2. ASSUME NEW n \in Nat PROVE first(n) \in upto(n)
  <2>1. upto(n) # {}
    BY <1>1
  <2> HIDE DEF upto
  <2> QED
    BY <2>1
<1> HIDE DEF first
<1>3. \A n \in Nat : /\ first(n)[n] \in D
                     /\ first(n)[0] = d
                     /\ \A k \in 0 .. n - 1 : first(n)[k + 1] = f[first(n)[k]]
  BY <1>2
<1>4. last \in [Nat -> D] /\ last[0] = d
  BY <1>3
<1>5. ASSUME NEW k \in Nat PROVE last[k + 1] = f[last[k]]
  <2> DEFINE g == first(k)
             h == first(k + 1)
  <2>1. g[0] = h[0] /\ \A i \in 0 .. k - 1 : g[i + 1] = f[g[i]] /\ h[i + 1] = f[h[i]]
    BY <1>3
  <2>2. h[k + 1] = f[h[k]]
    BY <1>3
  <2> HIDE DEF g, h
  <2>3. g[k] = h[k]
    <3>1. \A j \in 0 .. k : g[j] = h[j]
      BY <2>1, IterationUnique
    <3>2. k \in 0 .. k
      OBVIOUS
    <3> QED
      BY <3>1, <3>2
  <2>4. last[k + 1] = h[k + 1] /\ last[k] = g[k]
    BY DEF g, h
  <2> QED
    BY <2>2, <2>3, <2>4
<1> QED
  BY <1>4, <1>5

\* Division with remainder.
LEMMA DivMod ==
    ASSUME NEW x \in Nat, NEW m \in Nat \ {0}
    PROVE  /\ x % m \in 0 .. m - 1 /\ x \div m \in Nat
           /\ x = m * (x \div m) + (x % m)
<1>1. x % m \in 0 .. m - 1
  BY SMT
<1>2. x \div m \in Nat
  BY SMT
<1>3. x % m = x - m * (x \div m)
  BY SMT
<1> DEFINE p == m * (x \div m)
           r == x % m
<1>4. p \in Int
  BY <1>2
<1> HIDE DEF p, r
<1>5. r = x - p /\ r \in Int
  BY <1>1, <1>3 DEF p, r
<1>6. x = p + r
  BY <1>4, <1>5
<1> QED
  BY <1>1, <1>2, <1>6 DEF p, r

\* The remainder is unique.
LEMMA ModUnique ==
    ASSUME NEW m \in Nat \ {0}, NEW q \in Nat, NEW r \in 0 .. m - 1
    PROVE  (m * q + r) % m = r
BY SMT

\* A remainder can be taken before something is added.
LEMMA ModAdd ==
    ASSUME NEW a \in Nat, NEW k \in Nat, NEW m \in Nat \ {0}
    PROVE  ((a % m) + k) % m = (a + k) % m
<1> DEFINE qa == a \div m
           ra == a % m
<1>1. qa \in Nat /\ ra \in 0 .. m - 1 /\ a = m * qa + ra
  BY DivMod
<1> HIDE DEF qa, ra
<1> DEFINE qk == (ra + k) \div m
           rk == (ra + k) % m
<1>2. qk \in Nat /\ rk \in 0 .. m - 1 /\ ra + k = m * qk + rk
  <2>1. ra + k \in Nat
    BY <1>1
  <2> QED
    BY <2>1, DivMod
<1> HIDE DEF qk, rk
<1>3. m * (qa + qk) = m * qa + m * qk /\ m * qa \in Nat /\ m * qk \in Nat
  BY <1>1, <1>2
<1>4. a + k = m * (qa + qk) + rk
  BY <1>1, <1>2, <1>3
<1>5. (m * (qa + qk) + rk) % m = rk
  <2>1. qa + qk \in Nat
    BY <1>1, <1>2
  <2> QED
    BY <1>2, <2>1, ModUnique
<1> QED
  BY <1>4, <1>5 DEF rk, ra

\* Small numbers are their own remainders, and those up to twice the modulus
\* are reduced by one subtraction.
LEMMA ModSmall ==
    ASSUME NEW m \in Nat \ {0}, NEW x \in 0 .. 2 * m - 1
    PROVE  x % m = IF x < m THEN x ELSE x - m
<1>1. CASE x < m
  <2>1. x = m * 0 + x /\ x \in 0 .. m - 1
    BY <1>1
  <2>2. (m * 0 + x) % m = x
    BY <2>1, ModUnique
  <2> QED
    BY <1>1, <2>1, <2>2
<1>2. CASE ~(x < m)
  <2>1. x = m * 1 + (x - m) /\ x - m \in 0 .. m - 1
    BY <1>2
  <2>2. (m * 1 + (x - m)) % m = x - m
    BY <2>1, ModUnique
  <2> QED
    BY <1>2, <2>1, <2>2
<1> QED
  BY <1>1, <1>2

\* Numbers less than the modulus apart have different remainders.
LEMMA ModApart ==
    ASSUME NEW m \in Nat \ {0}, NEW a \in Nat, NEW b \in Nat,
           a < b, b < a + m
    PROVE  a % m # b % m
<1> DEFINE r == a % m
           d == b - a
<1>1. r \in 0 .. m - 1 /\ d \in 1 .. m - 1
  BY DivMod
<1>2. b % m = (r + d) % m
  <2>1. d \in Nat /\ b = a + d
    OBVIOUS
  <2> HIDE DEF d
  <2> QED
    BY <2>1, ModAdd DEF r
<1> HIDE DEF r, d
<1>3. (r + d) % m = IF r + d < m THEN r + d ELSE r + d - m
  <2> DEFINE x == r + d
  <2>1. x \in 0 .. 2 * m - 1
    BY <1>1
  <2> HIDE DEF x
  <2>2. x % m = IF x < m THEN x ELSE x - m
    BY <2>1, ModSmall
  <2> QED
    BY <1>1, <2>2 DEF x
<1>4. (r + d) % m # r
  BY <1>1, <1>3
<1> QED
  BY <1>2, <1>4 DEF r

-----------------------------------------------------------------------------
(* The free list                                                           *)

Queues == [first_free_desc_idx : 0 .. Size, next : [Descs -> 0 .. Size]]

\* The free list of queue q is s[1], ..., s[n].
FreeChain(q, n, s) ==
    /\ n \in Nat /\ s \in [1 .. n -> Descs]
    /\ \A i, j \in 1 .. n : s[i] = s[j] => i = j
    /\ q.first_free_desc_idx = IF n = 0 THEN Size ELSE s[1]
    /\ \A k \in 1 .. n : q.next[s[k]] = IF k = n THEN Size ELSE s[k + 1]

Elements(n, s) == {s[k] : k \in 1 .. n}

\* virtio_virtq_alloc_desc takes the first descriptor of the free list.
LEMMA AllocChain ==
    ASSUME NEW q \in Queues, NEW n, NEW s, FreeChain(q, n, s), n > 0
    PROVE  LET t == [k \in 1 .. n - 1 |-> s[k + 1]]
           IN /\ allocated(q) = s[1] /\ s[1] \in Descs
              /\ virtio_virtq_alloc_desc(q) \in Queues
              /\ virtio_virtq_alloc_desc(q).next = q.next
              /\ FreeChain(virtio_virtq_alloc_desc(q), n - 1, t)
              /\ Elements(n - 1, t) = Elements(n, s) \ {s[1]}
<1> DEFINE t == [k \in 1 .. n - 1 |-> s[k + 1]]
<1>1. n \in Nat \ {0} /\ s \in [1 .. n -> Descs] /\ Size \in Nat /\ Size \notin Descs
  BY VirtqueueAssumption DEF FreeChain, Descs
<1>2. allocated(q) = s[1] /\ s[1] \in Descs
  BY <1>1 DEF FreeChain, allocated
<1>3. virtio_virtq_alloc_desc(q) = [q EXCEPT !["first_free_desc_idx"] = q.next[s[1]]]
  BY <1>2 DEF virtio_virtq_alloc_desc
<1>4. /\ virtio_virtq_alloc_desc(q) \in Queues
      /\ virtio_virtq_alloc_desc(q).next = q.next
      /\ virtio_virtq_alloc_desc(q).first_free_desc_idx = q.next[s[1]]
  BY <1>2, <1>3 DEF Queues
<1>5. t \in [1 .. n - 1 -> Descs]
  BY <1>1
<1>6. FreeChain(virtio_virtq_alloc_desc(q), n - 1, t)
  BY <1>1, <1>4, <1>5 DEF FreeChain
<1>7. Elements(n - 1, t) = Elements(n, s) \ {s[1]}
  <2>1. ASSUME NEW d \in Elements(n, s), d # s[1] PROVE d \in Elements(n - 1, t)
    <3>1. PICK k \in 1 .. n : d = s[k]
      BY DEF Elements
    <3>2. k - 1 \in 1 .. n - 1 /\ t[k - 1] = s[k]
      BY <1>1, <2>1, <3>1
    <3> QED
      BY <3>1, <3>2 DEF Elements
  <2>2. ASSUME NEW d \in Elements(n - 1, t) PROVE d \in Elements(n, s) /\ d # s[1]
    <3>1. PICK k \in 1 .. n - 1 : d = s[k + 1]
      BY DEF Elements
    <3> QED
      BY <1>1, <3>1 DEF Elements, FreeChain
  <2> QED
    BY <2>1, <2>2
<1> QED
  BY <1>2, <1>4, <1>6, <1>7

\* virtio_virtq_free_desc puts a descriptor in front of the free list.
LEMMA FreeDescChain ==
    ASSUME NEW q \in Queues, NEW n, NEW s, FreeChain(q, n, s),
           NEW d \in Descs, d \notin Elements(n, s)
    PROVE  LET t == [k \in 1 .. n + 1 |-> IF k = 1 THEN d ELSE s[k - 1]]
           IN /\ virtio_virtq_free_desc(q, d) \in Queues
              /\ FreeChain(virtio_virtq_free_desc(q, d), n + 1, t)
              /\ Elements(n + 1, t) = Elements(n, s) \cup {d}
<1> DEFINE t == [k \in 1 .. n + 1 |-> IF k = 1 THEN d ELSE s[k - 1]]
           qq == virtio_virtq_free_desc(q, d)
<1>1. n \in Nat /\ s \in [1 .. n -> Descs] /\ Size \in Nat
  BY VirtqueueAssumption DEF FreeChain
<1>2. qq = [first_free_desc_idx |-> d, next |-> [q.next EXCEPT ![d] = q.first_free_desc_idx]]
  BY DEF virtio_virtq_free_desc
<1>3. /\ qq.first_free_desc_idx = d
      /\ qq.next = [q.next EXCEPT ![d] = q.first_free_desc_idx]
      /\ d \in 0 .. Size
  BY <1>1, <1>2 DEF Descs
<1>4. qq \in Queues
  BY <1>2, <1>3 DEF Queues
<1>5. t \in [1 .. n + 1 -> Descs]
  BY <1>1
<1>6. \A k \in 1 .. n : s[k] # d /\ s[k] \in Descs
  BY <1>1 DEF Elements
<1>7. \A k \in 1 .. n : qq.next[s[k]] = q.next[s[k]]
  BY <1>3, <1>6 DEF Queues
<1>8. qq.next[d] = q.first_free_desc_idx
  BY <1>3 DEF Queues
<1> HIDE DEF qq
<1>9. \A i, j \in 1 .. n + 1 : t[i] = t[j] => i = j
  BY <1>1, <1>6 DEF FreeChain
<1>10. ASSUME NEW k \in 1 .. n + 1
       PROVE  qq.next[t[k]] = IF k = n + 1 THEN Size ELSE t[k + 1]
  <2>1. CASE k = 1
    BY <1>1, <1>8, <2>1 DEF FreeChain
  <2>2. CASE k # 1
    <3>1. k - 1 \in 1 .. n /\ t[k] = s[k - 1]
      BY <1>1, <2>2
    <3>2. qq.next[t[k]] = IF k - 1 = n THEN Size ELSE s[(k - 1) + 1]
      BY <1>7, <3>1 DEF FreeChain
    <3>3. k # n + 1 => t[k + 1] = s[k]
      BY <1>1, <2>2
    <3> QED
      BY <1>1, <3>1, <3>2, <3>3
  <2> QED
    BY <2>1, <2>2
<1>11. FreeChain(qq, n + 1, t)
  BY <1>1, <1>3, <1>5, <1>9, <1>10 DEF FreeChain
<1>12. Elements(n + 1, t) = Elements(n, s) \cup {d}
  <2>1. ASSUME NEW e \in Elements(n, s) PROVE e \in Elements(n + 1, t)
    <3>1. PICK k \in 1 .. n : e = s[k]
      BY DEF Elements
    <3>2. k + 1 \in 1 .. n + 1 /\ t[k + 1] = s[k]
      BY <1>1, <3>1
    <3> QED
      BY <3>1, <3>2 DEF Elements
  <2>2. d \in Elements(n + 1, t)
    <3>1. 1 \in 1 .. n + 1 /\ t[1] = d
      BY <1>1
    <3> QED
      BY <3>1 DEF Elements
  <2>3. ASSUME NEW e \in Elements(n + 1, t) PROVE e \in Elements(n, s) \cup {d}
    <3>1. PICK k \in 1 .. n + 1 : e = t[k]
      BY DEF Elements
    <3>2. k # 1 => k - 1 \in 1 .. n /\ e = s[k - 1]
      BY <1>1, <3>1
    <3> QED
      BY <3>1, <3>2 DEF Elements
  <2> QED
    BY <2>1, <2>2, <2>3
<1> QED
  BY <1>4, <1>11, <1>12 DEF qq

\* Filling in a descriptor that is not free leaves the free list alone.
LEMMA ChainedChain ==
    ASSUME NEW q \in Queues, NEW n, NEW s, FreeChain(q, n, s),
           NEW d \in Descs, d \notin Elements(n, s), NEW x \in 0 .. Size
    PROVE  chained(q, d, x) \in Queues /\ FreeChain(chained(q, d, x), n, s)
<1> DEFINE qq == chained(q, d, x)
<1>1. /\ qq \in Queues
      /\ qq.first_free_desc_idx = q.first_free_desc_idx
      /\ qq.next = [q.next EXCEPT ![d] = x]
  BY DEF chained, Queues
<1>2. \A k \in 1 .. n : s[k] # d /\ s[k] \in Descs
  BY DEF FreeChain, Elements
<1>3. \A k \in 1 .. n : qq.next[s[k]] = q.next[s[k]]
  BY <1>1, <1>2 DEF Queues
<1> HIDE DEF qq
<1>4. FreeChain(qq, n, s)
  BY <1>1, <1>3 DEF FreeChain
<1> QED
  BY <1>1, <1>4 DEF qq

\* A free list has at most as many descriptors as there are, and all of them
\* if none is in use.
LEMMA ChainLength ==
    ASSUME NEW q, NEW n, NEW s, FreeChain(q, n, s)
    PROVE  n <= Size /\ (Elements(n, s) = Descs => n = Size)
<1>1. n \in Nat /\ s \in [1 .. n -> Descs] /\ Size \in Nat
  BY VirtqueueAssumption DEF FreeChain
<1>2. IsFiniteSet(Descs) /\ Cardinality(Descs) = Size
  BY <1>1, FS_Interval DEF Descs
<1>3. IsFiniteSet(1 .. n) /\ Cardinality(1 .. n) = n
  BY <1>1, FS_Interval
<1>4. s \in Injection(1 .. n, Descs)
  BY <1>1 DEF FreeChain, Injection, IsInjective
<1>5. n <= Size
  BY <1>2, <1>3, <1>4, FS_Injection
<1>6. ASSUME Elements(n, s) = Descs PROVE Size <= n
  <2>1. s \in Surjection(1 .. n, Descs)
    BY <1>1, <1>6 DEF Surjection, Elements
  <2> QED
    BY <1>2, <1>3, <2>1, FS_Surjection
<1> QED
  BY <1>1, <1>5, <1>6

\* The next fields of a queue can be followed from its first free descriptor.
LEMMA Walk ==
    ASSUME NEW q \in Queues
    PROVE  \E g \in [Nat -> 0 .. Size] :
             /\ g[0] = q.first_free_desc_idx
             /\ \A k \in Nat : g[k + 1] = IF g[k] = Size THEN Size ELSE q.next[g[k]]
<1> DEFINE D == 0 .. Size
           d == q.first_free_desc_idx
           f == [x \in D |-> IF x = Size THEN Size ELSE q.next[x]]
<1>1. Size \in Nat /\ d \in D /\ q.next \in [Descs -> D]
  BY VirtqueueAssumption DEF Queues
<1>2. \A x \in D : x # Size => x \in Descs
  BY <1>1 DEF Descs
<1>3. f \in [D -> D]
  BY <1>1, <1>2
<1>4. \A x \in D : f[x] = IF x = Size THEN Size ELSE q.next[x]
  OBVIOUS
<1> HIDE DEF D, d, f
<1>5. PICK g \in [Nat -> D] : g[0] = d /\ \A k \in Nat : g[k + 1] = f[g[k]]
  BY <1>1, <1>3, Iteration
<1>6. \A k \in Nat : g[k + 1] = IF g[k] = Size THEN Size ELSE q.next[g[k]]
  BY <1>4, <1>5
<1> QED
  BY <1>5, <1>6 DEF D, d

\* The recursive definition of free_list means what it says.
LEMMA FreeListUnfolds ==
    ASSUME queue \in Queues
    PROVE  /\ free_list[0] = queue.first_free_desc_idx
           /\ \A k \in Nat : free_list[k + 1] =
                IF free_list[k] = Size THEN Size ELSE queue.next[free_list[k]]
<1> DEFINE rule(g) == [k \in Nat |-> IF k = 0 THEN queue.first_free_desc_idx
                                     ELSE IF g[k - 1] = Size THEN Size
                                     ELSE queue.next[g[k - 1]]]
<1>1. PICK g \in [Nat -> 0 .. Size] :
             /\ g[0] = queue.first_free_desc_idx
             /\ \A k \in Nat : g[k + 1] = IF g[k] = Size THEN Size
                                          ELSE queue.next[g[k]]
  BY Walk
<1>2. g = rule(g)
  <2>1. ASSUME NEW k \in Nat PROVE g[k] = rule(g)[k]
    <3>1. CASE k = 0
      BY <1>1, <3>1
    <3>2. CASE k # 0
      <4>1. k - 1 \in Nat /\ (k - 1) + 1 = k
        BY <3>2
      <4>2. g[(k - 1) + 1] = IF g[k - 1] = Size THEN Size ELSE queue.next[g[k - 1]]
        BY <1>1, <4>1
      <4> QED
        BY <3>2, <4>1, <4>2
    <3> QED
      BY <3>1, <3>2
  <2> QED
    BY <1>1, <2>1
<1>3. free_list = CHOOSE h : h = rule(h)
  BY DEF free_list
<1>4. free_list = rule(free_list)
  <2> HIDE DEF rule
  <2> QED
    BY <1>2, <1>3
<1>5. \A k \in Nat : free_list[k] = rule(free_list)[k]
  BY <1>4
<1>6. ASSUME NEW k \in Nat
      PROVE  free_list[k + 1] = IF free_list[k] = Size THEN Size ELSE queue.next[free_list[k]]
  <2>1. k + 1 \in Nat /\ k + 1 # 0 /\ (k + 1) - 1 = k
    OBVIOUS
  <2> QED
    BY <1>5, <2>1
<1> QED
  BY <1>5, <1>6

\* Following the next fields visits the free list and stops at its end.
LEMMA FreeListIsChain ==
    ASSUME queue \in Queues, NEW n, NEW s, FreeChain(queue, n, s)
    PROVE  free_list[Size] = Size /\ FreeDescs = Elements(n, s)
<1> DEFINE at(k) == IF k < n THEN s[k + 1] ELSE Size
           bad == {k \in Nat : free_list[k] # at(k)}
<1>1. n \in Nat /\ s \in [1 .. n -> Descs] /\ Size \in Nat /\ Size \notin Descs /\ n <= Size
  <2>1. n <= Size
    BY ChainLength
  <2>2. Size \in Nat /\ Size \notin Descs
    BY VirtqueueAssumption DEF Descs
  <2> QED
    BY <2>1, <2>2 DEF FreeChain
<1>2. bad = {}
  <2> SUFFICES ASSUME bad # {} PROVE FALSE
    OBVIOUS
  <2>1. bad \in SUBSET Nat
    OBVIOUS
  <2> HIDE DEF bad
  <2>2. PICK m \in bad : \A k \in bad : m <= k
    BY <2>1, LeastNatural
  <2>3. m \in Nat /\ free_list[m] # at(m)
    BY <2>2 DEF bad
  <2>4. m # 0
    <3>1. free_list[0] = queue.first_free_desc_idx
      BY FreeListUnfolds
    <3>2. free_list[0] = at(0)
      BY <1>1, <3>1 DEF FreeChain
    <3> QED
      BY <2>3, <3>2
  <2>5. m - 1 \in Nat /\ free_list[m - 1] = at(m - 1)
    BY <2>2, <2>3, <2>4 DEF bad
  <2>6. free_list[(m - 1) + 1] =
          IF free_list[m - 1] = Size THEN Size ELSE queue.next[free_list[m - 1]]
    BY <2>5, FreeListUnfolds
  <2>7. CASE m - 1 < n
    <3>1. m \in 1 .. n /\ s[m] \in Descs /\ free_list[m - 1] = s[m]
      BY <1>1, <2>3, <2>4, <2>5, <2>7
    <3>2. queue.next[s[m]] = IF m = n THEN Size ELSE s[m + 1]
      BY <3>1 DEF FreeChain
    <3> QED
      BY <1>1, <2>3, <2>6, <3>1, <3>2
  <2>8. CASE ~(m - 1 < n)
    BY <1>1, <2>3, <2>5, <2>6, <2>8
  <2> QED
    BY <2>7, <2>8
<1>3. \A k \in Nat : free_list[k] = at(k)
  BY <1>2
<1>4. free_list[Size] = Size
  BY <1>1, <1>3
<1>5. ASSUME NEW d \in FreeDescs PROVE d \in Elements(n, s)
  <2>1. PICK k \in 0 .. Size : d = free_list[k] /\ d # Size
    BY DEF FreeDescs
  <2>2. k < n /\ d = s[k + 1] /\ k + 1 \in 1 .. n
    BY <1>1, <1>3, <2>1
  <2> QED
    BY <2>2 DEF Elements
<1>6. ASSUME NEW d \in Elements(n, s) PROVE d \in FreeDescs
  <2>1. PICK k \in 1 .. n : d = s[k]
    BY DEF Elements
  <2>2. k - 1 \in 0 .. Size /\ free_list[k - 1] = d /\ d # Size
    BY <1>1, <1>3, <2>1
  <2> QED
    BY <2>2 DEF FreeDescs
<1> QED
  BY <1>4, <1>5, <1>6

\* The free list of q holds the n descriptors of F.
Free(q, n, F) == \E s : FreeChain(q, n, s) /\ Elements(n, s) = F

\* Every descriptor is on the free list of q or in owned, and none on both.
Partition(q, owned) ==
    \E n, F : /\ Free(q, n, F)
              /\ F \cap owned = {} /\ F \cup owned = Descs

\* virtio_virtq_alloc_desc takes one descriptor off the list ...
LEMMA TakeOne ==
    ASSUME NEW q \in Queues, NEW n, NEW F, Free(q, n, F), n > 0
    PROVE  /\ allocated(q) \in F /\ allocated(q) \in Descs
           /\ virtio_virtq_alloc_desc(q) \in Queues
           /\ Free(virtio_virtq_alloc_desc(q), n - 1, F \ {allocated(q)})
<1>1. PICK s : FreeChain(q, n, s) /\ Elements(n, s) = F
  BY DEF Free
<1> DEFINE t == [k \in 1 .. n - 1 |-> s[k + 1]]
<1>2. /\ allocated(q) = s[1] /\ s[1] \in Descs
      /\ virtio_virtq_alloc_desc(q) \in Queues
      /\ FreeChain(virtio_virtq_alloc_desc(q), n - 1, t)
      /\ Elements(n - 1, t) = F \ {s[1]}
  BY <1>1, AllocChain
<1>3. 1 \in 1 .. n
  BY <1>1 DEF FreeChain
<1>4. s[1] \in F
  BY <1>1, <1>3 DEF Elements
<1> HIDE DEF t
<1> QED
  BY <1>2, <1>4 DEF Free

\* ... and virtio_virtq_free_desc puts one back.
LEMMA GiveOne ==
    ASSUME NEW q \in Queues, NEW n, NEW F, Free(q, n, F),
           NEW d \in Descs, d \notin F
    PROVE  /\ virtio_virtq_free_desc(q, d) \in Queues
           /\ Free(virtio_virtq_free_desc(q, d), n + 1, F \cup {d})
<1>1. PICK s : FreeChain(q, n, s) /\ Elements(n, s) = F
  BY DEF Free
<1> DEFINE t == [k \in 1 .. n + 1 |-> IF k = 1 THEN d ELSE s[k - 1]]
<1>2. /\ virtio_virtq_free_desc(q, d) \in Queues
      /\ FreeChain(virtio_virtq_free_desc(q, d), n + 1, t)
      /\ Elements(n + 1, t) = F \cup {d}
  BY <1>1, FreeDescChain
<1> HIDE DEF t
<1> QED
  BY <1>2 DEF Free

\* Chaining a descriptor that is in use leaves the free list alone.
LEMMA ChainOne ==
    ASSUME NEW q \in Queues, NEW n, NEW F, Free(q, n, F),
           NEW d \in Descs, d \notin F, NEW x \in 0 .. Size
    PROVE  chained(q, d, x) \in Queues /\ Free(chained(q, d, x), n, F)
<1>1. PICK s : FreeChain(q, n, s) /\ Elements(n, s) = F
  BY DEF Free
<1>2. chained(q, d, x) \in Queues /\ FreeChain(chained(q, d, x), n, s)
  BY <1>1, ChainedChain
<1> QED
  BY <1>1, <1>2 DEF Free

-----------------------------------------------------------------------------
(* The used ring                                                           *)

\* How many used buffers the handler will visit if used->idx is u and it has
\* seen l.
Unseen(u, l) == ((u % Size) + Size - l) % Size

\* Size divides Wrap: the slot of the next used buffer moves on by one also
\* where used->idx overflows.
LEMMA SlotSucc ==
    ASSUME NEW u \in 0 .. Wrap - 1
    PROVE  /\ u % Size \in 0 .. Size - 1
           /\ ((u + 1) % Wrap) % Size = IF (u % Size) + 1 < Size THEN (u % Size) + 1 ELSE 0
<1> DEFINE r == u % Size
           y == r + 1
           x == u + 1
<1>1. Size \in Nat \ {0} /\ Wrap \in Nat \ {0} /\ Wrap % Size = 0 /\ u \in Nat
  BY VirtqueueAssumption
<1>2. r \in 0 .. Size - 1
  BY <1>1, DivMod
<1>3. y \in 0 .. 2 * Size - 1 /\ y = r + 1
  BY <1>1, <1>2
<1>4. x % Size = y % Size
  BY <1>1, ModAdd
<1>5. x \in 0 .. 2 * Wrap - 1 /\ x = u + 1
  BY <1>1
<1> HIDE DEF r, x, y
<1>6. y % Size = IF y < Size THEN y ELSE y - Size
  BY <1>1, <1>3, ModSmall
<1>7. x % Wrap = IF x < Wrap THEN x ELSE x - Wrap
  BY <1>1, <1>5, ModSmall
<1>8. CASE x < Wrap
  <2>1. (x % Wrap) % Size = y % Size
    BY <1>4, <1>7, <1>8
  <2> QED
    BY <1>1, <1>2, <1>3, <1>6, <2>1 DEF x, r
<1>9. CASE ~(x < Wrap)
  <2>1. x = Wrap /\ x % Wrap = 0
    BY <1>1, <1>5, <1>7, <1>9
  <2>2. 0 % Size = 0
    BY <1>1, SMT
  <2>3. y % Size = 0
    BY <1>1, <1>4, <2>1
  <2>4. (x % Wrap) % Size = 0
    BY <2>1, <2>2
  <2>5. IF r + 1 < Size THEN FALSE ELSE TRUE
    BY <1>1, <1>2, <1>3, <1>6, <2>3
  <2> QED
    BY <1>2, <2>4, <2>5 DEF x, r
<1> QED
  BY <1>8, <1>9

\* The number of unseen buffers without remainders.
LEMMA UnseenIs ==
    ASSUME NEW u \in 0 .. Wrap - 1, NEW l \in Descs
    PROVE  /\ Unseen(u, l) = IF u % Size >= l THEN (u % Size) - l
                             ELSE (u % Size) + Size - l
           /\ Unseen(u, l) \in 0 .. Size - 1
<1> DEFINE r == u % Size
           x == r + Size - l
<1>1. Size \in Nat \ {0} /\ l \in 0 .. Size - 1 /\ r \in 0 .. Size - 1
  BY VirtqueueAssumption, SlotSucc DEF Descs
<1> HIDE DEF r
<1>2. x \in 0 .. 2 * Size - 1 /\ x = r + Size - l
  BY <1>1
<1> HIDE DEF x
<1>3. x % Size = IF x < Size THEN x ELSE x - Size
  BY <1>1, <1>2, ModSmall
<1>4. x % Size = (IF r >= l THEN r - l ELSE r + Size - l) /\ x % Size \in 0 .. Size - 1
  BY <1>1, <1>2, <1>3
<1> QED
  BY <1>4 DEF Unseen, x, r

\* The device's next used buffer adds one at the end of the unseen ones and
\* leaves the slots of the others alone, unless the ring is full.
LEMMA OneMore ==
    ASSUME NEW u \in 0 .. Wrap - 1, NEW l \in Descs, Unseen(u, l) < Size - 1
    PROVE  /\ Unseen((u + 1) % Wrap, l) = Unseen(u, l) + 1
           /\ (l + Unseen(u, l)) % Size = u % Size
           /\ \A k \in 1 .. Unseen(u, l) :
                /\ (l + k - 1) % Size \in Descs
                /\ (l + k - 1) % Size # u % Size
<1> DEFINE r == u % Size
           v == (u + 1) % Wrap
           n == Unseen(u, l)
<1>1. Size \in Nat \ {0} /\ l \in 0 .. Size - 1 /\ r \in 0 .. Size - 1
  BY VirtqueueAssumption, SlotSucc DEF Descs
<1>2. v % Size = IF r + 1 < Size THEN r + 1 ELSE 0
  BY SlotSucc
<1>3. n = (IF r >= l THEN r - l ELSE r + Size - l) /\ n \in 0 .. Size - 2
  <2>1. n = (IF r >= l THEN r - l ELSE r + Size - l) /\ n \in 0 .. Size - 1
    BY UnseenIs
  <2> QED
    BY <1>1, <2>1
<1>4. v \in 0 .. Wrap - 1
  <2>1. u + 1 \in Nat /\ Wrap \in Nat \ {0}
    BY VirtqueueAssumption
  <2> QED
    BY <2>1, DivMod
<1> HIDE DEF v
<1>5. Unseen(v, l) = IF v % Size >= l THEN (v % Size) - l ELSE (v % Size) + Size - l
  BY <1>4, UnseenIs
<1> HIDE DEF r, n
<1>6. Unseen(v, l) = n + 1
  BY <1>1, <1>2, <1>3, <1>5
<1>7. ASSUME NEW k \in 1 .. n + 1
      PROVE  (l + k - 1) % Size = IF l + k - 1 < Size THEN l + k - 1 ELSE l + k - 1 - Size
  <2> DEFINE x == l + k - 1
  <2>1. x \in 0 .. 2 * Size - 1
    BY <1>1, <1>3, <1>7
  <2> HIDE DEF x
  <2>2. x % Size = IF x < Size THEN x ELSE x - Size
    BY <1>1, <2>1, ModSmall
  <2> QED
    BY <1>1, <1>3, <1>7, <2>2 DEF x
<1>8. (l + n) % Size = r
  <2> DEFINE k == n + 1
  <2>1. k \in 1 .. n + 1 /\ l + k - 1 = l + n
    BY <1>1, <1>3
  <2> HIDE DEF k
  <2>2. (l + k - 1) % Size = IF l + k - 1 < Size THEN l + k - 1 ELSE l + k - 1 - Size
    BY <1>7, <2>1
  <2>3. (l + n) % Size = IF l + n < Size THEN l + n ELSE l + n - Size
    BY <1>1, <1>3, <2>1, <2>2
  <2> QED
    BY <1>1, <1>3, <2>3
<1>9. ASSUME NEW k \in 1 .. n
      PROVE  (l + k - 1) % Size \in Descs /\ (l + k - 1) % Size # r
  <2>1. k \in 1 .. n + 1
    BY <1>3, <1>9
  <2>2. (l + k - 1) % Size = IF l + k - 1 < Size THEN l + k - 1 ELSE l + k - 1 - Size
    BY <1>7, <2>1
  <2> QED
    BY <1>1, <1>3, <1>9, <2>2 DEF Descs
<1> QED
  BY <1>6, <1>8, <1>9 DEF r, v, n

\* A function on 1 .. n is a sequence of length n.
LEMMA IsSequence ==
    ASSUME NEW S, NEW n \in Nat, NEW f \in [1 .. n -> S]
    PROVE  f \in Seq(S) /\ Len(f) = n
<1>1. f \in Seq(S)
  BY DEF Seq
<1>2. Len(f) \in Nat /\ DOMAIN f = 1 .. Len(f) /\ DOMAIN f = 1 .. n
  BY <1>1
<1>3. 1 .. Len(f) = 1 .. n
  BY <1>2
<1>4. ASSUME NEW a \in Nat, NEW b \in Nat, 1 .. a = 1 .. b PROVE a <= b
  <2>1. CASE a = 0
    BY <2>1
  <2>2. CASE a # 0
    <3>1. a \in 1 .. a
      BY <2>2
    <3> QED
      BY <1>4, <3>1
  <2> QED
    BY <2>1, <2>2
<1>5. Len(f) <= n /\ n <= Len(f)
  BY <1>2, <1>3, <1>4
<1> QED
  BY <1>1, <1>2, <1>5

\* new_used has one descriptor for each unseen slot.
LEMMA NewUsed ==
    ASSUME VirtqueueTypeOK
    PROVE  /\ new_used \in Seq(Descs) /\ Len(new_used) = Unseen(used_idx, last_seen_used_idx)
           /\ Len(new_used) \in 0 .. Size - 1 /\ DOMAIN new_used = 1 .. Len(new_used)
           /\ \A k \in 1 .. Len(new_used) :
                new_used[k] = used_ring[(last_seen_used_idx + k - 1) % Size]
<1> DEFINE n == Unseen(used_idx, last_seen_used_idx)
           f == new_used
<1>1. /\ used_idx \in 0 .. Wrap - 1 /\ used_ring \in [Descs -> Descs]
      /\ last_seen_used_idx \in 0 .. Size - 1 /\ Size \in Nat \ {0}
  BY VirtqueueAssumption DEF VirtqueueTypeOK, Descs
<1>2. n \in 0 .. Size - 1 /\ n \in Nat
  <2>1. n \in 0 .. Size - 1
    BY <1>1, UnseenIs DEF Descs
  <2> QED
    BY <1>1, <2>1
<1>3. f = [k \in 1 .. n |-> used_ring[(last_seen_used_idx + k - 1) % Size]]
  BY DEF new_used, used_slot, Unseen
<1>4. ASSUME NEW k \in 1 .. n PROVE (last_seen_used_idx + k - 1) % Size \in Descs
  <2> DEFINE x == last_seen_used_idx + k - 1
  <2>1. x \in Nat
    BY <1>1, <1>2
  <2> HIDE DEF x
  <2>2. x % Size \in Descs
    BY <1>1, <2>1, DivMod DEF Descs
  <2> QED
    BY <2>2 DEF x
<1> HIDE DEF n, f
<1>5. f \in [1 .. n -> Descs]
  BY <1>1, <1>3, <1>4
<1>6. f \in Seq(Descs) /\ Len(f) = n
  BY <1>2, <1>5, IsSequence
<1>7. DOMAIN f = 1 .. n /\ \A k \in 1 .. n : f[k] = used_ring[(last_seen_used_idx + k - 1) % Size]
  BY <1>3
<1> QED
  BY <1>2, <1>6, <1>7 DEF f, n

\* The device's put_used appends a descriptor to new_used.
LEMMA PutUsed ==
    ASSUME VirtqueueTypeOK, VirtqueueTypeOK', NEW d \in Descs, put_used(d),
           last_seen_used_idx' = last_seen_used_idx, Len(new_used) < Size - 1
    PROVE  /\ Len(new_used') = Len(new_used) + 1
           /\ new_used'[Len(new_used) + 1] = d
           /\ \A k \in 1 .. Len(new_used) : new_used'[k] = new_used[k]
<1> DEFINE n == Len(new_used)
           l == last_seen_used_idx
           slot == used_idx % Size
<1>1. /\ used_idx \in 0 .. Wrap - 1 /\ l \in Descs /\ l \in Nat
      /\ used_ring \in [Descs -> Descs] /\ Size \in Nat \ {0} /\ slot \in Descs
  <2>1. used_idx \in 0 .. Wrap - 1 /\ l \in Descs /\ used_ring \in [Descs -> Descs]
    BY DEF VirtqueueTypeOK
  <2>2. slot \in Descs
    BY <2>1, SlotSucc DEF Descs
  <2>3. Size \in Nat \ {0} /\ l \in 0 .. Size - 1
    BY <2>1, VirtqueueAssumption DEF Descs
  <2> HIDE DEF l, slot
  <2> QED
    BY <2>1, <2>2, <2>3
<1>2. used_ring' = [used_ring EXCEPT ![slot] = d] /\ used_idx' = (used_idx + 1) % Wrap
  BY DEF put_used
<1>3. /\ n = Unseen(used_idx, l) /\ n \in Nat
      /\ \A k \in 1 .. n : new_used[k] = used_ring[(l + k - 1) % Size]
  BY <1>1, NewUsed
<1>4. /\ Len(new_used') = Unseen(used_idx', l')
      /\ \A k \in 1 .. Len(new_used') : new_used'[k] = used_ring'[(l' + k - 1) % Size]
  <2> HIDE DEF l
  <2>1. (/\ Len(new_used) = Unseen(used_idx, last_seen_used_idx)
         /\ \A k \in 1 .. Len(new_used) :
                new_used[k] = used_ring[(last_seen_used_idx + k - 1) % Size])'
    BY NewUsed, PTL
  <2> QED
    BY <2>1 DEF l
<1>5. /\ Unseen((used_idx + 1) % Wrap, l) = n + 1
      /\ (l + n) % Size = slot
      /\ \A k \in 1 .. n : (l + k - 1) % Size \in Descs /\ (l + k - 1) % Size # slot
  BY <1>1, <1>3, OneMore
<1>6. l' = l
  OBVIOUS
<1> HIDE DEF n, l, slot
<1>7. Len(new_used') = n + 1
  BY <1>2, <1>4, <1>5, <1>6
<1>8. \A k \in 1 .. n + 1 : new_used'[k] = used_ring'[(l + k - 1) % Size]
  BY <1>4, <1>6, <1>7
<1>9. new_used'[n + 1] = d
  <2>1. n + 1 \in 1 .. n + 1 /\ l + (n + 1) - 1 = l + n
    BY <1>1, <1>3
  <2>2. new_used'[n + 1] = used_ring'[(l + (n + 1) - 1) % Size]
    BY <1>8, <2>1
  <2>3. new_used'[n + 1] = used_ring'[slot]
    BY <1>5, <2>1, <2>2
  <2> QED
    BY <1>1, <1>2, <2>3
<1>10. ASSUME NEW k \in 1 .. n PROVE new_used'[k] = new_used[k]
  <2>1. k \in 1 .. n + 1
    BY <1>3
  <2>2. new_used'[k] = used_ring'[(l + k - 1) % Size]
    BY <1>8, <2>1
  <2>3. used_ring'[(l + k - 1) % Size] = used_ring[(l + k - 1) % Size]
    BY <1>1, <1>2, <1>5
  <2> QED
    BY <1>3, <2>2, <2>3
<1> QED
  BY <1>7, <1>9, <1>10 DEF n

\* After foreach_used_descriptor there is nothing to visit.
LEMMA NothingNew ==
    ASSUME VirtqueueTypeOK, foreach_used_descriptor
    PROVE  new_used' = <<>>
<1> DEFINE n == Unseen(used_idx', last_seen_used_idx')
           slot == used_idx % Size
<1>1. used_idx \in 0 .. Wrap - 1 /\ slot \in Descs /\ Size \in Nat \ {0}
  <2>1. used_idx \in 0 .. Wrap - 1
    BY DEF VirtqueueTypeOK
  <2> QED
    BY <2>1, VirtqueueAssumption, SlotSucc DEF Descs
<1>2. used_idx' = used_idx /\ last_seen_used_idx' = slot
  BY DEF foreach_used_descriptor, used_slot
<1>3. Unseen(used_idx, slot) = 0
  <2>1. slot \in 0 .. Size - 1
    BY <1>1 DEF Descs
  <2>2. Unseen(used_idx, slot) = IF slot >= slot THEN slot - slot ELSE slot + Size - slot
    BY <1>1, UnseenIs
  <2> HIDE DEF slot
  <2> QED
    BY <1>1, <2>1, <2>2
<1>4. new_used' = [k \in 1 .. n |-> used_ring'[(last_seen_used_idx' + k - 1) % Size]]
  BY DEF new_used, used_slot, Unseen
<1>5. n = 0
  BY <1>2, <1>3
<1> HIDE DEF n
<1> QED
  BY <1>4, <1>5

-----------------------------------------------------------------------------
(* The start                                                               *)

\* virtq_alloc leaves every descriptor free and no buffer used.
LEMMA AllFree ==
    ASSUME virtq_alloc
    PROVE  /\ VirtqueueTypeOK /\ queue \in Queues /\ Partition(queue, {})
           /\ used_slot = 0 /\ new_used = <<>>
<1>1. Size \in Nat \ {0} /\ Wrap \in Nat \ {0} /\ 0 \in Descs /\ Size \notin Descs
  BY VirtqueueAssumption DEF Descs
<1>2. queue \in Queues
  <2>1. [k \in Descs |-> k + 1] \in [Descs -> 0 .. Size] /\ 0 \in 0 .. Size
    BY <1>1 DEF Descs
  <2> QED
    BY <2>1 DEF Queues, virtq_alloc
<1>3. VirtqueueTypeOK
  <2>1. used_idx \in 0 .. Wrap - 1
    BY <1>1 DEF virtq_alloc
  <2>2. used_ring \in [Descs -> Descs]
    BY <1>1 DEF virtq_alloc
  <2>3. last_seen_used_idx \in Descs /\ irq_status \in BOOLEAN /\ in_irq \in BOOLEAN
    BY <1>1 DEF virtq_alloc
  <2> QED
    BY <1>2, <2>1, <2>2, <2>3, Zenon DEF VirtqueueTypeOK, Queues
<1>4. Partition(queue, {})
  <2> DEFINE s == [k \in 1 .. Size |-> k - 1]
  <2>1. s \in [1 .. Size -> Descs]
    BY <1>1 DEF Descs
  <2>2. \A i, j \in 1 .. Size : s[i] = s[j] => i = j
    BY <1>1
  <2>3. \A k \in 1 .. Size : queue.next[s[k]] = IF k = Size THEN Size ELSE s[k + 1]
    BY <1>1, <2>1 DEF virtq_alloc
  <2>4. queue.first_free_desc_idx = s[1]
    BY <1>1 DEF virtq_alloc
  <2>5. Elements(Size, s) = Descs
    <3>1. ASSUME NEW d \in Descs PROVE d \in Elements(Size, s)
      <4>1. d + 1 \in 1 .. Size /\ s[d + 1] = d
        BY <1>1 DEF Descs
      <4> QED
        BY <4>1 DEF Elements
    <3> QED
      BY <2>1, <3>1 DEF Elements
  <2> HIDE DEF s
  <2>6. FreeChain(queue, Size, s)
    BY <1>1, <2>1, <2>2, <2>3, <2>4 DEF FreeChain
  <2>7. Free(queue, Size, Descs)
    BY <2>5, <2>6 DEF Free
  <2>8. Descs \cap {} = {} /\ Descs \cup {} = Descs
    OBVIOUS
  <2> QED
    BY <2>7, <2>8, Zenon DEF Partition
<1>5. used_slot = 0
  <2>1. 0 % Size = 0
    BY <1>1, SMT
  <2> QED
    BY <2>1 DEF used_slot, virtq_alloc
<1>6. new_used = <<>>
  <2>1. (0 + Size - 0) % Size = 0
    BY <1>1, SMT
  <2>2. last_seen_used_idx = 0
    BY DEF virtq_alloc
  <2>3. (used_slot + Size - last_seen_used_idx) % Size = 0
    BY <1>5, <2>1, <2>2
  <2> QED
    BY <2>3 DEF new_used
<1> QED
  BY <1>2, <1>3, <1>4, <1>5, <1>6
=============================================================================
