---------------------------- MODULE InputProofs ----------------------------
(***************************************************************************)
(* The keyboard, for every queue and ring size, any number of threads and  *)
(* any arguments of poll: no buffer is lost, programs get key events in    *)
(* order and at least one per blocking read, and a poll times out when and *)
(* only when it should.                                                    *)
(***************************************************************************)
EXTENDS Input, VirtqueueProofs

-----------------------------------------------------------------------------
(* Counting                                                                *)

\* The place of k among the numbers of S.
Rank(S, k) == Cardinality({j \in S : j <= k})

\* A set of positions of a sequence and its initial parts are finite.
LEMMA RankFinite ==
    ASSUME NEW n \in Nat, NEW S \in SUBSET (1 .. n), NEW k
    PROVE  /\ IsFiniteSet(S) /\ Cardinality(S) \in Nat /\ Cardinality(S) <= n
           /\ IsFiniteSet({j \in S : j <= k}) /\ Rank(S, k) \in Nat
<1>1. IsFiniteSet(1 .. n) /\ Cardinality(1 .. n) = n
  BY FS_Interval
<1>2. IsFiniteSet(S) /\ Cardinality(S) <= n
  BY <1>1, FS_Subset
<1>3. IsFiniteSet({j \in S : j <= k})
  <2>1. {j \in S : j <= k} \subseteq S
    OBVIOUS
  <2> QED
    BY <1>2, <2>1, FS_Subset
<1> QED
  BY <1>2, <1>3, FS_CardinalityType DEF Rank

\* Every rank up to the number of elements is the rank of one of them.
LEMMA RankOnto ==
    ASSUME NEW n \in Nat, NEW S \in SUBSET (1 .. n), NEW i \in 1 .. Cardinality(S)
    PROVE  \E k \in S : Rank(S, k) = i
<1> DEFINE upto(k) == {j \in S : j <= k}
           enough == {k \in Nat : Rank(S, k) >= i}
<1>0. \A j \in S : j \in Nat /\ 1 <= j /\ j <= n
  OBVIOUS
<1>1. enough \in SUBSET Nat /\ n \in enough
  <2>1. upto(n) = S
    BY <1>0
  <2>2. Cardinality(S) \in Nat
    BY RankFinite
  <2>3. Rank(S, n) >= i
    BY <2>1, <2>2 DEF Rank
  <2> QED
    BY <2>3
<1> HIDE DEF enough
<1>2. PICK m \in enough : \A k \in enough : m <= k
  BY <1>1, LeastNatural
<1>3. m \in Nat /\ Rank(S, m) >= i
  BY <1>2 DEF enough
<1>4. m # 0
  <2> SUFFICES ASSUME m = 0 PROVE FALSE
    OBVIOUS
  <2>1. \A j \in S : ~(j <= 0)
    BY <1>0
  <2>2. upto(0) = {}
    BY <2>1, Zenon
  <2>3. Rank(S, 0) = 0
    BY <2>2, FS_EmptySet DEF Rank
  <2>4. i >= 1
    BY RankFinite
  <2> QED
    BY <1>3, <2>3, <2>4
<1> DEFINE p == m - 1
<1>5. p \in Nat /\ p < m /\ \A j \in S : j <= m <=> j <= p \/ j = m
  BY <1>3, <1>4
<1> HIDE DEF p
<1>6. Rank(S, p) < i /\ Rank(S, p) \in Nat
  <2>1. p \notin enough
    BY <1>2, <1>3, <1>5
  <2>2. Rank(S, p) \in Nat /\ Cardinality(S) \in Nat
    BY RankFinite
  <2> QED
    BY <1>5, <2>1, <2>2 DEF enough
<1>7. m \in S
  <2> SUFFICES ASSUME m \notin S PROVE FALSE
    OBVIOUS
  <2>1. upto(m) = upto(p)
    BY <1>5
  <2>2. Rank(S, m) = Rank(S, p)
    BY <2>1 DEF Rank
  <2> QED
    BY <1>3, <1>6, <2>2
<1>8. Rank(S, m) = Rank(S, p) + 1
  <2>1. upto(m) = upto(p) \cup {m}
    BY <1>3, <1>5, <1>7
  <2>2. m \notin upto(p)
    BY <1>3, <1>5
  <2>3. IsFiniteSet(upto(p))
    BY RankFinite
  <2> HIDE DEF upto
  <2>4. Cardinality(upto(m)) = Cardinality(upto(p)) + 1
    BY <2>1, <2>2, <2>3, FS_AddElement
  <2> QED
    BY <2>4 DEF Rank, upto
<1>9. Rank(S, m) = i
  <2>1. i \in Nat
    BY RankFinite
  <2> QED
    BY <1>3, <1>6, <1>8, <2>1
<1> QED
  BY <1>7, <1>9

\* A number above all others comes last and leaves the others' ranks alone.
LEMMA RankAppend ==
    ASSUME NEW n \in Nat, NEW S \in SUBSET (1 .. n)
    PROVE  LET U == S \cup {n + 1}
           IN /\ Cardinality(U) = Cardinality(S) + 1
              /\ Rank(U, n + 1) = Cardinality(S) + 1
              /\ \A k \in S : Rank(U, k) = Rank(S, k)
<1> DEFINE U == S \cup {n + 1}
<1>0. \A j \in S : j \in Nat /\ 1 <= j /\ j <= n
  OBVIOUS
<1>1. n + 1 \notin S /\ IsFiniteSet(S)
  <2>1. IsFiniteSet(S)
    BY RankFinite
  <2> QED
    BY <1>0, <2>1
<1>2. Cardinality(U) = Cardinality(S) + 1
  BY <1>1, FS_AddElement
<1>3. {j \in U : j <= n + 1} = U
  <2>1. \A j \in U : j <= n + 1
    BY <1>0
  <2> QED
    BY <2>1, Zenon
<1>4. ASSUME NEW k \in S PROVE Rank(U, k) = Rank(S, k)
  <2>1. {j \in U : j <= k} = {j \in S : j <= k}
    BY <1>0
  <2> QED
    BY <2>1 DEF Rank
<1> QED
  BY <1>2, <1>3, <1>4 DEF Rank

-----------------------------------------------------------------------------
(* The inductive invariant                                                 *)

Kinds == {"closed", "negative", "other", "input"}

Ticks == 0 .. ClockWrap - 1

Call == [name : {"none", "read", "poll"}, args : Lists, fds : Seq(Kinds),
         timeout : Nat, start : Ticks, now : Ticks, elapsed : 0 .. MaxElapsed,
         wrapped : BOOLEAN, events : Nat, got : Nat]

\* A poll with a timeout has seen the time that has really passed, unless its
\* clock has wrapped or no more time is counted.
ClockRight(c) ==
    c.timeout > 0 =>
      /\ c.timeout < MaxElapsed
      /\ c.elapsed = MaxElapsed \/ c.now - c.start <= c.elapsed
      /\ ~c.wrapped => c.elapsed <= c.now - c.start

CallRight(c) ==
    /\ c.name = "read" => c.events > 0
    /\ c.got <= c.events
    /\ ClockRight(c)

Calls == call \in [Threads -> Call] /\ \A t \in Threads : CallRight(call[t])

\* A thread reads only after poll has seen an event, and nobody else takes it.
Reading ==
    \A t \in Threads :
      /\ pc[t] = "poll_locked" => call[t].fds # <<>>
      /\ pc[t] \in {"read", "read_locked"} =>
           /\ call[t].name = "read"
           /\ call[t].got > 0 \/ count > 0
           /\ pc[t] = "read_locked" => call[t].got < call[t].events

Results ==
    \A t \in Threads : /\ result[t] \in {"ok", "timedout"}
                       /\ pc[t] # "idle" => result[t] = "ok"

\* Who has the mutex, and that it has the CPU unless the handler is waiting.
Locking ==
    /\ \A t \in Threads : lock = t <=> pc[t] \in {"read_locked", "poll_locked"}
    /\ stuck = None =>
         \A t \in Threads :
           pc[t] \in {"read", "read_locked", "poll_locked"} => busy = t
    /\ stuck # None =>
         /\ lock = stuck
         /\ \A t \in Threads : t # stuck => pc[t] \in {"idle", "fd"}

OneToOne(s) == \A j, k \in DOMAIN s : s[j] = s[k] => j = k

\* Every buffer is with the device or in the used ring.
RoundTrip(a, u) ==
    /\ Len(a) + Len(u) = Size - 1
    /\ OneToOne(a) /\ OneToOne(u)
    /\ \A j \in DOMAIN a, k \in DOMAIN u : a[j] # u[k]

\* The buffers in the used ring hold the key events after the first w.
Numbered(w, S, u, buf) ==
    /\ w \in Nat
    /\ \A k \in S : buf[u[k]] = w + Rank(S, k)

\* The ring holds the last c of the first w key events and programs have read
\* events before these, in order.
Latest(w, d, r, p, c, got) ==
    /\ c <= w
    /\ p = w % N /\ r = (w - c) % N
    /\ \A e \in 1 .. w : e > w - N => d[(e - 1) % N] = e
    /\ \A i \in DOMAIN got : got[i] <= w - c
    /\ \A i, j \in DOMAIN got : i < j => got[i] < got[j]
    /\ \A k \in 1 .. w - c : (\E i \in DOMAIN got : got[i] = k) \/ k + N <= w

Events ==
    stuck = None =>
      /\ RoundTrip(avail, new_used)
      /\ Numbered(Notified, KeysAt, new_used, m_eventsbuf)
      /\ Latest(Notified, data, read_pos, write_pos, count, received)

IInv ==
    /\ TypeOK /\ received \in Seq(Nat)
    /\ Calls /\ Reading /\ Results /\ Locking /\ Events

-----------------------------------------------------------------------------
(* The ring of events                                                      *)

\* The parts of Latest, to cite without what they are expanded to.
LEMMA LatestIs ==
    ASSUME NEW w, NEW d, NEW r, NEW p, NEW c, NEW got,
           c <= w, p = w % N, r = (w - c) % N,
           \A e \in 1 .. w : e > w - N => d[(e - 1) % N] = e,
           \A i \in DOMAIN got : got[i] <= w - c,
           \A i, j \in DOMAIN got : i < j => got[i] < got[j],
           \A k \in 1 .. w - c : (\E i \in DOMAIN got : got[i] = k) \/ k + N <= w
    PROVE  Latest(w, d, r, p, c, got)
BY DEF Latest

\* What the ring holds is where position says.
LEMMA LatestInOrder ==
    ASSUME NEW w \in Nat, NEW d, NEW r \in Positions, NEW p, NEW c \in 0 .. N,
           NEW got, Latest(w, d, r, p, c, got), NEW k \in 1 .. c
    PROVE  d[IF r + k - 1 < N THEN r + k - 1 ELSE r + k - 1 - N] = w - c + k
<1> DEFINE x == r + k - 1
           a == w - c
           b == k - 1
           e == w - c + k
<1>1. N \in Nat \ {0} /\ r \in 0 .. N - 1 /\ c \in Nat /\ k \in Nat /\ k >= 1 /\ k <= c
      /\ c <= N
  BY RingBufferAssumption DEF Positions
<1>2. c <= w /\ r = (w - c) % N
  BY DEF Latest
<1>3. x \in 0 .. 2 * N - 1 /\ a \in Nat /\ b \in Nat /\ x = r + b /\ a + b = e - 1
  BY <1>1, <1>2
<1>4. e \in 1 .. w /\ e > w - N
  BY <1>1, <1>2
<1>5. r = a % N
  BY <1>2
<1>6. d[(e - 1) % N] = e
  BY <1>4 DEF Latest
<1> HIDE DEF x, a, b, e
<1>7. x % N = IF x < N THEN x ELSE x - N
  BY <1>1, <1>3, ModSmall
<1>8. x % N = (e - 1) % N
  <2>1. (r + b) % N = (a + b) % N
    BY <1>1, <1>3, <1>5, ModAdd
  <2> QED
    BY <1>3, <2>1
<1>9. d[IF x < N THEN x ELSE x - N] = e
  BY <1>6, <1>7, <1>8
<1> QED
  BY <1>1, <1>9 DEF x, e

\* pop gives out the next key event.
LEMMA PopsNext ==
    ASSUME NEW w \in Nat, NEW d, NEW r \in Positions, NEW p, NEW c \in 1 .. N,
           NEW got \in Seq(Nat), Latest(w, d, r, p, c, got)
    PROVE  /\ d[r] \in Nat
           /\ Latest(w, d, (r + 1) % N, p, c - 1, Append(got, d[r]))
<1> DEFINE a == w - c
           more == Append(got, d[r])
           n == Len(got)
<1>1. N \in Nat \ {0} /\ c \in Nat /\ c >= 1 /\ c <= N /\ c <= w
  BY RingBufferAssumption DEF Latest
<1>2. a \in Nat /\ r = a % N /\ w - (c - 1) = a + 1
  BY <1>1 DEF Latest
<1>3. d[r] = a + 1
  <2> DEFINE e == a + 1
  <2>1. e \in 1 .. w /\ e > w - N /\ e - 1 = a
    BY <1>1
  <2>2. d[(e - 1) % N] = e
    BY <2>1 DEF Latest
  <2> HIDE DEF a, e
  <2>3. d[a % N] = e
    BY <2>1, <2>2
  <2> QED
    BY <1>2, <2>3 DEF e
<1>4. (r + 1) % N = (a + 1) % N
  BY <1>1, <1>2, ModAdd
<1>5. /\ n \in Nat /\ DOMAIN got = 1 .. n /\ DOMAIN more = 1 .. n + 1
      /\ more[n + 1] = a + 1 /\ \A i \in 1 .. n : more[i] = got[i] /\ got[i] \in Nat
  BY <1>2, <1>3
<1>6. /\ \A i \in 1 .. n : got[i] <= a
      /\ \A i, j \in 1 .. n : i < j => got[i] < got[j]
      /\ \A k \in 1 .. a : (\E i \in 1 .. n : got[i] = k) \/ k + N <= w
  BY <1>5 DEF Latest
<1>7. p = w % N /\ \A e \in 1 .. w : e > w - N => d[(e - 1) % N] = e
  BY DEF Latest
<1> HIDE DEF a, more, n
<1>8. \A i \in 1 .. n + 1 : more[i] <= a + 1
  BY <1>2, <1>5, <1>6
<1>9. \A i, j \in 1 .. n + 1 : i < j => more[i] < more[j]
  <2> SUFFICES ASSUME NEW i \in 1 .. n + 1, NEW j \in 1 .. n + 1, i < j
               PROVE  more[i] < more[j]
    OBVIOUS
  <2>1. i \in 1 .. n /\ more[i] = got[i] /\ got[i] <= a /\ got[i] \in Nat
    BY <1>5, <1>6
  <2>2. CASE j = n + 1
    BY <1>2, <1>5, <2>1, <2>2
  <2>3. CASE j \in 1 .. n
    BY <1>5, <1>6, <2>1, <2>3
  <2> QED
    BY <1>5, <2>2, <2>3
<1>10. ASSUME NEW k \in 1 .. a + 1
       PROVE  (\E i \in 1 .. n + 1 : more[i] = k) \/ k + N <= w
  <2>1. CASE k = a + 1
    BY <1>5, <2>1
  <2>2. CASE k \in 1 .. a
    <3>1. CASE k + N <= w
      BY <3>1
    <3>2. CASE \E i \in 1 .. n : got[i] = k
      <4>1. PICK i \in 1 .. n : got[i] = k
        BY <3>2
      <4>2. i \in 1 .. n + 1 /\ more[i] = k
        BY <1>5, <4>1
      <4> QED
        BY <4>2
    <3> QED
      BY <1>6, <2>2, <3>1, <3>2
  <2> QED
    BY <1>2, <2>1, <2>2
<1>11. Latest(w, d, (r + 1) % N, p, c - 1, more)
  <2>1. c - 1 <= w /\ w - (c - 1) = a + 1
    BY <1>1, <1>2
  <2> QED
    BY <1>4, <1>5, <1>7, <1>8, <1>9, <1>10, <2>1 DEF Latest
<1> QED
  BY <1>2, <1>3, <1>11 DEF more

\* The ring's array after n events have been pushed from position p on.
Pushed(d, p, n, es) ==
    [q \in Positions |->
       LET hits == {k \in 1 .. n : (p + k - 1) % N = q}
       IN IF hits = {} THEN d[q] ELSE es[CHOOSE k \in hits : \A j \in hits : j <= k]]

\* The n events es come after the first w.
Following(es, n, w) == \A i \in 1 .. n : es[i] = w + i /\ es[i] \in T

\* How many events a ring that had c of them holds then.
Kept(c, n) == IF c + n <= N THEN c + n ELSE N

\* The ring after the key events w + 1, ..., w + n have been pushed.
LEMMA PushesAll ==
    ASSUME NEW w \in Nat, NEW n \in Nat, NEW d \in [Positions -> T],
           NEW r, NEW p, NEW c \in 0 .. N, NEW got \in Seq(Nat),
           Latest(w, d, r, p, c, got), NEW es, Following(es, n, w)
    PROVE  /\ Pushed(d, p, n, es) \in [Positions -> T] /\ Kept(c, n) \in 0 .. N
           /\ (p + n) % N \in Positions /\ (r + (c + n - Kept(c, n))) % N \in Positions
           /\ Latest(w + n, Pushed(d, p, n, es), (r + (c + n - Kept(c, n))) % N,
                     (p + n) % N, Kept(c, n), got)
<1> DEFINE dd == Pushed(d, p, n, es)
           kept == Kept(c, n)
<1>0. dd = Pushed(d, p, n, es) /\ kept = Kept(c, n)
  OBVIOUS
<1> HIDE DEF dd, kept
<1> PICK v \in Nat : v = w + n
  OBVIOUS
<1> DEFINE hits(q) == {k \in 1 .. n : (p + k - 1) % N = q}
           last(q) == CHOOSE k \in hits(q) : \A j \in hits(q) : j <= k
           a == w - c
           gone == c + n - kept
<1>1. N \in Nat \ {0} /\ c \in Nat /\ c <= N /\ c <= w
  BY RingBufferAssumption DEF Latest
<1>2. p = w % N /\ a \in Nat /\ r = a % N /\ p \in Positions /\ r \in Positions
  <2>1. p = w % N /\ a \in Nat /\ r = a % N
    BY <1>1 DEF Latest
  <2> HIDE DEF a
  <2> QED
    BY <1>1, <2>1, DivMod DEF Positions
<1>3. kept \in 0 .. N /\ kept \in Nat /\ gone \in Nat /\ kept <= v
      /\ a + gone = v - kept
  BY <1>0, <1>1 DEF Kept
<1>4. \A e \in 1 .. w : e > w - N => d[(e - 1) % N] = e
  BY DEF Latest
<1>5. ASSUME NEW k \in 1 .. n PROVE (p + k - 1) % N = (w + k - 1) % N
  <2> DEFINE b == k - 1
  <2>1. b \in Nat /\ p + k - 1 = p + b /\ w + k - 1 = w + b
    BY <1>2 DEF Positions
  <2> HIDE DEF b
  <2>2. (p + b) % N = (w + b) % N
    BY <1>1, <1>2, <2>1, ModAdd
  <2> QED
    BY <2>1, <2>2
<1>6. ASSUME NEW q \in Positions, hits(q) # {}
      PROVE  last(q) \in hits(q) /\ \A j \in hits(q) : j <= last(q)
  <2> DEFINE S == {n - k : k \in hits(q)}
  <2>1. S \in SUBSET Nat /\ S # {}
    BY <1>6
  <2> HIDE DEF S
  <2>2. PICK m \in S : \A k \in S : m <= k
    BY <2>1, LeastNatural
  <2>3. PICK k \in hits(q) : m = n - k
    BY <2>2 DEF S
  <2>4. \A j \in hits(q) : j <= k
    <3> SUFFICES ASSUME NEW j \in hits(q) PROVE j <= k
      OBVIOUS
    <3>1. n - j \in S /\ j \in Nat /\ k \in Nat
      BY DEF S
    <3>2. n - k <= n - j
      BY <2>2, <2>3, <3>1
    <3> QED
      BY <3>1, <3>2
  <2> HIDE DEF hits
  <2> QED
    BY <2>3, <2>4
<1>7. \A q \in Positions : dd[q] = IF hits(q) = {} THEN d[q] ELSE es[last(q)]
  BY <1>0 DEF Pushed
<1>8. dd \in [Positions -> T]
  <2>1. ASSUME NEW q \in Positions PROVE dd[q] \in T
    <3>1. CASE hits(q) = {}
      BY <1>7, <3>1
    <3>2. CASE hits(q) # {}
      <4>1. last(q) \in hits(q)
        BY <1>6, <3>2
      <4>2. last(q) \in 1 .. n
        BY <4>1
      <4> HIDE DEF last, hits
      <4> QED
        BY <1>7, <3>2, <4>2 DEF Following
    <3> QED
      BY <3>1, <3>2
  <2> HIDE DEF last, hits
  <2>2. dd = [q \in Positions |-> dd[q]]
    BY <1>0 DEF Pushed
  <2> QED
    BY <2>1, <2>2
<1>9. ASSUME NEW e \in 1 .. v, e > v - N
      PROVE  dd[(e - 1) % N] = e
  <2> DEFINE q == (e - 1) % N
  <2>1. e - 1 \in Nat /\ e \in Nat
    OBVIOUS
  <2>2. q \in Positions
    <3> DEFINE x == e - 1
    <3>1. x \in Nat
      BY <2>1
    <3> HIDE DEF x
    <3>2. x % N \in 0 .. N - 1
      BY <1>1, <3>1, DivMod
    <3> QED
      BY <3>2 DEF x, Positions
  <2>3. ASSUME NEW k \in hits(q) PROVE k \in 1 .. n /\ w + k <= e
    <3> DEFINE x == w + k - 1
               y == e - 1
    <3>1. k \in 1 .. n /\ x % N = y % N
      BY <1>5
    <3>2. x \in Nat /\ y \in Nat /\ x < y + N /\ (y < x => w + k > e)
      BY <1>1, <1>9, <3>1
    <3> HIDE DEF x, y
    <3>3. ~(y < x)
      BY <1>1, <3>1, <3>2, ModApart
    <3> QED
      BY <3>1, <3>2, <3>3 DEF x, y
  <2>4. CASE e <= w
    <3>1. hits(q) = {}
      <4> SUFFICES ASSUME hits(q) # {} PROVE FALSE
        OBVIOUS
      <4>1. PICK k \in hits(q) : TRUE
        OBVIOUS
      <4>2. k \in 1 .. n /\ w + k <= e
        BY <2>3
      <4> QED
        BY <2>1, <2>4, <4>2
    <3>2. d[q] = e
      BY <1>1, <1>4, <1>9, <2>4
    <3> HIDE DEF hits, last, q
    <3>3. dd[q] = e
      BY <1>7, <2>2, <3>1, <3>2
    <3> QED
      BY <3>3 DEF q
  <2>5. CASE e > w
    <3> DEFINE f == e - w
    <3>1. f \in 1 .. n /\ w + f = e
      BY <1>9, <2>1, <2>5
    <3>2. (w + f - 1) % N = q
      BY <3>1
    <3> HIDE DEF f
    <3>3. f \in hits(q)
      BY <1>5, <3>1, <3>2
    <3> HIDE DEF hits, last, q
    <3>4. last(q) \in hits(q) /\ f <= last(q)
      BY <1>6, <2>2, <3>3
    <3>5. last(q) \in 1 .. n /\ w + last(q) <= e
      BY <2>3, <3>4
    <3>6. last(q) = f
      BY <3>1, <3>4, <3>5
    <3>7. es[f] = e
      BY <3>1 DEF Following
    <3>8. dd[q] = e
      BY <1>7, <2>2, <3>3, <3>6, <3>7
    <3> QED
      BY <3>8 DEF q
  <2> QED
    BY <2>1, <2>4, <2>5
<1>10. /\ (p + n) % N = v % N /\ (r + gone) % N = (a + gone) % N
       /\ (p + n) % N \in Positions /\ (r + gone) % N \in Positions
  <2> HIDE DEF a, gone
  <2>1. (p + n) % N = v % N /\ (r + gone) % N = (a + gone) % N
    <3>1. ((w % N) + n) % N = (w + n) % N
      BY <1>1, ModAdd, Zenon
    <3>2. a \in Nat /\ gone \in Nat /\ N \in Nat \ {0}
      BY <1>1, <1>2, <1>3
    <3>3. ((a % N) + gone) % N = (a + gone) % N
      BY <3>2, ModAdd
    <3> QED
      BY <1>2, <3>1, <3>3
  <2> DEFINE y == a + gone
  <2>2. y \in Nat
    BY <1>2, <1>3
  <2> HIDE DEF y
  <2>3. v % N \in 0 .. N - 1 /\ y % N \in 0 .. N - 1
    BY <1>1, <2>2, DivMod
  <2> QED
    BY <2>1, <2>3 DEF y, Positions
<1>11. \A k \in 1 .. v - kept : (\E i \in DOMAIN got : got[i] = k) \/ k + N <= v
  <2> SUFFICES ASSUME NEW k \in 1 .. v - kept, ~(k + N <= v)
               PROVE  \E i \in DOMAIN got : got[i] = k
    OBVIOUS
  <2>1. k \in 1 .. w - c /\ ~(k + N <= w)
    BY <1>0, <1>1, <1>3 DEF Kept
  <2> QED
    BY <2>1 DEF Latest
<1>12. \A i \in DOMAIN got : got[i] <= v - kept
  <2> SUFFICES ASSUME NEW i \in DOMAIN got PROVE got[i] <= v - kept
    OBVIOUS
  <2>1. got[i] <= w - c /\ got[i] \in Nat
    BY DEF Latest
  <2> QED
    BY <1>0, <1>1, <1>3, <2>1 DEF Kept
<1>13. \A i, j \in DOMAIN got : i < j => got[i] < got[j]
  BY DEF Latest
<1>14. Latest(v, dd, (a + gone) % N, v % N, kept, got)
  <2>1. \A e \in 1 .. v : e > v - N => dd[(e - 1) % N] = e
    BY <1>9
  <2> HIDE DEF a, gone
  <2>2. (a + gone) % N = (v - kept) % N
    BY <1>3
  <2> QED
    BY <1>3, <1>11, <1>12, <1>13, <2>1, <2>2, LatestIs
<1>15. /\ dd \in [Positions -> T] /\ kept \in 0 .. N
       /\ (p + n) % N \in Positions /\ (r + (c + n - kept)) % N \in Positions
       /\ Latest(v, dd, (r + (c + n - kept)) % N, (p + n) % N, kept, got)
  BY <1>3, <1>8, <1>10, <1>14
<1> HIDE DEF hits, last, a, gone
<1> QED
  BY <1>0, <1>15

-----------------------------------------------------------------------------
(* The buffers the handler will visit                                      *)

\* The key events the handler will find.
LEMMA KeysFound ==
    ASSUME VirtqueueTypeOK
    PROVE  /\ KeysAt \in SUBSET (1 .. Len(new_used))
           /\ Cardinality(KeysAt) \in Nat /\ Len(Keys) = Cardinality(KeysAt)
           /\ Keys = <<>> <=> KeysAt = {}
           /\ Notified = pressed - Cardinality(KeysAt)
<1> DEFINE n == Len(new_used)
           c == Cardinality(KeysAt)
<1>1. n \in Nat /\ KeysAt \in SUBSET (1 .. n)
  <2>1. DOMAIN new_used = 1 .. n /\ n \in 0 .. Size - 1 /\ Size \in Nat
    BY NewUsed, VirtqueueAssumption
  <2> HIDE DEF n
  <2> QED
    BY <2>1 DEF KeysAt
<1>2. IsFiniteSet(KeysAt) /\ c \in Nat
  BY <1>1, RankFinite
<1> DEFINE S == {Keys[i] : i \in 1 .. c}
           f == Keys
<1>3. f \in [1 .. c -> S]
  BY DEF Keys
<1>4. Len(f) = c
  <2> HIDE DEF f, S, c
  <2> QED
    BY <1>2, <1>3, IsSequence
<1>5. Keys = <<>> <=> KeysAt = {}
  <2>1. KeysAt = {} <=> c = 0
    BY <1>2, FS_EmptySet
  <2>2. Keys = <<>> => c = 0
    BY <1>4
  <2>3. c = 0 => Keys = <<>>
    BY <1>3
  <2> QED
    BY <2>1, <2>2, <2>3
<1> QED
  BY <1>1, <1>2, <1>4, <1>5 DEF Notified

\* In order, they are the ones after those notified so far.
LEMMA KeysInOrder ==
    ASSUME VirtqueueTypeOK, Numbered(Notified, KeysAt, new_used, m_eventsbuf),
           NEW i \in 1 .. Cardinality(KeysAt)
    PROVE  Keys[i] = Notified + i
<1> DEFINE at(k) == Cardinality({j \in KeysAt : j <= k}) = i
           k0 == CHOOSE k \in KeysAt : at(k)
<1>1. \E k \in KeysAt : Rank(KeysAt, k) = i
  <2>1. KeysAt \in SUBSET (1 .. Len(new_used)) /\ Len(new_used) \in 0 .. Size - 1 /\ Size \in Nat
    BY KeysFound, NewUsed, VirtqueueAssumption
  <2>2. Len(new_used) \in Nat
    BY <2>1
  <2> QED
    BY <2>1, <2>2, RankOnto
<1>2. k0 \in KeysAt /\ Rank(KeysAt, k0) = i
  <2>1. \E k \in KeysAt : at(k)
    BY <1>1 DEF Rank
  <2>2. k0 \in KeysAt /\ at(k0)
    <3> HIDE DEF at
    <3> QED
      BY <2>1
  <2> QED
    BY <2>2 DEF Rank
<1>3. Keys[i] = m_eventsbuf[new_used[k0]]
  BY DEF Keys
<1> HIDE DEF k0
<1> QED
  BY <1>2, <1>3 DEF Numbered

-----------------------------------------------------------------------------
(* Steps of the invariant                                                  *)

Places == {"idle", "fd", "poll_locked", "read", "read_locked"}

\* Keys as a function of what it is computed from.
KeysIn(S, u, buf) ==
    [n \in 1 .. Cardinality(S) |->
       buf[u[CHOOSE k \in S : Cardinality({j \in S : j <= k}) = n]]]

\* What the handler will find depends on the device's state only.
LEMMA DeviceSame ==
    ASSUME UNCHANGED device
    PROVE  new_used' = new_used /\ KeysAt' = KeysAt /\ Notified' = Notified
<1>1. UNCHANGED <<used_idx, used_ring, last_seen_used_idx, m_eventsbuf, pressed>>
  BY DEF device, virtqueue, used
<1>2. new_used' = new_used
  BY <1>1 DEF new_used, used_slot
<1>3. KeysAt' = KeysAt
  BY <1>1, <1>2, Zenon DEF KeysAt
<1>4. Keys' = Keys
  <2>1. /\ Keys = KeysIn(KeysAt, new_used, m_eventsbuf)
        /\ Keys' = KeysIn(KeysAt', new_used', m_eventsbuf')
    BY DEF Keys, KeysIn
  <2> QED
    BY <1>1, <1>2, <1>3, <2>1
<1> QED
  BY <1>1, <1>2, <1>3, <1>4, Zenon DEF Notified

\* Steps that leave the device and the ring alone.
LEMMA QuietStep ==
    ASSUME IInv, UNCHANGED <<device, ring, stuck, received>>
    PROVE  /\ VirtqueueTypeOK' /\ RingTypeOK'
           /\ received' \in Seq(Nat) /\ Events'
<1>1. new_used' = new_used /\ KeysAt' = KeysAt /\ Notified' = Notified
  BY DeviceSame
<1>2. UNCHANGED <<queue, used_idx, used_ring, last_seen_used_idx, irq_status, in_irq,
                  avail, m_eventsbuf, data, read_pos, write_pos, count>>
  BY DEF device, virtqueue, used, ring
<1>3. VirtqueueTypeOK' /\ RingTypeOK' /\ received' \in Seq(Nat)
  BY <1>2 DEF IInv, TypeOK, VirtqueueTypeOK, RingTypeOK
<1>4. Events'
  BY <1>1, <1>2, Zenon DEF IInv, Events
<1> QED
  BY <1>3, <1>4

\* TypeOK is about what its parts and the other parts of the invariant say.
LEMMA TypeParts ==
    ASSUME VirtqueueTypeOK', RingTypeOK', (avail \in Seq(Descs) /\ Len(avail) <= Size)',
           (m_eventsbuf \in [Descs -> 0 .. MaxKeys])', (pressed \in 0 .. MaxKeys)',
           (lock \in Threads \cup {None})', (stuck \in Threads \cup {None})',
           (busy \in Threads \cup {None})', (pc \in [Threads -> Places])',
           (result \in [Threads -> {"ok", "timedout", "empty"}])', Calls'
    PROVE  TypeOK'
<1>1. ASSUME NEW t \in Threads
      PROVE  (/\ call[t].name \in {"none", "read", "poll"}
              /\ call[t].args \in Lists
              /\ call[t].start \in 0 .. ClockWrap - 1
              /\ call[t].now \in 0 .. ClockWrap - 1
              /\ call[t].got \in 0 .. call[t].events)'
  <2>1. call'[t] \in Call /\ call'[t].got <= call'[t].events
    BY DEF Calls, CallRight
  <2> QED
    BY <2>1 DEF Call, Ticks
<1> QED
  BY <1>1, Zenon DEF TypeOK, Places

\* A thread that runs is the only one that uses the device.
LEMMA Alone ==
    ASSUME IInv, NEW t \in Threads, Runs(t)
    PROVE  /\ t # None /\ stuck # t
           /\ \A u \in Threads : u # t /\ u # stuck => pc[u] \in {"idle", "fd"}
           /\ stuck # None => lock = stuck /\ pc[t] \in {"idle", "fd"}
<1>1. t # None /\ stuck # t /\ busy \in {t, None} /\ None \notin Threads
  BY InputAssumption DEF Runs
<1>2. pc \in [Threads -> Places] /\ Locking
  BY DEF IInv, TypeOK, Places
<1>3. ASSUME NEW u \in Threads, u # t, u # stuck PROVE pc[u] \in {"idle", "fd"}
  <2>1. CASE stuck = None
    BY <1>1, <1>2, <1>3, <2>1 DEF Locking, Places
  <2>2. CASE stuck # None
    BY <1>2, <1>3, <2>2 DEF Locking
  <2> QED
    BY <2>1, <2>2
<1>4. stuck # None => lock = stuck /\ pc[t] \in {"idle", "fd"}
  BY <1>1, <1>2 DEF Locking
<1> QED
  BY <1>1, <1>3, <1>4

\* A running thread t goes to place x with locals c and result r.
LEMMA Moves ==
    ASSUME IInv, NEW t \in Threads, Runs(t), stuck' = stuck,
           NEW c \in Call, CallRight(c), NEW x \in Places, NEW r \in {"ok", "timedout"},
           x # "idle" => r = "ok",
           call' = [call EXCEPT ![t] = c], pc' = [pc EXCEPT ![t] = x],
           result' = [result EXCEPT ![t] = r],
           x \in {"read", "read_locked"} =>
             /\ c.name = "read" /\ (c.got > 0 \/ count' > 0)
             /\ x = "read_locked" => c.got < c.events,
           x = "poll_locked" => c.fds # <<>>,
           count' = count \/ stuck = None,
           lock' = t <=> x \in {"read_locked", "poll_locked"},
           lock' \in {lock, t, None}, lock \in {t, None} \/ lock' = lock,
           busy' \in {t, None},
           x \in {"read", "read_locked", "poll_locked"} => busy' = t /\ stuck = None
    PROVE  /\ Calls' /\ Reading' /\ Results' /\ Locking'
           /\ (lock \in Threads \cup {None})' /\ (busy \in Threads \cup {None})'
           /\ (pc \in [Threads -> Places])'
           /\ (result \in [Threads -> {"ok", "timedout", "empty"}])'
<1>1. /\ t # None /\ stuck # t
      /\ \A u \in Threads : u # t /\ u # stuck => pc[u] \in {"idle", "fd"}
      /\ stuck # None => lock = stuck /\ pc[t] \in {"idle", "fd"}
  BY Alone
<1>2. /\ call \in [Threads -> Call] /\ pc \in [Threads -> Places]
      /\ result \in [Threads -> {"ok", "timedout", "empty"}]
      /\ lock \in Threads \cup {None} /\ stuck \in Threads \cup {None}
      /\ None \notin Threads
  BY InputAssumption DEF IInv, TypeOK, Calls, Places
<1>3. /\ call'[t] = c /\ pc'[t] = x /\ result'[t] = r
      /\ \A u \in Threads : u # t => /\ call'[u] = call[u] /\ pc'[u] = pc[u]
                                     /\ result'[u] = result[u]
  BY <1>2
<1>4. /\ call' \in [Threads -> Call] /\ pc' \in [Threads -> Places]
      /\ result' \in [Threads -> {"ok", "timedout", "empty"}]
  BY <1>2
<1>5. Calls'
  BY <1>3, <1>4 DEF IInv, Calls
<1>6. Results'
  <2>1. Results
    BY DEF IInv
  <2> QED
    BY <1>3, <2>1 DEF Results
<1>7. Reading'
  <2> SUFFICES ASSUME NEW u \in Threads
               PROVE  /\ pc'[u] = "poll_locked" => call'[u].fds # <<>>
                      /\ pc'[u] \in {"read", "read_locked"} =>
                           /\ call'[u].name = "read"
                           /\ call'[u].got > 0 \/ count' > 0
                           /\ pc'[u] = "read_locked" => call'[u].got < call'[u].events
    BY DEF Reading
  <2>1. CASE u = t
    BY <1>3, <2>1
  <2>2. CASE u # t /\ u # stuck
    BY <1>1, <1>3, <2>2
  <2>3. CASE u # t /\ u = stuck
    <3>1. u = stuck /\ pc[u] = pc'[u] /\ call'[u] = call[u]
      BY <1>3, <2>3
    <3>2. count' = count
      BY <1>2, <3>1
    <3> QED
      BY <3>1, <3>2 DEF IInv, Reading
  <2> QED
    BY <2>1, <2>2, <2>3
<1>8. Locking'
  <2>1. Locking
    BY DEF IInv
  <2>2. ASSUME NEW u \in Threads
        PROVE  lock' = u <=> pc'[u] \in {"read_locked", "poll_locked"}
    <3>1. CASE u = t
      BY <1>3, <3>1
    <3>2. CASE u # t
      <4>1. lock' = u <=> lock = u
        BY <1>1, <1>2, <3>2
      <4> QED
        BY <1>3, <2>1, <3>2, <4>1 DEF Locking
    <3> QED
      BY <3>1, <3>2
  <2>3. stuck = None => \A u \in Threads :
          pc'[u] \in {"read", "read_locked", "poll_locked"} => busy' = u
    BY <1>1, <1>2, <1>3
  <2>4. stuck # None => /\ lock' = stuck
                        /\ \A u \in Threads : u # stuck => pc'[u] \in {"idle", "fd"}
    BY <1>1, <1>2, <1>3 DEF Places
  <2> QED
    BY <2>2, <2>3, <2>4 DEF Locking
<1> QED
  BY <1>2, <1>4, <1>5, <1>6, <1>7, <1>8

\* What Idle is, field by field.
LEMMA IdleCall ==
    /\ Idle \in Call /\ CallRight(Idle)
    /\ \A n \in ReadSizes :
         LET c == [Idle EXCEPT !["name"] = "read", !["args"] = <<"input">>,
                               !["fds"] = <<"input">>, !["events"] = n]
         IN c \in Call /\ CallRight(c)
    /\ \A p \in Polls, ticks \in Ticks :
         LET c == [Idle EXCEPT !["name"] = "poll", !["args"] = p.fds,
                               !["fds"] = p.fds, !["timeout"] = p.timeout,
                               !["start"] = ticks, !["now"] = ticks]
         IN c \in Call /\ CallRight(c)
<1>1. /\ 0 \in Ticks /\ 0 \in 0 .. MaxElapsed /\ <<>> \in Lists /\ <<"input">> \in Lists
      /\ <<>> \in Seq(Kinds) /\ <<"input">> \in Seq(Kinds) /\ MaxElapsed \in Nat
  BY InputAssumption DEF Ticks, Lists, Kinds
<1>2. Idle \in Call /\ CallRight(Idle)
  BY <1>1 DEF Idle, Call, CallRight, ClockRight
<1>3. ASSUME NEW n \in ReadSizes
      PROVE  LET c == [Idle EXCEPT !["name"] = "read", !["args"] = <<"input">>,
                                   !["fds"] = <<"input">>, !["events"] = n]
             IN c \in Call /\ CallRight(c)
  <2> DEFINE c == [Idle EXCEPT !["name"] = "read", !["args"] = <<"input">>,
                               !["fds"] = <<"input">>, !["events"] = n]
  <2>1. n \in Nat /\ n > 0
    BY InputAssumption
  <2>2. c \in Call
    BY <1>1, <2>1 DEF Idle, Call
  <2>3. c.events = n /\ c.got = 0 /\ c.timeout = 0
    BY DEF Idle
  <2> HIDE DEF c
  <2>4. CallRight(c)
    BY <2>1, <2>3 DEF CallRight, ClockRight
  <2> QED
    BY <2>2, <2>4 DEF c
<1>4. ASSUME NEW p \in Polls, NEW ticks \in Ticks
      PROVE  LET c == [Idle EXCEPT !["name"] = "poll", !["args"] = p.fds,
                                   !["fds"] = p.fds, !["timeout"] = p.timeout,
                                   !["start"] = ticks, !["now"] = ticks]
             IN c \in Call /\ CallRight(c)
  <2> DEFINE c == [Idle EXCEPT !["name"] = "poll", !["args"] = p.fds,
                               !["fds"] = p.fds, !["timeout"] = p.timeout,
                               !["start"] = ticks, !["now"] = ticks]
             list == p.fds
             limit == p.timeout
  <2>1. list \in Lists /\ list \in Seq(Kinds) /\ limit \in Nat /\ limit < MaxElapsed
    BY InputAssumption DEF Lists, Kinds
  <2>2. c = [Idle EXCEPT !["name"] = "poll", !["args"] = list, !["fds"] = list,
                         !["timeout"] = limit, !["start"] = ticks, !["now"] = ticks]
    OBVIOUS
  <2> HIDE DEF list, limit, c
  <2>3. c \in Call
    BY <1>1, <2>1, <2>2 DEF Idle, Call
  <2>4. /\ c.name = "poll" /\ c.got = 0 /\ c.events = 0 /\ c.timeout = limit
        /\ c.elapsed = 0 /\ c.now = ticks /\ c.start = ticks
    BY <2>2 DEF Idle
  <2>5. ticks - ticks = 0
    BY InputAssumption DEF Ticks
  <2>6. CallRight(c)
    BY <2>1, <2>4, <2>5 DEF CallRight, ClockRight
  <2> QED
    BY <2>3, <2>6 DEF c
<1> QED
  BY <1>2, <1>3, <1>4

\* The parts of the invariant that a step of a thread leaves alone.
LEMMA Unmoved ==
    ASSUME IInv, UNCHANGED <<device, stuck>>
    PROVE  /\ (avail \in Seq(Descs) /\ Len(avail) <= Size)'
           /\ (m_eventsbuf \in [Descs -> 0 .. MaxKeys])' /\ (pressed \in 0 .. MaxKeys)'
           /\ (stuck \in Threads \cup {None})'
BY DEF IInv, TypeOK, device

\* A running thread moves and the device and the ring are left alone.
LEMMA QuietMove ==
    ASSUME IInv, NEW t \in Threads, Runs(t),
           UNCHANGED <<device, ring, stuck, received>>,
           NEW c \in Call, CallRight(c), NEW x \in Places, NEW r \in {"ok", "timedout"},
           x # "idle" => r = "ok",
           call' = [call EXCEPT ![t] = c], pc' = [pc EXCEPT ![t] = x],
           result' = [result EXCEPT ![t] = r],
           x \in {"read", "read_locked"} =>
             /\ c.name = "read" /\ (c.got > 0 \/ count > 0)
             /\ x = "read_locked" => c.got < c.events,
           x = "poll_locked" => c.fds # <<>>,
           lock' = t <=> x \in {"read_locked", "poll_locked"},
           lock' \in {lock, t, None}, lock \in {t, None} \/ lock' = lock,
           busy' \in {t, None},
           x \in {"read", "read_locked", "poll_locked"} => busy' = t /\ stuck = None
    PROVE  IInv'
<1>1. count' = count /\ stuck' = stuck
  BY DEF ring
<1>2. /\ Calls' /\ Reading' /\ Results' /\ Locking'
      /\ (lock \in Threads \cup {None})' /\ (busy \in Threads \cup {None})'
      /\ (pc \in [Threads -> Places])'
      /\ (result \in [Threads -> {"ok", "timedout", "empty"}])'
  BY <1>1, Moves
<1>3. VirtqueueTypeOK' /\ RingTypeOK' /\ received' \in Seq(Nat) /\ Events'
  BY QuietStep
<1>4. TypeOK'
  BY <1>2, <1>3, Unmoved, TypeParts
<1> QED
  BY <1>2, <1>3, <1>4 DEF IInv

\* vfs_read and sys$poll begin.
LEMMA BeginStep ==
    ASSUME IInv, NEW t \in Threads, NEW c \in Call, CallRight(c), Begin(t, c)
    PROVE  IInv'
<1>1. /\ Runs(t) /\ pc[t] = "idle" /\ busy' = t /\ pc' = [pc EXCEPT ![t] = "fd"]
      /\ call' = [call EXCEPT ![t] = c] /\ result' = [result EXCEPT ![t] = "ok"]
      /\ UNCHANGED <<device, ring, lock, stuck, received>>
  BY DEF Begin, At
<1>2. lock # t
  BY <1>1 DEF IInv, Locking
<1> QED
  BY <1>1, <1>2, QuietMove DEF Places

\* What a thread at some place has, and its state written as an update.
LEMMA ThreadAt ==
    ASSUME IInv, NEW t \in Threads, NEW x, At(t, x)
    PROVE  /\ Runs(t) /\ pc[t] = x /\ x \in Places
           /\ call[t] \in Call /\ CallRight(call[t])
           /\ x # "idle" => result[t] = "ok"
           /\ lock = t <=> x \in {"read_locked", "poll_locked"}
           /\ x \in {"read", "read_locked", "poll_locked"} =>
                stuck = None /\ busy = t /\ lock \in {t, None}
           /\ call = [call EXCEPT ![t] = call[t]] /\ pc = [pc EXCEPT ![t] = x]
           /\ result = [result EXCEPT ![t] = result[t]]
<1>1. Runs(t) /\ pc[t] = x
  BY DEF At
<1>2. /\ pc \in [Threads -> Places] /\ call \in [Threads -> Call] /\ CallRight(call[t])
      /\ result \in [Threads -> {"ok", "timedout", "empty"}]
      /\ lock \in Threads \cup {None}
  BY DEF IInv, TypeOK, Calls, Places
<1>3. x # "idle" => result[t] = "ok"
  BY <1>1 DEF IInv, Results
<1>4. lock = t <=> x \in {"read_locked", "poll_locked"}
  BY <1>1 DEF IInv, Locking
<1>5. x \in {"read", "read_locked", "poll_locked"} =>
        stuck = None /\ busy = t /\ lock \in {t, None}
  <2> SUFFICES ASSUME x \in {"read", "read_locked", "poll_locked"}
               PROVE  stuck = None /\ busy = t /\ lock \in {t, None}
    OBVIOUS
  <2>1. stuck = None
    BY <1>1, Alone
  <2>2. busy = t
    BY <1>1, <2>1 DEF IInv, Locking
  <2>3. ASSUME NEW u \in Threads, lock = u PROVE u = t
    <3>1. pc[u] \in {"read_locked", "poll_locked"}
      BY <2>3 DEF IInv, Locking
    <3>2. busy = u
      BY <2>1, <3>1 DEF IInv, Locking
    <3> QED
      BY <2>2, <3>2
  <2> QED
    BY <1>2, <2>1, <2>2, <2>3
<1> QED
  BY <1>1, <1>2, <1>3, <1>4, <1>5

\* sys$poll goes on to the next descriptor.
LEMMA RestOfList ==
    ASSUME IInv, NEW t \in Threads, call[t].fds # <<>>
    PROVE  LET c == [call[t] EXCEPT !["fds"] = Tail(call[t].fds)]
           IN c \in Call /\ CallRight(c) /\ rest(t) = [call EXCEPT ![t] = c]
<1> DEFINE c == [call[t] EXCEPT !["fds"] = Tail(call[t].fds)]
<1>1. call \in [Threads -> Call] /\ CallRight(call[t])
  BY DEF IInv, Calls
<1>2. call[t] \in Call /\ call[t].fds \in Seq(Kinds)
  BY <1>1 DEF Call
<1>3. Tail(call[t].fds) \in Seq(Kinds)
  BY <1>2
<1>4. c \in Call /\ c.name = call[t].name /\ c.events = call[t].events
      /\ c.got = call[t].got /\ c.timeout = call[t].timeout /\ c.elapsed = call[t].elapsed
      /\ c.now = call[t].now /\ c.start = call[t].start
  BY <1>2, <1>3 DEF Call
<1>5. c.wrapped = call[t].wrapped
  BY <1>2, <1>3 DEF Call
<1>6. rest(t) = [call EXCEPT ![t] = c]
  BY <1>1 DEF rest
<1> HIDE DEF c
<1>7. CallRight(c)
  BY <1>1, <1>4, <1>5 DEF CallRight, ClockRight
<1> QED
  BY <1>4, <1>6, <1>7 DEF c

\* A call returns, from a place where it may hold the mutex.
LEMMA ReturnStep ==
    ASSUME IInv, NEW t \in Threads, NEW x, At(t, x), NEW r \in {"ok", "timedout"},
           Return(t, r), UNCHANGED <<device, ring, stuck, received>>,
           lock' = IF lock = t THEN None ELSE lock
    PROVE  IInv'
<1>1. Runs(t) /\ t # None
  BY InputAssumption DEF At
<1>2. /\ result' = [result EXCEPT ![t] = r] /\ pc' = [pc EXCEPT ![t] = "idle"]
      /\ busy' = None /\ call' = [call EXCEPT ![t] = Idle]
  BY DEF Return
<1>3. Idle \in Call /\ CallRight(Idle)
  BY IdleCall
<1>4. lock' # t /\ lock' \in {lock, t, None} /\ (lock \in {t, None} \/ lock' = lock)
  BY <1>1
<1> QED
  BY <1>1, <1>2, <1>3, <1>4, QuietMove DEF Places

\* sys$poll looks at a descriptor.
LEMMA PollStep ==
    ASSUME IInv, NEW t \in Threads, poll_closed(t) \/ poll_negative(t) \/ poll_other(t)
    PROVE  IInv'
<1>1. /\ At(t, "fd") /\ call[t].fds # <<>>
      /\ UNCHANGED <<device, ring, lock, stuck, received>>
  BY DEF poll_closed, poll_negative, poll_other, At_fd
<1>2. /\ Runs(t) /\ lock # t /\ pc = [pc EXCEPT ![t] = "fd"] /\ result[t] = "ok"
      /\ result = [result EXCEPT ![t] = result[t]]
  BY <1>1, ThreadAt
<1>3. CASE Return(t, "ok")
  BY <1>1, <1>2, <1>3, ReturnStep
<1>4. CASE call' = rest(t) /\ busy' = t /\ UNCHANGED <<pc, result>>
  <2> DEFINE c == [call[t] EXCEPT !["fds"] = Tail(call[t].fds)]
  <2>1. c \in Call /\ CallRight(c) /\ call' = [call EXCEPT ![t] = c]
    BY <1>1, <1>4, RestOfList
  <2> HIDE DEF c
  <2>2. pc' = [pc EXCEPT ![t] = "fd"] /\ result' = [result EXCEPT ![t] = "ok"]
    BY <1>2, <1>4
  <2> QED
    BY <1>1, <1>2, <1>4, <2>1, <2>2, QuietMove DEF Places
<1> QED
  BY <1>3, <1>4 DEF poll_closed, poll_negative, poll_other

\* A thread tries to take the mutex.
LEMMA TakeStep ==
    ASSUME IInv, NEW t \in Threads, poll_input(t) \/ get_next_event(t)
    PROVE  IInv'
<1> DEFINE c == call[t]
           x == pc[t]
           y == IF poll_input(t) THEN "poll_locked" ELSE "read_locked"
<1>1. /\ At(t, x) /\ x \in {"fd", "read"} /\ mutex_take(t, y)
      /\ y = "poll_locked" => c.fds # <<>> /\ x = "fd"
      /\ y = "read_locked" => x = "read" /\ c.got < c.events
      /\ y \in {"poll_locked", "read_locked"}
  BY DEF poll_input, get_next_event, At_fd, At
<1>2. /\ Runs(t) /\ x \in Places /\ c \in Call /\ CallRight(c) /\ result[t] = "ok"
      /\ lock # t
      /\ x = "read" => stuck = None /\ busy = t /\ lock = None
      /\ call = [call EXCEPT ![t] = c] /\ pc = [pc EXCEPT ![t] = x]
      /\ result = [result EXCEPT ![t] = result[t]]
  BY <1>1, ThreadAt
<1>3. x = "read" => c.name = "read" /\ (c.got > 0 \/ count > 0)
  BY DEF IInv, Reading
<1>4. stuck # None => lock # None
  BY <1>2, Alone
<1> HIDE DEF c, x, y
<1>5. /\ lock = None => lock' = t /\ pc' = [pc EXCEPT ![t] = y] /\ busy' = t
      /\ lock # None => busy' = None /\ UNCHANGED <<lock, pc>>
      /\ UNCHANGED <<device, ring, stuck, call, result, received>>
  BY <1>1 DEF mutex_take
<1>6. call' = [call EXCEPT ![t] = c] /\ result' = [result EXCEPT ![t] = "ok"]
  BY <1>2, <1>5
<1>7. CASE lock = None
  BY <1>1, <1>2, <1>3, <1>4, <1>5, <1>6, <1>7, QuietMove DEF Places
<1>8. CASE lock # None
  <2>1. pc' = [pc EXCEPT ![t] = x] /\ x = "fd" /\ lock' = lock /\ busy' = None
    BY <1>1, <1>2, <1>5, <1>8
  <2> QED
    BY <1>2, <1>5, <1>6, <2>1, QuietMove DEF Places
<1> QED
  BY <1>7, <1>8

\* InputDevice::poll answers.
LEMMA AnswerStep ==
    ASSUME IInv, NEW t \in Threads, poll_input_answers(t)
    PROVE  IInv'
<1>1. /\ At(t, "poll_locked") /\ lock' = None
      /\ UNCHANGED <<device, ring, stuck, received>>
      /\ ~ready => /\ call' = rest(t) /\ pc' = [pc EXCEPT ![t] = "fd"]
                   /\ UNCHANGED <<busy, result>>
      /\ ready /\ call[t].name = "read" => /\ pc' = [pc EXCEPT ![t] = "read"]
                                           /\ UNCHANGED <<busy, call, result>>
      /\ ready /\ call[t].name # "read" => Return(t, "ok")
  BY DEF poll_input_answers
<1>2. /\ Runs(t) /\ call[t] \in Call /\ CallRight(call[t]) /\ result[t] = "ok"
      /\ lock = t /\ stuck = None /\ busy = t
      /\ call = [call EXCEPT ![t] = call[t]]
      /\ result = [result EXCEPT ![t] = result[t]]
  BY <1>1, ThreadAt
<1>3. t # None /\ call[t].fds # <<>>
  BY <1>1, InputAssumption DEF IInv, Reading, At
<1>4. CASE ~ready
  <2> DEFINE c == [call[t] EXCEPT !["fds"] = Tail(call[t].fds)]
  <2>1. c \in Call /\ CallRight(c) /\ call' = [call EXCEPT ![t] = c]
    BY <1>1, <1>3, <1>4, RestOfList
  <2> HIDE DEF c
  <2>2. /\ pc' = [pc EXCEPT ![t] = "fd"] /\ result' = [result EXCEPT ![t] = "ok"]
        /\ busy' = t
    BY <1>1, <1>2, <1>4
  <2> QED
    BY <1>1, <1>2, <1>3, <2>1, <2>2, QuietMove DEF Places
<1>5. CASE ready /\ call[t].name = "read"
  <2> DEFINE c == call[t]
  <2>1. count > 0
    BY <1>5 DEF ready, is_empty, IInv, TypeOK, RingTypeOK
  <2>2. /\ pc' = [pc EXCEPT ![t] = "read"] /\ result' = [result EXCEPT ![t] = "ok"]
        /\ call' = [call EXCEPT ![t] = c] /\ busy' = t /\ c.name = "read"
        /\ c \in Call /\ CallRight(c)
    BY <1>1, <1>2, <1>5
  <2> HIDE DEF c
  <2> QED
    BY <1>1, <1>2, <1>3, <2>1, <2>2, QuietMove DEF Places
<1>6. CASE ready /\ call[t].name # "read"
  BY <1>1, <1>2, <1>6, ReturnStep
<1> QED
  BY <1>4, <1>5, <1>6

\* sys$poll has been through its list.
LEMMA AgainStep ==
    ASSUME IInv, NEW t \in Threads, poll_again(t)
    PROVE  IInv'
<1>1. /\ At(t, "fd") /\ UNCHANGED <<device, ring, lock, stuck, received>>
      /\ timed_out(t) => Return(t, "timedout")
      /\ ~timed_out(t) => /\ call' = [call EXCEPT ![t]["fds"] = call[t].args]
                          /\ busy' = None /\ UNCHANGED <<pc, result>>
  BY DEF poll_again
<1>2. /\ Runs(t) /\ call[t] \in Call /\ CallRight(call[t]) /\ result[t] = "ok"
      /\ lock # t /\ pc = [pc EXCEPT ![t] = "fd"]
      /\ result = [result EXCEPT ![t] = result[t]]
  BY <1>1, ThreadAt
<1>3. CASE timed_out(t)
  BY <1>1, <1>2, <1>3, ReturnStep
<1>4. CASE ~timed_out(t)
  <2> DEFINE o == call[t]
             c == [o EXCEPT !["fds"] = o.args]
  <2>1. call' = [call EXCEPT ![t] = c]
    BY <1>1, <1>4 DEF IInv, Calls
  <2>2. o \in Call /\ CallRight(o)
    BY <1>2
  <2> HIDE DEF o
  <2>3. o.args \in Seq(Kinds)
    <3>1. Lists \subseteq Seq(Kinds)
      <4>1. <<>> \in Seq(Kinds) /\ <<"input">> \in Seq(Kinds)
        BY DEF Kinds
      <4>2. \A p \in Polls : p.fds \in Seq(Kinds)
        BY InputAssumption DEF Kinds
      <4> QED
        BY <4>1, <4>2 DEF Lists
    <3> QED
      BY <2>2, <3>1 DEF Call
  <2>4. c \in Call /\ c.name = o.name /\ c.events = o.events
        /\ c.got = o.got /\ c.timeout = o.timeout /\ c.elapsed = o.elapsed
        /\ c.now = o.now /\ c.start = o.start
    BY <2>2, <2>3 DEF Call
  <2>5. c.wrapped = o.wrapped
    BY <2>2, <2>3 DEF Call
  <2> HIDE DEF c
  <2>6. CallRight(c)
    BY <2>2, <2>4, <2>5 DEF CallRight, ClockRight
  <2>7. pc' = [pc EXCEPT ![t] = "fd"] /\ result' = [result EXCEPT ![t] = "ok"] /\ busy' = None
    BY <1>1, <1>2, <1>4
  <2> QED
    BY <1>1, <1>2, <2>1, <2>4, <2>6, <2>7, QuietMove DEF Places
<1> QED
  BY <1>3, <1>4

\* InputDevice::read returns, with at least one event.
LEMMA ReadReturnStep ==
    ASSUME IInv, NEW t \in Threads, read_returns(t)
    PROVE  IInv'
<1>1. PICK x \in {"read", "read_locked"} :
        /\ At(t, x) /\ UNCHANGED <<device, ring, stuck, received>>
        /\ x = "read" => call[t].got = call[t].events /\ lock' = lock
        /\ x = "read_locked" => count = 0 /\ lock' = None
  BY DEF read_returns, is_empty
<1>2. pc[t] = x /\ call[t] \in Call /\ CallRight(call[t])
      /\ (lock = t <=> x = "read_locked")
  BY <1>1, ThreadAt
<1>3. call[t].name = "read" /\ (call[t].got > 0 \/ count > 0)
  BY <1>2 DEF IInv, Reading
<1>4. call[t].got > 0 /\ call[t].got \in Nat
  <2>1. call[t].got \in Nat /\ call[t].events \in Nat /\ call[t].events > 0
    BY <1>2, <1>3 DEF Call, CallRight
  <2> QED
    BY <1>1, <1>3, <2>1
<1>5. Return(t, "ok")
  BY <1>4 DEF read_returns
<1>6. lock' = IF lock = t THEN None ELSE lock
  BY <1>1, <1>2
<1> QED
  BY <1>1, <1>5, <1>6, ReturnStep

\* get_next_event pops an event.
LEMMA PopStep ==
    ASSUME IInv, NEW t \in Threads, get_next_event_pops(t)
    PROVE  IInv'
<1> DEFINE o == call[t]
           c == [o EXCEPT !["got"] = o.got + 1]
           e == data[read_pos]
<1>1. /\ At(t, "read_locked") /\ pop /\ received' = Append(received, e)
      /\ call' = [call EXCEPT ![t]["got"] = @ + 1] /\ lock' = None
      /\ pc' = [pc EXCEPT ![t] = "read"] /\ UNCHANGED <<device, stuck, busy, result>>
  BY DEF get_next_event_pops
<1>2. /\ Runs(t) /\ o \in Call /\ CallRight(o) /\ result[t] = "ok"
      /\ lock = t /\ stuck = None /\ busy = t
      /\ result = [result EXCEPT ![t] = result[t]]
  BY <1>1, ThreadAt
<1>3. o.name = "read" /\ o.got < o.events /\ t # None
  BY <1>1, InputAssumption DEF IInv, Reading, At
<1>4. call' = [call EXCEPT ![t] = c]
  BY <1>1 DEF IInv, Calls
<1> HIDE DEF o
<1>5. /\ c \in Call /\ c.name = o.name /\ c.events = o.events
      /\ c.got = o.got + 1 /\ c.timeout = o.timeout /\ c.elapsed = o.elapsed
      /\ c.now = o.now /\ c.start = o.start /\ o.got \in Nat /\ o.events \in Nat
  BY <1>2 DEF Call
<1>6. c.wrapped = o.wrapped
  BY <1>2 DEF Call
<1> HIDE DEF c, e
<1>7. CallRight(c) /\ c.got > 0 /\ c.name = "read"
  BY <1>2, <1>3, <1>5, <1>6 DEF CallRight, ClockRight
<1>8. result' = [result EXCEPT ![t] = "ok"] /\ busy' = t
  BY <1>1, <1>2
<1>9. /\ Calls' /\ Reading' /\ Results' /\ Locking'
      /\ (lock \in Threads \cup {None})' /\ (busy \in Threads \cup {None})'
      /\ (pc \in [Threads -> Places])'
      /\ (result \in [Threads -> {"ok", "timedout", "empty"}])'
  BY <1>1, <1>2, <1>3, <1>4, <1>5, <1>7, <1>8, Moves DEF Places
<1>10. /\ count \in 1 .. N /\ read_pos \in Positions /\ N \in Nat \ {0}
       /\ read_pos' = (read_pos + 1) % N /\ count' = count - 1
       /\ UNCHANGED <<data, write_pos>>
  BY <1>1, RingBufferAssumption DEF pop, is_empty, IInv, TypeOK, RingTypeOK
<1>11. new_used' = new_used /\ KeysAt' = KeysAt /\ Notified' = Notified
       /\ UNCHANGED <<avail, m_eventsbuf, stuck>>
  BY <1>1, DeviceSame DEF device
<1>12. /\ RoundTrip(avail, new_used) /\ Numbered(Notified, KeysAt, new_used, m_eventsbuf)
       /\ Latest(Notified, data, read_pos, write_pos, count, received)
       /\ received \in Seq(Nat) /\ Notified \in Nat
  BY <1>2 DEF IInv, Events, Numbered
<1>13. e \in Nat /\ Latest(Notified, data, (read_pos + 1) % N, write_pos, count - 1,
                           Append(received, e))
  BY <1>10, <1>12, PopsNext DEF e
<1>14. received' \in Seq(Nat)
  BY <1>1, <1>12, <1>13
<1>15. Events'
  BY <1>1, <1>10, <1>11, <1>12, <1>13 DEF Events
<1>16. VirtqueueTypeOK' /\ RingTypeOK'
  <2>1. (read_pos + 1) % N \in Positions
    <3>1. read_pos + 1 \in Nat
      BY <1>10 DEF Positions
    <3> QED
      BY <1>10, <3>1, DivMod DEF Positions
  <2>2. RingTypeOK'
    BY <1>10, <2>1 DEF IInv, TypeOK, RingTypeOK
  <2>3. VirtqueueTypeOK'
    BY <1>1 DEF IInv, TypeOK, VirtqueueTypeOK, device, virtqueue, used
  <2> QED
    BY <2>2, <2>3
<1>17. TypeOK'
  BY <1>1, <1>9, <1>16, Unmoved, TypeParts
<1> QED
  BY <1>9, <1>14, <1>15, <1>17 DEF IInv

\* Time passes for a poll with a timeout.
LEMMA TickCall ==
    ASSUME NEW o \in Call, CallRight(o), o.timeout > 0
    PROVE  LET now == (o.now + 1) % ClockWrap
               c == [o EXCEPT !["now"] = now,
                              !["elapsed"] = IF @ < MaxElapsed THEN @ + 1 ELSE @,
                              !["wrapped"] = @ \/ now = 0]
           IN /\ c \in Call /\ CallRight(c)
              /\ c.name = o.name /\ c.fds = o.fds /\ c.got = o.got /\ c.events = o.events
<1> DEFINE now == (o.now + 1) % ClockWrap
           more == IF o.elapsed < MaxElapsed THEN o.elapsed + 1 ELSE o.elapsed
           over == o.wrapped \/ now = 0
           c == [o EXCEPT !["now"] = now, !["elapsed"] = more, !["wrapped"] = over]
<1>1. /\ ClockWrap \in Nat \ {0} /\ MaxElapsed \in Nat
      /\ o.now \in 0 .. ClockWrap - 1 /\ o.start \in 0 .. ClockWrap - 1
      /\ o.elapsed \in 0 .. MaxElapsed /\ o.timeout \in Nat
      /\ o.got \in Nat /\ o.events \in Nat
  BY InputAssumption DEF Call, Ticks
<1>2. now = IF o.now + 1 < ClockWrap THEN o.now + 1 ELSE 0
  <2> DEFINE y == o.now + 1
  <2>1. y \in 0 .. 2 * ClockWrap - 1 /\ y <= ClockWrap
    BY <1>1
  <2>2. y % ClockWrap = IF y < ClockWrap THEN y ELSE y - ClockWrap
    <3> HIDE DEF y
    <3> QED
      BY <1>1, <2>1, ModSmall
  <2> QED
    BY <1>1, <2>1, <2>2
<1>3. now \in Ticks /\ more \in 0 .. MaxElapsed
  BY <1>1, <1>2 DEF Ticks
<1>4. over \in BOOLEAN
  OBVIOUS
<1> HIDE DEF now, more, over
<1>5. /\ c \in Call /\ c.name = o.name /\ c.fds = o.fds /\ c.got = o.got
      /\ c.events = o.events /\ c.timeout = o.timeout /\ c.start = o.start
      /\ c.now = now /\ c.elapsed = more
  BY <1>3, <1>4 DEF Call
<1>6. c.wrapped = over
  BY DEF Call
<1> HIDE DEF c
<1>7. o.elapsed = MaxElapsed \/ o.now - o.start <= o.elapsed
  BY DEF CallRight, ClockRight
<1>8. c.elapsed = MaxElapsed \/ c.now - c.start <= c.elapsed
  BY <1>1, <1>2, <1>5, <1>7 DEF more
<1>9. ~c.wrapped => ~o.wrapped /\ now # 0
  BY <1>6 DEF over
<1>10. ~o.wrapped => o.elapsed <= o.now - o.start
  BY DEF CallRight, ClockRight
<1>11. ~c.wrapped => c.elapsed <= c.now - c.start
  <2> SUFFICES ASSUME ~c.wrapped PROVE c.elapsed <= c.now - c.start
    OBVIOUS
  <2>1. o.elapsed <= o.now - o.start /\ now # 0
    BY <1>9, <1>10
  <2> QED
    BY <1>1, <1>2, <1>5, <2>1 DEF more
<1>12. CallRight(c)
  BY <1>5, <1>8, <1>11 DEF CallRight, ClockRight
<1> QED
  BY <1>5, <1>12 DEF c, now, more, over

\* The clock goes on for a thread, wherever it is.
LEMMA TickStep ==
    ASSUME IInv, NEW t \in Threads, tick(t)
    PROVE  IInv'
<1> DEFINE o == call[t]
           now == (o.now + 1) % ClockWrap
           c == [o EXCEPT !["now"] = now,
                          !["elapsed"] = IF @ < MaxElapsed THEN @ + 1 ELSE @,
                          !["wrapped"] = @ \/ now = 0]
<1>1. call \in [Threads -> Call] /\ CallRight(o) /\ o.timeout > 0
  BY DEF IInv, Calls, tick
<1>2. call' = [call EXCEPT ![t] = c]
  BY <1>1 DEF tick
<1>3. /\ c \in Call /\ CallRight(c)
      /\ c.name = o.name /\ c.fds = o.fds /\ c.got = o.got /\ c.events = o.events
  BY <1>1, TickCall
<1> HIDE DEF c
<1>4. UNCHANGED <<device, ring, lock, stuck, busy, pc, result, received>>
  BY DEF tick
<1>5. call'[t] = c /\ \A u \in Threads : u # t => call'[u] = call[u]
  BY <1>1, <1>2
<1>6. Calls'
  <2>1. call' \in [Threads -> Call]
    BY <1>1, <1>2, <1>3
  <2> QED
    BY <1>3, <1>5, <2>1 DEF IInv, Calls
<1>7. Reading'
  <2>1. count' = count /\ Reading
    BY <1>4 DEF ring, IInv
  <2> QED
    BY <1>3, <1>4, <1>5, <2>1 DEF Reading
<1>8. Results' /\ Locking'
  BY <1>4 DEF IInv, Results, Locking
<1>9. VirtqueueTypeOK' /\ RingTypeOK' /\ received' \in Seq(Nat) /\ Events'
  BY <1>4, QuietStep
<1>10. /\ (lock \in Threads \cup {None})' /\ (busy \in Threads \cup {None})'
       /\ (pc \in [Threads -> Places])'
       /\ (result \in [Threads -> {"ok", "timedout", "empty"}])'
  BY <1>4 DEF IInv, TypeOK, Places
<1>11. TypeOK'
  BY <1>4, <1>6, <1>9, <1>10, Unmoved, TypeParts
<1> QED
  BY <1>6, <1>7, <1>8, <1>9, <1>11 DEF IInv

-----------------------------------------------------------------------------
(* Steps of the handler and the device                                     *)

\* The handler acknowledges the interrupt.
LEMMA AckStep == IInv /\ handle_irq_returns => IInv'
<1> SUFFICES ASSUME IInv, handle_irq_returns PROVE IInv'
  OBVIOUS
<1>1. /\ in_irq' = FALSE /\ irq_status' = FALSE
      /\ UNCHANGED <<queue, used_idx, used_ring, last_seen_used_idx, data, read_pos,
                     write_pos, count, avail, m_eventsbuf, lock, stuck, busy, pc,
                     call, result, pressed, received>>
  BY DEF handle_irq_returns, handle_irq_ack, used, ring, threads
<1>2. new_used' = new_used
  BY <1>1 DEF new_used, used_slot
<1>3. KeysAt' = KeysAt
  BY <1>1, <1>2, Zenon DEF KeysAt
<1>4. Notified' = Notified
  <2>1. VirtqueueTypeOK /\ VirtqueueTypeOK'
    BY <1>1 DEF IInv, TypeOK, VirtqueueTypeOK
  <2>2. Notified = pressed - Cardinality(KeysAt)
    BY <2>1, KeysFound
  <2>3. (Notified = pressed - Cardinality(KeysAt))'
    BY <2>1, KeysFound, PTL
  <2> QED
    BY <1>1, <1>3, <2>2, <2>3
<1>5. Events'
  BY <1>1, <1>2, <1>3, <1>4, Zenon DEF IInv, Events
<1>6. Calls' /\ Reading' /\ Results' /\ Locking'
  BY <1>1 DEF IInv, Calls, Reading, Results, Locking
<1>7. TypeOK'
  BY <1>1 DEF IInv, TypeOK, VirtqueueTypeOK, RingTypeOK
<1> QED
  BY <1>1, <1>5, <1>6, <1>7 DEF IInv

\* Concatenation, element by element.
LEMMA Joined ==
    ASSUME NEW S, NEW a \in Seq(S), NEW b \in Seq(S)
    PROVE  /\ a \o b \in Seq(S) /\ Len(a \o b) = Len(a) + Len(b)
           /\ DOMAIN (a \o b) = 1 .. Len(a) + Len(b)
           /\ \A i \in 1 .. Len(a) : (a \o b)[i] = a[i]
           /\ \A i \in 1 .. Len(b) : (a \o b)[Len(a) + i] = b[i]
           /\ \A i \in 1 .. Len(a) + Len(b) :
                \/ i \in 1 .. Len(a)
                \/ i - Len(a) \in 1 .. Len(b) /\ (a \o b)[i] = b[i - Len(a)]
BY Len(a) \in Nat, Len(b) \in Nat

\* The used buffers are given back.
LEMMA GivenBack ==
    ASSUME NEW a \in Seq(Descs), NEW u \in Seq(Descs), RoundTrip(a, u)
    PROVE  RoundTrip(a \o u, <<>>)
<1> DEFINE s == a \o u
           m == Len(a)
           n == Len(u)
<1>1. m \in Nat /\ n \in Nat /\ DOMAIN a = 1 .. m /\ DOMAIN u = 1 .. n
  OBVIOUS
<1>2. /\ Len(s) = m + n /\ DOMAIN s = 1 .. m + n
      /\ \A i \in 1 .. m : s[i] = a[i]
      /\ \A i \in 1 .. m + n : i \in 1 .. m \/ (i - m \in 1 .. n /\ s[i] = u[i - m])
  BY Joined
<1>3. m + n = Size - 1
  BY DEF RoundTrip
<1>4. /\ \A j, k \in 1 .. m : a[j] = a[k] => j = k
      /\ \A j, k \in 1 .. n : u[j] = u[k] => j = k
      /\ \A j \in 1 .. m, k \in 1 .. n : a[j] # u[k]
  BY <1>1 DEF RoundTrip, OneToOne
<1> HIDE DEF s, m, n
<1>5. ASSUME NEW j \in 1 .. m + n, NEW k \in 1 .. m + n, s[j] = s[k] PROVE j = k
  <2>1. CASE j \in 1 .. m /\ k \in 1 .. m
    BY <1>2, <1>4, <1>5, <2>1
  <2>2. CASE j \in 1 .. m /\ k \notin 1 .. m
    BY <1>2, <1>4, <1>5, <2>2
  <2>3. CASE j \notin 1 .. m /\ k \in 1 .. m
    BY <1>2, <1>4, <1>5, <2>3
  <2>4. CASE j \notin 1 .. m /\ k \notin 1 .. m
    <3>1. j - m \in 1 .. n /\ k - m \in 1 .. n /\ u[j - m] = u[k - m]
      BY <1>2, <1>5, <2>4
    <3>2. j - m = k - m
      BY <1>4, <3>1
    <3> QED
      BY <1>1, <3>2
  <2> QED
    BY <2>1, <2>2, <2>3, <2>4
<1>6. OneToOne(s)
  BY <1>2, <1>5 DEF OneToOne
<1>7. Len(s) + Len(<<>>) = Size - 1 /\ OneToOne(<<>>) /\ DOMAIN <<>> = {}
  BY <1>1, <1>2, <1>3, VirtqueueAssumption DEF OneToOne
<1>8. RoundTrip(s, <<>>)
  BY <1>6, <1>7 DEF RoundTrip
<1> QED
  BY <1>8 DEF s

\* The handler visits the used buffers.
LEMMA HandlerStep == IInv /\ handle_irq => IInv'
<1> SUFFICES ASSUME IInv, handle_irq PROVE IInv'
  OBVIOUS
<1> DEFINE n == Len(Keys)
           w == Notified
           kept == Kept(count, n)
           es == Keys
<1>1. /\ stuck = None /\ foreach_used_descriptor /\ in_irq' = TRUE
      /\ UNCHANGED <<queue, irq_status, lock, stuck, busy, pc, call, result, pressed, received>>
      /\ avail' = avail \o new_used
      /\ m_eventsbuf' = [d \in Descs |-> IF \E k \in DOMAIN new_used : new_used[k] = d THEN 0
                                         ELSE m_eventsbuf[d]]
  BY DEF handle_irq, made_available, threads
<1>2. /\ data' = Pushed(data, write_pos, n, es)
      /\ write_pos' = (write_pos + n) % N /\ count' = kept
      /\ read_pos' = (read_pos + (count + n - kept)) % N
  BY DEF handle_irq, notify_events, Pushed, Kept
<1>3. /\ VirtqueueTypeOK /\ RingTypeOK /\ received \in Seq(Nat) /\ pressed \in 0 .. MaxKeys
      /\ avail \in Seq(Descs) /\ m_eventsbuf \in [Descs -> 0 .. MaxKeys]
      /\ RoundTrip(avail, new_used) /\ Numbered(w, KeysAt, new_used, m_eventsbuf)
      /\ Latest(w, data, read_pos, write_pos, count, received) /\ w \in Nat
  BY <1>1 DEF IInv, TypeOK, Events, Numbered
<1>4. /\ n \in Nat /\ n = Cardinality(KeysAt) /\ w = pressed - n /\ pressed \in Nat
      /\ pressed = w + n /\ pressed <= MaxKeys
  <2>1. n \in Nat /\ n = Cardinality(KeysAt) /\ w = pressed - n
    BY <1>3, KeysFound
  <2>2. pressed \in Nat /\ pressed <= MaxKeys
    BY <1>3, InputAssumption
  <2> HIDE DEF n, w
  <2> QED
    BY <2>1, <2>2
<1>5. \A i \in 1 .. n : es[i] = w + i
  BY <1>3, <1>4, KeysInOrder
<1> HIDE DEF n, w, es
<1>6. Following(es, n, w)
  <2>1. T = 1 .. MaxKeys /\ MaxKeys \in Nat
    BY InputAssumption
  <2>2. n \in Nat /\ w \in Nat /\ w + n <= MaxKeys
    BY <1>3, <1>4
  <2>3. \A i \in 1 .. n : w + i \in 1 .. MaxKeys
    BY <2>1, <2>2
  <2> QED
    BY <1>5, <2>1, <2>3 DEF Following
<1>7. count \in 0 .. N /\ data \in [Positions -> T] /\ N \in Nat \ {0}
  BY <1>3, RingBufferAssumption DEF RingTypeOK
<1>8. kept = Kept(count, n)
  OBVIOUS
<1> HIDE DEF kept
<1>9. /\ data' \in [Positions -> T] /\ kept \in 0 .. N
      /\ (write_pos + n) % N \in Positions
      /\ (read_pos + (count + n - kept)) % N \in Positions
      /\ Latest(pressed, data', (read_pos + (count + n - kept)) % N,
                (write_pos + n) % N, kept, received)
  <2> DEFINE dd == Pushed(data, write_pos, n, es)
  <2>1. /\ dd \in [Positions -> T] /\ Kept(count, n) \in 0 .. N
        /\ (write_pos + n) % N \in Positions
        /\ (read_pos + (count + n - Kept(count, n))) % N \in Positions
        /\ Latest(w + n, dd, (read_pos + (count + n - Kept(count, n))) % N,
                  (write_pos + n) % N, Kept(count, n), received)
    BY <1>3, <1>4, <1>6, <1>7, PushesAll, Zenon
  <2> QED
    BY <1>2, <1>4, <1>8, <2>1
<1>10. RingTypeOK'
  BY <1>2, <1>9 DEF RingTypeOK
<1>11. VirtqueueTypeOK'
  <2>1. used_idx \in 0 .. Wrap - 1
    BY <1>3 DEF VirtqueueTypeOK
  <2>2. used_slot \in Descs /\ 0 \in Descs
    BY <2>1, SlotSucc, VirtqueueAssumption DEF used_slot, Descs
  <2> QED
    BY <1>1, <1>3, <2>2 DEF foreach_used_descriptor, VirtqueueTypeOK
<1>12. new_used' = <<>>
  BY <1>1, <1>3, NothingNew
<1>13. KeysAt' = {} /\ Notified' = pressed
  <2>1. KeysAt' \in SUBSET (1 .. Len(new_used')) /\ Notified' = pressed' - Cardinality(KeysAt')
    <3>1. (KeysAt \in SUBSET (1 .. Len(new_used)) /\ Notified = pressed - Cardinality(KeysAt))'
      BY <1>11, KeysFound, PTL
    <3> QED
      BY <3>1
  <2>2. KeysAt' = {}
    BY <1>12 DEF KeysAt
  <2>3. Cardinality(KeysAt') = 0
    BY <2>2, FS_EmptySet
  <2>4. Notified' = pressed - 0
    BY <1>1, <2>1, <2>3
  <2> QED
    BY <1>4, <2>2, <2>4
<1>14. new_used \in Seq(Descs)
  BY <1>3, NewUsed
<1>15. RoundTrip(avail', new_used')
  <2>1. RoundTrip(avail \o new_used, <<>>)
    BY <1>3, <1>14, GivenBack
  <2> QED
    BY <1>1, <1>12, <2>1
<1>16. avail' \in Seq(Descs) /\ Len(avail') <= Size
  <2>1. avail' \in Seq(Descs) /\ Len(avail') = Len(avail) + Len(new_used)
    BY <1>1, <1>3, <1>14, Joined
  <2>2. Len(avail) + Len(new_used) = Size - 1 /\ Size \in Nat
    BY <1>3, VirtqueueAssumption DEF RoundTrip
  <2> QED
    BY <2>1, <2>2
<1>17. m_eventsbuf' \in [Descs -> 0 .. MaxKeys]
  <2>1. 0 \in 0 .. MaxKeys
    BY InputAssumption
  <2>2. \A d \in Descs : (IF \E k \in DOMAIN new_used : new_used[k] = d THEN 0
                          ELSE m_eventsbuf[d]) \in 0 .. MaxKeys
    BY <1>3, <2>1
  <2> QED
    BY <1>1, <2>2
<1>18. Events'
  <2>1. Numbered(Notified', KeysAt', new_used', m_eventsbuf')
    BY <1>4, <1>13 DEF Numbered
  <2>2. Latest(Notified', data', read_pos', write_pos', count', received')
    BY <1>1, <1>2, <1>9, <1>13
  <2> QED
    BY <1>15, <2>1, <2>2 DEF Events
<1>19. Calls' /\ Results' /\ Locking'
  BY <1>1 DEF IInv, Calls, Results, Locking
<1>20. Reading'
  <2>1. count > 0 => count' > 0
    BY <1>2, <1>4, <1>7, <1>8 DEF Kept
  <2> QED
    BY <1>1, <2>1 DEF IInv, Reading
<1>21. TypeOK'
  <2>1. /\ (pressed \in 0 .. MaxKeys)' /\ (lock \in Threads \cup {None})'
        /\ (stuck \in Threads \cup {None})' /\ (busy \in Threads \cup {None})'
        /\ (pc \in [Threads -> Places])'
        /\ (result \in [Threads -> {"ok", "timedout", "empty"}])'
    BY <1>1 DEF IInv, TypeOK, Places
  <2> QED
    BY <1>10, <1>11, <1>16, <1>17, <1>19, <2>1, TypeParts
<1> QED
  BY <1>1, <1>3, <1>18, <1>19, <1>20, <1>21 DEF IInv

\* The handler waits for the mutex and never comes back.
LEMMA DeadlockStep == IInv /\ handle_irq_deadlocks => IInv'
<1> SUFFICES ASSUME IInv, handle_irq_deadlocks PROVE IInv'
  OBVIOUS
<1> DEFINE n == Len(new_used)
           f == first_key
           ds == SubSeq(new_used, 1, f - 1)
<1>1. /\ stuck = None /\ Keys # <<>> /\ lock # None /\ stuck' = lock /\ busy' = None
      /\ UNCHANGED <<queue, used_idx, used_ring, last_seen_used_idx, irq_status, in_irq,
                     data, read_pos, write_pos, count, lock, pc, call, result, pressed, received>>
      /\ avail' = avail \o ds
      /\ m_eventsbuf' = [d \in Descs |-> IF \E k \in DOMAIN ds : ds[k] = d THEN 0
                                         ELSE m_eventsbuf[d]]
  BY DEF handle_irq_deadlocks, made_available, virtqueue, used, ring
<1>2. /\ VirtqueueTypeOK /\ avail \in Seq(Descs) /\ lock \in Threads
      /\ m_eventsbuf \in [Descs -> 0 .. MaxKeys] /\ RoundTrip(avail, new_used)
      /\ pc \in [Threads -> Places]
  BY <1>1 DEF IInv, TypeOK, Events, Places
<1>3. new_used \in Seq(Descs) /\ n \in Nat /\ KeysAt \in SUBSET (1 .. n) /\ KeysAt # {}
      /\ DOMAIN new_used = 1 .. n
  BY <1>1, <1>2, NewUsed, KeysFound
<1>4. f \in 1 .. n
  <2> DEFINE first(k) == /\ m_eventsbuf[new_used[k]] # 0
                         /\ \A j \in 1 .. k - 1 : m_eventsbuf[new_used[j]] = 0
  <2>1. KeysAt \in SUBSET Nat
    BY <1>3
  <2>2. PICK m \in KeysAt : \A k \in KeysAt : m <= k
    BY <1>3, <2>1, LeastNatural
  <2>3. m \in 1 .. n /\ m_eventsbuf[new_used[m]] # 0
    BY <1>3, <2>2 DEF KeysAt
  <2>4. ASSUME NEW j \in 1 .. m - 1 PROVE m_eventsbuf[new_used[j]] = 0
    <3>1. j \in 1 .. n /\ ~(m <= j)
      BY <1>3, <2>3
    <3>2. j \notin KeysAt
      BY <2>2, <3>1
    <3> QED
      BY <1>3, <3>1, <3>2 DEF KeysAt
  <2>5. \E k \in DOMAIN new_used : first(k)
    BY <1>3, <2>3, <2>4
  <2>6. f = CHOOSE k \in DOMAIN new_used : first(k)
    BY DEF first_key
  <2> HIDE DEF first, f
  <2>7. f \in DOMAIN new_used
    BY <2>5, <2>6
  <2> QED
    BY <1>3, <2>7
<1> HIDE DEF f
<1>5. ds \in Seq(Descs) /\ Len(ds) <= n /\ Len(ds) \in Nat
  BY <1>3, <1>4
<1> HIDE DEF ds
<1>6. avail' \in Seq(Descs) /\ Len(avail') <= Size
  <2>1. avail' \in Seq(Descs) /\ Len(avail') = Len(avail) + Len(ds) /\ Len(avail) \in Nat
    BY <1>1, <1>2, <1>5, Joined
  <2>2. Len(avail) + n = Size - 1 /\ Size \in Nat
    BY <1>2, VirtqueueAssumption DEF RoundTrip
  <2> QED
    BY <1>3, <1>5, <2>1, <2>2
<1>7. m_eventsbuf' \in [Descs -> 0 .. MaxKeys]
  <2>1. 0 \in 0 .. MaxKeys
    BY InputAssumption
  <2>2. \A d \in Descs : (IF \E k \in DOMAIN ds : ds[k] = d THEN 0
                          ELSE m_eventsbuf[d]) \in 0 .. MaxKeys
    BY <1>2, <2>1
  <2> QED
    BY <1>1, <2>2
<1>8. stuck' # None /\ Events'
  BY <1>1 DEF Events
<1>9. Calls' /\ Results' /\ Reading'
  BY <1>1 DEF IInv, Calls, Results, Reading
<1>10. Locking'
  <2>1. Locking
    BY DEF IInv
  <2>2. pc[lock] \in {"read_locked", "poll_locked"}
    BY <1>2, <2>1 DEF Locking
  <2>3. busy = lock
    BY <1>1, <1>2, <2>1, <2>2 DEF Locking
  <2>4. \A u \in Threads : u # lock => pc[u] \in {"idle", "fd"}
    BY <1>1, <1>2, <2>1, <2>3 DEF Locking, Places
  <2> QED
    BY <1>1, <1>2, <2>1, <2>4 DEF Locking
<1>11. TypeOK'
  <2>1. /\ (pressed \in 0 .. MaxKeys)' /\ (lock \in Threads \cup {None})'
        /\ (stuck \in Threads \cup {None})' /\ (busy \in Threads \cup {None})'
        /\ (pc \in [Threads -> Places])'
        /\ (result \in [Threads -> {"ok", "timedout", "empty"}])'
        /\ VirtqueueTypeOK' /\ RingTypeOK'
    BY <1>1 DEF IInv, TypeOK, Places, VirtqueueTypeOK, RingTypeOK
  <2> QED
    BY <1>6, <1>7, <1>9, <2>1, TypeParts
<1>12. received' \in Seq(Nat)
  BY <1>1 DEF IInv
<1> QED
  BY <1>8, <1>9, <1>10, <1>11, <1>12 DEF IInv

\* The device takes the first of the buffers it may fill.
LEMMA BufferUsed ==
    ASSUME NEW a \in Seq(Descs), a # <<>>, NEW u, NEW v, DOMAIN u = 1 .. Len(u),
           Len(u) \in Nat, RoundTrip(a, u), DOMAIN v = 1 .. Len(v),
           Len(v) = Len(u) + 1, v[Len(u) + 1] = Head(a),
           \A k \in 1 .. Len(u) : v[k] = u[k]
    PROVE  /\ Tail(a) \in Seq(Descs) /\ RoundTrip(Tail(a), v)
           /\ \A k \in 1 .. Len(u) : u[k] # Head(a)
<1> DEFINE m == Len(a)
           n == Len(u)
           b == Tail(a)
           h == Head(a)
<1>1. m \in Nat /\ m >= 1 /\ DOMAIN a = 1 .. m /\ h = a[1]
  OBVIOUS
<1>2. b \in Seq(Descs) /\ Len(b) = m - 1 /\ DOMAIN b = 1 .. m - 1
      /\ \A k \in 1 .. m - 1 : b[k] = a[k + 1]
  OBVIOUS
<1>3. /\ m + n = Size - 1
      /\ \A j, k \in 1 .. m : a[j] = a[k] => j = k
      /\ \A j, k \in 1 .. n : u[j] = u[k] => j = k
      /\ \A j \in 1 .. m, k \in 1 .. n : a[j] # u[k]
  BY <1>1 DEF RoundTrip, OneToOne
<1>4. /\ n \in Nat /\ Len(v) = n + 1 /\ DOMAIN v = 1 .. n + 1 /\ v[n + 1] = h
      /\ \A k \in 1 .. n : v[k] = u[k]
  OBVIOUS
<1> HIDE DEF m, n, b, h
<1>5. \A k \in 1 .. n : u[k] # h
  BY <1>1, <1>3
<1>6. \A k \in 1 .. m - 1 : k + 1 \in 1 .. m /\ k + 1 # 1 /\ b[k] # h
  BY <1>1, <1>2, <1>3
<1>7. OneToOne(b)
  <2> SUFFICES ASSUME NEW j \in 1 .. m - 1, NEW k \in 1 .. m - 1, b[j] = b[k] PROVE j = k
    BY <1>2 DEF OneToOne
  <2>1. a[j + 1] = a[k + 1] /\ j + 1 \in 1 .. m /\ k + 1 \in 1 .. m
    BY <1>2, <1>6
  <2>2. j + 1 = k + 1
    BY <1>3, <2>1
  <2> QED
    BY <1>1, <2>2
<1>8. \A k \in 1 .. n + 1 : k \in 1 .. n \/ k = n + 1
  BY <1>4
<1>9. OneToOne(v)
  <2> SUFFICES ASSUME NEW j \in 1 .. n + 1, NEW k \in 1 .. n + 1, v[j] = v[k] PROVE j = k
    BY <1>4 DEF OneToOne
  <2>1. CASE j \in 1 .. n /\ k \in 1 .. n
    BY <1>3, <1>4, <2>1
  <2>2. CASE j = n + 1 /\ k \in 1 .. n
    BY <1>4, <1>5, <2>2
  <2>3. CASE j \in 1 .. n /\ k = n + 1
    BY <1>4, <1>5, <2>3
  <2> QED
    BY <1>8, <2>1, <2>2, <2>3
<1>10. ASSUME NEW j \in 1 .. m - 1, NEW k \in 1 .. n + 1 PROVE b[j] # v[k]
  <2>1. CASE k \in 1 .. n
    <3>1. b[j] = a[j + 1] /\ j + 1 \in 1 .. m /\ v[k] = u[k]
      BY <1>2, <1>4, <1>6, <2>1
    <3> QED
      BY <1>3, <2>1, <3>1
  <2>2. CASE k = n + 1
    BY <1>4, <1>6, <2>2
  <2> QED
    BY <1>8, <2>1, <2>2
<1>11. Len(b) + Len(v) = Size - 1
  <2>1. /\ m \in Nat /\ n \in Nat /\ Size \in Nat /\ m + n = Size - 1
        /\ Len(b) = m - 1 /\ Len(v) = n + 1
    BY <1>1, <1>2, <1>3, <1>4, VirtqueueAssumption, Zenon
  <2> QED
    BY <2>1
<1>12. RoundTrip(b, v)
  <2>1. \A j \in DOMAIN b, k \in DOMAIN v : b[j] # v[k]
    BY <1>2, <1>4, <1>10, Zenon
  <2> QED
    BY <1>7, <1>9, <1>11, <2>1, Zenon DEF RoundTrip
<1> QED
  BY <1>2, <1>5, <1>12 DEF n, b, h

\* The device has filled a buffer.
LEMMA DeviceStep ==
    ASSUME IInv, NEW key \in BOOLEAN, device_fills(key)
    PROVE  IInv'
<1> DEFINE d == Head(avail)
           n == Len(new_used)
           x == IF key THEN pressed' ELSE 0
<1>1. /\ avail # <<>> /\ avail' = Tail(avail) /\ pressed < MaxKeys
      /\ pressed' = IF key THEN pressed + 1 ELSE pressed
      /\ m_eventsbuf' = [m_eventsbuf EXCEPT ![d] = x]
      /\ put_used(d)
      /\ UNCHANGED <<queue, last_seen_used_idx, in_irq, data, read_pos, write_pos, count,
                     lock, stuck, busy, pc, call, result, received>>
  BY DEF device_fills, ring, threads
<1>2. /\ VirtqueueTypeOK /\ RingTypeOK /\ pressed \in Nat /\ MaxKeys \in Nat
      /\ avail \in Seq(Descs) /\ Len(avail) <= Size
      /\ m_eventsbuf \in [Descs -> 0 .. MaxKeys]
  BY InputAssumption DEF IInv, TypeOK
<1>3. d \in Descs /\ avail' \in Seq(Descs) /\ Len(avail') <= Size /\ Len(avail) >= 1
      /\ Len(avail) \in Nat
  BY <1>1, <1>2, VirtqueueAssumption
<1>4. pressed' \in 0 .. MaxKeys /\ pressed' \in Nat
  BY <1>1, <1>2
<1> HIDE DEF d
<1>5. x \in 0 .. MaxKeys
  BY <1>2, <1>4
<1>6. m_eventsbuf' \in [Descs -> 0 .. MaxKeys] /\ m_eventsbuf'[d] = x
      /\ \A e \in Descs : e # d => m_eventsbuf'[e] = m_eventsbuf[e]
  <2> HIDE DEF x
  <2> QED
    BY <1>1, <1>2, <1>3, <1>5
<1>7. VirtqueueTypeOK'
  <2>1. /\ used_idx \in 0 .. Wrap - 1 /\ used_ring \in [Descs -> Descs]
        /\ Wrap \in Nat \ {0}
    BY <1>2, VirtqueueAssumption DEF VirtqueueTypeOK
  <2>2. used_idx % Size \in Descs
    BY <2>1, SlotSucc DEF Descs
  <2>3. (used_idx + 1) % Wrap \in 0 .. Wrap - 1
    <3>1. used_idx + 1 \in Nat
      BY <2>1
    <3> QED
      BY <2>1, <3>1, DivMod
  <2>4. used_ring' \in [Descs -> Descs] /\ used_idx' \in 0 .. Wrap - 1 /\ irq_status' \in BOOLEAN
    BY <1>1, <1>3, <2>1, <2>2, <2>3 DEF put_used
  <2> QED
    BY <1>1, <1>2, <2>4 DEF VirtqueueTypeOK
<1>8. Calls' /\ Reading' /\ Results' /\ Locking' /\ received' \in Seq(Nat)
  BY <1>1 DEF IInv, Calls, Reading, Results, Locking
<1>9. TypeOK'
  <2>1. /\ (lock \in Threads \cup {None})'
        /\ (stuck \in Threads \cup {None})' /\ (busy \in Threads \cup {None})'
        /\ (pc \in [Threads -> Places])'
        /\ (result \in [Threads -> {"ok", "timedout", "empty"}])' /\ RingTypeOK'
    BY <1>1 DEF IInv, TypeOK, Places, RingTypeOK
  <2> QED
    BY <1>3, <1>4, <1>6, <1>7, <1>8, <2>1, TypeParts
<1>10. ASSUME stuck = None
       PROVE  /\ RoundTrip(avail', new_used')
              /\ Numbered(Notified', KeysAt', new_used', m_eventsbuf')
              /\ Notified' = Notified
  <2> DEFINE c == Cardinality(KeysAt)
             v == new_used'
  <2>1. RoundTrip(avail, new_used) /\ Numbered(Notified, KeysAt, new_used, m_eventsbuf)
    BY <1>10 DEF IInv, Events
  <2>2. /\ n \in Nat /\ new_used \in Seq(Descs) /\ DOMAIN new_used = 1 .. n /\ n < Size - 1
        /\ \A k \in 1 .. n : new_used[k] \in Descs
    <3>1. new_used \in Seq(Descs) /\ DOMAIN new_used = 1 .. n /\ n \in Nat
      BY <1>2, NewUsed
    <3>2. Len(avail) + n = Size - 1
      BY <2>1 DEF RoundTrip
    <3>3. n < Size - 1
      BY <1>3, <3>1, <3>2, VirtqueueAssumption
    <3> QED
      BY <3>1, <3>3
  <2>3. Len(v) = n + 1 /\ v[n + 1] = d /\ \A k \in 1 .. n : v[k] = new_used[k]
    BY <1>1, <1>2, <1>3, <1>7, <2>2, PutUsed
  <2>4. DOMAIN v = 1 .. n + 1
    <3>1. (DOMAIN new_used = 1 .. Len(new_used))'
      BY <1>7, NewUsed, PTL
    <3>2. DOMAIN v = 1 .. Len(v)
      BY <3>1
    <3> QED
      BY <2>3, <3>2
  <2> HIDE DEF v
  <2>5. RoundTrip(Tail(avail), v) /\ \A k \in 1 .. n : new_used[k] # d
    <3>1. /\ avail \in Seq(Descs) /\ avail # <<>>
          /\ DOMAIN new_used = 1 .. Len(new_used) /\ Len(new_used) \in Nat
          /\ DOMAIN v = 1 .. Len(v) /\ Len(v) = Len(new_used) + 1
          /\ v[Len(new_used) + 1] = Head(avail)
          /\ \A k \in 1 .. Len(new_used) : v[k] = new_used[k]
      BY <1>1, <1>2, <2>2, <2>3, <2>4 DEF d
    <3>2. /\ RoundTrip(Tail(avail), v)
          /\ \A k \in 1 .. Len(new_used) : new_used[k] # Head(avail)
      BY <2>1, <3>1, BufferUsed, Zenon
    <3> QED
      BY <3>2 DEF d
  <2>6. \A k \in 1 .. n : m_eventsbuf'[v[k]] = m_eventsbuf[new_used[k]]
    BY <1>6, <2>2, <2>3, <2>5
  <2>7. m_eventsbuf'[v[n + 1]] = x
    BY <1>6, <2>3
  <2>8. /\ KeysAt \in SUBSET (1 .. n) /\ c \in Nat /\ Notified = pressed - c
        /\ Notified \in Nat /\ \A k \in KeysAt : m_eventsbuf[new_used[k]] = Notified + Rank(KeysAt, k)
    BY <1>2, <2>1, KeysFound DEF Numbered
  <2>9. Notified' = pressed' - Cardinality(KeysAt')
    <3>1. (Notified = pressed - Cardinality(KeysAt))'
      BY <1>7, KeysFound, PTL
    <3> QED
      BY <3>1
  <2>10. KeysAt' = {k \in 1 .. n + 1 : m_eventsbuf'[v[k]] # 0}
    BY <2>4 DEF KeysAt, v
  <2>11. KeysAt = {k \in 1 .. n : m_eventsbuf[new_used[k]] # 0}
    BY <2>2 DEF KeysAt
  <2> HIDE DEF n, c
  <2>12. CASE key
    <3>1. x # 0 /\ x = pressed + 1 /\ pressed' = pressed + 1
      BY <1>1, <1>2, <2>12
    <3>2. KeysAt' = KeysAt \cup {n + 1}
      BY <2>2, <2>6, <2>7, <2>10, <2>11, <3>1
    <3>3. /\ Cardinality(KeysAt') = c + 1 /\ Rank(KeysAt', n + 1) = c + 1
          /\ \A k \in KeysAt : Rank(KeysAt', k) = Rank(KeysAt, k)
      BY <2>2, <2>8, <3>2, RankAppend DEF c
    <3>4. Notified' = Notified
      BY <1>2, <2>8, <2>9, <3>1, <3>3
    <3>5. ASSUME NEW k \in KeysAt' PROVE m_eventsbuf'[v[k]] = Notified + Rank(KeysAt', k)
      <4>1. CASE k \in KeysAt
        BY <2>6, <2>8, <3>3, <4>1
      <4>2. CASE k = n + 1
        BY <1>2, <2>7, <2>8, <3>1, <3>3, <4>2
      <4> QED
        BY <3>2, <4>1, <4>2
    <3> QED
      BY <1>1, <2>5, <2>8, <3>4, <3>5 DEF Numbered, v
  <2>13. CASE ~key
    <3>1. x = 0 /\ pressed' = pressed
      BY <1>1, <2>13
    <3>2. KeysAt' = KeysAt
      BY <2>2, <2>6, <2>7, <2>10, <2>11, <3>1
    <3>3. Notified' = Notified
      BY <2>8, <2>9, <3>1, <3>2 DEF c
    <3>4. \A k \in KeysAt : m_eventsbuf'[v[k]] = Notified + Rank(KeysAt, k)
      BY <2>6, <2>8
    <3> QED
      BY <1>1, <2>5, <2>8, <3>2, <3>3, <3>4 DEF Numbered, v
  <2> QED
    BY <2>12, <2>13
<1>11. Events'
  BY <1>1, <1>10 DEF IInv, Events
<1> QED
  BY <1>8, <1>9, <1>11 DEF IInv

-----------------------------------------------------------------------------
(* The theorems                                                            *)

\* The driver has given all buffers but one descriptor to the device, and no
\* program has read anything.
LEMMA InitInvariant == Init => IInv
<1> SUFFICES ASSUME Init PROVE IInv
  OBVIOUS
<1>1. /\ queue = [first_free_desc_idx |-> Size - 1,
                  next |-> [k \in Descs |-> IF k = Size - 1 THEN Size ELSE 0]]
      /\ used_idx = 0 /\ used_ring = [k \in Descs |-> 0] /\ last_seen_used_idx = 0
      /\ irq_status = FALSE /\ in_irq = FALSE
      /\ data = [p \in Positions |-> 1] /\ read_pos = 0 /\ write_pos = 0 /\ count = 0
      /\ avail = [k \in 1 .. Size - 1 |-> k - 1] /\ m_eventsbuf = [d \in Descs |-> 0]
      /\ lock = None /\ stuck = None /\ busy = None
      /\ pc = [t \in Threads |-> "idle"] /\ call = [t \in Threads |-> Idle]
      /\ result = [t \in Threads |-> "ok"] /\ pressed = 0 /\ received = <<>>
  BY DEF Init, init
<1>2. /\ Size \in Nat \ {0} /\ Wrap \in Nat \ {0} /\ N \in Nat \ {0} /\ MaxKeys \in Nat
      /\ T # {} /\ T = 1 .. MaxKeys /\ None \notin Threads
  BY VirtqueueAssumption, RingBufferAssumption, InputAssumption
<1>3. 1 \in T /\ 0 \in Descs /\ 0 \in 0 .. MaxKeys /\ 0 \in Positions /\ Size - 1 \in Nat
  BY <1>2 DEF Descs, Positions
<1>4. VirtqueueTypeOK
  <2>1. Size - 1 \in 0 .. Size /\ Size \in 0 .. Size /\ 0 \in 0 .. Size /\ 0 \in 0 .. Wrap - 1
    BY <1>2
  <2> QED
    BY <1>1, <1>3, <2>1 DEF VirtqueueTypeOK
<1>5. RingTypeOK
  BY <1>1, <1>2, <1>3 DEF RingTypeOK
<1>6. avail \in Seq(Descs) /\ Len(avail) = Size - 1
  <2>1. avail \in [1 .. Size - 1 -> Descs]
    BY <1>1, <1>2 DEF Descs
  <2> DEFINE m == Size - 1
  <2>2. m \in Nat /\ avail \in [1 .. m -> Descs]
    BY <1>3, <2>1
  <2> HIDE DEF m
  <2>3. avail \in Seq(Descs) /\ Len(avail) = m
    BY <2>2, IsSequence
  <2> QED
    BY <2>3 DEF m
<1>7. Calls
  BY <1>1, IdleCall DEF Calls
<1>8. TypeOK
  <2>1. \A t \in Threads : /\ call[t].name \in {"none", "read", "poll"}
                           /\ call[t].args \in Lists
                           /\ call[t].start \in 0 .. ClockWrap - 1
                           /\ call[t].now \in 0 .. ClockWrap - 1
                           /\ call[t].got \in 0 .. call[t].events
    <3> SUFFICES ASSUME NEW t \in Threads
                 PROVE  /\ call[t].name \in {"none", "read", "poll"}
                        /\ call[t].args \in Lists
                        /\ call[t].start \in 0 .. ClockWrap - 1
                        /\ call[t].now \in 0 .. ClockWrap - 1
                        /\ call[t].got \in 0 .. call[t].events
      OBVIOUS
    <3>1. call[t] \in Call /\ call[t].got <= call[t].events
      BY <1>7 DEF Calls, CallRight
    <3> QED
      BY <3>1 DEF Call, Ticks
  <2>2. Len(avail) <= Size
    BY <1>2, <1>6
  <2>3. m_eventsbuf \in [Descs -> 0 .. MaxKeys] /\ pressed \in 0 .. MaxKeys
    BY <1>1, <1>3
  <2>4. /\ pc \in [Threads -> {"idle", "fd", "poll_locked", "read", "read_locked"}]
        /\ result \in [Threads -> {"ok", "timedout", "empty"}]
        /\ lock \in Threads \cup {None} /\ stuck \in Threads \cup {None}
        /\ busy \in Threads \cup {None}
    BY <1>1
  <2> QED
    BY <1>4, <1>5, <1>6, <2>1, <2>2, <2>3, <2>4, Zenon DEF TypeOK
<1>9. Reading /\ Results /\ Locking
  BY <1>1, <1>2 DEF Reading, Results, Locking
<1>10. new_used = <<>>
  <2>1. new_used \in Seq(Descs) /\ Len(new_used) = Unseen(0, 0)
    BY <1>1, <1>4, NewUsed
  <2>2. 0 % Size = 0
    BY <1>2, SMT
  <2>3. Unseen(0, 0) = 0
    <3>1. 0 \in 0 .. Wrap - 1
      BY <1>2
    <3>2. Unseen(0, 0) = IF 0 % Size >= 0 THEN (0 % Size) - 0 ELSE (0 % Size) + Size - 0
      BY <1>3, <3>1, UnseenIs
    <3> QED
      BY <2>2, <3>2
  <2> QED
    BY <2>1, <2>3
<1>11. KeysAt = {} /\ Notified = 0
  <2>1. KeysAt = {}
    BY <1>10 DEF KeysAt
  <2>2. Cardinality(KeysAt) = 0
    BY <2>1, FS_EmptySet
  <2>3. Notified = pressed - Cardinality(KeysAt)
    BY <1>4, KeysFound
  <2> QED
    BY <1>1, <2>1, <2>2, <2>3
<1>12. RoundTrip(avail, new_used)
  <2>1. OneToOne(avail)
    BY <1>1 DEF OneToOne
  <2>2. Len(<<>>) = 0 /\ DOMAIN <<>> = {}
    OBVIOUS
  <2> QED
    BY <1>2, <1>6, <1>10, <2>1, <2>2 DEF RoundTrip, OneToOne
<1>13. Numbered(Notified, KeysAt, new_used, m_eventsbuf)
  BY <1>11 DEF Numbered
<1>14. Latest(Notified, data, read_pos, write_pos, count, received)
  <2>1. 0 % N = 0
    BY <1>2, SMT
  <2>2. DOMAIN received = {}
    BY <1>1
  <2> QED
    BY <1>1, <1>11, <2>1, <2>2 DEF Latest
<1>15. Events
  BY <1>12, <1>13, <1>14 DEF Events
<1> QED
  BY <1>1, <1>7, <1>8, <1>9, <1>15 DEF IInv

\* No step of a thread, the handler, the device or the clock breaks it.
LEMMA InvariantStep == IInv /\ [Next]_vars => IInv'
<1> SUFFICES ASSUME IInv, [Next]_vars PROVE IInv'
  OBVIOUS
<1>1. ASSUME NEW t \in Threads, NEW n \in ReadSizes, vfs_read(t, n) PROVE IInv'
  <2> DEFINE c == [Idle EXCEPT !["name"] = "read", !["args"] = <<"input">>,
                               !["fds"] = <<"input">>, !["events"] = n]
  <2>1. c \in Call /\ CallRight(c) /\ Begin(t, c)
    BY <1>1, IdleCall DEF vfs_read
  <2> HIDE DEF c
  <2> QED
    BY <2>1, BeginStep
<1>2. ASSUME NEW t \in Pollers, NEW p \in Polls, NEW ticks \in 0 .. ClockWrap - 1,
             sys_poll(t, p, ticks)
      PROVE  IInv'
  <2> DEFINE c == [Idle EXCEPT !["name"] = "poll", !["args"] = p.fds,
                               !["fds"] = p.fds, !["timeout"] = p.timeout,
                               !["start"] = ticks, !["now"] = ticks]
  <2>1. c \in Call /\ CallRight(c) /\ Begin(t, c) /\ t \in Threads
    BY <1>2, IdleCall, InputAssumption DEF sys_poll, Ticks
  <2> HIDE DEF c
  <2> QED
    BY <2>1, BeginStep
<1>3. ASSUME NEW t \in Threads, ThreadNext(t) PROVE IInv'
  BY <1>3, PollStep, TakeStep, AnswerStep, AgainStep, ReadReturnStep, PopStep
     DEF ThreadNext
<1>4. ASSUME NEW t \in Threads, tick(t) PROVE IInv'
  BY <1>4, TickStep
<1>5. CASE HandlerNext
  BY <1>5, HandlerStep, DeadlockStep, AckStep DEF HandlerNext
<1>6. ASSUME NEW key \in BOOLEAN, device_fills(key) PROVE IInv'
  BY <1>6, DeviceStep
<1>7. CASE UNCHANGED vars
  <2>1. UNCHANGED <<device, ring, lock, stuck, busy, pc, call, result, received>>
    BY <1>7 DEF vars, device, threads
  <2>2. VirtqueueTypeOK' /\ RingTypeOK' /\ received' \in Seq(Nat) /\ Events'
    BY <2>1, QuietStep
  <2>3. Calls' /\ Results' /\ Locking'
    BY <2>1 DEF IInv, Calls, Results, Locking
  <2>4. Reading'
    BY <2>1 DEF IInv, Reading, ring
  <2>5. /\ (lock \in Threads \cup {None})' /\ (busy \in Threads \cup {None})'
        /\ (pc \in [Threads -> Places])'
        /\ (result \in [Threads -> {"ok", "timedout", "empty"}])'
    BY <2>1 DEF IInv, TypeOK, Places
  <2>6. TypeOK'
    BY <2>1, <2>2, <2>3, <2>5, Unmoved, TypeParts
  <2> QED
    BY <2>2, <2>3, <2>4, <2>6 DEF IInv
<1> QED
  BY <1>1, <1>2, <1>3, <1>4, <1>5, <1>6, <1>7 DEF Next

\* The buffers, the events in them and in the ring, the mutex, the readers
\* and the clocks of polls fit together in every reachable state.
THEOREM InputInvariant == Spec => []IInv
<1>1. Init => IInv
  BY InitInvariant
<1>2. IInv /\ [Next]_vars => IInv'
  BY InvariantStep
<1> QED
  BY <1>1, <1>2, PTL DEF Spec

\* Until a handler has deadlocked on the mutex, each buffer of the keyboard is
\* with the device or will be seen by the handler, and a blocking read of
\* InputDevice never returns without an event.
THEOREM BuffersStaySound == Spec => []BuffersSound
<1>1. IInv => BuffersSound
  <2> SUFFICES ASSUME IInv PROVE BuffersSound
    OBVIOUS
  <2>1. TypeOK /\ BlockingReadDelivers
    BY DEF IInv, Results, BlockingReadDelivers
  <2>2. ASSUME stuck = None
        PROVE  LET s == avail \o new_used
               IN /\ Len(s) = Size - 1
                  /\ \A j, k \in DOMAIN s : s[j] = s[k] => j = k
    <3>1. RoundTrip(avail, new_used) /\ avail \in Seq(Descs) /\ VirtqueueTypeOK
      BY <2>2 DEF IInv, Events, TypeOK
    <3>2. new_used \in Seq(Descs)
      BY <3>1, NewUsed
    <3>3. RoundTrip(avail \o new_used, <<>>) /\ Len(avail \o new_used) \in Nat
      BY <3>1, <3>2, GivenBack, Joined
    <3> QED
      BY <3>3 DEF RoundTrip, OneToOne
  <2>3. BuffersConserved
    BY <2>2 DEF BuffersConserved
  <2> QED
    BY <2>1, <2>3 DEF BuffersSound
<1> QED
  BY <1>1, InputInvariant, PTL

\* Programs get key events in the order of the keyboard and once, and one is
\* dropped only after the ring's capacity of later ones, whatever the sizes.
THEOREM EventsStayInOrder == Spec => []EventsInOrder
<1>1. IInv => EventsInOrder
  <2> SUFFICES ASSUME IInv, stuck = None
               PROVE  /\ \A k \in 1 .. count : data[position(k)] = Notified - count + k
                      /\ \A i, j \in DOMAIN received : i < j => received[i] < received[j]
                      /\ \A k \in 1 .. Notified - count :
                           \/ \E i \in DOMAIN received : received[i] = k
                           \/ k + N <= Notified
    BY DEF EventsInOrder
  <2>1. /\ Latest(Notified, data, read_pos, write_pos, count, received) /\ Notified \in Nat
        /\ read_pos \in Positions /\ count \in 0 .. N
    BY DEF IInv, Events, Numbered, TypeOK, RingTypeOK
  <2>2. \A k \in 1 .. count : data[position(k)] = Notified - count + k
    BY <2>1, LatestInOrder DEF position
  <2> QED
    BY <2>1, <2>2 DEF Latest
<1> QED
  BY <1>1, InputInvariant, PTL

\* Only poll_again moves a thread that has been through the list of its poll.
LEMMA OnlyPollAgain ==
    ASSUME IInv, Next, NEW t \in Threads, pc[t] = "fd", call[t].fds = <<>>
    PROVE  poll_again(t) \/ (pc'[t] = "fd" /\ call'[t].fds = <<>>)
<1>1. pc \in [Threads -> Places] /\ call \in [Threads -> Call]
  BY DEF IInv, TypeOK, Calls, Places
<1>2. ASSUME NEW u \in Threads, NEW c, Begin(u, c) PROVE pc'[t] = "fd" /\ call'[t].fds = <<>>
  BY <1>1, <1>2 DEF Begin, At
<1>3. ASSUME NEW u \in Threads, u # t, ThreadNext(u)
      PROVE  pc'[t] = "fd" /\ call'[t].fds = <<>>
  <2>1. pc'[t] = pc[t]
    BY <1>1, <1>3 DEF ThreadNext, poll_closed, poll_negative, poll_other, poll_input,
       poll_input_answers, poll_again, get_next_event, get_next_event_pops,
       read_returns, mutex_take, Return
  <2>2. call'[t] = call[t]
    <3>1. rest(u)[t] = call[t]
      BY <1>1, <1>3 DEF rest
    <3>2. CASE poll_closed(u) \/ poll_negative(u) \/ poll_other(u) \/ poll_input(u)
               \/ poll_input_answers(u)
      BY <1>1, <1>3, <3>1, <3>2 DEF poll_closed, poll_negative, poll_other, poll_input,
         poll_input_answers, mutex_take, Return
    <3>3. CASE poll_again(u) \/ get_next_event(u) \/ get_next_event_pops(u) \/ read_returns(u)
      BY <1>1, <1>3, <3>3 DEF poll_again, get_next_event, get_next_event_pops,
         read_returns, mutex_take, Return
    <3> QED
      BY <1>3, <3>2, <3>3 DEF ThreadNext
  <2> QED
    BY <2>1, <2>2
<1>4. ASSUME ThreadNext(t) PROVE poll_again(t)
  BY <1>4 DEF ThreadNext, poll_closed, poll_negative, poll_other, poll_input, At_fd,
     poll_input_answers, get_next_event, get_next_event_pops, read_returns, At
<1>5. ASSUME NEW u \in Threads, tick(u) PROVE pc'[t] = "fd" /\ call'[t].fds = <<>>
  <2> DEFINE o == call[u]
             now == (o.now + 1) % ClockWrap
             c == [o EXCEPT !["now"] = now,
                            !["elapsed"] = IF @ < MaxElapsed THEN @ + 1 ELSE @,
                            !["wrapped"] = @ \/ now = 0]
  <2>1. o \in Call /\ CallRight(o) /\ o.timeout > 0
    BY <1>1, <1>5 DEF IInv, Calls, tick
  <2>2. call' = [call EXCEPT ![u] = c] /\ pc' = pc
    BY <1>1, <1>5 DEF tick
  <2>3. c.fds = o.fds
    BY <2>1, TickCall
  <2> HIDE DEF c
  <2> QED
    BY <1>1, <2>2, <2>3
<1>6. ASSUME HandlerNext \/ \E key \in BOOLEAN : device_fills(key)
      PROVE  pc'[t] = "fd" /\ call'[t].fds = <<>>
  <2>1. UNCHANGED <<pc, call>>
    BY <1>6 DEF HandlerNext, handle_irq, handle_irq_deadlocks, handle_irq_returns,
       device_fills, threads
  <2> QED
    BY <2>1
<1>7. Pollers \subseteq Threads
  BY InputAssumption
<1> QED
  BY <1>2, <1>3, <1>4, <1>5, <1>6, <1>7 DEF Next, vfs_read, sys_poll

\* sys$poll gives up exactly when more than its timeout has passed; only a
\* clock that has wrapped can make it wait longer.
THEOREM PollsTimeOut == Spec => PollTimesOut
<1> DEFINE Right(t) ==
             LET over == call[t].elapsed > call[t].timeout
             IN (pc[t] = "fd" /\ call[t].fds = <<>> /\ call[t].timeout > 0
                 /\ (pc'[t] = "idle" \/ call'[t].fds # <<>>))
                  => /\ result'[t] = "timedout" => over
                     /\ over => result'[t] = "timedout" \/ call[t].wrapped
<1>1. ASSUME IInv, Next, NEW t \in Threads PROVE Right(t)
  <2> SUFFICES ASSUME pc[t] = "fd", call[t].fds = <<>>, call[t].timeout > 0,
                      pc'[t] = "idle" \/ call'[t].fds # <<>>
               PROVE  /\ result'[t] = "timedout" => call[t].elapsed > call[t].timeout
                      /\ call[t].elapsed > call[t].timeout
                           => result'[t] = "timedout" \/ call[t].wrapped
    OBVIOUS
  <2>1. poll_again(t)
    BY <1>1, OnlyPollAgain
  <2>2. /\ call[t] \in Call /\ CallRight(call[t]) /\ result[t] = "ok"
        /\ result \in [Threads -> {"ok", "timedout", "empty"}]
    BY <1>1 DEF IInv, TypeOK, Calls, Results
  <2>3. /\ timed_out(t) => result'[t] = "timedout"
        /\ ~timed_out(t) => result'[t] = "ok"
    BY <2>1, <2>2 DEF poll_again, Return
  <2> DEFINE o == call[t]
  <2>4. /\ o.now \in Nat /\ o.start \in Nat /\ o.elapsed \in 0 .. MaxElapsed
        /\ o.timeout \in Nat /\ MaxElapsed \in Nat
    BY <2>2, InputAssumption DEF Call, Ticks
  <2>5. /\ o.timeout < MaxElapsed
        /\ o.elapsed = MaxElapsed \/ o.now - o.start <= o.elapsed
        /\ ~o.wrapped => o.elapsed <= o.now - o.start
    BY <2>2 DEF CallRight, ClockRight
  <2>6. timed_out(t) <=> o.now - o.start > o.timeout
    BY DEF timed_out
  <2>7. timed_out(t) => o.elapsed > o.timeout
    BY <2>4, <2>5, <2>6
  <2>8. o.elapsed > o.timeout /\ o.elapsed <= o.now - o.start => timed_out(t)
    BY <2>4, <2>6
  <2> HIDE DEF o
  <2>9. /\ result'[t] = "timedout" => o.elapsed > o.timeout
        /\ o.elapsed > o.timeout => result'[t] = "timedout" \/ o.wrapped
    BY <2>3, <2>5, <2>7, <2>8
  <2> QED
    BY <2>9 DEF o
<1>2. IInv /\ [Next]_vars => [\A t \in Threads : Right(t)]_vars
  BY <1>1
<1>3. Spec => [][\A t \in Threads : Right(t)]_vars
  BY <1>2, InputInvariant, PTL DEF Spec
<1> QED
  BY <1>3 DEF PollTimesOut
=============================================================================
