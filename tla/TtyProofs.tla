------------------------------ MODULE TtyProofs ------------------------------
(***************************************************************************)
(* Terminals and pseudo terminals.  The line discipline, for buffers of    *)
(* every size and every mix of settings: the account of lines is exact and *)
(* blocking reads deliver.  Then, as instances, the filesystem of ptys     *)
(* (Pty) and the pipes (APipe), which use the same ring buffer.            *)
(***************************************************************************)
EXTENDS Tty, Ptys, PipeBytes, FiniteSetTheorems, SequenceTheorems, TLAPS

-----------------------------------------------------------------------------
(* Numbers and finite sets                                                 *)

Wrapped(a) == IF a < N THEN a ELSE a - N
At(r, k) == IF r + k - 1 < N THEN r + k - 1 ELSE r + k - 1 - N

\* A position that wraps at most once.
LEMMA Wrap ==
    ASSUME NEW a \in Nat, a < 2 * N
    PROVE  a % N = Wrapped(a) /\ a % N \in Positions
<1>1. N \in Nat \ {0}
  BY RingBufferAssumption
<1> DEFINE q == a \div N
           r == a % N
<1>2. q \in Int /\ r \in 0 .. N - 1 /\ r = a - N * q
  BY <1>1, SMT
<1> HIDE DEF q, r
<1>3. q = 0 \/ q = 1
  <2>1. ASSUME q >= 2 PROVE FALSE
    <3>1. N * q >= N * 2
      BY <1>1, <1>2, <2>1
    <3> QED
      BY <1>1, <1>2, <3>1
  <2>2. ASSUME q < 0 PROVE FALSE
    <3>1. N * q <= N * (-1)
      BY <1>1, <1>2, <2>2
    <3> QED
      BY <1>1, <1>2, <3>1
  <2> QED
    BY <1>2, <2>1, <2>2
<1>4. r = IF a < N THEN a ELSE a - N
  <2>1. CASE q = 0
    BY <1>1, <1>2, <2>1
  <2>2. CASE q = 1
    BY <1>1, <1>2, <2>2
  <2> QED
    BY <1>3, <2>1, <2>2
<1> QED
  BY <1>1, <1>2, <1>4 DEF r, Positions, Wrapped

\* Sets of numbers that differ by a shift have as many members.
LEMMA ShiftedSet ==
    ASSUME NEW S \in SUBSET Int, IsFiniteSet(S), NEW d \in Int, NEW R \in SUBSET Int,
           \A x \in Int : x \in S <=> x + d \in R
    PROVE  IsFiniteSet(R) /\ Cardinality(R) = Cardinality(S)
<1> DEFINE f == [x \in S |-> x + d]
<1>1. f \in [S -> R]
  OBVIOUS
<1>2. \A x, y \in S : f[x] = f[y] => x = y
  OBVIOUS
<1>3. \A y \in R : \E x \in S : f[x] = y
  <2> SUFFICES ASSUME NEW y \in R PROVE \E x \in S : f[x] = y
    OBVIOUS
  <2>1. y - d \in Int /\ (y - d) + d = y
    OBVIOUS
  <2>2. y - d \in S
    BY <2>1
  <2> QED
    BY <2>1, <2>2
<1> HIDE DEF f
<1>4. f \in Bijection(S, R)
  BY <1>1, <1>2, <1>3 DEF Bijection, Injection, Surjection, IsInjective
<1> QED
  BY <1>4, FS_Bijection DEF ExistsBijection

\* A finite set in two parts.
LEMMA TwoParts ==
    ASSUME NEW S, IsFiniteSet(S), NEW A, NEW B, S = A \cup B, A \cap B = {}
    PROVE  /\ IsFiniteSet(A) /\ IsFiniteSet(B)
           /\ Cardinality(A) \in Nat /\ Cardinality(B) \in Nat
           /\ Cardinality(S) = Cardinality(A) + Cardinality(B)
<1>1. IsFiniteSet(A) /\ IsFiniteSet(B)
  BY FS_Subset
<1>2. Cardinality(A) \in Nat /\ Cardinality(B) \in Nat
  BY <1>1, FS_CardinalityType
<1>3. Cardinality(A \cup B) = Cardinality(A) + Cardinality(B) - Cardinality(A \cap B)
  BY <1>1, FS_Union
<1>4. Cardinality(A \cap B) = 0
  BY FS_EmptySet
<1> QED
  BY <1>1, <1>2, <1>3, <1>4

-----------------------------------------------------------------------------
(* The input buffer                                                        *)

\* Item k of the input buffer followed by s.
Item(k, s) == IF k <= count THEN data[position(k)] ELSE s[k - count]

Aligned == write_pos = (read_pos + count) % N

\* The pushes of emit keep the input buffer's types.
LEMMA PushTypes ==
    ASSUME RingTypeOK, NEW s \in Seq(T), Len(s) <= N, NEW r \in Positions,
           push_all(s, r)
    PROVE  /\ data' \in [Positions -> T] /\ write_pos' \in Positions
           /\ read_pos' \in Positions
<1> DEFINE k == Len(s)
<1>1. /\ N \in Nat \ {0} /\ k \in Nat /\ write_pos \in 0 .. N - 1
      /\ data \in [Positions -> T]
  BY RingBufferAssumption DEF RingTypeOK, Positions
<1>3. write_pos' = (write_pos + k) % N /\ read_pos' = r
  BY DEF push_all
<1>4. (write_pos + k) % N \in Positions
  <2> DEFINE a == write_pos + k
  <2>1. a \in Nat /\ a < 2 * N
    BY <1>1
  <2> HIDE DEF a
  <2>2. a % N \in Positions
    BY <2>1, Wrap
  <2> QED
    BY <2>2 DEF a
<1>6. data' \in [Positions -> T]
  <2> DEFINE W(j) == (write_pos + j - 1) % N
             val(p) == IF \E j \in 1 .. k : W(j) = p
                         THEN s[CHOOSE j \in 1 .. k : W(j) = p] ELSE data[p]
  <2>1. data' = [p \in Positions |-> val(p)]
    BY DEF push_all
  <2>2. ASSUME NEW p \in Positions PROVE val(p) \in T
    <3>1. CASE \E j \in 1 .. k : W(j) = p
      <4> DEFINE c == CHOOSE j \in 1 .. k : W(j) = p
      <4>1. c \in 1 .. k
        BY <3>1
      <4> HIDE DEF c
      <4>2. s[c] \in T
        BY <4>1
      <4> QED
        BY <3>1, <4>2 DEF c
    <3>2. CASE ~ \E j \in 1 .. k : W(j) = p
      BY <1>1, <3>2
    <3> QED
      BY <3>1, <3>2
  <2> HIDE DEF val
  <2> QED
    BY <2>1, <2>2
<1> QED
  BY <1>3, <1>4, <1>6

\* The read position after pushes.
LEMMA OldestAfter ==
    ASSUME RingTypeOK, NEW s \in Seq(T), Len(s) <= N
    PROVE  /\ Overflow(Len(s)) \in 0 .. count
           /\ oldest_after(s) = Wrapped(read_pos + Overflow(Len(s)))
           /\ oldest_after(s) \in Positions
<1> DEFINE lost == Overflow(Len(s))
<1>1. /\ N \in Nat \ {0} /\ count \in 0 .. N /\ read_pos \in 0 .. N - 1
      /\ lost \in 0 .. count
  <2>1. Len(s) \in Nat
    OBVIOUS
  <2> QED
    BY <2>1, RingBufferAssumption DEF RingTypeOK, Positions, Overflow
<1> DEFINE a == read_pos + lost
<1>2. a \in Nat /\ a < 2 * N
  BY <1>1
<1>3. oldest_after(s) = a % N
  BY DEF oldest_after
<1> HIDE DEF a
<1>4. a % N = Wrapped(a) /\ a % N \in Positions
  BY <1>2, Wrap
<1> QED
  BY <1>1, <1>3, <1>4 DEF a

\* Where the j-th pushed item goes, and what becomes of the others.
LEMMA PushPlaces ==
    ASSUME RingTypeOK, Aligned, NEW s \in Seq(T), Len(s) <= N, NEW r,
           push_all(s, r)
    PROVE  /\ \A j \in 1 .. Len(s) :
                /\ (write_pos + j - 1) % N \in Positions
                /\ data'[(write_pos + j - 1) % N] = s[j]
           /\ \A p \in Positions :
                (\A j \in 1 .. Len(s) : (write_pos + j - 1) % N # p) => data'[p] = data[p]
<1> DEFINE k == Len(s)
           W(j) == (write_pos + j - 1) % N
           val(p) == IF \E j \in 1 .. k : W(j) = p
                       THEN s[CHOOSE j \in 1 .. k : W(j) = p] ELSE data[p]
<1>1. /\ N \in Nat \ {0} /\ k \in Nat /\ write_pos \in 0 .. N - 1
  BY RingBufferAssumption DEF RingTypeOK, Positions
<1>2. data' = [p \in Positions |-> val(p)]
  BY DEF push_all
<1>3. \A j \in 1 .. k :
        /\ W(j) \in Positions
        /\ W(j) = Wrapped(write_pos + j - 1)
  <2> SUFFICES ASSUME NEW j \in 1 .. k
               PROVE  /\ W(j) \in Positions
                      /\ W(j) = Wrapped(write_pos + j - 1)
    OBVIOUS
  <2> DEFINE a == write_pos + j - 1
  <2>1. a \in Nat /\ a < 2 * N
    BY <1>1
  <2> HIDE DEF a
  <2>2. a % N \in Positions /\ a % N = Wrapped(a)
    BY <2>1, Wrap
  <2> QED
    BY <2>2, Zenon DEF a
<1> HIDE DEF W
<1>4. \A i, j \in 1 .. k : W(i) = W(j) => i = j
  BY <1>1, <1>3 DEF Wrapped
<1>5. \A j \in 1 .. k : data'[W(j)] = s[j]
  <2> SUFFICES ASSUME NEW j \in 1 .. k PROVE data'[W(j)] = s[j]
    OBVIOUS
  <2>1. data'[W(j)] = val(W(j))
    BY <1>2, <1>3
  <2>2. (CHOOSE i \in 1 .. k : W(i) = W(j)) = j
    BY <1>4
  <2> QED
    BY <2>1, <2>2
<1>6. ASSUME NEW p \in Positions, \A j \in 1 .. k : W(j) # p PROVE data'[p] = data[p]
  BY <1>2, <1>6
<1> QED
  BY <1>3, <1>5, <1>6 DEF W

\* The item in place i, of those that a push of k bytes leaves, is not where
\* the push writes.
LEMMA Apart ==
    ASSUME NEW r \in 0 .. N - 1, NEW c \in 0 .. N, NEW lost \in 0 .. c,
           NEW k \in Nat, c + k - lost <= N,
           NEW i \in Nat, i >= 1, i + lost <= c, NEW m \in 1 .. k
    PROVE  Wrapped(Wrapped(r + c) + m - 1) # At(Wrapped(r + lost), i)
<1> DEFINE w == Wrapped(r + c)
           v == Wrapped(w + m - 1)
           q == Wrapped(r + lost)
           p == At(q, i)
<1>1. N \in Nat \ {0}
  BY RingBufferAssumption
<1>2. (w = r + c \/ w = r + c - N) /\ w \in 0 .. N - 1
  BY <1>1 DEF Wrapped
<1>3. (q = r + lost \/ q = r + lost - N) /\ q \in 0 .. N - 1
  BY <1>1 DEF Wrapped
<1> HIDE DEF w, q
<1>4. v = w + m - 1 \/ v = w + m - 1 - N
  BY <1>1, <1>2 DEF Wrapped
<1>5. (p = q + i - 1 \/ p = q + i - 1 - N) /\ p \in 0 .. N - 1
  BY <1>1, <1>3 DEF At
<1> HIDE DEF v, p
<1> DEFINE a == r + lost + i - 1
           d == c + m - lost - i
<1>6. a \in Nat /\ a < 2 * N /\ d \in 1 .. N - 1 /\ r + c + m - 1 = a + d
  BY <1>1
<1>7. p = a \/ p = a - N
  BY <1>1, <1>3, <1>5, <1>6
<1>8. v = a + d \/ v = a + d - N \/ v = a + d - 2 * N
  BY <1>1, <1>2, <1>4, <1>6
<1> HIDE DEF a, d
<1>9. v # p
  BY <1>1, <1>6, <1>7, <1>8
<1> QED
  BY <1>9 DEF v, p, w, q

\* What the input buffer holds after emit: the items it held and the ones
\* pushed, without the oldest that no longer fit.
LEMMA PushItems ==
    ASSUME RingTypeOK, Aligned, NEW s \in Seq(T), Len(s) <= N,
           push_all(s, oldest_after(s)), count' = Smaller(N, count + Len(s))
    PROVE  /\ RingTypeOK' /\ Aligned'
           /\ Overflow(Len(s)) \in 0 .. count
           /\ count' = count + Len(s) - Overflow(Len(s))
           /\ \A i \in 1 .. count' : data'[position(i)'] = Item(i + Overflow(Len(s)), s)
<1> DEFINE k == Len(s)
           lost == Overflow(k)
           W(j) == (write_pos + j - 1) % N
<1>1. /\ N \in Nat \ {0} /\ k \in Nat /\ count \in 0 .. N /\ write_pos \in 0 .. N - 1
      /\ read_pos \in 0 .. N - 1 /\ k <= N
  BY RingBufferAssumption DEF RingTypeOK, Positions
<1>2. lost \in 0 .. count /\ count' = count + k - lost /\ count' \in 0 .. N
  BY <1>1 DEF Overflow, Smaller
<1>3. write_pos = Wrapped(read_pos + count)
  <2> DEFINE a == read_pos + count
  <2>1. a \in Nat /\ a < 2 * N
    BY <1>1
  <2>2. write_pos = a % N
    BY DEF Aligned
  <2> HIDE DEF a
  <2>3. a % N = Wrapped(a)
    BY <2>1, Wrap
  <2> QED
    BY <2>2, <2>3, Zenon DEF a
<1>4. read_pos' = Wrapped(read_pos + lost) /\ oldest_after(s) \in Positions
  BY OldestAfter DEF push_all
<1>5. write_pos' = Wrapped(write_pos + k)
  <2> DEFINE a == write_pos + k
  <2>1. a \in Nat /\ a < 2 * N
    BY <1>1, <1>2
  <2>2. write_pos' = a % N
    BY DEF push_all
  <2> HIDE DEF a
  <2>3. a % N = Wrapped(a)
    BY <2>1, Wrap
  <2> QED
    BY <2>2, <2>3, Zenon DEF a
<1>6. \A j \in 1 .. k :
        W(j) = Wrapped(write_pos + j - 1)
  <2> SUFFICES ASSUME NEW j \in 1 .. k
               PROVE  W(j) = Wrapped(write_pos + j - 1)
    OBVIOUS
  <2> DEFINE a == write_pos + j - 1
  <2>1. a \in Nat /\ a < 2 * N
    BY <1>1
  <2> HIDE DEF a
  <2>2. a % N = Wrapped(a)
    BY <2>1, Wrap
  <2> QED
    BY <2>2, Zenon DEF a
<1>7. /\ \A j \in 1 .. k : data'[W(j)] = s[j]
      /\ \A p \in Positions : (\A j \in 1 .. k : W(j) # p) => data'[p] = data[p]
  BY PushPlaces
<1>8. data' \in [Positions -> T] /\ write_pos' \in Positions /\ read_pos' \in Positions
  BY <1>4, PushTypes
<1>9. RingTypeOK'
  BY <1>2, <1>8 DEF RingTypeOK
<1> HIDE DEF lost, W, k
<1>10. Aligned'
  <2> DEFINE a == read_pos' + count'
  <2>1. /\ a \in Nat /\ a < 2 * N
        /\ write_pos' = Wrapped(a)
    BY <1>1, <1>2, <1>3, <1>4, <1>5 DEF Wrapped
  <2> HIDE DEF a
  <2>2. a % N = Wrapped(a)
    BY <2>1, Wrap
  <2> QED
    BY <2>1, <2>2 DEF a, Aligned
<1>11. ASSUME NEW i \in 1 .. count' PROVE data'[position(i)'] = Item(i + lost, s)
  <2> DEFINE j == i + lost
  <2>0. position(i)' = At(read_pos', i)
    BY DEF position, At
  <2> DEFINE p == position(i)'
  <2>1. p = At(read_pos', i)
    BY <2>0
  <2> HIDE DEF p
  <2>2. CASE j <= count
    <3>1. p = position(j) /\ p \in Positions
      BY <1>1, <1>2, <1>4, <2>1, <2>2 DEF position, Positions, Wrapped, At
    <3>2. ASSUME NEW m \in 1 .. k PROVE W(m) # p
      <4>1. /\ read_pos \in 0 .. N - 1 /\ count \in 0 .. N /\ lost \in 0 .. count
            /\ k \in Nat /\ count + k - lost <= N
        BY <1>1, <1>2
      <4>2. i \in Nat /\ i >= 1 /\ i + lost <= count
        BY <1>1, <1>2, <2>2
      <4>3. Wrapped(Wrapped(read_pos + count) + m - 1) # At(Wrapped(read_pos + lost), i)
        BY <3>2, <4>1, <4>2, Apart
      <4>4. W(m) = Wrapped(Wrapped(read_pos + count) + m - 1)
        BY <1>3, <1>6, <3>2, Zenon
      <4>5. p = At(Wrapped(read_pos + lost), i)
        BY <1>4, <2>1, Zenon
      <4> QED
        BY <4>3, <4>4, <4>5, Zenon
    <3>3. data'[p] = data[p]
      BY <1>7, <3>1, <3>2
    <3> QED
      BY <2>2, <3>1, <3>3 DEF p, Item
  <2>3. CASE ~(j <= count)
    <3>1. j - count \in 1 .. k
      BY <1>1, <1>2, <2>3
    <3>2. p = W(j - count)
      BY <1>1, <1>2, <1>3, <1>4, <1>6, <2>1, <2>3, <3>1 DEF Wrapped, At
    <3>3. data'[p] = s[j - count]
      BY <1>7, <3>1, <3>2
    <3> QED
      BY <2>3, <3>3 DEF p, Item
  <2> QED
    BY <2>2, <2>3
<1> QED
  BY <1>2, <1>9, <1>10, <1>11 DEF lost, k

-----------------------------------------------------------------------------
(* Counting newlines                                                       *)

\* The newlines among the first n items of the input buffer followed by s,
\* and those of s.
Marks(n, s) == {k \in 1 .. n : Item(k, s) = "nl"}
SeqMarks(s) == {k \in 1 .. Len(s) : s[k] = "nl"}

\* The model counts marks.
LEMMA NewlinesAreMarks ==
    ASSUME NEW n, NEW s
    PROVE  newlines(n, s) = Cardinality(Marks(n, s))
<1>1. {k \in 1 .. n : IF k <= count THEN data[position(k)] = "nl" ELSE s[k - count] = "nl"}
        = Marks(n, s)
  BY DEF Marks, Item
<1> QED
  BY <1>1, Zenon DEF newlines

\* There are finitely many of them.
LEMMA MarksFinite ==
    ASSUME NEW n \in Nat, NEW s
    PROVE  IsFiniteSet(Marks(n, s)) /\ Cardinality(Marks(n, s)) \in Nat
<1>1. Marks(n, s) \in SUBSET (1 .. n)
  BY DEF Marks
<1>2. IsFiniteSet(1 .. n)
  BY FS_Interval
<1>3. IsFiniteSet(Marks(n, s))
  BY <1>1, <1>2, FS_Subset
<1> QED
  BY <1>3, FS_CardinalityType

\* The items of the buffer itself, without regard to what follows.
LEMMA OwnMarks ==
    ASSUME NEW s, count \in Nat
    PROVE  /\ Marks(count, s) = {k \in 1 .. count : data[position(k)] = "nl"}
           /\ Newlines = Cardinality(Marks(count, s))
<1>1. \A k \in 1 .. count : k <= count
  OBVIOUS
<1>2. \A t : Marks(count, t) = {k \in 1 .. count : data[position(k)] = "nl"}
  BY <1>1 DEF Marks, Item
<1>3. Newlines = Cardinality(Marks(count, <<>>))
  BY NewlinesAreMarks DEF Newlines
<1> QED
  BY <1>2, <1>3

\* Newlines counts the items of the buffer that are newlines.
LEMMA OwnNewlines ==
    count \in Nat => Newlines = Cardinality({i \in 1 .. count : data[position(i)] = "nl"})
BY OwnMarks

\* And so it does in the next state.
LEMMA OwnNewlinesNext ==
    (count \in Nat => Newlines = Cardinality({i \in 1 .. count : data[position(i)] = "nl"}))'
BY OwnNewlines, PTL

\* Newlines in the input buffer after emit: those that were there and those
\* pushed, without those dropped.
LEMMA PushCounts ==
    ASSUME RingTypeOK, Aligned, NEW s \in Seq(T), Len(s) <= N,
           push_all(s, oldest_after(s)), count' = Smaller(N, count + Len(s))
    PROVE  /\ Newlines \in Nat /\ dropped(s) \in Nat /\ Cardinality(SeqMarks(s)) \in Nat
           /\ Newlines' = Newlines + Cardinality(SeqMarks(s)) - dropped(s)
<1> DEFINE k == Len(s)
           lost == Overflow(k)
           A == Marks(count + k, s)
           L == Marks(lost, s)
           R == {j \in lost + 1 .. count + k : Item(j, s) = "nl"}
           C == Marks(count, s)
           Q == {j \in count + 1 .. count + k : Item(j, s) = "nl"}
           D == {i \in 1 .. count' : data'[position(i)'] = "nl"}
<1>1. /\ N \in Nat \ {0} /\ k \in Nat /\ count \in Nat /\ count \in 0 .. N
      /\ lost \in 0 .. count /\ count' = count + k - lost /\ count' \in Nat
      /\ \A i \in 1 .. count' : data'[position(i)'] = Item(i + lost, s)
  <2>1. /\ lost \in 0 .. count /\ count' = count + k - lost /\ RingTypeOK'
        /\ \A i \in 1 .. count' : data'[position(i)'] = Item(i + lost, s)
    BY PushItems
  <2>2. N \in Nat \ {0} /\ k \in Nat /\ count \in 0 .. N
    BY RingBufferAssumption DEF RingTypeOK
  <2>3. count' \in 0 .. N
    BY <2>1 DEF RingTypeOK
  <2> QED
    BY <2>1, <2>2, <2>3
<1>2. Newlines = Cardinality(C) /\ Newlines' = Cardinality(D)
  <2>1. Newlines = Cardinality(C)
    BY <1>1, OwnMarks
  <2>2. (count \in Nat => Newlines = Cardinality({i \in 1 .. count : data[position(i)] = "nl"}))'
    BY OwnNewlinesNext
  <2>3. Newlines' = Cardinality(D)
    BY <1>1, <2>2
  <2> QED
    BY <2>1, <2>3
<1>3. dropped(s) = Cardinality(L)
  BY NewlinesAreMarks DEF dropped
<1>4. IsFiniteSet(A) /\ Cardinality(A) \in Nat
  <2>1. count + k \in Nat
    BY <1>1
  <2> QED
    BY <2>1, MarksFinite
<1>5. A = L \cup R /\ L \cap R = {}
  BY <1>1 DEF Marks
<1>6. A = C \cup Q /\ C \cap Q = {}
  BY <1>1 DEF Marks
<1>7. \A x \in Int : x \in D <=> x + lost \in R
  BY <1>1
<1>8. \A x \in Int : x \in SeqMarks(s) <=> x + count \in Q
  <2> SUFFICES ASSUME NEW x \in Int PROVE x \in SeqMarks(s) <=> x + count \in Q
    OBVIOUS
  <2>1. x \in 1 .. k <=> x + count \in count + 1 .. count + k
    BY <1>1
  <2>2. x \in 1 .. k => Item(x + count, s) = s[x]
    BY <1>1 DEF Item
  <2> QED
    BY <2>1, <2>2 DEF SeqMarks, k
<1>9. D \in SUBSET Int /\ SeqMarks(s) \in SUBSET Int /\ R \in SUBSET Int /\ Q \in SUBSET Int
  BY <1>1 DEF SeqMarks, k
<1>10. IsFiniteSet(D) /\ IsFiniteSet(SeqMarks(s))
  <2>1. D \in SUBSET (1 .. count') /\ SeqMarks(s) \in SUBSET (1 .. k)
    BY DEF SeqMarks, k
  <2>2. IsFiniteSet(1 .. count') /\ IsFiniteSet(1 .. k)
    BY <1>1, FS_Interval
  <2> QED
    BY <2>1, <2>2, FS_Subset
<1> HIDE DEF A, L, R, C, Q, D
<1>11. Cardinality(R) = Cardinality(D)
  <2>1. lost \in Int
    BY <1>1
  <2> QED
    BY <1>7, <1>9, <1>10, <2>1, ShiftedSet
<1>12. Cardinality(Q) = Cardinality(SeqMarks(s))
  <2> DEFINE M == SeqMarks(s)
  <2>1. count \in Int /\ M \in SUBSET Int /\ IsFiniteSet(M)
        /\ \A x \in Int : x \in M <=> x + count \in Q
    BY <1>1, <1>8, <1>9, <1>10
  <2> HIDE DEF M
  <2>2. Cardinality(Q) = Cardinality(M)
    BY <1>9, <2>1, ShiftedSet
  <2> QED
    BY <2>2 DEF M
<1>13. /\ Cardinality(A) = Cardinality(L) + Cardinality(R)
       /\ Cardinality(L) \in Nat /\ Cardinality(R) \in Nat
  BY <1>4, <1>5, TwoParts
<1>14. /\ Cardinality(A) = Cardinality(C) + Cardinality(Q)
       /\ Cardinality(C) \in Nat /\ Cardinality(Q) \in Nat
  BY <1>4, <1>6, TwoParts
<1> QED
  BY <1>2, <1>3, <1>11, <1>12, <1>13, <1>14

-----------------------------------------------------------------------------
(* The inductive invariant                                                 *)

\* A line that is being edited has no newline yet.
LineClean == \A k \in 1 .. Len(m_linebuffer) : m_linebuffer[k] # "nl"

HasLine == \E k \in 1 .. count : data[position(k)] = "nl"

\* A read that was let in finds what it was let in for, whatever interrupts
\* push and drop in the meantime.
ReadSound ==
    /\ pc = "newline" => got.n > 0 /\ got.newline
    /\ pc = "read" /\ call.blocking /\ ~call.phantom =>
         IF Canonical THEN HasLine ELSE got.n > 0 \/ count > 0

Inductive == IInv /\ LineClean /\ ReadSound /\ BlockingReadDelivers

-----------------------------------------------------------------------------
(* emit                                                                    *)

\* A translated byte is a byte.
LEMMA TranslateType ==
    ASSUME NEW key \in T
    PROVE  translate(key) \in T
BY TtyAssumption DEF translate

\* What a byte does to the line being edited.
LEMMA LineAfter ==
    ASSUME TypeOK, LineClean, NEW ch \in T
    PROVE  /\ linebuffer_after(ch) \in Seq(T)
           /\ Len(linebuffer_after(ch)) <= LineSize
           /\ \A k \in 1 .. Len(linebuffer_after(ch)) : linebuffer_after(ch)[k] # "nl"
<1> DEFINE b == m_linebuffer
<1>1. /\ b \in Seq(T) /\ Len(b) \in Nat /\ Len(b) <= LineSize /\ LineSize \in Nat \ {0}
      /\ \A k \in 1 .. Len(b) : b[k] # "nl"
  BY TtyAssumption, RingBufferAssumption DEF TypeOK, LineClean
<1> HIDE DEF b
<1>2. CASE linebuffer_after(ch) = b
  BY <1>1, <1>2
<1>3. CASE linebuffer_after(ch) = <<>>
  BY <1>1, <1>3
<1>4. CASE linebuffer_after(ch) = SubSeq(b, 1, Len(b) - 1)
  <2> DEFINE e == SubSeq(b, 1, Len(b) - 1)
  <2>1. CASE Len(b) = 0
    <3>1. e = <<>>
      BY <1>1, <2>1
    <3> QED
      BY <1>3, <1>4, <3>1
  <2>2. CASE Len(b) # 0
    <3>1. e \in Seq(T) /\ Len(e) = Len(b) - 1 /\ \A k \in 1 .. Len(b) - 1 : e[k] = b[k]
      <4> DEFINE n == Len(b) - 1
      <4>1. n \in Nat /\ \A i \in 1 .. n : b[i] \in T
        BY <1>1, <2>2
      <4> HIDE DEF n
      <4>2. /\ SubSeq(b, 1, n) \in Seq(T)
            /\ Len(SubSeq(b, 1, n)) = IF 1 <= n THEN n - 1 + 1 ELSE 0
            /\ \A i \in 1 .. n - 1 + 1 : SubSeq(b, 1, n)[i] = b[1 + i - 1]
        BY <4>1, SubSeqProperties
      <4>3. Len(SubSeq(b, 1, n)) = n /\ n - 1 + 1 = n /\ \A i \in 1 .. n : 1 + i - 1 = i
        BY <4>1, <4>2
      <4>4. \A i \in 1 .. n : SubSeq(b, 1, n)[i] = b[i]
        BY <4>2, <4>3
      <4> QED
        BY <4>2, <4>3, <4>4 DEF n
    <3> HIDE DEF e
    <3>2. Len(e) <= LineSize /\ \A k \in 1 .. Len(e) : e[k] # "nl"
      BY <1>1, <3>1
    <3> QED
      BY <1>4, <3>1, <3>2 DEF e
  <2> QED
    BY <2>1, <2>2
<1>5. CASE linebuffer_after(ch) = Append(b, ch) /\ ch # "nl" /\ Len(b) # LineSize
  <2> DEFINE e == Append(b, ch)
  <2>1. e \in Seq(T) /\ Len(e) = Len(b) + 1 /\ e[Len(b) + 1] = ch
        /\ \A k \in 1 .. Len(b) : e[k] = b[k]
    BY <1>1
  <2> HIDE DEF e
  <2>2. Len(e) <= LineSize
    BY <1>1, <1>5, <2>1
  <2>3. \A k \in 1 .. Len(e) : e[k] # "nl"
    BY <1>1, <1>5, <2>1
  <2> QED
    BY <1>5, <2>1, <2>2, <2>3 DEF e
<1> QED
  BY <1>2, <1>3, <1>4, <1>5 DEF linebuffer_after, flushes, LineFull, b

\* What a byte pushes: in canonical mode nothing or a line, with one newline,
\* its last byte.
LEMMA PushedIs ==
    ASSUME TypeOK, LineClean, NEW ch \in T
    PROVE  /\ pushed(ch) \in Seq(T) /\ Len(pushed(ch)) <= N
           /\ Cardinality(SeqMarks(pushed(ch)))
                = (IF flushes(ch) THEN 1 ELSE 0) + (IF ~Canonical /\ ch = "nl" THEN 1 ELSE 0)
           /\ Canonical => \/ Len(pushed(ch)) = 0
                           \/ Len(pushed(ch)) > 0 /\ pushed(ch)[Len(pushed(ch))] = "nl"
<1> DEFINE b == m_linebuffer
<1>1. /\ b \in Seq(T) /\ Len(b) \in Nat /\ Len(b) <= LineSize /\ LineSize \in Nat \ {0}
      /\ LineSize <= N /\ N \in Nat \ {0}
      /\ \A k \in 1 .. Len(b) : b[k] # "nl"
  BY TtyAssumption, RingBufferAssumption DEF TypeOK, LineClean
<1>2. Cardinality({}) = 0 /\ \A x : Cardinality({x}) = 1
  BY FS_EmptySet, FS_Singleton
<1> HIDE DEF b
<1>3. CASE flushes(ch)
  <2> DEFINE e == Append(b, ch)
  <2>1. pushed(ch) = e /\ Canonical /\ ch = "nl" /\ Len(b) # LineSize
    BY <1>3 DEF pushed, flushes, LineFull, b
  <2>2. e \in Seq(T) /\ Len(e) = Len(b) + 1 /\ e[Len(b) + 1] = ch
        /\ \A k \in 1 .. Len(b) : e[k] = b[k]
    BY <1>1
  <2> HIDE DEF e
  <2>3. SeqMarks(e) = {Len(e)}
    BY <1>1, <2>1, <2>2 DEF SeqMarks
  <2>4. Len(e) <= N /\ Len(e) > 0
    BY <1>1, <2>1, <2>2
  <2>5. Cardinality(SeqMarks(e)) = 1
    BY <1>2, <2>3
  <2> QED
    BY <1>1, <1>3, <2>1, <2>2, <2>4, <2>5
<1>4. CASE ~flushes(ch) /\ Canonical
  <2>1. pushed(ch) = <<>>
    BY <1>4 DEF pushed
  <2> DEFINE e == pushed(ch)
  <2>2. e \in Seq(T) /\ Len(e) = 0
    BY <2>1
  <2> HIDE DEF e
  <2>3. SeqMarks(e) = {}
    BY <2>2 DEF SeqMarks
  <2>4. Cardinality(SeqMarks(e)) = 0 /\ Len(e) <= N
    BY <1>1, <1>2, <2>2, <2>3
  <2> QED
    BY <1>4, <2>2, <2>4 DEF e
<1>5. CASE ~Canonical
  <2> DEFINE e == <<ch>>
  <2>1. pushed(ch) = e /\ ~flushes(ch)
    BY <1>5 DEF pushed, flushes
  <2>2. e \in Seq(T) /\ Len(e) = 1 /\ e[1] = ch
    OBVIOUS
  <2> HIDE DEF e
  <2>3. SeqMarks(e) = IF ch = "nl" THEN {1} ELSE {}
    BY <2>2 DEF SeqMarks
  <2>4. Cardinality(SeqMarks(e)) = IF ch = "nl" THEN 1 ELSE 0
    BY <1>2, <2>3
  <2> QED
    BY <1>1, <1>5, <2>1, <2>2, <2>4
<1> QED
  BY <1>3, <1>4, <1>5

\* A byte that comes in while nobody, or a read, is under way.
LEMMA EmitStep ==
    ASSUME Inductive, NEW ch \in T, pc # "torn", Emit(ch, oldest_after(pushed(ch))),
           count' = Smaller(N, count + Len(pushed(ch))),
           m_available_lines' = lines_after(ch), drift' = drift_after(ch),
           m_buf' \in 0 .. EchoSize, UNCHANGED <<pc, got>>
    PROVE  Inductive'
<1> DEFINE s == pushed(ch)
           k == Len(s)
           lost == Overflow(k)
<1>1. /\ TypeOK /\ RingTypeOK /\ Aligned /\ LineAccounting /\ LineClean /\ ReadSound
      /\ BlockingReadDelivers
  BY DEF Inductive, IInv, TypeOK, RingConsistent, Torn, Aligned
<1>2. /\ m_available_lines < MaxLines /\ push_all(s, oldest_after(s))
      /\ m_linebuffer' = linebuffer_after(ch) /\ UNCHANGED <<m_termios, uart, call>>
  BY DEF Emit
<1>3. /\ s \in Seq(T) /\ k <= N
      /\ Cardinality(SeqMarks(s))
           = (IF flushes(ch) THEN 1 ELSE 0) + (IF ~Canonical /\ ch = "nl" THEN 1 ELSE 0)
      /\ Canonical => k = 0 \/ (k > 0 /\ s[k] = "nl")
  BY <1>1, PushedIs
<1> HIDE DEF s
<1>4. /\ RingTypeOK' /\ Aligned' /\ lost \in 0 .. count /\ count' = count + k - lost
      /\ \A i \in 1 .. count' : data'[position(i)'] = Item(i + lost, s)
  BY <1>1, <1>2, <1>3, PushItems DEF s
<1>5. /\ Newlines \in Nat /\ dropped(s) \in Nat /\ Cardinality(SeqMarks(s)) \in Nat
      /\ Newlines' = Newlines + Cardinality(SeqMarks(s)) - dropped(s)
  BY <1>1, <1>2, <1>3, PushCounts DEF s
<1>6. Canonical' = Canonical
  BY <1>2 DEF Canonical
<1>7. drift' = drift + dropped(s) - (IF ~Canonical /\ ch = "nl" THEN 1 ELSE 0)
      /\ m_available_lines' = m_available_lines + (IF flushes(ch) THEN 1 ELSE 0)
  <2>1. m_available_lines \in Int
    BY <1>1, TtyAssumption DEF TypeOK
  <2> QED
    BY <2>1 DEF drift_after, lines_after, s
<1>8. TypeOK'
  <2>1. /\ m_linebuffer' \in Seq(T) /\ Len(m_linebuffer') <= LineSize
    BY <1>1, <1>2, LineAfter
  <2>2. m_available_lines' \in 0 .. MaxLines
    BY <1>1, <1>2, <1>7, TtyAssumption DEF TypeOK
  <2>3. drift' \in Int
    BY <1>1, <1>5, <1>7 DEF TypeOK
  <2> QED
    BY <1>1, <1>2, <1>4, <2>1, <2>2, <2>3 DEF TypeOK
<1>9. LineAccounting'
  <2> DEFINE pend == IF pc \in {"newline", "kassert"} THEN 1 ELSE 0
             f == IF flushes(ch) THEN 1 ELSE 0
             w == IF ~Canonical /\ ch = "nl" THEN 1 ELSE 0
  <2>1. m_available_lines = Newlines + drift + pend
    BY <1>1 DEF LineAccounting, Torn
  <2>2. pend \in Int /\ f \in Int /\ w \in Int /\ drift \in Int /\ m_available_lines \in Int
    BY <1>1, TtyAssumption DEF TypeOK
  <2>3. /\ Newlines' = Newlines + (f + w) - dropped(s)
        /\ drift' = drift + dropped(s) - w /\ m_available_lines' = m_available_lines + f
    BY <1>3, <1>5, <1>7
  <2> DEFINE d == dropped(s)
             n == Newlines
             m == n'
  <2>4. d \in Int /\ n \in Int /\ m = n + (f + w) - d
    BY <1>5, <2>3
  <2>5. m_available_lines = n + drift + pend /\ drift' = drift + d - w
    BY <2>1, <2>3
  <2>6. m_available_lines' = m_available_lines + f
    BY <2>3
  <2> HIDE DEF f, w, pend, d, n, m
  <2>7. m_available_lines' = m + drift' + pend
    BY <2>2, <2>4, <2>5, <2>6
  <2>8. m_available_lines' = Newlines' + drift' + pend
    BY <2>7 DEF m, n
  <2> QED
    BY <2>8 DEF LineAccounting, Torn, pend
<1>10. RingConsistent'
  BY <1>4 DEF RingConsistent, Torn, Aligned
<1>11. LineClean'
  BY <1>1, <1>2, LineAfter DEF LineClean
<1>12. count' >= count /\ count \in Nat /\ count' \in Nat /\ k \in Nat
  <2>1. count \in 0 .. N /\ N \in Nat \ {0}
    BY <1>1, RingBufferAssumption DEF RingTypeOK
  <2>2. k \in Nat
    BY <1>3
  <2> HIDE DEF k
  <2> QED
    BY <1>3, <2>1, <2>2 DEF Smaller, k, s
<1>13. Canonical /\ HasLine => HasLine'
  <2> SUFFICES ASSUME Canonical, HasLine PROVE HasLine'
    OBVIOUS
  <2>1. CASE k = 0
    <3>1. lost = 0
      BY <1>1, <2>1, RingBufferAssumption DEF Overflow, RingTypeOK
    <3>2. PICK i \in 1 .. count : data[position(i)] = "nl"
      BY DEF HasLine
    <3>3. i \in 1 .. count' /\ data'[position(i)'] = "nl"
      BY <1>4, <1>12, <2>1, <3>1, <3>2 DEF Item
    <3> QED
      BY <3>3 DEF HasLine
  <2>2. CASE k # 0
    <3>1. k > 0 /\ s[k] = "nl"
      BY <1>3, <1>12, <2>2
    <3>2. PICK c \in Nat : c = count'
      BY <1>12
    <3>3. c \in 1 .. count' /\ c + lost = count + k
      BY <1>4, <1>12, <3>1, <3>2
    <3>4. Item(count + k, s) = "nl"
      <4>1. ~(count + k <= count) /\ (count + k) - count = k
        BY <1>12, <3>1
      <4> QED
        BY <3>1, <4>1 DEF Item
    <3>5. data'[position(c)'] = "nl"
      BY <1>4, <3>3, <3>4
    <3> QED
      BY <3>3, <3>5 DEF HasLine
  <2> QED
    BY <2>1, <2>2
<1>14. ReadSound'
  <2>1. pc' = pc /\ got' = got /\ call' = call
    BY <1>2
  <2>2. pc = "newline" => got.n > 0 /\ got.newline
    BY <1>1 DEF ReadSound
  <2>3. ASSUME pc = "read", call.blocking, ~call.phantom
        PROVE  IF Canonical THEN HasLine' ELSE got.n > 0 \/ count' > 0
    <3>1. IF Canonical THEN HasLine ELSE got.n > 0 \/ count > 0
      BY <1>1, <2>3 DEF ReadSound
    <3>2. CASE Canonical
      BY <1>13, <3>1, <3>2
    <3>3. CASE ~Canonical
      BY <1>12, <3>1, <3>3
    <3> QED
      BY <3>2, <3>3
  <2> QED
    BY <1>6, <2>1, <2>2, <2>3 DEF ReadSound
<1>15. BlockingReadDelivers'
  BY <1>1, <1>2, <1>6 DEF BlockingReadDelivers
<1> QED
  BY <1>8, <1>9, <1>10, <1>11, <1>14, <1>15 DEF Inductive, IInv

\* An interrupt in the middle of an update: only the types are left.
LEMMA TornStep ==
    ASSUME Inductive, NEW ch \in T, NEW r \in Positions, Emit(ch, r), pc' = "torn",
           uart, count' \in 0 .. N, m_available_lines' \in 0 .. MaxLines,
           got' \in [n : Nat, newline : BOOLEAN], UNCHANGED <<m_buf, drift>>
    PROVE  Inductive'
<1>1. TypeOK /\ RingTypeOK /\ LineClean
  BY DEF Inductive, IInv, TypeOK
<1>2. /\ push_all(pushed(ch), r)
      /\ m_linebuffer' = linebuffer_after(ch) /\ UNCHANGED <<m_termios, uart, call>>
  BY DEF Emit
<1>3. pushed(ch) \in Seq(T) /\ Len(pushed(ch)) <= N
  BY <1>1, PushedIs
<1>4. data' \in [Positions -> T] /\ write_pos' \in Positions /\ read_pos' \in Positions
  BY <1>1, <1>2, <1>3, PushTypes
<1>5. /\ m_linebuffer' \in Seq(T) /\ Len(m_linebuffer') <= LineSize /\ LineClean'
  BY <1>1, <1>2, LineAfter DEF LineClean
<1>6. TypeOK'
  BY <1>1, <1>2, <1>4, <1>5 DEF TypeOK, RingTypeOK
<1> QED
  BY <1>2, <1>5, <1>6 DEF Inductive, IInv, LineAccounting, RingConsistent, Torn,
                         ReadSound, BlockingReadDelivers

-----------------------------------------------------------------------------
(* read                                                                    *)

\* What the input buffer holds after pop: all but the oldest item.
LEMMA PopItems ==
    ASSUME RingTypeOK, Aligned, pop
    PROVE  /\ RingTypeOK' /\ Aligned' /\ count \in 1 .. N /\ count' = count - 1
           /\ position(1) = read_pos
           /\ \A i \in 1 .. count' : data'[position(i)'] = data[position(i + 1)]
<1>1. /\ N \in Nat \ {0} /\ count \in 1 .. N /\ read_pos \in 0 .. N - 1
      /\ count' = count - 1 /\ UNCHANGED <<data, write_pos>>
      /\ read_pos' = (read_pos + 1) % N
  BY RingBufferAssumption DEF RingTypeOK, Positions, pop, is_empty
<1>2. read_pos' = Wrapped(read_pos + 1) /\ read_pos' \in Positions
  <2> DEFINE a == read_pos + 1
  <2>1. a \in Nat /\ a < 2 * N
    BY <1>1
  <2>2. read_pos' = a % N
    BY <1>1
  <2> HIDE DEF a
  <2>3. a % N = Wrapped(a) /\ a % N \in Positions
    BY <2>1, Wrap
  <2> QED
    BY <2>2, <2>3 DEF a
<1>3. write_pos = Wrapped(read_pos + count)
  <2> DEFINE a == read_pos + count
  <2>1. a \in Nat /\ a < 2 * N
    BY <1>1
  <2>2. write_pos = a % N
    BY DEF Aligned
  <2> HIDE DEF a
  <2>3. a % N = Wrapped(a)
    BY <2>1, Wrap
  <2> QED
    BY <2>2, <2>3 DEF a
<1>4. Aligned'
  <2> DEFINE a == read_pos' + count'
  <2>1. a \in Nat /\ a < 2 * N /\ write_pos' = Wrapped(a)
    BY <1>1, <1>2, <1>3 DEF Wrapped
  <2> HIDE DEF a
  <2>2. a % N = Wrapped(a)
    BY <2>1, Wrap
  <2> QED
    BY <2>1, <2>2 DEF a, Aligned
<1>5. RingTypeOK'
  BY <1>1, <1>2 DEF RingTypeOK
<1>6. ASSUME NEW i \in 1 .. count' PROVE data'[position(i)'] = data[position(i + 1)]
  <2>1. position(i)' = At(read_pos', i) /\ position(i + 1) = At(read_pos, i + 1)
    BY DEF position, At
  <2>2. At(read_pos', i) = At(read_pos, i + 1)
    BY <1>1, <1>2 DEF At, Wrapped
  <2> QED
    BY <1>1, <2>1, <2>2
<1>7. position(1) = read_pos
  BY <1>1 DEF position
<1> QED
  BY <1>1, <1>4, <1>5, <1>6, <1>7

\* A newline that is popped is one less in the buffer.
LEMMA PopCounts ==
    ASSUME RingTypeOK, Aligned, pop
    PROVE  /\ Newlines \in Nat /\ Newlines' \in Nat
           /\ Newlines' = Newlines - (IF data[read_pos] = "nl" THEN 1 ELSE 0)
<1> DEFINE C == {k \in 1 .. count : data[position(k)] = "nl"}
           F == {k \in 1 .. 1 : data[position(k)] = "nl"}
           R == {k \in 2 .. count : data[position(k)] = "nl"}
           D == {i \in 1 .. count' : data'[position(i)'] = "nl"}
<1>1. /\ count \in Nat /\ count > 0 /\ count' \in Nat /\ count' = count - 1
      /\ position(1) = read_pos
      /\ \A i \in 1 .. count' : data'[position(i)'] = data[position(i + 1)]
  <2>1. N \in Nat
    BY RingBufferAssumption
  <2> QED
    BY <2>1, PopItems
<1>2. Newlines = Cardinality(C) /\ Newlines' = Cardinality(D)
  BY <1>1, OwnNewlines, OwnNewlinesNext
<1>3. C = F \cup R /\ F \cap R = {}
  BY <1>1
<1>4. F = IF data[read_pos] = "nl" THEN {1} ELSE {}
  BY <1>1
<1>5. \A x \in Int : x \in D <=> x + 1 \in R
  BY <1>1
<1>6. IsFiniteSet(C) /\ IsFiniteSet(D) /\ D \in SUBSET Int /\ R \in SUBSET Int
  <2>1. C \in SUBSET (1 .. count) /\ D \in SUBSET (1 .. count') /\ R \in SUBSET Int
    OBVIOUS
  <2>2. IsFiniteSet(1 .. count) /\ IsFiniteSet(1 .. count')
    BY <1>1, FS_Interval
  <2>3. IsFiniteSet(C) /\ IsFiniteSet(D)
    BY <2>1, <2>2, FS_Subset
  <2> QED
    BY <2>1, <2>3
<1> HIDE DEF C, F, R, D
<1>7. Cardinality(R) = Cardinality(D)
  <2> DEFINE o == 1
  <2>1. o \in Int /\ \A x \in Int : x \in D <=> x + o \in R
    BY <1>5
  <2> HIDE DEF o
  <2> QED
    BY <1>6, <2>1, ShiftedSet
<1>8. /\ Cardinality(C) = Cardinality(F) + Cardinality(R)
      /\ Cardinality(F) \in Nat /\ Cardinality(R) \in Nat
  BY <1>3, <1>6, TwoParts
<1>9. Cardinality(F) = IF data[read_pos] = "nl" THEN 1 ELSE 0
  BY <1>4, FS_EmptySet, FS_Singleton
<1> QED
  BY <1>2, <1>7, <1>8, <1>9

\* One iteration of the loop of TTY::read.
LEMMA ReadPopStep ==
    ASSUME Inductive, read_pop
    PROVE  Inductive'
<1> DEFINE x == data[read_pos]
           d == IF x = "nl" THEN 1 ELSE 0
<1>1. /\ TypeOK /\ RingTypeOK /\ Aligned /\ LineAccounting /\ LineClean /\ ReadSound
      /\ pc = "read" /\ got.n < call.size
  BY DEF Inductive, IInv, TypeOK, RingConsistent, Torn, Aligned, read_pop
<1>2. /\ pop /\ got' = [n |-> got.n + 1, newline |-> x = "nl"]
      /\ IF x # "nl" THEN UNCHANGED <<pc, drift>>
         ELSE IF Canonical THEN pc' = "newline" /\ UNCHANGED drift
         ELSE drift' = drift + 1 /\ UNCHANGED pc
      /\ UNCHANGED <<m_termios, m_linebuffer, m_available_lines, m_buf, uart, call>>
  BY DEF read_pop
<1>3. /\ RingTypeOK' /\ Aligned' /\ count \in 1 .. N /\ count' = count - 1
      /\ position(1) = read_pos
      /\ \A i \in 1 .. count' : data'[position(i)'] = data[position(i + 1)]
  BY <1>1, <1>2, PopItems
<1>4. Newlines \in Nat /\ Newlines' \in Nat /\ Newlines' = Newlines - d
  BY <1>1, <1>2, PopCounts
<1> HIDE DEF x
<1>5. /\ got' \in [n : Nat, newline : BOOLEAN] /\ got'.n = got.n + 1
      /\ got'.newline = (x = "nl") /\ got'.n > 0
  <2>1. got.n \in Nat
    BY <1>1 DEF TypeOK
  <2> QED
    BY <1>2, <2>1
<1>6. Canonical' = Canonical
  BY <1>2 DEF Canonical
<1>7. pc' \in {"read", "newline"} /\ drift' \in Int
  BY <1>1, <1>2 DEF TypeOK
<1>8. TypeOK'
  BY <1>1, <1>2, <1>3, <1>5, <1>7 DEF TypeOK
<1>9. LineAccounting'
  <2>1. m_available_lines = Newlines + drift /\ drift \in Int /\ Newlines \in Int
    BY <1>1, <1>4 DEF LineAccounting, Torn, TypeOK
  <2>2. CASE x # "nl"
    <3>1. Newlines' = Newlines
      BY <1>4, <2>2
    <3>2. pc' = "read" /\ drift' = drift /\ m_available_lines' = m_available_lines
      BY <1>1, <1>2, <2>2
    <3>3. m_available_lines' = Newlines' + drift' + 0
      BY <2>1, <3>1, <3>2
    <3> QED
      BY <3>2, <3>3 DEF LineAccounting, Torn
  <2>3. CASE x = "nl" /\ Canonical
    <3>1. Newlines' = Newlines - 1
      BY <1>4, <2>3
    <3>2. pc' = "newline" /\ drift' = drift /\ m_available_lines' = m_available_lines
      BY <1>2, <2>3
    <3>3. m_available_lines' = Newlines' + drift' + 1
      BY <2>1, <3>1, <3>2
    <3> QED
      BY <3>2, <3>3 DEF LineAccounting, Torn
  <2>4. CASE x = "nl" /\ ~Canonical
    <3>1. Newlines' = Newlines - 1
      BY <1>4, <2>4
    <3>2. pc' = "read" /\ drift' = drift + 1 /\ m_available_lines' = m_available_lines
      BY <1>1, <1>2, <2>4
    <3>3. m_available_lines' = Newlines' + drift' + 0
      BY <2>1, <3>1, <3>2
    <3> QED
      BY <3>2, <3>3 DEF LineAccounting, Torn
  <2> QED
    BY <2>2, <2>3, <2>4
<1>10. RingConsistent' /\ LineClean' /\ BlockingReadDelivers'
  BY <1>1, <1>2, <1>3, <1>7
  DEF RingConsistent, Torn, Aligned, LineClean, BlockingReadDelivers
<1>11. ASSUME Canonical, HasLine, x # "nl" PROVE HasLine'
  <2>1. PICK k \in 1 .. count : data[position(k)] = "nl"
    BY <1>11 DEF HasLine
  <2>2. k # 1
    BY <1>3, <1>11, <2>1 DEF x
  <2>3. N \in Nat
    BY RingBufferAssumption
  <2>4. k - 1 \in 1 .. count' /\ (k - 1) + 1 = k
    BY <1>3, <2>1, <2>2, <2>3
  <2> DEFINE i == k - 1
  <2>5. i \in 1 .. count' /\ data'[position(i)'] = "nl"
    BY <1>3, <2>1, <2>4
  <2> HIDE DEF i
  <2> QED
    BY <2>5 DEF HasLine
<1>12. ReadSound'
  <2>1. pc' = "newline" => got'.n > 0 /\ got'.newline
    BY <1>1, <1>2, <1>5
  <2>2. ASSUME pc' = "read", call.blocking, ~call.phantom
        PROVE  IF Canonical THEN HasLine' ELSE got'.n > 0 \/ count' > 0
    <3>1. CASE Canonical
      <4>1. HasLine
        BY <1>1, <2>2, <3>1 DEF ReadSound
      <4>2. x # "nl"
        BY <1>2, <2>2, <3>1
      <4> QED
        BY <1>11, <3>1, <4>1, <4>2
    <3>2. CASE ~Canonical
      BY <1>5, <3>2
    <3> QED
      BY <3>1, <3>2
  <2> QED
    BY <1>2, <1>6, <2>1, <2>2 DEF ReadSound
<1> QED
  BY <1>8, <1>9, <1>10, <1>12 DEF Inductive, IInv

\* Steps that leave the input buffer and the lines alone.
LEMMA SameLines ==
    ASSUME UNCHANGED <<ring, drift>>
    PROVE  Newlines' = Newlines /\ (HasLine <=> HasLine')
<1>1. UNCHANGED <<data, read_pos, write_pos, count>>
  BY DEF ring
<1>2. \A k : position(k)' = position(k)
  BY <1>1 DEF position
<1> QED
  BY <1>1, <1>2 DEF Newlines, newlines, HasLine, position

\* The end of a line that read has popped.
LEMMA ReadNewlineStep ==
    ASSUME Inductive, read_newline
    PROVE  Inductive'
<1>1. /\ TypeOK /\ LineAccounting /\ RingConsistent /\ LineClean /\ ReadSound
      /\ pc = "newline"
  BY DEF Inductive, IInv, read_newline
<1>2. UNCHANGED <<ring, m_termios, m_linebuffer, m_buf, uart, drift, call, got>>
  BY DEF read_newline
<1>3. \/ /\ m_available_lines > 0 /\ m_available_lines' = m_available_lines - 1
         /\ pc' = "returned"
      \/ pc' = "kassert" /\ UNCHANGED m_available_lines
  BY DEF read_newline
<1>4. got.n > 0 /\ got.newline
  BY <1>1 DEF ReadSound
<1>5. m_available_lines' \in 0 .. MaxLines /\ m_available_lines \in Int /\ drift \in Int
  BY <1>1, <1>3, TtyAssumption DEF TypeOK
<1>6. TypeOK'
  BY <1>1, <1>2, <1>3, <1>5 DEF TypeOK, RingTypeOK, ring
<1>7. LineAccounting'
  <2> DEFINE n == Newlines
  <2>1. m_available_lines = n + drift + 1 /\ Newlines' = n
    BY <1>1, <1>2, SameLines DEF LineAccounting, Torn
  <2>2. n \in Int
    <3>1. count \in Nat
      BY <1>1, RingBufferAssumption DEF TypeOK, RingTypeOK
    <3> QED
      BY <3>1, OwnMarks, MarksFinite
  <2> HIDE DEF n
  <2>3. CASE pc' = "returned" /\ m_available_lines' = m_available_lines - 1
    <3>1. m_available_lines' = n + drift
      BY <1>5, <2>1, <2>2, <2>3
    <3>2. n + drift + 0 = n + drift
      BY <1>5, <2>2
    <3> QED
      BY <1>2, <2>1, <2>3, <3>1, <3>2 DEF LineAccounting, Torn
  <2>4. CASE pc' = "kassert" /\ UNCHANGED m_available_lines
    BY <1>2, <2>1, <2>4 DEF LineAccounting, Torn
  <2> QED
    BY <1>3, <2>3, <2>4
<1>8. RingConsistent' /\ LineClean' /\ ReadSound' /\ BlockingReadDelivers'
  BY <1>1, <1>2, <1>3, <1>4
  DEF RingConsistent, Torn, LineClean, ReadSound, BlockingReadDelivers, ring, Canonical
<1> QED
  BY <1>6, <1>7, <1>8 DEF Inductive, IInv

\* Steps between reads and at their end: nothing is counted.
LEMMA QuietStep ==
    ASSUME Inductive, UNCHANGED <<ring, m_linebuffer, m_available_lines, drift, uart>>,
           m_buf' \in 0 .. EchoSize, m_termios' \in SUBSET Flags,
           pc' = pc \/ (pc \in {"out", "read", "returned"}
                        /\ pc' \in {"out", "read", "returned"}),
           call' \in Call, got' \in [n : Nat, newline : BOOLEAN],
           ReadSound', BlockingReadDelivers'
    PROVE  Inductive'
<1>1. TypeOK /\ LineAccounting /\ RingConsistent /\ LineClean
  BY DEF Inductive, IInv
<1>2. TypeOK'
  BY <1>1 DEF TypeOK, RingTypeOK, ring
<1>3. LineAccounting'
  <2>1. Newlines' = Newlines
    BY SameLines
  <2> QED
    BY <1>1, <2>1 DEF LineAccounting, Torn
<1>4. RingConsistent' /\ LineClean'
  BY <1>1 DEF RingConsistent, Torn, LineClean, ring
<1> QED
  BY <1>2, <1>3, <1>4 DEF Inductive, IInv

\* Where newlines are counted there is one.
LEMMA SomeNewline ==
    ASSUME RingTypeOK
    PROVE  Newlines \in Nat /\ (Newlines > 0 => HasLine)
<1> DEFINE C == {i \in 1 .. count : data[position(i)] = "nl"}
<1>1. count \in Nat
  BY RingBufferAssumption DEF RingTypeOK
<1>2. Newlines = Cardinality(C)
  BY <1>1, OwnNewlines
<1>3. Newlines \in Nat
  BY <1>1, OwnMarks, MarksFinite
<1>4. C = {} => Newlines = 0
  BY <1>2, FS_EmptySet
<1>5. C # {} => HasLine
  BY DEF HasLine
<1> QED
  BY <1>3, <1>4, <1>5

\* A blocking read begins when poll says that it can.
LEMMA ReadBeginStep ==
    ASSUME Inductive, NEW size \in Sizes, NEW blocking \in BOOLEAN,
           read_begin(size, blocking)
    PROVE  Inductive'
<1>1. TypeOK /\ RingTypeOK /\ LineAccounting
  BY DEF Inductive, IInv, TypeOK
<1>2. /\ pc = "out" /\ (blocking => can_read) /\ pc' = "read" /\ got' = Nothing
      /\ call' = [size |-> size, blocking |-> blocking, phantom |-> drift > 0]
  BY DEF read_begin
<1>3. UNCHANGED <<ring, m_termios, m_linebuffer, m_available_lines, m_buf, uart, drift>>
  BY DEF read_begin, terminal
<1>4. call' \in Call /\ call'.blocking = blocking /\ call'.phantom = (drift > 0)
  <2>1. (drift > 0) \in BOOLEAN
    OBVIOUS
  <2> QED
    BY <1>2, <2>1, Zenon DEF Call
<1>5. got' \in [n : Nat, newline : BOOLEAN]
  BY <1>2 DEF Nothing
<1>6. ASSUME blocking, ~(drift > 0), Canonical PROVE HasLine
  <2>1. m_available_lines > 0
    BY <1>2, <1>6 DEF can_read
  <2>2. m_available_lines = Newlines + drift /\ drift \in Int
    BY <1>1, <1>2, SomeNewline DEF LineAccounting, Torn, TypeOK
  <2>3. Newlines > 0
    BY <1>1, <1>6, <2>1, <2>2, SomeNewline
  <2> QED
    BY <1>1, <2>3, SomeNewline
<1>7. ASSUME blocking, ~Canonical PROVE count' > 0
  BY <1>1, <1>2, <1>3, <1>7, RingBufferAssumption
  DEF can_read, is_empty, RingTypeOK, ring
<1>8. Canonical' = Canonical /\ (HasLine <=> HasLine')
  BY <1>3, SameLines DEF Canonical
<1>9. ReadSound'
  BY <1>2, <1>4, <1>6, <1>7, <1>8 DEF ReadSound
<1>10. BlockingReadDelivers'
  BY <1>2 DEF BlockingReadDelivers
<1>11. m_buf' \in 0 .. EchoSize /\ m_termios' \in SUBSET Flags
  BY <1>1, <1>3 DEF TypeOK
<1>12. pc \in {"out", "read", "returned"} /\ pc' \in {"out", "read", "returned"}
  BY <1>2
<1> QED
  BY <1>3, <1>4, <1>5, <1>9, <1>10, <1>11, <1>12, QuietStep

\* The loop of TTY::read ends, with what it was let in for.
LEMMA ReadEndStep ==
    ASSUME Inductive, read_end
    PROVE  Inductive'
<1>1. TypeOK /\ ReadSound
  BY DEF Inductive, IInv
<1>2. /\ pc = "read" /\ (is_empty \/ got.n = call.size) /\ pc' = "returned"
      /\ UNCHANGED <<call, got>>
  BY DEF read_end
<1>3. UNCHANGED <<ring, m_termios, m_linebuffer, m_available_lines, m_buf, uart, drift>>
  BY DEF read_end, terminal
<1>4. call \in Call /\ got \in [n : Nat, newline : BOOLEAN]
  BY <1>1 DEF TypeOK
<1>5. call.size > 0 /\ call.size \in Nat
  <2>1. call.size \in Sizes
    BY <1>4 DEF Call
  <2>2. \A z \in Sizes : z \in Nat \ {0}
    BY TtyAssumption
  <2> QED
    BY <2>1, <2>2
<1>6. Canonical' = Canonical
  BY <1>3 DEF Canonical
<1>7. ASSUME call.blocking, ~call.phantom
      PROVE  got.n > 0 /\ (Canonical => got.newline \/ got.n = call.size)
  <2>1. CASE got.n = call.size
    BY <1>5, <2>1
  <2>2. CASE got.n # call.size
    <3>1. count = 0
      BY <1>2, <2>2 DEF is_empty
    <3>2. ~HasLine
      BY <3>1 DEF HasLine
    <3>3. IF Canonical THEN HasLine ELSE got.n > 0 \/ count > 0
      BY <1>1, <1>2, <1>7 DEF ReadSound
    <3> QED
      BY <3>1, <3>2, <3>3
  <2> QED
    BY <2>1, <2>2
<1>8. BlockingReadDelivers'
  BY <1>2, <1>6, <1>7 DEF BlockingReadDelivers
<1>9. ReadSound'
  BY <1>2 DEF ReadSound
<1>10. /\ call' \in Call /\ got' \in [n : Nat, newline : BOOLEAN]
       /\ m_buf' \in 0 .. EchoSize /\ m_termios' \in SUBSET Flags
  BY <1>1, <1>2, <1>3, <1>4 DEF TypeOK
<1>11. pc \in {"out", "read", "returned"} /\ pc' \in {"out", "read", "returned"}
  BY <1>2
<1> QED
  BY <1>3, <1>8, <1>9, <1>10, <1>11, QuietStep

\* No read is under way, and a program may name a size to read.
LEMMA NoCallType == NoCall \in Call /\ Nothing \in [n : Nat, newline : BOOLEAN]
<1> DEFINE z == CHOOSE n \in Sizes : TRUE
<1>1. z \in Sizes
  BY TtyAssumption
<1> HIDE DEF z
<1>2. [size |-> z, blocking |-> TRUE, phantom |-> FALSE] \in Call
  BY <1>1 DEF Call
<1> QED
  BY <1>2 DEF NoCall, Nothing, z

\* Settings, echo and the return to the program.
LEMMA OutsideStep ==
    ASSUME Inductive,
           \/ read_returns \/ master_read
           \/ \E ch \in T : tty_write(ch)
           \/ \E settings \in Settings : tcsetattr(settings)
           \/ UNCHANGED vars
    PROVE  Inductive'
<1>1. TypeOK /\ ReadSound /\ BlockingReadDelivers
  BY DEF Inductive, IInv
<1>2. UNCHANGED <<ring, m_linebuffer, m_available_lines, drift, uart>>
  BY DEF read_returns, master_read, tty_write, tcsetattr, vars, terminal
<1>3. /\ m_termios \in SUBSET Flags /\ m_buf \in 0 .. EchoSize /\ EchoSize \in Nat
      /\ call \in Call /\ got \in [n : Nat, newline : BOOLEAN]
  BY <1>1, TtyAssumption DEF TypeOK
<1>4. m_termios' \in SUBSET Flags
  BY <1>3, TtyAssumption
  DEF read_returns, master_read, tty_write, tcsetattr, vars, terminal
<1>5. m_buf' \in 0 .. EchoSize
  <2>1. CASE UNCHANGED m_buf
    BY <1>3, <2>1
  <2>2. CASE master_read
    BY <1>3, <2>2 DEF master_read
  <2>3. CASE \E ch \in T : tty_write(ch)
    <3>1. PICK ch \in T : m_buf' = Smaller(EchoSize, m_buf + echo(ch))
      BY <2>3 DEF tty_write
    <3>2. echo(ch) \in Nat
      BY DEF echo
    <3> QED
      BY <1>3, <3>1, <3>2 DEF Smaller
  <2> QED
    BY <2>1, <2>2, <2>3 DEF read_returns, tcsetattr, vars, terminal
<1>6. /\ call' \in Call /\ got' \in [n : Nat, newline : BOOLEAN]
      /\ pc' = pc \/ (pc \in {"out", "read", "returned"}
                      /\ pc' \in {"out", "read", "returned"})
  BY <1>3, NoCallType
  DEF read_returns, master_read, tty_write, tcsetattr, vars, reader
<1>7. \/ pc' = "out"
      \/ UNCHANGED <<pc, call, got, m_termios>>
  BY DEF read_returns, master_read, tty_write, tcsetattr, vars, reader, terminal
<1>8. HasLine <=> HasLine'
  BY <1>2, SameLines
<1>9. ReadSound' /\ BlockingReadDelivers'
  <2>1. CASE pc' = "out"
    BY <2>1 DEF ReadSound, BlockingReadDelivers
  <2>2. CASE UNCHANGED <<pc, call, got, m_termios>>
    BY <1>1, <1>2, <1>8, <2>2 DEF ReadSound, BlockingReadDelivers, Canonical, ring
  <2> QED
    BY <1>7, <2>1, <2>2
<1> QED
  BY <1>2, <1>4, <1>5, <1>6, <1>9, QuietStep

-----------------------------------------------------------------------------
(* The theorems                                                            *)

\* At first the terminal is empty.
LEMMA InitInductive == Init => Inductive
<1> SUFFICES ASSUME Init PROVE Inductive
  OBVIOUS
<1> USE DEF Init
<1>1. N \in Nat \ {0} /\ "nl" \in T /\ 0 \in Positions /\ EchoSize \in Nat /\ MaxLines \in Nat
      /\ LineSize \in Nat
  BY RingBufferAssumption, TtyAssumption DEF Positions
<1>2. RingTypeOK
  BY <1>1 DEF RingTypeOK
<1>3. m_linebuffer \in Seq(T) /\ Len(m_linebuffer) = 0
  OBVIOUS
<1>4. TypeOK
  BY <1>1, <1>2, <1>3, NoCallType DEF TypeOK, Flags
<1>5. Newlines = 0
  <2>1. {i \in 1 .. count : data[position(i)] = "nl"} = {}
    BY <1>1
  <2> QED
    BY <1>1, <2>1, OwnNewlines, FS_EmptySet
<1>6. LineAccounting
  BY <1>5 DEF LineAccounting, Torn
<1>7. RingConsistent
  <2> DEFINE a == read_pos + count
  <2>1. a = 0 /\ a \in Nat /\ a < 2 * N
    BY <1>1
  <2> HIDE DEF a
  <2>2. a % N = Wrapped(a)
    BY <2>1, Wrap
  <2>3. Wrapped(a) = 0
    BY <1>1, <2>1 DEF Wrapped
  <2> QED
    BY <2>2, <2>3 DEF RingConsistent, Torn, a
<1>8. LineClean /\ ReadSound /\ BlockingReadDelivers
  BY <1>3 DEF LineClean, ReadSound, BlockingReadDelivers
<1> QED
  BY <1>4, <1>6, <1>7, <1>8 DEF Inductive, IInv

\* Every step keeps the invariant.
LEMMA StepInductive == Inductive /\ [Next]_vars => Inductive'
<1> SUFFICES ASSUME Inductive, [Next]_vars PROVE Inductive'
  OBVIOUS
<1>1. TypeOK
  BY DEF Inductive, IInv
<1>2. ASSUME NEW key \in T, emit(key) \/ irq_emit(key) PROVE Inductive'
  <2> DEFINE ch == translate(key)
  <2>1. ch \in T
    BY TranslateType
  <2>2. /\ pc # "torn" /\ Emit(ch, oldest_after(pushed(ch)))
        /\ count' = Smaller(N, count + Len(pushed(ch)))
        /\ m_available_lines' = lines_after(ch) /\ drift' = drift_after(ch)
        /\ UNCHANGED <<pc, got>>
        /\ m_buf' = m_buf \/ m_buf' = Smaller(EchoSize, m_buf + echoes(ch))
    BY <1>2 DEF emit, irq_emit
  <2> HIDE DEF ch
  <2>3. m_buf' \in 0 .. EchoSize
    <3>1. m_buf \in 0 .. EchoSize /\ EchoSize \in Nat
      BY <1>1, TtyAssumption DEF TypeOK
    <3>2. echoes(ch) \in Nat
      BY DEF echoes, echo
    <3> QED
      BY <2>2, <3>1, <3>2 DEF Smaller
  <2> QED
    BY <2>1, <2>2, <2>3, EmitStep
<1>3. ASSUME NEW key \in T, irq_during_pop(key) PROVE Inductive'
  <2> DEFINE ch == translate(key)
             s == pushed(ch)
  <2>1. ch \in T
    BY TranslateType
  <2>2. PICK r \in {read_pos, oldest_after(s)},
             c \in {count, Smaller(N, count + Len(s))} :
          Emit(ch, (r + 1) % N) /\ count' = c - 1
    BY <1>3 DEF irq_during_pop
  <2>3. /\ uart /\ ~is_empty /\ pc' = "torn" /\ m_available_lines' = lines_after(ch)
        /\ UNCHANGED <<m_buf, drift>>
        /\ \E d \in {data, data'} :
             got' = [n |-> got.n + 1, newline |-> d[read_pos] = "nl"]
    BY <1>3 DEF irq_during_pop
  <2> HIDE DEF ch
  <2>4. s \in Seq(T) /\ Len(s) <= N /\ Len(s) \in Nat
    BY <1>1, <2>1, PushedIs DEF Inductive
  <2>5. count \in 1 .. N /\ N \in Nat \ {0} /\ read_pos \in Positions
    BY <1>1, <2>3, RingBufferAssumption DEF TypeOK, RingTypeOK, is_empty
  <2>6. (r + 1) % N \in Positions
    <3>1. r \in Positions
      BY <1>1, <2>2, <2>4, <2>5, OldestAfter DEF TypeOK
    <3> DEFINE a == r + 1
    <3>2. a \in Nat /\ a < 2 * N
      BY <2>5, <3>1 DEF Positions
    <3> HIDE DEF a
    <3>3. a % N \in Positions
      BY <3>2, Wrap
    <3> QED
      BY <3>3 DEF a
  <2> HIDE DEF s
  <2>7. count' \in 0 .. N
    BY <2>2, <2>4, <2>5 DEF Smaller
  <2>8. m_available_lines' \in 0 .. MaxLines
    BY <1>1, <2>2, <2>3, TtyAssumption DEF TypeOK, lines_after, Emit
  <2>9. got' \in [n : Nat, newline : BOOLEAN]
    <3>1. got.n \in Nat
      BY <1>1 DEF TypeOK
    <3> QED
      BY <2>3, <3>1
  <2> QED
    BY <2>1, <2>2, <2>3, <2>6, <2>7, <2>8, <2>9, TornStep
<1>4. ASSUME NEW key \in T, irq_during_decrement(key) PROVE Inductive'
  <2> DEFINE ch == translate(key)
             r == oldest_after(pushed(ch))
  <2>1. ch \in T
    BY TranslateType
  <2>2. /\ uart /\ m_available_lines > 0 /\ Emit(ch, r) /\ pc' = "torn"
        /\ count' = Smaller(N, count + Len(pushed(ch)))
        /\ m_available_lines' = m_available_lines - 1
        /\ UNCHANGED <<m_buf, drift, got>>
    BY <1>4 DEF irq_during_decrement
  <2> HIDE DEF ch
  <2>3. pushed(ch) \in Seq(T) /\ Len(pushed(ch)) <= N /\ Len(pushed(ch)) \in Nat
    BY <1>1, <2>1, PushedIs DEF Inductive
  <2>4. r \in Positions /\ got' \in [n : Nat, newline : BOOLEAN]
    BY <1>1, <2>2, <2>3, OldestAfter DEF TypeOK
  <2>5. count' \in 0 .. N
    BY <1>1, <2>2, <2>3, RingBufferAssumption DEF TypeOK, RingTypeOK, Smaller
  <2>6. m_available_lines' \in 0 .. MaxLines
    BY <1>1, <2>2, TtyAssumption DEF TypeOK
  <2> HIDE DEF r
  <2> QED
    BY <2>1, <2>2, <2>4, <2>5, <2>6, TornStep
<1>5. ASSUME NEW size \in Sizes, NEW blocking \in BOOLEAN, read_begin(size, blocking)
      PROVE  Inductive'
  BY <1>5, ReadBeginStep
<1>6. ASSUME \/ read_returns \/ master_read
             \/ \E ch \in T : tty_write(ch)
             \/ \E settings \in Settings : tcsetattr(settings)
             \/ UNCHANGED vars
      PROVE  Inductive'
  BY <1>6, OutsideStep
<1> QED
  BY <1>2, <1>3, <1>4, <1>5, <1>6, ReadPopStep, ReadNewlineStep, ReadEndStep
  DEF Next, ReadNext, BlockingRead

\* The invariant holds in every state, whatever the master, the interrupt of
\* a UART and the reading program do.  After an interrupt in the middle of an
\* update (pc "torn") it says no more than the types: its other parts are about
\* ptys, and about a UART up to that interrupt.
THEOREM TtyInvariant == Spec => []Inductive
<1> QED
  BY InitInductive, StepInductive, PTL DEF Spec

\* m_available_lines is the number of newlines in the input buffer, up to
\* those that raw mode and overflow account for, and the positions agree with
\* the count, after every mix of emit, read and ioctl with buffers of every
\* size: always for a pty, and for a UART until an interrupt pushes in the
\* middle of pop's update of read_pos and count, or flushes a line in the
\* middle of m_available_lines--.
THEOREM LinesStayAccounted == Spec => []IInv
<1>1. Inductive => IInv
  BY DEF Inductive
<1> QED
  BY <1>1, TtyInvariant, PTL

\* A blocking read of a terminal returns at least a byte and, in canonical
\* mode, a whole line or a full buffer, although interrupts push lines and
\* overwrite the oldest between the steps of TTY::read; unless more lines were
\* counted than there are when it began.  Nothing is said of a read after an
\* interrupt in the middle of an update, which loses bytes that were counted.
THEOREM BlockingReadsDeliver == Spec => []BlockingReadDelivers
<1>1. Inductive => BlockingReadDelivers
  BY DEF Inductive
<1> QED
  BY <1>1, TtyInvariant, PTL

-----------------------------------------------------------------------------
(* The filesystem of pseudo terminals, for every number of ptys and of     *)
(* open files: a pair lives as long as one of its ends is open and no      *)
(* longer, and an open file has its device unless the icache handed it an  *)
(* inode that ptyfs had closed.                                            *)

Pty == INSTANCE Ptyfs

\* The icache counts the open files of an inode, plus one reference it kept
\* at the last close and never gives back: from then on every open file is of
\* an inode that was reused.
CountsOf(n) ==
    /\ refcount[n] \in {opens[n], opens[n] + 1}
    /\ n \in reused => refcount[n] = opens[n] + 1
    /\ refcount[n] = opens[n] + 1 /\ opens[n] > 0 => n \in reused

\* ptyfs has been told to open the inode and has not been told to close it.
Told(n) == opens[n] > 0 /\ refcount[n] = opens[n]

\* What a pair remembers of its ends is what ptyfs has been told.  A pair is
\* made only for a master whose inode is new.
EndsOf(id) ==
    LET pair == ptys[id]
    IN /\ pair.live => refcount[Pty!Master(id)] > 0
       /\ pair.live /\ ~pair.closed => Told(Pty!Master(id))
       /\ pair.live /\ pair.closed => pair.slave_open
       /\ pair.live /\ pair.slave_open => Told(Pty!Slave(id))
       /\ Told(Pty!Slave(id)) => pair.live /\ pair.slave_open
       /\ Told(Pty!Master(id)) => (pair.live /\ ~pair.closed) \/ no_memory

PtyInv ==
    /\ Pty!PtysTypeOK
    /\ \A n \in Pty!Inodes : CountsOf(n)
    /\ \A id \in Pty!Ids : EndsOf(id)
    /\ Pty!NeverABug

\* The two ends of a pty are its inodes.
LEMMA PtyEnds ==
    /\ \A id \in Pty!Ids : Pty!Master(id) \in Pty!Inodes /\ Pty!Slave(id) \in Pty!Inodes
    /\ \A id, k \in Pty!Ids : Pty!Master(id) # Pty!Slave(k)
    /\ \A id, k \in Pty!Ids : id # k => Pty!Master(id) # Pty!Master(k) /\ Pty!Slave(id) # Pty!Slave(k)
    /\ \A n \in Pty!Inodes :
         /\ n.id \in Pty!Ids
         /\ n.end = "master" => n = Pty!Master(n.id)
         /\ n.end # "master" => n = Pty!Slave(n.id) /\ n.end = "slave"
BY DEF Pty!Inodes, Pty!Master, Pty!Slave

\* A step on one inode leaves the counts of the others alone, so its effect on
\* the pairs is its effect on the inode's own pair.
LEMMA OtherPtys ==
    ASSUME PtyInv, NEW n \in Pty!Inodes, NEW id \in Pty!Ids, id # n.id,
           \A m \in Pty!Inodes \ {n} : refcount'[m] = refcount[m] /\ opens'[m] = opens[m],
           ptys'[id] = ptys[id], no_memory => no_memory'
    PROVE  EndsOf(id)'
<1>1. Pty!Master(id) \in Pty!Inodes \ {n} /\ Pty!Slave(id) \in Pty!Inodes \ {n}
  BY PtyEnds DEF Pty!Master, Pty!Slave
<1> QED
  BY <1>1 DEF PtyInv, EndsOf, Told

\* Opening "ptmx" or the slave of a pty.
LEMMA PtyOpenStep ==
    ASSUME PtyInv, NEW n \in Pty!Inodes, Pty!vfs_open(n)
    PROVE  PtyInv'
<1> USE PtysAssumption
<1>1. CountsOf(n) /\ opens[n] \in Nat /\ refcount[n] \in Nat /\ opens[n] < MaxOpens
  BY DEF PtyInv, Pty!PtysTypeOK, Pty!vfs_open
<1>2. /\ refcount' = [refcount EXCEPT ![n] = @ + 1]
      /\ opens' = [opens EXCEPT ![n] = @ + 1]
      /\ refcount'[n] = refcount[n] + 1 /\ opens'[n] = opens[n] + 1
      /\ \A m \in Pty!Inodes \ {n} : refcount'[m] = refcount[m] /\ opens'[m] = opens[m]
  BY DEF PtyInv, Pty!PtysTypeOK, Pty!vfs_open
<1>3. reused' = IF refcount[n] > 0 /\ opens[n] = 0 THEN reused \cup {n} ELSE reused
  BY DEF Pty!vfs_open
<1>4. refcount' \in [Pty!Inodes -> 0 .. MaxOpens + 1] /\ opens' \in [Pty!Inodes -> 0 .. MaxOpens]
  <2>1. refcount[n] + 1 \in 0 .. MaxOpens + 1 /\ opens[n] + 1 \in 0 .. MaxOpens
    BY <1>1 DEF CountsOf
  <2> QED
    BY <1>2, <2>1 DEF PtyInv, Pty!PtysTypeOK
<1>5. \A m \in Pty!Inodes : CountsOf(m)'
  <2> SUFFICES ASSUME NEW m \in Pty!Inodes PROVE CountsOf(m)'
    OBVIOUS
  <2>1. CASE m # n
    BY <1>2, <1>3, <2>1 DEF PtyInv, CountsOf
  <2>2. CASE m = n
    BY <1>1, <1>2, <1>3, <2>2 DEF CountsOf
  <2> QED
    BY <2>1, <2>2
<1>6. CASE refcount[n] > 0
  <2>1. ptys' = ptys /\ bug' = bug /\ no_memory' = no_memory
    BY <1>6 DEF Pty!vfs_open
  <2>2. Pty!PtysTypeOK'
    BY <1>3, <1>4, <2>1 DEF PtyInv, Pty!PtysTypeOK
  <2>3. Told(n)' <=> Told(n)
    BY <1>1, <1>2, <1>6 DEF Told, CountsOf
  <2>4. \A id \in Pty!Ids : EndsOf(id)'
    <3> SUFFICES ASSUME NEW id \in Pty!Ids PROVE EndsOf(id)'
      OBVIOUS
    <3>1. CASE id # n.id
      BY <1>2, <2>1, <3>1, OtherPtys
    <3>2. CASE id = n.id /\ n = Pty!Master(id)
      <4>1. Told(Pty!Slave(id))' <=> Told(Pty!Slave(id))
        BY <1>2, <3>2, PtyEnds DEF Told
      <4> QED
        BY <1>1, <1>2, <2>1, <2>3, <3>2, <4>1 DEF PtyInv, EndsOf
    <3>3. CASE id = n.id /\ n = Pty!Slave(id)
      <4>1. (Told(Pty!Master(id))' <=> Told(Pty!Master(id))) /\ refcount'[Pty!Master(id)] = refcount[Pty!Master(id)]
        BY <1>2, <3>3, PtyEnds DEF Told
      <4> QED
        BY <1>1, <1>2, <2>1, <2>3, <3>3, <4>1 DEF PtyInv, EndsOf
    <3> QED
      BY <3>1, <3>2, <3>3, PtyEnds
  <2> QED
    BY <1>5, <2>1, <2>2, <2>4 DEF PtyInv, Pty!NeverABug
<1>7. CASE refcount[n] = 0 /\ n.end = "master"
  <2>1. n = Pty!Master(n.id) /\ n.id \in Pty!Ids /\ bug' = bug /\ ~ptys[n.id].live
    BY <1>7, PtyEnds DEF Pty!vfs_open, Pty!ptyfs_fs_open_inode, Pty!lookup
  <2>2. \/ ptys' = [ptys EXCEPT ![n.id] = Pty!Pair(FALSE, FALSE)] /\ no_memory' = no_memory
        \/ no_memory' = TRUE /\ ptys' = ptys
    <3>1. Pty!ptyfs_fs_open_inode(n)
      BY <1>7 DEF Pty!vfs_open
    <3> QED
      BY <1>7, <3>1, Zenon DEF Pty!ptyfs_fs_open_inode, Pty!create_pty_pair
  <2>3. Pty!PtysTypeOK'
    <3>1. ptys' \in [Pty!Ids -> [live : BOOLEAN, closed : BOOLEAN, slave_open : BOOLEAN]]
      <4>1. Pty!Pair(FALSE, FALSE) \in [live : BOOLEAN, closed : BOOLEAN, slave_open : BOOLEAN]
        BY DEF Pty!Pair
      <4> QED
        BY <2>1, <2>2, <4>1 DEF PtyInv, Pty!PtysTypeOK
    <3>2. no_memory' \in BOOLEAN
      BY <2>2 DEF PtyInv, Pty!PtysTypeOK
    <3> QED
      BY <1>3, <1>4, <2>1, <3>1, <3>2 DEF PtyInv, Pty!PtysTypeOK
  <2>4. \A id \in Pty!Ids : EndsOf(id)'
    <3> SUFFICES ASSUME NEW id \in Pty!Ids PROVE EndsOf(id)'
      OBVIOUS
    <3>1. CASE id # n.id
      BY <1>2, <2>1, <2>2, <3>1, OtherPtys DEF PtyInv, Pty!PtysTypeOK
    <3>2. CASE id = n.id
      <4>1. Told(Pty!Slave(id))' <=> Told(Pty!Slave(id))
        BY <1>2, <2>1, <3>2, PtyEnds DEF Told
      <4>2. ~Told(Pty!Slave(id))
        BY <2>1, <3>2 DEF PtyInv, EndsOf
      <4>3. Told(n)'
        BY <1>1, <1>2, <1>7 DEF Told, CountsOf
      <4>4. refcount'[n] > 0
        BY <1>1, <1>2
      <4>5. CASE no_memory' = TRUE /\ ptys' = ptys
        BY <2>1, <3>2, <4>1, <4>2, <4>3, <4>4, <4>5 DEF EndsOf
      <4>6. CASE ptys' = [ptys EXCEPT ![n.id] = Pty!Pair(FALSE, FALSE)]
        <5>1. ptys'[id] = Pty!Pair(FALSE, FALSE)
          BY <3>2, <4>6 DEF PtyInv, Pty!PtysTypeOK
        <5>2. ptys'[id].live /\ ~ptys'[id].closed /\ ~ptys'[id].slave_open
          BY <5>1 DEF Pty!Pair
        <5> QED
          BY <2>1, <3>2, <4>1, <4>2, <4>3, <4>4, <5>2 DEF EndsOf
      <4> QED
        BY <2>2, <4>5, <4>6
    <3> QED
      BY <3>1, <3>2
  <2> QED
    BY <1>5, <2>1, <2>2, <2>3, <2>4 DEF PtyInv, Pty!NeverABug
<1>8. CASE refcount[n] = 0 /\ n.end # "master"
  <2>1. n = Pty!Slave(n.id) /\ n.id \in Pty!Ids /\ ptys[n.id].live /\ n.end = "slave"
    BY <1>8, PtyEnds DEF Pty!vfs_open, Pty!lookup
  <2>2. /\ ptys' = [ptys EXCEPT ![n.id] = Pty!Pair(@.closed, TRUE)]
        /\ bug' = bug /\ no_memory' = no_memory
    <3>1. Pty!ptyfs_fs_open_inode(n)
      BY <1>8 DEF Pty!vfs_open
    <3>2. /\ ptys' = [ptys EXCEPT ![n.id] = IF @.live THEN Pty!Pair(@.closed, TRUE) ELSE @]
          /\ bug' = (bug \/ ~ptys[n.id].live)
          /\ no_memory' = no_memory
      BY <1>8, <3>1, Zenon DEF Pty!ptyfs_fs_open_inode
    <3>3. bug' = bug
      BY <2>1, <3>2 DEF PtyInv, Pty!PtysTypeOK
    <3> QED
      BY <2>1, <3>2, <3>3 DEF PtyInv, Pty!PtysTypeOK
  <2>3. Pty!PtysTypeOK'
    BY <1>3, <1>4, <2>1, <2>2 DEF PtyInv, Pty!PtysTypeOK, Pty!Pair
  <2>4. \A id \in Pty!Ids : EndsOf(id)'
    <3> SUFFICES ASSUME NEW id \in Pty!Ids PROVE EndsOf(id)'
      OBVIOUS
    <3>1. CASE id # n.id
      BY <1>2, <2>1, <2>2, <3>1, OtherPtys DEF PtyInv, Pty!PtysTypeOK
    <3>2. CASE id = n.id
      <4>1. (Told(Pty!Master(id))' <=> Told(Pty!Master(id))) /\ refcount'[Pty!Master(id)] = refcount[Pty!Master(id)]
        BY <1>2, <2>1, <3>2, PtyEnds DEF Told
      <4>2. ptys'[id].live /\ ptys'[id].slave_open
            /\ (ptys'[id].closed <=> ptys[id].closed)
        BY <2>1, <2>2, <3>2 DEF PtyInv, Pty!PtysTypeOK, Pty!Pair
      <4>3. Told(n)'
        BY <1>1, <1>2, <1>8 DEF Told, CountsOf
      <4> QED
        BY <2>1, <2>2, <3>2, <4>1, <4>2, <4>3 DEF PtyInv, EndsOf
    <3> QED
      BY <3>1, <3>2
  <2> QED
    BY <1>5, <2>2, <2>3, <2>4 DEF PtyInv, Pty!NeverABug
<1> QED
  BY <1>1, <1>6, <1>7, <1>8

\* dup2 and fork copy a descriptor.
LEMMA PtyDuplicateStep ==
    ASSUME PtyInv, NEW n \in Pty!Inodes, Pty!vfs_duplicate(n)
    PROVE  PtyInv'
<1> USE PtysAssumption
<1>1. CountsOf(n) /\ opens[n] \in Nat /\ refcount[n] \in Nat
      /\ opens[n] > 0 /\ opens[n] < MaxOpens
  BY DEF PtyInv, Pty!PtysTypeOK, Pty!vfs_duplicate
<1>2. /\ refcount' = [refcount EXCEPT ![n] = @ + 1]
      /\ opens' = [opens EXCEPT ![n] = @ + 1]
      /\ refcount'[n] = refcount[n] + 1 /\ opens'[n] = opens[n] + 1
      /\ \A m \in Pty!Inodes \ {n} : refcount'[m] = refcount[m] /\ opens'[m] = opens[m]
      /\ ptys' = ptys /\ bug' = bug /\ no_memory' = no_memory /\ reused' = reused
  BY DEF PtyInv, Pty!PtysTypeOK, Pty!vfs_duplicate
<1>3. Pty!PtysTypeOK'
  <2>1. refcount[n] + 1 \in 0 .. MaxOpens + 1 /\ opens[n] + 1 \in 0 .. MaxOpens
    BY <1>1 DEF CountsOf
  <2> QED
    BY <1>2, <2>1 DEF PtyInv, Pty!PtysTypeOK
<1>4. \A m \in Pty!Inodes : CountsOf(m)'
  <2> SUFFICES ASSUME NEW m \in Pty!Inodes PROVE CountsOf(m)'
    OBVIOUS
  <2>1. CASE m # n
    BY <1>2, <2>1 DEF PtyInv, CountsOf
  <2>2. CASE m = n
    BY <1>1, <1>2, <2>2 DEF CountsOf
  <2> QED
    BY <2>1, <2>2
<1>5. \A id \in Pty!Ids : EndsOf(id)'
  <2>1. \A m \in Pty!Inodes : Told(m)' <=> Told(m)
    BY <1>1, <1>2 DEF Told
  <2>2. \A m \in Pty!Inodes : refcount[m] > 0 => refcount'[m] > 0
    BY <1>1, <1>2
  <2> QED
    BY <1>2, <2>1, <2>2, PtyEnds DEF PtyInv, EndsOf
<1> QED
  BY <1>2, <1>3, <1>4, <1>5 DEF PtyInv, Pty!NeverABug

\* Closing a file; only the last close of an inode reaches ptyfs.
LEMMA PtyCloseStep ==
    ASSUME PtyInv, NEW n \in Pty!Inodes, Pty!vfs_close(n)
    PROVE  PtyInv'
<1> USE PtysAssumption
<1>1. CountsOf(n) /\ opens[n] \in Nat /\ refcount[n] \in Nat /\ opens[n] > 0
  BY DEF PtyInv, Pty!PtysTypeOK, Pty!vfs_close
<1>2. /\ opens' = [opens EXCEPT ![n] = @ - 1]
      /\ opens'[n] = opens[n] - 1
      /\ \A m \in Pty!Inodes \ {n} : opens'[m] = opens[m]
      /\ no_memory' = no_memory /\ reused' = reused
  BY DEF PtyInv, Pty!PtysTypeOK, Pty!vfs_close
<1>3. opens' \in [Pty!Inodes -> 0 .. MaxOpens]
  BY <1>1, <1>2 DEF PtyInv, Pty!PtysTypeOK
<1>4. CASE refcount[n] > 1
  <2>1. /\ refcount' = [refcount EXCEPT ![n] = @ - 1]
        /\ refcount'[n] = refcount[n] - 1
        /\ \A m \in Pty!Inodes \ {n} : refcount'[m] = refcount[m]
        /\ ptys' = ptys /\ bug' = bug
    BY <1>4 DEF PtyInv, Pty!PtysTypeOK, Pty!vfs_close
  <2>2. Pty!PtysTypeOK'
    BY <1>1, <1>2, <1>3, <1>4, <2>1 DEF PtyInv, Pty!PtysTypeOK
  <2>3. \A m \in Pty!Inodes : CountsOf(m)'
    <3> SUFFICES ASSUME NEW m \in Pty!Inodes PROVE CountsOf(m)'
      OBVIOUS
    <3>1. CASE m # n
      BY <1>2, <2>1, <3>1 DEF PtyInv, CountsOf
    <3>2. CASE m = n
      BY <1>1, <1>2, <1>4, <2>1, <3>2 DEF CountsOf
    <3> QED
      BY <3>1, <3>2
  <2>4. \A id \in Pty!Ids : EndsOf(id)'
    <3>1. \A m \in Pty!Inodes : Told(m)' <=> Told(m)
      BY <1>1, <1>2, <1>4, <2>1 DEF Told, CountsOf
    <3>2. \A m \in Pty!Inodes : refcount[m] > 0 => refcount'[m] > 0
      BY <1>1, <1>4, <2>1
    <3> QED
      BY <1>2, <2>1, <3>1, <3>2, PtyEnds DEF PtyInv, EndsOf
  <2> QED
    BY <1>2, <2>1, <2>2, <2>3, <2>4 DEF PtyInv, Pty!NeverABug
<1>5. CASE ~(refcount[n] > 1)
  <2>1. /\ refcount' = refcount
        /\ Pty!ptyfs_fs_close_inode(n)
    BY <1>5 DEF Pty!vfs_close
  <2>2. opens[n] = 1 /\ refcount[n] = 1 /\ Told(n) /\ n \notin reused
    BY <1>1, <1>5 DEF CountsOf, Told
  <2>3. opens'[n] = 0 /\ refcount'[n] = 1 /\ ~Told(n)'
    BY <1>2, <2>1, <2>2 DEF Told
  <2>4. \A m \in Pty!Inodes : CountsOf(m)'
    BY <1>2, <2>1, <2>2, <2>3 DEF PtyInv, CountsOf
  <2>5. n.id \in Pty!Ids
    BY PtyEnds
  <2>6. CASE ~ptys[n.id].live
    <3>1. bug' = TRUE /\ ptys' = ptys
      BY <2>1, <2>6, Zenon DEF Pty!ptyfs_fs_close_inode
    <3>2. n = Pty!Master(n.id) /\ no_memory
      BY <2>2, <2>5, <2>6, PtyEnds DEF PtyInv, EndsOf
    <3>3. Pty!PtysTypeOK'
      BY <1>2, <1>3, <2>1, <3>1 DEF PtyInv, Pty!PtysTypeOK
    <3>4. \A id \in Pty!Ids : EndsOf(id)'
      <4> SUFFICES ASSUME NEW id \in Pty!Ids PROVE EndsOf(id)'
        OBVIOUS
      <4>1. CASE id # n.id
        BY <1>2, <2>1, <3>1, <4>1, OtherPtys
      <4>2. CASE id = n.id
        <5>1. Told(Pty!Slave(id))' <=> Told(Pty!Slave(id))
          BY <1>2, <2>1, <3>2, <4>2, PtyEnds DEF Told
        <5> QED
          BY <1>2, <2>3, <2>6, <3>1, <3>2, <4>2, <5>1 DEF PtyInv, EndsOf
      <4> QED
        BY <4>1, <4>2
    <3> QED
      BY <1>2, <2>4, <3>1, <3>2, <3>3, <3>4 DEF PtyInv, Pty!NeverABug
  <2>7. CASE ptys[n.id].live /\ n.end = "master"
    <3>1. /\ ptys' = [ptys EXCEPT ![n.id] = Pty!settle(Pty!Pair(TRUE, @.slave_open))]
          /\ bug' = bug
      BY <2>1, <2>7, Zenon DEF Pty!ptyfs_fs_close_inode
    <3>2. n = Pty!Master(n.id) /\ refcount'[Pty!Master(n.id)] > 0
      BY <2>3, <2>7, PtyEnds
    <3>3. /\ ptys'[n.id] = Pty!settle(Pty!Pair(TRUE, ptys[n.id].slave_open))
          /\ \A id \in Pty!Ids \ {n.id} : ptys'[id] = ptys[id]
      BY <2>5, <3>1 DEF PtyInv, Pty!PtysTypeOK
    <3>4. ptys[n.id].slave_open \in BOOLEAN
      BY <2>5 DEF PtyInv, Pty!PtysTypeOK
    <3>5. /\ ptys'[n.id].live <=> ptys[n.id].slave_open
          /\ ptys'[n.id].live => ptys'[n.id].closed /\ ptys'[n.id].slave_open
      BY <3>3, <3>4 DEF Pty!settle, Pty!Pair, Pty!Null
    <3>6. Pty!PtysTypeOK'
      <4>1. Pty!settle(Pty!Pair(TRUE, ptys[n.id].slave_open)) \in
              [live : BOOLEAN, closed : BOOLEAN, slave_open : BOOLEAN]
        BY <3>4 DEF Pty!settle, Pty!Pair, Pty!Null
      <4>2. ptys' \in [Pty!Ids -> [live : BOOLEAN, closed : BOOLEAN, slave_open : BOOLEAN]]
        BY <2>5, <3>1, <4>1 DEF PtyInv, Pty!PtysTypeOK
      <4> QED
        BY <1>2, <1>3, <2>1, <3>1, <4>2 DEF PtyInv, Pty!PtysTypeOK
    <3>7. \A id \in Pty!Ids : EndsOf(id)'
      <4> SUFFICES ASSUME NEW id \in Pty!Ids PROVE EndsOf(id)'
        OBVIOUS
      <4>1. CASE id # n.id
        BY <1>2, <2>1, <3>3, <4>1, OtherPtys
      <4>2. CASE id = n.id
        <5>1. Told(Pty!Slave(id))' <=> Told(Pty!Slave(id))
          BY <1>2, <2>1, <3>2, <4>2, PtyEnds DEF Told
        <5>2. ~Told(Pty!Master(id))'
          BY <2>3, <3>2, <4>2
        <5>3. Told(Pty!Slave(id)) <=> ptys[id].slave_open
          BY <2>7, <4>2 DEF PtyInv, EndsOf
        <5> QED
          BY <3>2, <3>5, <4>2, <5>1, <5>2, <5>3 DEF EndsOf
      <4> QED
        BY <4>1, <4>2
    <3> QED
      BY <1>2, <2>4, <3>1, <3>6, <3>7 DEF PtyInv, Pty!NeverABug
  <2>8. CASE ptys[n.id].live /\ n.end # "master"
    <3>1. /\ ptys' = [ptys EXCEPT ![n.id] = Pty!settle(Pty!Pair(@.closed, FALSE))]
          /\ bug' = bug
      BY <2>1, <2>8, Zenon DEF Pty!ptyfs_fs_close_inode
    <3>2. n = Pty!Slave(n.id)
      BY <2>8, PtyEnds
    <3>3. /\ ptys'[n.id] = Pty!settle(Pty!Pair(ptys[n.id].closed, FALSE))
          /\ \A id \in Pty!Ids \ {n.id} : ptys'[id] = ptys[id]
      BY <2>5, <3>1 DEF PtyInv, Pty!PtysTypeOK
    <3>4. ptys[n.id].closed \in BOOLEAN
      BY <2>5 DEF PtyInv, Pty!PtysTypeOK
    <3>5. /\ ptys'[n.id].live <=> ~ptys[n.id].closed
          /\ ~ptys'[n.id].closed /\ ~ptys'[n.id].slave_open
      BY <3>3, <3>4 DEF Pty!settle, Pty!Pair, Pty!Null
    <3>6. Pty!PtysTypeOK'
      <4>1. Pty!settle(Pty!Pair(ptys[n.id].closed, FALSE)) \in
              [live : BOOLEAN, closed : BOOLEAN, slave_open : BOOLEAN]
        BY <3>4 DEF Pty!settle, Pty!Pair, Pty!Null
      <4>2. ptys' \in [Pty!Ids -> [live : BOOLEAN, closed : BOOLEAN, slave_open : BOOLEAN]]
        BY <2>5, <3>1, <4>1 DEF PtyInv, Pty!PtysTypeOK
      <4> QED
        BY <1>2, <1>3, <2>1, <3>1, <4>2 DEF PtyInv, Pty!PtysTypeOK
    <3>7. \A id \in Pty!Ids : EndsOf(id)'
      <4> SUFFICES ASSUME NEW id \in Pty!Ids PROVE EndsOf(id)'
        OBVIOUS
      <4>1. CASE id # n.id
        BY <1>2, <2>1, <3>3, <4>1, OtherPtys
      <4>2. CASE id = n.id
        <5>1. (Told(Pty!Master(id))' <=> Told(Pty!Master(id))) /\ refcount'[Pty!Master(id)] = refcount[Pty!Master(id)]
          BY <1>2, <2>1, <3>2, <4>2, PtyEnds DEF Told
        <5>2. ~Told(Pty!Slave(id))'
          BY <2>3, <3>2, <4>2
        <5> QED
          BY <1>2, <2>8, <3>5, <4>2, <5>1, <5>2 DEF PtyInv, EndsOf
      <4> QED
        BY <4>1, <4>2
    <3> QED
      BY <1>2, <2>4, <3>1, <3>6, <3>7 DEF PtyInv, Pty!NeverABug
  <2> QED
    BY <2>6, <2>7, <2>8
<1> QED
  BY <1>4, <1>5

\* Whatever is opened, duplicated and closed, what a pair remembers of its ends
\* agrees with the counts of the icache.
THEOREM PtyfsInvariant ==
    Pty!Spec => []PtyInv
<1> USE PtysAssumption
<1>1. Pty!Init => PtyInv
  <2> SUFFICES ASSUME Pty!Init PROVE PtyInv
    OBVIOUS
  <2>1. Pty!PtysTypeOK
    <3>1. Pty!Null \in [live : BOOLEAN, closed : BOOLEAN, slave_open : BOOLEAN]
      BY DEF Pty!Null
    <3>2. 0 \in 0 .. MaxOpens + 1 /\ 0 \in 0 .. MaxOpens
      OBVIOUS
    <3> QED
      BY <3>1, <3>2 DEF Pty!Init, Pty!PtysTypeOK
  <2>2. \A id \in Pty!Ids : ~ptys[id].live
    BY DEF Pty!Init, Pty!Null
  <2>3. \A n \in Pty!Inodes : refcount[n] = 0 /\ opens[n] = 0
    BY DEF Pty!Init
  <2> QED
    BY <2>1, <2>2, <2>3, PtyEnds DEF Pty!Init, PtyInv, CountsOf, EndsOf, Told, Pty!NeverABug
<1>2. PtyInv /\ [Pty!Next]_(Pty!vars) => PtyInv'
  <2> SUFFICES ASSUME PtyInv, [Pty!Next]_(Pty!vars) PROVE PtyInv'
    OBVIOUS
  <2>1. CASE Pty!Next
    BY <2>1, PtyOpenStep, PtyDuplicateStep, PtyCloseStep DEF Pty!Next
  <2>2. CASE UNCHANGED Pty!vars
    BY <2>2 DEF Pty!vars, PtyInv, Pty!PtysTypeOK, CountsOf, EndsOf, Told, Pty!NeverABug
  <2> QED
    BY <2>1, <2>2
<1> QED
  BY <1>1, <1>2, PTL DEF Pty!Spec

\* What the instance says of the ptys is what Ptys says.
LEMMA SamePtys ==
    /\ PtysTypeOK <=> Pty!PtysTypeOK
    /\ ClosedPtysFreed <=> Pty!ClosedPtysFreed
    /\ NeverABug <=> Pty!NeverABug
<1> USE DEF Ids, Pty!Ids, Inodes, Pty!Inodes
<1>1. PtysTypeOK <=> Pty!PtysTypeOK
  BY DEF PtysTypeOK, Pty!PtysTypeOK
<1>2. ClosedPtysFreed <=> Pty!ClosedPtysFreed
  BY DEF ClosedPtysFreed, Pty!ClosedPtysFreed, Master, Pty!Master, Slave, Pty!Slave
<1>3. NeverABug <=> Pty!NeverABug
  BY DEF NeverABug, Pty!NeverABug
<1> QED
  BY <1>1, <1>2, <1>3

\* No pty is leaked and no message "(this is a bug)" is logged while there is
\* memory: ptyfs_fs_close_inode frees a pair when both of its ends have been
\* closed, in either order, and finds the pair whenever it is called.
THEOREM PairsAreSound == Pty!Spec => []PairsSound
<1>1. PtyInv => PairsSound
  <2> SUFFICES ASSUME PtyInv PROVE PairsSound
    OBVIOUS
  <2>1. Pty!ClosedPtysFreed
    <3> SUFFICES ASSUME NEW id \in Pty!Ids, opens[Pty!Master(id)] = 0, opens[Pty!Slave(id)] = 0
                 PROVE  ~ptys[id].live
      BY DEF Pty!ClosedPtysFreed
    <3>1. ~Told(Pty!Master(id)) /\ ~Told(Pty!Slave(id))
      BY DEF Told
    <3> QED
      BY <3>1 DEF PtyInv, EndsOf
  <2> QED
    BY <2>1, SamePtys DEF PtyInv, PairsSound
<1> QED
  BY <1>1, PtyfsInvariant, PTL

\* get_device_by_inode finds the device of every open file, unless there was
\* no memory for a pty or open_inode handed out an inode that ptyfs had been
\* told to close.
THEOREM OpenFilesFindTheirDevice == Pty!Spec => []OpenFilesHaveDevice
<1>1. PtyInv => OpenFilesHaveDevice
  <2> SUFFICES ASSUME PtyInv, NEW n \in Pty!Inodes, opens[n] > 0
               PROVE  ptys[n.id].live \/ no_memory \/ n \in reused
    BY DEF OpenFilesHaveDevice, Inodes, Ids, Pty!Inodes, Pty!Ids
  <2>1. Told(n) \/ n \in reused
    BY DEF PtyInv, Pty!PtysTypeOK, CountsOf, Told
  <2>2. CASE Told(n)
    BY <2>2, PtyEnds DEF PtyInv, EndsOf
  <2> QED
    BY <2>1, <2>2
<1> QED
  BY <1>1, PtyfsInvariant, PTL

-----------------------------------------------------------------------------
(* A pipe, as an instance: it implements a bounded channel, for every      *)
(* capacity, every set of threads and every bound.                         *)

APipe == INSTANCE Pipe

\* The inductive invariant: the types, the buffer's contents, and exclusion.
PipeInv == APipe!PipeTypeOK /\ APipe!RingHoldsBytes /\ APipe!OneCopies

\* (pos + 1) % N steps through the array and wraps at its end.
LEMMA NextPosition ==
    ASSUME NEW p \in APipe!Positions
    PROVE  (p + 1) % N = IF p + 1 < N THEN p + 1 ELSE 0
<1>1. p \in Nat /\ p < N /\ N \in Nat /\ N > 0
  BY RingBufferAssumption DEF APipe!Positions
<1>2. CASE p + 1 < N
  BY <1>1, <1>2, SMT
<1>3. CASE p + 1 = N
  BY <1>1, <1>3, SMT
<1> QED
  BY <1>1, <1>2, <1>3

\* The positions of the items in the buffer, and of the slot after the last
\* one, are positions of the array.
LEMMA PositionType ==
    ASSUME APipe!RingTypeOK, NEW k \in 1 .. N
    PROVE  APipe!position(k) \in APipe!Positions
BY RingBufferAssumption DEF APipe!RingTypeOK, APipe!position, APipe!Positions

\* Two items of the buffer never share a position.
LEMMA PositionInjective ==
    ASSUME APipe!RingTypeOK, NEW j \in 1 .. N, NEW k \in 1 .. N, j # k
    PROVE  APipe!position(j) # APipe!position(k)
BY RingBufferAssumption DEF APipe!RingTypeOK, APipe!position, APipe!Positions

\* pushing leaves the items where they are and adds one after them.
LEMMA PushPositions ==
    ASSUME APipe!RingTypeOK, ~ APipe!is_full, write_pos = APipe!position(count + 1),
           NEW x \in T, APipe!push(x)
    PROVE  /\ APipe!RingTypeOK'
           /\ count' = count + 1
           /\ \A k \in 1 .. count + 2 : APipe!position(k)' = APipe!position(k)
           /\ write_pos' = APipe!position(count + 2)
           /\ data' = [data EXCEPT ![APipe!position(count + 1)] = x]
<1>1. count < N /\ count' = count + 1 /\ read_pos' = read_pos
  BY RingBufferAssumption DEF APipe!RingTypeOK, APipe!is_full, APipe!push
<1>2. write_pos' = (IF write_pos + 1 < N THEN write_pos + 1 ELSE 0)
  BY NextPosition DEF APipe!RingTypeOK, APipe!push
<1>3. \A k \in 1 .. count + 2 : APipe!position(k)' = APipe!position(k)
  BY <1>1 DEF APipe!position
<1>4. write_pos' = APipe!position(count + 2)
  BY <1>1, <1>2, RingBufferAssumption DEF APipe!RingTypeOK, APipe!Positions,
                                          APipe!position
<1>5. APipe!RingTypeOK'
  BY <1>1, <1>2, RingBufferAssumption DEF APipe!RingTypeOK, APipe!Positions,
                                          APipe!push
<1> QED
  BY <1>1, <1>3, <1>4, <1>5 DEF APipe!push

\* popping makes every item the one before it.
LEMMA PopPositions ==
    ASSUME APipe!RingTypeOK, APipe!pop
    PROVE  /\ APipe!RingTypeOK'
           /\ count \in Nat \ {0} /\ count' = count - 1
           /\ \A k \in 1 .. count : APipe!position(k)' = APipe!position(k + 1)
           /\ APipe!position(1) = read_pos
<1>1. count \in 1 .. N /\ count' = count - 1
  BY RingBufferAssumption DEF APipe!RingTypeOK, APipe!is_empty, APipe!pop
<1>2. read_pos' = (IF read_pos + 1 < N THEN read_pos + 1 ELSE 0)
  BY NextPosition DEF APipe!RingTypeOK, APipe!pop
<1>3. \A k \in 1 .. count : APipe!position(k)' = APipe!position(k + 1)
  BY <1>1, <1>2, RingBufferAssumption DEF APipe!RingTypeOK, APipe!Positions,
                                          APipe!position
<1>4. APipe!RingTypeOK'
  BY <1>1, <1>2, RingBufferAssumption DEF APipe!RingTypeOK, APipe!Positions,
                                          APipe!pop
<1>5. APipe!position(1) = read_pos
  BY RingBufferAssumption DEF APipe!RingTypeOK, APipe!Positions, APipe!position
<1> QED
  BY <1>1, <1>3, <1>4, <1>5

\* A write of one byte is a Put of the channel and keeps the invariant.
LEMMA PipeWriteStep ==
    ASSUME PipeInv, NEW t \in Threads, APipe!pipefs_file_inode_write(t)
    PROVE  PipeInv' /\ Promise!Next
<1> USE DEF PipeInv, APipe!PipeTypeOK
<1>1. PICK x \in T : APipe!push(x) /\ sent' = Append(sent, x)
  BY DEF APipe!pipefs_file_inode_write
<1>2. APipe!RingTypeOK /\ ~ APipe!is_full /\ write_pos = APipe!position(count + 1)
  BY DEF APipe!pipefs_file_inode_write, APipe!RingHoldsBytes
<1>3. /\ APipe!RingTypeOK'
      /\ count' = count + 1
      /\ \A k \in 1 .. count + 2 : APipe!position(k)' = APipe!position(k)
      /\ write_pos' = APipe!position(count + 2)
      /\ data' = [data EXCEPT ![APipe!position(count + 1)] = x]
  BY <1>1, <1>2, PushPositions
<1>4. count \in Nat /\ count < N /\ N \in Nat
  BY <1>2, RingBufferAssumption DEF APipe!RingTypeOK, APipe!is_full
<1>5. UNCHANGED <<ends, at, busy, received>>
  BY DEF APipe!pipefs_file_inode_write
<1>6. APipe!PipeTypeOK'
  <2>1. left' \in [Threads -> 0 .. MaxSize]
    BY PipeAssumption DEF APipe!pipefs_file_inode_write
  <2> QED
    BY <1>1, <1>3, <1>5, <2>1
<1>7. APipe!RingHoldsBytes'
  <2>0. Len(sent') = Len(sent) + 1 /\ Len(sent) \in Nat /\ Len(received) \in Nat
    BY <1>1
  <2>1. Len(sent') = Len(received') + count'
    BY <1>3, <1>4, <1>5, <2>0 DEF APipe!RingHoldsBytes
  <2>2. write_pos' = APipe!position(count + 1)'
    BY <1>3, <1>4
  <2>3. ASSUME NEW k \in 1 .. count'
        PROVE  data'[APipe!position(k)'] = sent'[Len(received') + k]
    <3>1. APipe!position(k)' = APipe!position(k) /\ k \in 1 .. N
      BY <1>3, <1>4
    <3>2. APipe!position(k) \in APipe!Positions /\ APipe!position(count + 1) \in APipe!Positions
      BY <1>2, <1>4, <3>1, PositionType
    <3>3. CASE k = count + 1
      <4>1. data'[APipe!position(k)'] = x
        BY <1>3, <3>1, <3>2, <3>3, <1>2 DEF APipe!RingTypeOK
      <4>2. sent'[Len(received') + k] = x
        BY <1>1, <1>4, <1>5, <3>3 DEF APipe!RingHoldsBytes
      <4> QED
        BY <4>1, <4>2
    <3>4. CASE k # count + 1
      <4>1. k \in 1 .. count
        BY <1>3, <1>4, <3>4
      <4>2. APipe!position(k) # APipe!position(count + 1)
        BY <1>2, <1>4, <3>1, <3>4, PositionInjective
      <4>3. data'[APipe!position(k)'] = data[APipe!position(k)]
        BY <1>2, <1>3, <3>1, <3>2, <4>2 DEF APipe!RingTypeOK
      <4>4. sent'[Len(received') + k] = sent[Len(received) + k]
        BY <1>1, <1>4, <1>5, <4>1 DEF APipe!RingHoldsBytes
      <4> QED
        BY <4>1, <4>3, <4>4 DEF APipe!RingHoldsBytes
    <3> QED
      BY <3>3, <3>4
  <2>4. \A k \in (1 .. count)' : data'[APipe!position(k)'] = sent'[Len(received') + k]
    BY <2>3
  <2> QED
    BY <2>1, <2>2, <2>4 DEF APipe!RingHoldsBytes
<1>8. APipe!OneCopies'
  BY <1>5 DEF APipe!OneCopies
<1>9. Promise!Put(x)
  BY <1>1, <1>4, <1>5 DEF Promise!Put, APipe!RingHoldsBytes
<1> QED
  BY <1>6, <1>7, <1>8, <1>9, <1>1 DEF Promise!Next

\* A read of one byte is a Get of the channel and keeps the invariant.
LEMMA PipeReadStep ==
    ASSUME PipeInv, NEW t \in Threads, APipe!pipefs_file_inode_read(t)
    PROVE  PipeInv' /\ Promise!Next
<1> USE DEF PipeInv, APipe!PipeTypeOK
<1>1. APipe!pop /\ received' = Append(received, data[read_pos])
  BY DEF APipe!pipefs_file_inode_read
<1>2. /\ APipe!RingTypeOK'
      /\ count \in Nat \ {0} /\ count' = count - 1
      /\ \A k \in 1 .. count : APipe!position(k)' = APipe!position(k + 1)
      /\ APipe!position(1) = read_pos
  BY <1>1, PopPositions
<1>3. UNCHANGED <<ends, at, busy, sent>> /\ UNCHANGED <<data, write_pos>>
  BY DEF APipe!pipefs_file_inode_read, APipe!pop
<1>4. data[read_pos] = sent[Len(received) + 1] /\ data[read_pos] \in T
  BY <1>2 DEF APipe!RingHoldsBytes, APipe!RingTypeOK
<1>5. APipe!PipeTypeOK'
  <2>1. left' \in [Threads -> 0 .. MaxSize]
    BY PipeAssumption DEF APipe!pipefs_file_inode_read
  <2> QED
    BY <1>1, <1>2, <1>3, <1>4, <2>1
<1>6. APipe!RingHoldsBytes'
  <2>0. /\ Len(received') = Len(received) + 1
        /\ Len(sent) \in Nat /\ Len(received) \in Nat
    BY <1>1, <1>4
  <2>1. Len(sent') = Len(received') + count'
    <3>1. Len(sent) = Len(received) + count /\ Len(sent') = Len(sent)
      BY <1>3 DEF APipe!RingHoldsBytes
    <3> QED
      BY <1>2, <2>0, <3>1
  <2>2. write_pos' = (APipe!position(count + 1))'
    <3>1. PICK c \in 1 .. count : c = count
      BY <1>2
    <3>2. (APipe!position(count + 1))' = APipe!position(c)'
      BY <1>2, <3>1 DEF APipe!position
    <3>3. APipe!position(c)' = APipe!position(count + 1)
      BY <1>2, <3>1
    <3> QED
      BY <3>2, <3>3, <1>3 DEF APipe!RingHoldsBytes
  <2>3. ASSUME NEW k \in 1 .. count'
        PROVE  data'[APipe!position(k)'] = sent'[Len(received') + k]
    <3>1. APipe!position(k)' = APipe!position(k + 1) /\ k + 1 \in 1 .. count
      BY <1>2
    <3>2. data[APipe!position(k + 1)] = sent[Len(received) + (k + 1)]
      BY <3>1 DEF APipe!RingHoldsBytes
    <3>3. Len(received') + k = Len(received) + (k + 1)
      BY <2>0
    <3> QED
      BY <1>3, <3>1, <3>2, <3>3
  <2> QED
    BY <2>1, <2>2, <2>3 DEF APipe!RingHoldsBytes
<1>7. APipe!OneCopies'
  BY <1>3 DEF APipe!OneCopies
<1>8. Promise!Get
  BY <1>1, <1>2, <1>3, <1>4 DEF Promise!Get, APipe!RingHoldsBytes
<1> QED
  BY <1>5, <1>6, <1>7, <1>8 DEF Promise!Next

\* Steps outside the copying loops leave the buffer and the histories alone.
LEMMA PipeOtherStep ==
    ASSUME PipeInv, [APipe!Next]_(APipe!vars),
           \A t \in Threads : ~ APipe!pipefs_file_inode_write(t)
                              /\ ~ APipe!pipefs_file_inode_read(t)
    PROVE  PipeInv' /\ UNCHANGED <<sent, received>>
<1> USE DEF PipeInv, APipe!PipeTypeOK
<1>1. UNCHANGED <<APipe!ring, sent, received>>
  BY DEF APipe!Next, APipe!Copying, APipe!vars, APipe!sys_read, APipe!sys_write,
         APipe!vfs_read, APipe!vfs_read_eof, APipe!read_returns, APipe!vfs_write,
         APipe!write_returns, APipe!close_end
<1>2. APipe!RingTypeOK' /\ APipe!RingHoldsBytes'
  BY <1>1 DEF APipe!ring, APipe!RingTypeOK, APipe!RingHoldsBytes, APipe!position
<1>3. /\ ends' \in [Threads -> SUBSET {"r", "w"}]
      /\ at' \in [Threads -> {"user", "read", "reading", "write", "writing"}]
      /\ busy' \in Threads \cup {None}
  <2>1. ends' \in [Threads -> SUBSET {"r", "w"}]
    <3>1. ends' = ends \/ \E t \in Threads, x \in {"r", "w"} : APipe!close_end(t, x)
      BY DEF APipe!Next, APipe!Copying, APipe!vars, APipe!sys_read,
             APipe!sys_write, APipe!vfs_read, APipe!vfs_read_eof,
             APipe!read_returns, APipe!vfs_write, APipe!write_returns
    <3>2. ASSUME NEW t \in Threads, NEW x, APipe!close_end(t, x)
          PROVE  ends' \in [Threads -> SUBSET {"r", "w"}]
      <4>1. ends \in [Threads -> SUBSET {"r", "w"}]
        OBVIOUS
      <4>2. ends' = [ends EXCEPT ![t] = ends[t] \ {x}]
        BY <3>2 DEF APipe!close_end
      <4>3. ends[t] \ {x} \in SUBSET {"r", "w"}
        BY <4>1, Zenon
      <4> DEFINE rest == ends[t] \ {x}
      <4> HIDE DEF rest
      <4>4. [ends EXCEPT ![t] = rest] \in [Threads -> SUBSET {"r", "w"}]
        BY <4>1, <4>3 DEF rest
      <4> QED
        BY <4>2, <4>4 DEF rest
    <3> QED
      BY <3>1, <3>2
  <2>2. at' \in [Threads -> {"user", "read", "reading", "write", "writing"}]
    BY DEF APipe!Next, APipe!Copying, APipe!vars, APipe!sys_read, APipe!sys_write,
           APipe!vfs_read, APipe!vfs_read_eof, APipe!read_returns, APipe!vfs_write,
           APipe!write_returns, APipe!close_end
  <2>3. busy' \in Threads \cup {None}
    BY DEF APipe!Next, APipe!Copying, APipe!vars, APipe!sys_read, APipe!sys_write,
           APipe!vfs_read, APipe!vfs_read_eof, APipe!read_returns, APipe!vfs_write,
           APipe!write_returns, APipe!close_end
  <2> QED
    BY <2>1, <2>2, <2>3
<1>4. left' \in [Threads -> 0 .. MaxSize]
  <2>1. \A t \in Threads, n \in 0 .. MaxSize :
          [left EXCEPT ![t] = n] \in [Threads -> 0 .. MaxSize]
    OBVIOUS
  <2>2. 0 \in 0 .. MaxSize
    BY PipeAssumption
  <2>3. \/ left' = left
        \/ \E t \in Threads, n \in 0 .. MaxSize : left' = [left EXCEPT ![t] = n]
    BY <2>2
    DEF APipe!Next, APipe!Copying, APipe!vars, APipe!sys_read, APipe!sys_write,
        APipe!vfs_read, APipe!vfs_read_eof, APipe!read_returns, APipe!vfs_write,
        APipe!write_returns, APipe!close_end
  <2> QED
    BY <2>1, <2>3
<1>5. APipe!OneCopies'
  BY PipeAssumption
  DEF APipe!OneCopies, APipe!Next, APipe!Copying, APipe!vars, APipe!sys_read,
      APipe!sys_write, APipe!vfs_read, APipe!vfs_read_eof, APipe!read_returns,
      APipe!vfs_write, APipe!write_returns, APipe!close_end
<1> QED
  BY <1>1, <1>2, <1>3, <1>4, <1>5

\* The inductive step, for both theorems.
LEMMA PipeInvariantStep ==
    ASSUME PipeInv, [APipe!Next]_(APipe!vars)
    PROVE  PipeInv' /\ [Promise!Next]_<<sent, received>>
BY PipeWriteStep, PipeReadStep, PipeOtherStep

\* The invariant holds of an empty pipe.
LEMMA PipeInvariantInit ==
    ASSUME APipe!Init
    PROVE  PipeInv
BY PipeAssumption, RingBufferAssumption
DEF APipe!Init, APipe!RingInit, PipeInv, APipe!PipeTypeOK, APipe!RingTypeOK,
    APipe!RingHoldsBytes, APipe!OneCopies, APipe!position, APipe!Positions

\* The buffer of a pipe holds exactly the bytes written and not yet read, in
\* order, and no two threads copy at a time (RingBuffer::push and pop under
\* pipefs_file_inode_write and pipefs_file_inode_read).
THEOREM PipeInvariant == APipe!Spec => []PipeInv
<1>1. PipeInv /\ UNCHANGED APipe!vars => PipeInv'
  BY PipeInvariantStep
<1> QED
  BY PipeInvariantInit, PipeInvariantStep, PTL DEF APipe!Spec

\* A pipe implements the bounded channel: no byte is lost, duplicated or
\* reordered between vfs_write and vfs_read.
THEOREM PipeImplementsChannel == APipe!Spec => ChannelSpec
<1>1. APipe!Init => Promise!Init
  BY DEF APipe!Init, Promise!Init
<1> QED
  BY <1>1, PipeInvariant, PipeInvariantStep, PTL
  DEF APipe!Spec, ChannelSpec, Promise!Spec
=============================================================================
