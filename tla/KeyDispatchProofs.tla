-------------------------- MODULE KeyDispatchProofs -------------------------
(***************************************************************************)
(* Proofs about KeyDispatch and the keymap it asks, for any keys, focus    *)
(* handles, contexts and bindings.  What the recursive functions of the    *)
(* model compute is proved by induction: the set of the sizes for which a  *)
(* claim holds contains zero and every successor.                          *)
(***************************************************************************)
EXTENDS KeyDispatch, Integers, WellFoundedInduction, FiniteSetTheorems, TLAPS

\* A non-empty set of naturals has a least element.
LEMMA LeastNat ==
    ASSUME NEW T \in SUBSET Nat, T # {}
    PROVE  \E x \in T : \A y \in T : x <= y
<1>1. PICK R : R = OpToRel(<, Nat)
    OBVIOUS
<1>2. IsWellFoundedOn(R, Nat)
    BY <1>1, NatLessThanWellFounded
<1>3. PICK x \in T : \A y \in T : ~(<<y, x>> \in R)
    BY <1>2, WFMin, Zenon
<1>4. \A y \in T : y < x => <<y, x>> \in R
    BY <1>1 DEF OpToRel
<1>5. \A y \in T : x <= y
  <2> SUFFICES ASSUME NEW y \in T PROVE x <= y
      OBVIOUS
  <2>1. x \in Nat /\ y \in Nat
      OBVIOUS
  <2>2. ~(y < x)
      BY <1>3, <1>4
  <2>3. QED
      BY <2>1, <2>2
<1>6. QED
    BY <1>5

\* Induction: a set of naturals with zero and every successor is all of them.
LEMMA NatInduct ==
    ASSUME NEW T \in SUBSET Nat, 0 \in T, \A n \in T : n + 1 \in T
    PROVE  T = Nat
<1>1. SUFFICES ASSUME Nat \ T # {} PROVE FALSE
    OBVIOUS
<1>2. PICK x \in Nat \ T : \A y \in Nat \ T : x <= y
  <2>1. Nat \ T \in SUBSET Nat
      OBVIOUS
  <2>2. QED
      BY <1>1, <2>1, LeastNat, Zenon
<1>3. x # 0
    BY <1>2
<1>4. x - 1 \in Nat /\ x - 1 \notin Nat \ T
    BY <1>2, <1>3
<1>5. QED
    BY <1>2, <1>4

\* The body B of a recursive definition looks at smaller arguments only.
LooksDown(D, V, size, B) ==
    \A g, h \in [D -> V], x \in D :
        (\A y \in D : size[y] < size[x] => g[y] = h[y]) => B[<<g, x>>] = B[<<h, x>>]

\* g is defined by the body B.
Solves(g, D, V, B) == g \in [D -> V] /\ \A x \in D : g[x] = B[<<g, x>>]

\* A function is defined by recursion over arguments of bounded size when its
\* value depends on the values for smaller arguments only.
LEMMA RecursiveFunction ==
    ASSUME NEW D, NEW V, V # {}, NEW N \in Nat, NEW size \in [D -> 0..N],
           NEW B \in [[D -> V] \X D -> V], LooksDown(D, V, size, B)
    PROVE  \E g : Solves(g, D, V, B)
<1>1. PICK T : T = {n \in Nat : \E g \in [D -> V] :
                        \A x \in D : size[x] < n => g[x] = B[<<g, x>>]}
    OBVIOUS
<1>2. 0 \in T
  <2>1. PICK v \in V : TRUE
      OBVIOUS
  <2>2. PICK g \in [D -> V] : g = [x \in D |-> v]
      OBVIOUS
  <2>3. \A x \in D : ~(size[x] < 0)
      OBVIOUS
  <2>4. QED
      BY <1>1, <2>3, <2>2
<1>3. ASSUME NEW n \in T PROVE n + 1 \in T
  <2>1. n \in Nat
      BY <1>1
  <2>2. PICK g \in [D -> V] : \A x \in D : size[x] < n => g[x] = B[<<g, x>>]
      BY <1>1, <1>3, Zenon
  <2>3. PICK h : h = [x \in D |-> B[<<g, x>>]]
      OBVIOUS
  <2>4. h \in [D -> V]
      BY <2>3
  <2>5. ASSUME NEW x \in D, size[x] < n + 1 PROVE h[x] = B[<<h, x>>]
    <3>1. ASSUME NEW y \in D, size[y] < size[x] PROVE g[y] = h[y]
      <4>1. size[y] < n
          BY <2>1, <2>5, <3>1
      <4>2. QED
          BY <2>2, <2>3, <4>1, Zenon
    <3>2. B[<<g, x>>] = B[<<h, x>>]
        BY <2>4, <3>1, Zenon DEF LooksDown
    <3>3. QED
        BY <2>3, <3>2, Zenon
  <2>6. QED
      BY <1>1, <2>1, <2>4, <2>5
<1>4. T = Nat
  <2>1. T \in SUBSET Nat
      BY <1>1
  <2>2. QED
      BY <1>2, <1>3, <2>1, NatInduct, Zenon
<1>5. PICK g \in [D -> V] : \A x \in D : size[x] < N + 1 => g[x] = B[<<g, x>>]
  <2>1. N + 1 \in T
      BY <1>4
  <2>2. QED
      BY <1>1, <2>1, Zenon
<1>6. \A x \in D : size[x] < N + 1
    OBVIOUS
<1>7. QED
    BY <1>5, <1>6, Zenon DEF Solves

-----------------------------------------------------------------------------
(* Cutting keystrokes.                                                      *)

\* A bounded non-empty set of naturals has a greatest element, its Max.
LEMMA MaxOf ==
    ASSUME NEW N \in Nat, NEW T \in SUBSET (0..N), T # {}
    PROVE  Max(T) \in T /\ \A y \in T : y <= Max(T)
<1>1. PICK U : U = {n \in Nat : \E x \in T : n = N - x}
    OBVIOUS
<1>2. U \in SUBSET Nat /\ U # {}
  <2>1. PICK x \in T : TRUE
      OBVIOUS
  <2>2. N - x \in U
      BY <1>1, <2>1
  <2>3. QED
      BY <1>1, <2>2
<1>3. PICK u \in U : \A v \in U : u <= v
    BY <1>2, LeastNat, Zenon
<1>4. PICK x \in T : u = N - x
    BY <1>1, <1>3
<1>5. ASSUME NEW y \in T PROVE x >= y
  <2>1. N - y \in U
      BY <1>1
  <2>2. u <= N - y
      BY <1>3, <2>1
  <2>3. QED
      BY <1>4, <2>2
<1>6. \E z \in T : \A y \in T : z >= y
    BY <1>5
<1>7. Max(T) \in T /\ \A y \in T : Max(T) >= y
    BY <1>6, Zenon DEF Max
<1>8. QED
  <2>1. PICK m \in T : m = Max(T) /\ \A y \in T : m >= y
      BY <1>7, Zenon
  <2>2. \A y \in T : y <= m
      BY <2>1
  <2>3. QED
      BY <2>1, <2>2, Zenon

\* Suffixes by their elements.
SuffixOf(x, s) ==
    /\ Len(x) <= Len(s)
    /\ \A i \in 1..Len(x) : x[i] = s[Len(s) - Len(x) + i]

\* A sequence is among the suffixes iff it has their elements.
LEMMA SuffixElements ==
    ASSUME NEW S, NEW s \in Seq(S)
    PROVE  /\ \A x \in Suffixes(s) : x \in Seq(S) /\ SuffixOf(x, s)
           /\ \A x \in Seq(S) : SuffixOf(x, s) => x \in Suffixes(s)
<1>1. ASSUME NEW x \in Suffixes(s) PROVE x \in Seq(S) /\ SuffixOf(x, s)
  <2>1. CASE x = <<>>
      BY <2>1 DEF SuffixOf
  <2>2. CASE \E l \in 1..Len(s) : x = SubSeq(s, l, Len(s))
    <3>1. PICK l \in 1..Len(s) : x = SubSeq(s, l, Len(s))
        BY <2>2
    <3>2. x \in Seq(S) /\ Len(x) = Len(s) - l + 1
        BY <3>1
    <3>3. \A i \in 1..Len(x) : x[i] = s[l + i - 1]
        BY <3>1, <3>2
    <3>4. QED
        BY <3>2, <3>3 DEF SuffixOf
  <2>3. QED
      BY <2>1, <2>2 DEF Suffixes
<1>2. ASSUME NEW x \in Seq(S), SuffixOf(x, s) PROVE x \in Suffixes(s)
  <2>1. CASE x = <<>>
      BY <2>1 DEF Suffixes
  <2>2. CASE x # <<>>
    <3>1. PICK n \in Nat, k \in Nat : n = Len(s) /\ k = Len(x)
        OBVIOUS
    <3>2. k > 0 /\ k <= n
        BY <1>2, <2>2, <3>1 DEF SuffixOf
    <3>3. PICK l : l = n - k + 1
        OBVIOUS
    <3>4. l \in 1..n
        BY <3>1, <3>2, <3>3
    <3>5. PICK y : y = SubSeq(s, l, n)
        OBVIOUS
    <3>6. y \in Seq(S) /\ Len(y) = k
        BY <3>1, <3>2, <3>3, <3>5
    <3>7. \A i \in 1..k : y[i] = x[i]
        BY <1>2, <3>1, <3>2, <3>3, <3>5, <3>6 DEF SuffixOf
    <3>8. x = y
        BY <3>1, <3>6, <3>7
    <3>9. QED
        BY <3>1, <3>4, <3>5, <3>8 DEF Suffixes
  <2>3. QED
      BY <2>1, <2>2
<1>3. QED
    BY <1>1, <1>2

\* replay and suffix are the two parts of input.
IsCut(S, input, replay, suffix) ==
    /\ replay \in Seq(S) /\ suffix \in Seq(S) /\ Len(replay) > 0
    /\ Len(input) = Len(replay) + Len(suffix)
    /\ \A j \in 1..Len(replay) : replay[j] = input[j]
    /\ \A j \in 1..Len(suffix) : suffix[j] = input[Len(replay) + j]

\* replay_prefix cuts a prefix that is not empty off its input.
LEMMA PrefixIsCut ==
    ASSUME NEW S, NEW input \in Seq(S), input # <<>>, NEW f
    PROVE  IsCut(S, input, replay_prefix(input, f).replay, replay_prefix(input, f).suffix)
<1>1. PICK L \in Nat : L = Len(input) /\ L > 0
    OBVIOUS
<1>2. PICK T : T = {1} \union
                   {n \in DOMAIN input : ForInput(SubSeq(input, 1, n), f).bindings # <<>>}
    OBVIOUS
<1>3. T \in SUBSET (0..L) /\ T # {} /\ T \subseteq 1..L
    BY <1>1, <1>2
<1>4. PICK n \in 1..L : n = PrefixLength(input, f)
    BY <1>2, <1>3, MaxOf DEF PrefixLength
<1>5. PICK r : r = replay_prefix(input, f)
    OBVIOUS
<1>6. r.replay = SubSeq(input, 1, n) /\ r.suffix = SubSeq(input, n + 1, L)
    BY <1>1, <1>4, <1>5 DEF replay_prefix, CutAfter
<1>7. PICK x : x = SubSeq(input, 1, n)
    OBVIOUS
<1>8. x \in Seq(S) /\ Len(x) = n /\ \A j \in 1..n : x[j] = input[j]
    BY <1>1, <1>7
<1>9. PICK y : y = SubSeq(input, n + 1, L)
    OBVIOUS
<1>10. y \in Seq(S) /\ Len(y) = L - n /\ \A j \in 1..(L - n) : y[j] = input[n + j]
  <2>1. y \in Seq(S)
      BY <1>1, <1>9
  <2>2. Len(y) = L - n
      BY <1>1, <1>9
  <2>3. \A j \in 1..(L - n) : y[j] = input[n + j]
      BY <1>1, <1>9
  <2>4. QED
      BY <2>1, <2>2, <2>3
<1>11. L = n + (L - n) /\ n > 0
    OBVIOUS
<1>12. IsCut(S, input, x, y)
    BY <1>1, <1>8, <1>10, <1>11 DEF IsCut
<1>13. QED
    BY <1>5, <1>6, <1>7, <1>9, <1>12, Zenon

\* What is left after a cut of a suffix is a shorter suffix.
LEMMA CutOfSuffix ==
    ASSUME NEW S, NEW s \in Seq(S), NEW rest \in Suffixes(s), NEW x, NEW y,
           IsCut(S, rest, x, y)
    PROVE  y \in Suffixes(s) /\ Len(y) < Len(rest)
<1>1. rest \in Seq(S) /\ SuffixOf(rest, s)
    BY SuffixElements, Zenon
<1>2. PICK l \in Nat, m \in Nat, k \in Nat : l = Len(s) /\ m = Len(rest) /\ k = Len(y)
    BY <1>1 DEF IsCut
<1>3. m <= l /\ \A i \in 1..m : rest[i] = s[l - m + i]
    BY <1>1, <1>2 DEF SuffixOf
<1>4. PICK c \in Nat : c = Len(x) /\ c > 0 /\ m = c + k
    BY <1>2 DEF IsCut
<1>5. \A j \in 1..k : y[j] = rest[c + j]
    BY <1>2, <1>4 DEF IsCut
<1>6. \A j \in 1..k : y[j] = s[l - k + j]
  <2> SUFFICES ASSUME NEW j \in 1..k PROVE y[j] = s[l - k + j]
      OBVIOUS
  <2>1. c + j \in 1..m /\ l - m + (c + j) = l - k + j
      BY <1>4
  <2>2. QED
      BY <1>3, <1>5, <2>1
<1>7. SuffixOf(y, s) /\ y \in Seq(S)
    BY <1>2, <1>3, <1>4, <1>6 DEF SuffixOf, IsCut
<1>8. y \in Suffixes(s)
    BY <1>7, SuffixElements, Zenon
<1>9. QED
    BY <1>2, <1>4, <1>8

\* The pieces, one after the other, are the input; piece i lies between the
\* positions b[i] and b[i + 1].
PiecesAt(pieces, input, b) ==
    /\ b \in [1..(Len(pieces) + 1) -> 0..Len(input)]
    /\ b[1] = 0 /\ b[Len(pieces) + 1] = Len(input)
    /\ \A i \in 1..Len(pieces) :
          /\ b[i + 1] = b[i] + Len(pieces[i])
          /\ \A j \in 1..Len(pieces[i]) : pieces[i][j] = input[b[i] + j]

Pieces(S, pieces, input) ==
    pieces \in Seq(Seq(S)) /\ \E b : PiecesAt(pieces, input, b)

\* Nothing is cut into no pieces.
LEMMA NoPiece ==
    ASSUME NEW S
    PROVE  Pieces(S, <<>>, <<>>)
<1>1. PICK b : b = [i \in 1..1 |-> 0]
    OBVIOUS
<1>2. PiecesAt(<<>>, <<>>, b)
    BY <1>1 DEF PiecesAt
<1>3. QED
    BY <1>2 DEF Pieces

\* A piece in front of the pieces of the rest.
LEMMA FirstPiece ==
    ASSUME NEW S, NEW input \in Seq(S), NEW x, NEW y, IsCut(S, input, x, y),
           NEW ps, Pieces(S, ps, y)
    PROVE  Pieces(S, <<x>> \o ps, input)
<1>1. ps \in Seq(Seq(S)) /\ x \in Seq(S) /\ y \in Seq(S)
    BY DEF Pieces, IsCut
<1>2. PICK b : PiecesAt(ps, y, b)
    BY DEF Pieces
<1>3. PICK c \in Nat, k \in Nat, n \in Nat : c = Len(x) /\ k = Len(y) /\ n = Len(ps)
    BY <1>1
<1>4. /\ Len(input) = c + k
      /\ \A j \in 1..c : x[j] = input[j]
      /\ \A j \in 1..k : y[j] = input[c + j]
    BY <1>3 DEF IsCut
<1>5. /\ b \in [1..(n + 1) -> 0..k] /\ b[1] = 0 /\ b[n + 1] = k
      /\ \A i \in 1..n : b[i + 1] = b[i] + Len(ps[i])
      /\ \A i \in 1..n : \A j \in 1..Len(ps[i]) : ps[i][j] = y[b[i] + j]
    BY <1>2, <1>3 DEF PiecesAt
<1>6. PICK qs : qs = <<x>> \o ps
    OBVIOUS
<1>7. /\ qs \in Seq(Seq(S)) /\ Len(qs) = n + 1 /\ qs[1] = x
      /\ \A i \in 1..n : qs[i + 1] = ps[i]
  <2>1. <<x>> \in Seq(Seq(S)) /\ Len(<<x>>) = 1 /\ <<x>>[1] = x
      BY <1>1
  <2>2. QED
      BY <1>1, <1>3, <1>6, <2>1
<1>8. PICK e : e = [i \in 1..(n + 2) |-> IF i = 1 THEN 0 ELSE c + b[i - 1]]
    OBVIOUS
<1>9. e \in [1..(n + 2) -> 0..(c + k)]
  <2>1. \A i \in 1..(n + 2) : i # 1 => i - 1 \in 1..(n + 1)
      OBVIOUS
  <2>2. \A i \in 1..(n + 2) : i # 1 => c + b[i - 1] \in 0..(c + k)
      BY <1>5, <2>1
  <2>3. QED
      BY <1>8, <2>2
<1>10. e[1] = 0 /\ \A i \in 1..(n + 1) : e[i + 1] = c + b[i]
    BY <1>8
<1>11. e[(n + 1) + 1] = c + k
    BY <1>5, <1>10
<1>12. ASSUME NEW i \in 1..(n + 1)
       PROVE  /\ e[i + 1] = e[i] + Len(qs[i])
              /\ \A j \in 1..Len(qs[i]) : qs[i][j] = input[e[i] + j]
  <2>1. CASE i = 1
    <3>1. qs[i] = x /\ e[i] = 0 /\ e[i + 1] = c
        BY <1>5, <1>7, <1>10, <2>1
    <3>2. \A j \in 1..c : x[j] = input[0 + j]
        BY <1>4
    <3>3. c = 0 + c
        OBVIOUS
    <3>4. QED
        BY <1>3, <3>1, <3>2, <3>3, Zenon
  <2>2. CASE i # 1
    <3>1. PICK m \in 1..n : i = m + 1
      <4>1. i - 1 \in 1..n /\ i = (i - 1) + 1
          BY <2>2
      <4>2. QED
          BY <4>1
    <3>2. qs[i] = ps[m] /\ e[i] = c + b[m] /\ e[i + 1] = c + b[m + 1]
      <4>1. m \in 1..(n + 1) /\ m + 1 \in 1..(n + 1)
          OBVIOUS
      <4>2. QED
          BY <1>7, <1>10, <3>1, <4>1, Zenon
    <3>3. PICK z \in Seq(S) : z = ps[m]
        BY <1>1, <1>3
    <3>4. PICK l \in Nat : l = Len(z)
        OBVIOUS
    <3>5. b[m] \in Nat /\ b[m + 1] \in Nat /\ b[m + 1] = b[m] + l
        BY <1>5, <3>3, <3>4
    <3>6. b[m] + l <= k
      <4>1. \A u \in 1..(n + 1) : b[u] <= k
          BY <1>5
      <4>2. m + 1 \in 1..(n + 1)
          BY <3>1
      <4>3. QED
          BY <3>5, <4>1, <4>2
    <3>7. ASSUME NEW j \in 1..l PROVE z[j] = input[(c + b[m]) + j]
      <4>1. z[j] = y[b[m] + j]
          BY <1>5, <3>3, <3>4
      <4>2. b[m] + j \in 1..k /\ (c + b[m]) + j = c + (b[m] + j)
        <5>1. PICK d \in Nat : d = b[m]
            BY <3>5, Zenon
        <5>2. d + l <= k
            BY <3>6, <5>1, Zenon
        <5>3. d + j \in 1..k /\ (c + d) + j = c + (d + j)
            BY <5>2
        <5>4. QED
            BY <5>1, <5>3, Zenon
      <4>3. QED
          BY <1>4, <4>1, <4>2
    <3>8. c + (b[m] + l) = (c + b[m]) + l
        BY <3>5
    <3>9. QED
        BY <3>2, <3>3, <3>4, <3>5, <3>7, <3>8, Zenon
  <2>3. QED
      BY <2>1, <2>2
<1>13. PiecesAt(qs, input, e)
  <2>1. /\ Len(qs) + 1 = n + 2 /\ e[Len(qs) + 1] = Len(input)
        /\ e \in [1..(Len(qs) + 1) -> 0..Len(input)]
      BY <1>4, <1>7, <1>9, <1>11
  <2>2. QED
      BY <1>7, <1>10, <1>12, <2>1 DEF PiecesAt
<1>14. QED
    BY <1>6, <1>7, <1>13 DEF Pieces

\* flush_dispatch has replays for every suffix of its input.
LEMMA FlushRecursion ==
    ASSUME NEW S, NEW input \in Seq(S), NEW f
    PROVE  \E g : /\ g = [rest \in Suffixes(input) |->
                             IF rest = <<>> THEN <<>>
                             ELSE <<replay_prefix(rest, f).replay>>
                                     \o g[replay_prefix(rest, f).suffix]]
                  /\ flush_dispatch(input, f) = g[input]
<1>1. PICK D : D = Suffixes(input)
    OBVIOUS
<1>2. PICK R, C : /\ R = [rest \in D |-> replay_prefix(rest, f).replay]
                  /\ C = [rest \in D |-> replay_prefix(rest, f).suffix]
    OBVIOUS
<1>3. ASSUME NEW rest \in D, rest # <<>>
      PROVE  R[rest] \in Seq(S) /\ C[rest] \in D /\ Len(C[rest]) < Len(rest)
  <2>1. rest \in Seq(S) /\ rest \in Suffixes(input)
      BY <1>1, SuffixElements, Zenon
  <2>2. IsCut(S, rest, R[rest], C[rest])
    <3>1. R[rest] = replay_prefix(rest, f).replay /\ C[rest] = replay_prefix(rest, f).suffix
        BY <1>2, Zenon
    <3>2. QED
        BY <1>3, <2>1, <3>1, PrefixIsCut, Zenon
  <2>3. R[rest] \in Seq(S)
      BY <2>2, Zenon DEF IsCut
  <2>4. QED
      BY <1>1, <2>1, <2>2, <2>3, CutOfSuffix, Zenon
<1>4. PICK V : V = Seq(Seq(S))
    OBVIOUS
<1>5. V # {}
  <2>1. <<>> \in V
      BY <1>4
  <2>2. QED
      BY <2>1
<1>6. PICK N \in Nat : N = Len(input)
    OBVIOUS
<1>7. PICK size : size = [rest \in D |-> Len(rest)]
    OBVIOUS
<1>8. size \in [D -> 0..N]
  <2>1. ASSUME NEW rest \in D PROVE Len(rest) \in 0..N
    <3>1. rest \in Seq(S) /\ SuffixOf(rest, input)
        BY <1>1, SuffixElements, Zenon
    <3>2. QED
        BY <1>6, <3>1 DEF SuffixOf
  <2>2. QED
      BY <1>7, <2>1
<1>9. PICK B : B = [z \in [D -> V] \X D |->
                       IF z[2] = <<>> THEN <<>> ELSE <<R[z[2]]>> \o z[1][C[z[2]]]]
    OBVIOUS
<1>10. \A g \in [D -> V], x \in D :
          B[<<g, x>>] = IF x = <<>> THEN <<>> ELSE <<R[x]>> \o g[C[x]]
    BY <1>9
<1>11. B \in [[D -> V] \X D -> V]
  <2>1. ASSUME NEW g \in [D -> V], NEW x \in D PROVE B[<<g, x>>] \in V
    <3>1. CASE x = <<>>
      <4>1. B[<<g, x>>] = <<>>
          BY <1>10, <3>1, Zenon
      <4>2. <<>> \in V
          BY <1>4
      <4>3. QED
          BY <4>1, <4>2, Zenon
    <3>2. CASE x # <<>>
      <4>1. PICK u \in Seq(S), v \in Seq(Seq(S)) : u = R[x] /\ v = g[C[x]]
          BY <1>3, <1>4, <3>2
      <4>2. <<u>> \o v \in Seq(Seq(S))
          OBVIOUS
      <4>3. QED
          BY <1>4, <1>10, <3>2, <4>1, <4>2
    <3>3. QED
        BY <3>1, <3>2
  <2>2. \A z \in [D -> V] \X D : z = <<z[1], z[2]>> /\ z[1] \in [D -> V] /\ z[2] \in D
      OBVIOUS
  <2>3. \A z \in [D -> V] \X D : B[z] \in V
      BY <2>1, <2>2, Zenon
  <2>4. QED
      BY <1>9, <2>3
<1>12. ASSUME NEW g \in [D -> V], NEW h \in [D -> V], NEW x \in D,
              \A y \in D : size[y] < size[x] => g[y] = h[y]
       PROVE  B[<<g, x>>] = B[<<h, x>>]
  <2>1. CASE x = <<>>
      BY <1>10, <2>1
  <2>2. CASE x # <<>>
    <3>1. C[x] \in D /\ size[C[x]] < size[x]
        BY <1>3, <1>7, <2>2
    <3>2. g[C[x]] = h[C[x]]
        BY <1>12, <3>1, Zenon
    <3>3. QED
        BY <1>10, <2>2, <3>2
  <2>3. QED
      BY <2>1, <2>2
<1>13. PICK g : Solves(g, D, V, B)
  <2>1. LooksDown(D, V, size, B)
      BY <1>12, Zenon DEF LooksDown
  <2>2. QED
      BY <1>5, <1>8, <1>11, <2>1, RecursiveFunction, Zenon
<1>14. g = [rest \in Suffixes(input) |->
              IF rest = <<>> THEN <<>>
              ELSE <<replay_prefix(rest, f).replay>> \o g[replay_prefix(rest, f).suffix]]
  <2>1. ASSUME NEW x \in D
        PROVE  g[x] = IF x = <<>> THEN <<>>
                      ELSE <<replay_prefix(x, f).replay>> \o g[replay_prefix(x, f).suffix]
    <3>1. R[x] = replay_prefix(x, f).replay /\ C[x] = replay_prefix(x, f).suffix
        BY <1>2, Zenon
    <3>2. g[x] = IF x = <<>> THEN <<>> ELSE <<R[x]>> \o g[C[x]]
        BY <1>10, <1>13, Zenon DEF Solves
    <3>3. QED
        BY <3>1, <3>2, Zenon
  <2>2. DOMAIN g = D /\ g = [x \in DOMAIN g |-> g[x]]
      BY <1>13 DEF Solves
  <2>3. QED
      BY <1>1, <2>1, <2>2, Zenon
<1>15. QED
    BY <1>14 DEF flush_dispatch

\* flush_dispatch replays all of its input, piece by piece.
LEMMA FlushPieces ==
    ASSUME NEW S, NEW input \in Seq(S), NEW f
    PROVE  Pieces(S, flush_dispatch(input, f), input)
<1>1. PICK g : /\ g = [rest \in Suffixes(input) |->
                         IF rest = <<>> THEN <<>>
                         ELSE <<replay_prefix(rest, f).replay>>
                                 \o g[replay_prefix(rest, f).suffix]]
               /\ flush_dispatch(input, f) = g[input]
    BY FlushRecursion, Zenon
<1>2. PICK D : D = Suffixes(input)
    OBVIOUS
<1>3. \A rest \in D : g[rest] = IF rest = <<>> THEN <<>>
                                ELSE <<replay_prefix(rest, f).replay>>
                                        \o g[replay_prefix(rest, f).suffix]
    BY <1>1, <1>2, Zenon
<1>4. PICK T : T = {n \in Nat : \A rest \in D : Len(rest) <= n => Pieces(S, g[rest], rest)}
    OBVIOUS
<1>5. ASSUME NEW rest \in D PROVE rest \in Seq(S) /\ Len(rest) \in Nat
  <2>1. rest \in Seq(S)
      BY <1>2, SuffixElements, Zenon
  <2>2. QED
      BY <2>1
<1>6. ASSUME NEW rest \in D, rest = <<>> PROVE Pieces(S, g[rest], rest)
    BY <1>3, <1>6, NoPiece, Zenon
<1>7. 0 \in T
  <2>1. ASSUME NEW rest \in D, Len(rest) <= 0 PROVE Pieces(S, g[rest], rest)
    <3>1. rest = <<>>
        BY <1>5, <2>1
    <3>2. QED
        BY <1>6, <3>1, Zenon
  <2>2. QED
      BY <1>4, <2>1
<1>8. ASSUME NEW n \in T PROVE n + 1 \in T
  <2>1. n \in Nat /\ \A rest \in D : Len(rest) <= n => Pieces(S, g[rest], rest)
      BY <1>4, Zenon
  <2>2. ASSUME NEW rest \in D, Len(rest) <= n + 1, rest # <<>>
        PROVE  Pieces(S, g[rest], rest)
    <3>1. PICK x, y : x = replay_prefix(rest, f).replay /\ y = replay_prefix(rest, f).suffix
        OBVIOUS
    <3>2. IsCut(S, rest, x, y)
        BY <1>5, <2>2, <3>1, PrefixIsCut, Zenon
    <3>3. y \in D /\ Len(y) < Len(rest)
        BY <1>2, <3>2, CutOfSuffix, Zenon
    <3>4. Len(y) <= n
      <4>1. Len(y) \in Nat /\ Len(rest) \in Nat
          BY <1>5, <3>3, Zenon
      <4>2. QED
          BY <2>1, <2>2, <3>3, <4>1
    <3>5. Pieces(S, g[y], y)
        BY <2>1, <3>3, <3>4, Zenon
    <3>6. g[rest] = <<x>> \o g[y]
        BY <1>3, <2>2, <3>1, Zenon
    <3>7. rest \in Seq(S)
        BY <1>5, Zenon
    <3>8. QED
        BY <3>2, <3>5, <3>6, <3>7, FirstPiece, Zenon
  <2>3. \A rest \in D : Len(rest) <= n + 1 => Pieces(S, g[rest], rest)
      BY <1>6, <2>2, Zenon
  <2>4. n + 1 \in Nat
      BY <2>1
  <2>5. QED
      BY <1>4, <2>3, <2>4, Zenon
<1>9. T = Nat
  <2>1. T \in SUBSET Nat
      BY <1>4
  <2>2. QED
      BY <1>7, <1>8, <2>1, NatInduct, Zenon
<1>10. input \in D
  <2>1. SuffixOf(input, input)
      BY DEF SuffixOf
  <2>2. QED
      BY <1>2, <2>1, SuffixElements, Zenon
<1>11. Len(input) \in T /\ Len(input) <= Len(input)
    BY <1>9
<1>12. Pieces(S, g[input], input)
    BY <1>4, <1>10, <1>11, Zenon
<1>13. QED
    BY <1>1, <1>12, Zenon

Results(S) == [input: Seq(S), pending: BOOLEAN, pending_has_binding: BOOLEAN,
               to_replay: Seq(Seq(S))]

\* dispatch_key: what it answers at once, and what it adds to the answer of its
\* recursive call.
Answered(rest, stroke, f) ==
    LET found == ForInput(Append(rest, stroke), f)
    IN  [input |-> Append(rest, stroke), pending |-> found.pending,
         pending_has_binding |-> found.pending /\ found.bindings # <<>>,
         to_replay |-> <<>>]
AnswersNow(rest, stroke, f) ==
    LET found == ForInput(Append(rest, stroke), f)
    IN  found.pending \/ found.bindings # <<>> \/ rest = <<>>
WithReplay(result, replay) == [result EXCEPT !.to_replay = <<replay>> \o @]

\* An answer is a result.
LEMMA AnsweredType ==
    ASSUME NEW S, NEW rest \in Seq(S), NEW stroke \in S, NEW f
    PROVE  Answered(rest, stroke, f) \in Results(S)
<1>1. PICK found : found = ForInput(Append(rest, stroke), f)
    OBVIOUS
<1>2. found.pending \in BOOLEAN
  <2>1. PICK k, d, m, p : found = [bindings |-> m, pending |-> (PendingKeys(k, p, d, m) # {})]
      BY <1>1 DEF ForInput, bindings_for_input, WithMatched, WithPending
  <2>2. found.pending = (PendingKeys(k, p, d, m) # {})
      BY <2>1
  <2>3. QED
      BY <2>2, Zenon
<1>3. (found.pending /\ found.bindings # <<>>) \in BOOLEAN
    BY Zenon
<1>4. Append(rest, stroke) \in Seq(S) /\ <<>> \in Seq(Seq(S))
    OBVIOUS
<1>5. Answered(rest, stroke, f) =
         [input |-> Append(rest, stroke), pending |-> found.pending,
          pending_has_binding |-> (found.pending /\ found.bindings # <<>>),
          to_replay |-> <<>>]
    BY <1>1, Zenon DEF Answered
<1>6. PICK a, b, c : /\ a = Append(rest, stroke) /\ b = found.pending
                     /\ c = (found.pending /\ found.bindings # <<>>)
    OBVIOUS
<1>7. a \in Seq(S) /\ b \in BOOLEAN /\ c \in BOOLEAN /\ <<>> \in Seq(Seq(S))
    BY <1>2, <1>3, <1>4, <1>6, Zenon
<1>8. [input |-> a, pending |-> b, pending_has_binding |-> c, to_replay |-> <<>>]
         \in Results(S)
    BY <1>7, Zenon DEF Results
<1>9. QED
    BY <1>5, <1>6, <1>8, Zenon

\* A result with one more replay.
LEMMA WithReplayType ==
    ASSUME NEW S, NEW result \in Results(S), NEW x \in Seq(S)
    PROVE  /\ WithReplay(result, x) \in Results(S)
           /\ WithReplay(result, x).input = result.input
           /\ WithReplay(result, x).to_replay = <<x>> \o result.to_replay
<1>1. result.to_replay \in Seq(Seq(S))
    BY DEF Results
<1>2. PICK t \in Seq(Seq(S)) : t = <<x>> \o result.to_replay
  <2>1. PICK r \in Seq(Seq(S)) : r = result.to_replay
      BY <1>1
  <2>2. <<x>> \o r \in Seq(Seq(S))
      OBVIOUS
  <2>3. QED
      BY <2>1, <2>2, Zenon
<1>3. [result EXCEPT !.to_replay = t] \in Results(S)
    BY DEF Results
<1>4. /\ [result EXCEPT !.to_replay = t].input = result.input
      /\ [result EXCEPT !.to_replay = t].to_replay = t
    BY DEF Results
<1>5. WithReplay(result, x) = [result EXCEPT !.to_replay = t]
    BY <1>2, Zenon DEF WithReplay
<1>6. QED
    BY <1>2, <1>3, <1>4, <1>5, Zenon

\* dispatch_key has a result for every suffix of the pending input.
LEMMA DispatchRecursion ==
    ASSUME NEW S, NEW before \in Seq(S), NEW stroke \in S, NEW f
    PROVE  \E g : /\ g = [rest \in Suffixes(before) |->
                             IF AnswersNow(rest, stroke, f) THEN Answered(rest, stroke, f)
                             ELSE WithReplay(g[replay_prefix(rest, f).suffix],
                                             replay_prefix(rest, f).replay)]
                  /\ dispatch_key(before, stroke, f) = g[before]
<1>1. PICK D : D = Suffixes(before)
    OBVIOUS
<1>2. PICK R, C, A, now :
         /\ R = [rest \in D |-> replay_prefix(rest, f).replay]
         /\ C = [rest \in D |-> replay_prefix(rest, f).suffix]
         /\ A = [rest \in D |-> Answered(rest, stroke, f)]
         /\ now = {rest \in D : AnswersNow(rest, stroke, f)}
    OBVIOUS
<1>3. ASSUME NEW rest \in D, rest \notin now
      PROVE  R[rest] \in Seq(S) /\ C[rest] \in D /\ Len(C[rest]) < Len(rest)
  <2>1. rest \in Seq(S) /\ rest \in Suffixes(before)
      BY <1>1, SuffixElements, Zenon
  <2>2. rest # <<>>
      BY <1>2, <1>3, Zenon DEF AnswersNow
  <2>3. R[rest] = replay_prefix(rest, f).replay /\ C[rest] = replay_prefix(rest, f).suffix
      BY <1>2, Zenon
  <2>4. IsCut(S, rest, R[rest], C[rest])
      BY <2>1, <2>2, <2>3, PrefixIsCut, Zenon
  <2>5. R[rest] \in Seq(S)
      BY <2>4, Zenon DEF IsCut
  <2>6. QED
      BY <1>1, <2>1, <2>4, <2>5, CutOfSuffix, Zenon
<1>4. PICK V : V = Results(S)
    OBVIOUS
<1>5. ASSUME NEW rest \in D PROVE A[rest] \in V
  <2>1. rest \in Seq(S)
      BY <1>1, SuffixElements, Zenon
  <2>2. A[rest] = Answered(rest, stroke, f)
      BY <1>2, Zenon
  <2>3. QED
      BY <1>4, <2>1, <2>2, AnsweredType, Zenon
<1>6. before \in D
  <2>1. SuffixOf(before, before)
      BY DEF SuffixOf
  <2>2. QED
      BY <1>1, <2>1, SuffixElements, Zenon
<1>7. V # {}
    BY <1>5, <1>6
<1>8. PICK N \in Nat : N = Len(before)
    OBVIOUS
<1>9. PICK size : size = [rest \in D |-> Len(rest)]
    OBVIOUS
<1>10. size \in [D -> 0..N]
  <2>1. ASSUME NEW rest \in D PROVE Len(rest) \in 0..N
    <3>1. rest \in Seq(S) /\ SuffixOf(rest, before)
        BY <1>1, SuffixElements, Zenon
    <3>2. QED
        BY <1>8, <3>1 DEF SuffixOf
  <2>2. QED
      BY <1>9, <2>1
<1>11. PICK B : B = [z \in [D -> V] \X D |->
                        IF z[2] \in now THEN A[z[2]]
                        ELSE WithReplay(z[1][C[z[2]]], R[z[2]])]
    OBVIOUS
<1>12. \A g \in [D -> V], x \in D :
          B[<<g, x>>] = IF x \in now THEN A[x] ELSE WithReplay(g[C[x]], R[x])
    BY <1>11
<1>13. B \in [[D -> V] \X D -> V]
  <2>1. ASSUME NEW g \in [D -> V], NEW x \in D PROVE B[<<g, x>>] \in V
    <3>1. CASE x \in now
        BY <1>5, <1>12, <3>1, Zenon
    <3>2. CASE x \notin now
      <4>1. R[x] \in Seq(S) /\ C[x] \in D
          BY <1>3, <3>2, Zenon
      <4>2. g[C[x]] \in Results(S)
          BY <1>4, <4>1
      <4>3. WithReplay(g[C[x]], R[x]) \in Results(S)
          BY <4>1, <4>2, WithReplayType, Zenon
      <4>4. QED
          BY <1>4, <1>12, <3>2, <4>3, Zenon
    <3>3. QED
        BY <3>1, <3>2, Zenon
  <2>2. \A z \in [D -> V] \X D : z = <<z[1], z[2]>> /\ z[1] \in [D -> V] /\ z[2] \in D
      OBVIOUS
  <2>3. \A z \in [D -> V] \X D : B[z] \in V
      BY <2>1, <2>2, Zenon
  <2>4. QED
      BY <1>11, <2>3
<1>14. ASSUME NEW g \in [D -> V], NEW h \in [D -> V], NEW x \in D,
              \A y \in D : size[y] < size[x] => g[y] = h[y]
       PROVE  B[<<g, x>>] = B[<<h, x>>]
  <2>1. CASE x \in now
      BY <1>12, <2>1, Zenon
  <2>2. CASE x \notin now
    <3>1. C[x] \in D /\ Len(C[x]) < Len(x)
        BY <1>3, <2>2, Zenon
    <3>2. size[C[x]] < size[x]
        BY <1>9, <3>1
    <3>3. g[C[x]] = h[C[x]]
        BY <1>14, <3>1, <3>2, Zenon
    <3>4. QED
        BY <1>12, <2>2, <3>3, Zenon
  <2>3. QED
      BY <2>1, <2>2, Zenon
<1>15. PICK g : Solves(g, D, V, B)
  <2>1. LooksDown(D, V, size, B)
      BY <1>14, Zenon DEF LooksDown
  <2>2. QED
      BY <1>7, <1>10, <1>13, <2>1, RecursiveFunction, Zenon
<1>16. g = [rest \in Suffixes(before) |->
              IF AnswersNow(rest, stroke, f) THEN Answered(rest, stroke, f)
              ELSE WithReplay(g[replay_prefix(rest, f).suffix],
                              replay_prefix(rest, f).replay)]
  <2>1. ASSUME NEW x \in D
        PROVE  g[x] = IF AnswersNow(x, stroke, f) THEN Answered(x, stroke, f)
                      ELSE WithReplay(g[replay_prefix(x, f).suffix],
                                      replay_prefix(x, f).replay)
    <3>1. /\ R[x] = replay_prefix(x, f).replay /\ C[x] = replay_prefix(x, f).suffix
          /\ A[x] = Answered(x, stroke, f) /\ (x \in now <=> AnswersNow(x, stroke, f))
        BY <1>2, Zenon
    <3>2. g[x] = IF x \in now THEN A[x] ELSE WithReplay(g[C[x]], R[x])
        BY <1>12, <1>15, Zenon DEF Solves
    <3>3. QED
        BY <3>1, <3>2, Zenon
  <2>2. DOMAIN g = D /\ g = [x \in DOMAIN g |-> g[x]]
      BY <1>15 DEF Solves
  <2>3. QED
      BY <1>1, <2>1, <2>2, Zenon
<1>17. QED
  <2>1. PICK h : /\ h = [rest \in Suffixes(before) |->
                           IF AnswersNow(rest, stroke, f) THEN Answered(rest, stroke, f)
                           ELSE WithReplay(h[replay_prefix(rest, f).suffix],
                                           replay_prefix(rest, f).replay)]
                 /\ dispatch_key(before, stroke, f) = h[before]
      BY <1>16 DEF dispatch_key, AnswersNow, Answered, WithReplay
  <2>2. QED
      BY <2>1, Zenon

\* An input that is not empty is one piece.
LEMMA OnePiece ==
    ASSUME NEW S, NEW x \in Seq(S), x # <<>>
    PROVE  Pieces(S, <<x>>, x)
<1>1. PICK e : e = <<>>
    OBVIOUS
<1>a. e \in Seq(S) /\ Len(e) = 0
    BY <1>1
<1>2. PICK l \in Nat : l = Len(x) /\ l > 0 /\ l = l + 0
    OBVIOUS
<1>3. IsCut(S, x, x, e)
    BY <1>a, <1>2 DEF IsCut
<1>4. Pieces(S, <<x>> \o <<>>, x)
    BY <1>1, <1>3, NoPiece, FirstPiece, Zenon
<1>5. <<x>> \o <<>> = <<x>>
  <2>1. <<x>> \in Seq(Seq(S))
      OBVIOUS
  <2>2. PICK s \in Seq(Seq(S)) : s = <<x>>
      BY <2>1
  <2>3. s \o <<>> = s
      OBVIOUS
  <2>4. QED
      BY <2>2, <2>3, Zenon
<1>6. QED
    BY <1>4, <1>5, Zenon

\* A keystroke behind the input comes behind its suffix.
LEMMA CutWithStroke ==
    ASSUME NEW S, NEW rest \in Seq(S), NEW stroke \in S, NEW x, NEW y,
           IsCut(S, rest, x, y)
    PROVE  IsCut(S, Append(rest, stroke), x, Append(y, stroke))
<1>1. PICK c \in Nat, k \in Nat, m \in Nat : c = Len(x) /\ k = Len(y) /\ m = Len(rest)
    BY DEF IsCut
<1>2. /\ x \in Seq(S) /\ y \in Seq(S) /\ c > 0 /\ m = c + k
      /\ \A j \in 1..c : x[j] = rest[j]
      /\ \A j \in 1..k : y[j] = rest[c + j]
    BY <1>1 DEF IsCut
<1>3. PICK u : u = Append(rest, stroke)
    OBVIOUS
<1>4. /\ u \in Seq(S) /\ Len(u) = m + 1 /\ u[m + 1] = stroke
      /\ \A j \in 1..m : u[j] = rest[j]
    BY <1>1, <1>3
<1>5. PICK v : v = Append(y, stroke)
    OBVIOUS
<1>6. /\ v \in Seq(S) /\ Len(v) = k + 1 /\ v[k + 1] = stroke
      /\ \A j \in 1..k : v[j] = y[j]
    BY <1>1, <1>2, <1>5
<1>7. \A j \in 1..c : x[j] = u[j]
    BY <1>2, <1>4
<1>8. ASSUME NEW j \in 1..(k + 1) PROVE v[j] = u[c + j]
  <2>1. CASE j = k + 1
    <3>1. c + j = m + 1
        BY <1>2, <2>1
    <3>2. QED
        BY <1>4, <1>6, <2>1, <3>1
  <2>2. CASE j # k + 1
    <3>1. j \in 1..k /\ c + j \in 1..m
        BY <1>2, <2>2
    <3>2. QED
        BY <1>2, <1>4, <1>6, <3>1
  <2>3. QED
      BY <2>1, <2>2
<1>9. m + 1 = c + (k + 1)
    BY <1>2
<1>10. IsCut(S, u, x, v)
    BY <1>1, <1>2, <1>4, <1>6, <1>7, <1>8, <1>9 DEF IsCut
<1>11. QED
    BY <1>3, <1>5, <1>10, Zenon

\* One in front and one behind.
LEMMA FrontAndBack ==
    ASSUME NEW S, NEW t \in Seq(S), NEW x \in S, NEW i \in S
    PROVE  Append(<<x>> \o t, i) = <<x>> \o Append(t, i)
<1>1. PICK s : s = <<x>>
    OBVIOUS
<1>2. s \in Seq(S) /\ Len(s) = 1
    BY <1>1
<1>3. Append(s \o t, i) = s \o Append(t, i)
    BY <1>2
<1>4. QED
    BY <1>1, <1>3, Zenon

\* What dispatch_key answers for some pending input and a keystroke: the input
\* that is pending or dispatched now is not empty, and with the replays before
\* it, it is all that was pending and the keystroke.
GoodResult(S, result, input) ==
    /\ result \in Results(S)
    /\ result.input # <<>>
    /\ Pieces(S, Append(result.to_replay, result.input), input)

LEMMA DispatchPieces ==
    ASSUME NEW S, NEW before \in Seq(S), NEW stroke \in S, NEW f
    PROVE  GoodResult(S, dispatch_key(before, stroke, f), Append(before, stroke))
<1>1. PICK g : /\ g = [rest \in Suffixes(before) |->
                          IF AnswersNow(rest, stroke, f) THEN Answered(rest, stroke, f)
                          ELSE WithReplay(g[replay_prefix(rest, f).suffix],
                                          replay_prefix(rest, f).replay)]
               /\ dispatch_key(before, stroke, f) = g[before]
    BY DispatchRecursion, Zenon
<1>2. PICK D : D = Suffixes(before)
    OBVIOUS
<1>3. \A rest \in D : g[rest] = IF AnswersNow(rest, stroke, f)
                                THEN Answered(rest, stroke, f)
                                ELSE WithReplay(g[replay_prefix(rest, f).suffix],
                                                replay_prefix(rest, f).replay)
    BY <1>1, <1>2, Zenon
<1>4. PICK T : T = {n \in Nat : \A rest \in D :
                       Len(rest) <= n => GoodResult(S, g[rest], Append(rest, stroke))}
    OBVIOUS
<1>5. ASSUME NEW rest \in D PROVE rest \in Seq(S) /\ Len(rest) \in Nat
  <2>1. rest \in Seq(S)
      BY <1>2, SuffixElements, Zenon
  <2>2. QED
      BY <2>1
<1>6. ASSUME NEW rest \in D, AnswersNow(rest, stroke, f)
      PROVE  GoodResult(S, g[rest], Append(rest, stroke))
  <2>1. g[rest] = Answered(rest, stroke, f)
      BY <1>3, <1>6, Zenon
  <2>2. g[rest] \in Results(S)
      BY <1>5, <2>1, AnsweredType, Zenon
  <2>3. g[rest].input = Append(rest, stroke) /\ g[rest].to_replay = <<>>
      BY <2>1 DEF Answered
  <2>4. PICK x : x = Append(rest, stroke)
      OBVIOUS
  <2>a. x \in Seq(S) /\ x # <<>>
      BY <1>5, <2>4
  <2>5. Append(<<>>, x) = <<x>>
      OBVIOUS
  <2>6. Pieces(S, <<x>>, x)
      BY <2>a, OnePiece, Zenon
  <2>7. QED
      BY <2>2, <2>3, <2>4, <2>a, <2>5, <2>6, Zenon DEF GoodResult
<1>7. 0 \in T
  <2>1. ASSUME NEW rest \in D, Len(rest) <= 0
        PROVE  GoodResult(S, g[rest], Append(rest, stroke))
    <3>1. rest = <<>>
        BY <1>5, <2>1
    <3>2. QED
        BY <1>6, <3>1, Zenon DEF AnswersNow
  <2>2. QED
      BY <1>4, <2>1
<1>8. ASSUME NEW n \in T PROVE n + 1 \in T
  <2>1. n \in Nat /\ \A rest \in D : Len(rest) <= n
                        => GoodResult(S, g[rest], Append(rest, stroke))
      BY <1>4, Zenon
  <2>2. ASSUME NEW rest \in D, Len(rest) <= n + 1, ~AnswersNow(rest, stroke, f)
        PROVE  GoodResult(S, g[rest], Append(rest, stroke))
    <3>1. PICK x, y : x = replay_prefix(rest, f).replay /\ y = replay_prefix(rest, f).suffix
        OBVIOUS
    <3>2. rest # <<>> /\ rest \in Seq(S)
        BY <1>5, <2>2, Zenon DEF AnswersNow
    <3>3. IsCut(S, rest, x, y)
        BY <3>1, <3>2, PrefixIsCut, Zenon
    <3>4. y \in D /\ Len(y) < Len(rest)
        BY <1>2, <3>3, CutOfSuffix, Zenon
    <3>5. Len(y) <= n
      <4>1. Len(y) \in Nat /\ Len(rest) \in Nat
          BY <1>5, <3>4, Zenon
      <4>2. QED
          BY <2>1, <2>2, <3>4, <4>1
    <3>6. GoodResult(S, g[y], Append(y, stroke))
        BY <2>1, <3>4, <3>5, Zenon
    <3>7. g[rest] = WithReplay(g[y], x)
        BY <1>3, <2>2, <3>1, Zenon
    <3>8. x \in Seq(S)
        BY <3>3, Zenon DEF IsCut
    <3>9. /\ g[rest] \in Results(S) /\ g[rest].input = g[y].input
          /\ g[rest].to_replay = <<x>> \o g[y].to_replay
      <4>1. PICK w : w = g[y] /\ w \in Results(S)
          BY <3>6, Zenon DEF GoodResult
      <4>2. /\ WithReplay(w, x) \in Results(S) /\ WithReplay(w, x).input = w.input
            /\ WithReplay(w, x).to_replay = <<x>> \o w.to_replay
          BY <3>8, <4>1, WithReplayType, Zenon
      <4>3. QED
          BY <3>7, <4>1, <4>2, Zenon
    <3>10. g[y].to_replay \in Seq(Seq(S)) /\ g[y].input \in Seq(S)
      <4>1. g[y] \in Results(S)
          BY <3>6, Zenon DEF GoodResult
      <4>2. QED
          BY <4>1 DEF Results
    <3>11. Append(g[rest].to_replay, g[rest].input)
              = <<x>> \o Append(g[y].to_replay, g[y].input)
      <4>1. PICK U, t, i : U = Seq(S) /\ t = g[y].to_replay /\ i = g[y].input
          OBVIOUS
      <4>2. t \in Seq(U) /\ x \in U /\ i \in U
          BY <3>8, <3>10, <4>1, Zenon
      <4>3. Append(<<x>> \o t, i) = <<x>> \o Append(t, i)
          BY <4>2, FrontAndBack, Zenon
      <4>4. QED
          BY <3>9, <4>1, <4>3, Zenon
    <3>12. IsCut(S, Append(rest, stroke), x, Append(y, stroke))
        BY <3>2, <3>3, CutWithStroke, Zenon
    <3>13. Append(rest, stroke) \in Seq(S)
        BY <3>2
    <3>14. Pieces(S, <<x>> \o Append(g[y].to_replay, g[y].input), Append(rest, stroke))
        BY <3>6, <3>12, <3>13, FirstPiece, Zenon DEF GoodResult
    <3>15. QED
        BY <3>6, <3>9, <3>11, <3>14, Zenon DEF GoodResult
  <2>3. \A rest \in D : Len(rest) <= n + 1 => GoodResult(S, g[rest], Append(rest, stroke))
      BY <1>6, <2>2, Zenon
  <2>4. n + 1 \in Nat
      BY <2>1
  <2>5. QED
      BY <1>4, <2>3, <2>4, Zenon
<1>9. T = Nat
  <2>1. T \in SUBSET Nat
      BY <1>4
  <2>2. QED
      BY <1>7, <1>8, <2>1, NatInduct, Zenon
<1>10. before \in D
  <2>1. SuffixOf(before, before)
      BY DEF SuffixOf
  <2>2. QED
      BY <1>2, <2>1, SuffixElements, Zenon
<1>11. Len(before) \in T /\ Len(before) <= Len(before)
    BY <1>9
<1>12. GoodResult(S, g[before], Append(before, stroke))
    BY <1>4, <1>10, <1>11, Zenon
<1>13. QED
    BY <1>1, <1>12, Zenon

-----------------------------------------------------------------------------
(* The numbers of keystrokes.                                               *)

\* x holds the keystrokes after number from, up to number to.
Numbered(x, from, to) ==
    Len(x) = to - from /\ \A j \in 1..Len(x) : x[j].n = from + j

\* The groups, one after the other, do; group i those after number b[i].
InOrderAt(groups, from, to, b) ==
    /\ b \in [1..(Len(groups) + 1) -> from..to]
    /\ b[1] = from /\ b[Len(groups) + 1] = to
    /\ \A i \in 1..Len(groups) :
          /\ b[i + 1] = b[i] + Len(groups[i])
          /\ \A j \in 1..Len(groups[i]) : groups[i][j].n = b[i] + j

InOrder(groups, from, to) == \E b : InOrderAt(groups, from, to, b)

\* The pieces of numbered keystrokes are in order.
LEMMA PiecesInOrder ==
    ASSUME NEW S, NEW from \in Nat, NEW to \in Nat, from <= to,
           NEW x \in Seq(S), Numbered(x, from, to), NEW ps, Pieces(S, ps, x)
    PROVE  InOrder(ps, from, to)
<1>1. PICK b : PiecesAt(ps, x, b)
    BY DEF Pieces
<1>2. ps \in Seq(Seq(S))
    BY DEF Pieces
<1>3. PICK l \in Nat, n \in Nat : l = Len(x) /\ n = Len(ps)
    BY <1>2
<1>4. l = to - from /\ \A j \in 1..l : x[j].n = from + j
    BY <1>3 DEF Numbered
<1>5. /\ b \in [1..(n + 1) -> 0..l] /\ b[1] = 0 /\ b[n + 1] = l
      /\ \A i \in 1..n : b[i + 1] = b[i] + Len(ps[i])
      /\ \A i \in 1..n : \A j \in 1..Len(ps[i]) : ps[i][j] = x[b[i] + j]
    BY <1>1, <1>3 DEF PiecesAt
<1>6. PICK e : e = [i \in 1..(n + 1) |-> from + b[i]]
    OBVIOUS
<1>7. e \in [1..(n + 1) -> from..to] /\ e[1] = from /\ e[n + 1] = to
    BY <1>4, <1>5, <1>6
<1>8. ASSUME NEW i \in 1..n
      PROVE  /\ e[i + 1] = e[i] + Len(ps[i])
             /\ \A j \in 1..Len(ps[i]) : ps[i][j].n = e[i] + j
  <2>1. PICK z \in Seq(S) : z = ps[i]
      BY <1>2, <1>3
  <2>2. PICK m \in Nat : m = Len(z)
      OBVIOUS
  <2>3. /\ i \in 1..(n + 1) /\ i + 1 \in 1..(n + 1)
        /\ b[i] \in 0..l /\ b[i + 1] \in 0..l /\ b[i + 1] = b[i] + m
      BY <1>5, <2>1, <2>2
  <2>4. e[i] = from + b[i] /\ e[i + 1] = from + b[i + 1]
      BY <1>6, <2>3, Zenon
  <2>5. e[i + 1] = e[i] + m
      BY <2>3, <2>4
  <2>6. ASSUME NEW j \in 1..m PROVE z[j].n = e[i] + j
    <3>1. z[j] = x[b[i] + j]
        BY <1>5, <2>1, <2>2
    <3>2. b[i] + j \in 1..l /\ from + (b[i] + j) = e[i] + j
      <4>1. PICK c : c = b[i]
          OBVIOUS
      <4>2. c \in Nat /\ c + m <= l /\ e[i] = from + c
          BY <2>3, <2>4, <4>1
      <4>3. c + j \in 1..l /\ from + (c + j) = (from + c) + j
          BY <4>2
      <4>4. QED
          BY <4>1, <4>2, <4>3, Zenon
    <3>3. x[b[i] + j].n = from + (b[i] + j)
        BY <1>4, <3>2, Zenon
    <3>4. QED
        BY <3>1, <3>2, <3>3, Zenon
  <2>7. QED
      BY <2>1, <2>2, <2>5, <2>6, Zenon
<1>9. InOrderAt(ps, from, to, e)
    BY <1>3, <1>7, <1>8, Zenon DEF InOrderAt
<1>10. QED
    BY <1>9 DEF InOrder

\* One group is in order iff it is numbered.
LEMMA OneGroup ==
    ASSUME NEW S, NEW from \in Nat, NEW to \in Nat, from <= to, NEW x \in Seq(S)
    PROVE  InOrder(<<x>>, from, to) <=> Numbered(x, from, to)
<1>1. PICK g, l : g = <<x>> /\ l = Len(x)
    OBVIOUS
<1>2. Len(g) = 1 /\ g[1] = x /\ l \in Nat
    BY <1>1
<1>3. ASSUME NEW b, InOrderAt(g, from, to, b) PROVE Numbered(x, from, to)
  <2>1. /\ b[1] = from /\ b[1 + 1] = to
        /\ b[1 + 1] = b[1] + l
        /\ \A j \in 1..l : x[j].n = b[1] + j
      BY <1>1, <1>2, <1>3 DEF InOrderAt
  <2>2. l = to - from /\ \A j \in 1..l : x[j].n = from + j
      BY <1>2, <2>1
  <2>3. QED
      BY <1>1, <2>2 DEF Numbered
<1>4. ASSUME Numbered(x, from, to) PROVE InOrder(g, from, to)
  <2>1. l = to - from /\ \A j \in 1..l : x[j].n = from + j
      BY <1>1, <1>4 DEF Numbered
  <2>2. PICK b : b = [i \in 1..2 |-> IF i = 1 THEN from ELSE to]
      OBVIOUS
  <2>3. b \in [1..(1 + 1) -> from..to] /\ b[1] = from /\ b[1 + 1] = to
      BY <2>2
  <2>4. to = from + l
      BY <1>2, <2>1
  <2>5. \A i \in 1..1 : /\ b[i + 1] = b[i] + Len(g[i])
                        /\ \A j \in 1..Len(g[i]) : g[i][j].n = b[i] + j
    <3>1. /\ b[1 + 1] = b[1] + Len(g[1])
          /\ \A j \in 1..Len(g[1]) : g[1][j].n = b[1] + j
        BY <1>1, <1>2, <2>1, <2>3, <2>4
    <3>2. \A i \in 1..1 : i = 1
        OBVIOUS
    <3>3. QED
        BY <3>1, <3>2, Zenon
  <2>6. InOrderAt(g, from, to, b)
      BY <1>2, <2>3, <2>5, Zenon DEF InOrderAt
  <2>7. QED
      BY <2>6 DEF InOrder
<1>5. QED
    BY <1>1, <1>3, <1>4, Zenon DEF InOrder

\* Without its first group, the rest is in order after it.
LEMMA TailInOrder ==
    ASSUME NEW S, NEW from \in Nat, NEW to \in Nat, NEW gs \in Seq(Seq(S)),
           gs # <<>>, InOrder(gs, from, to)
    PROVE  /\ from + Len(Head(gs)) \in Nat /\ from + Len(Head(gs)) <= to
           /\ InOrder(Tail(gs), from + Len(Head(gs)), to)
<1>1. PICK b : InOrderAt(gs, from, to, b)
    BY DEF InOrder
<1>2. PICK n \in Nat : n = Len(gs) /\ n > 0
    OBVIOUS
<1>3. PICK m \in Nat : n = m + 1
  <2>1. n - 1 \in Nat /\ n = (n - 1) + 1
      BY <1>2
  <2>2. QED
      BY <2>1
<1>4. /\ b \in [1..(n + 1) -> from..to] /\ b[1] = from /\ b[n + 1] = to
      /\ \A i \in 1..n : b[i + 1] = b[i] + Len(gs[i])
      /\ \A i \in 1..n : \A j \in 1..Len(gs[i]) : gs[i][j].n = b[i] + j
    BY <1>1, <1>2 DEF InOrderAt
<1>5. PICK x \in Seq(S) : x = Head(gs) /\ x = gs[1]
    BY <1>2
<1>6. PICK l \in Nat : l = Len(x)
    OBVIOUS
<1>7. PICK t : t = Tail(gs)
    OBVIOUS
<1>8. t \in Seq(Seq(S)) /\ Len(t) = m /\ \A i \in 1..m : t[i] = gs[i + 1]
  <2>1. PICK U : U = Seq(S)
      OBVIOUS
  <2>2. gs \in Seq(U)
      BY <2>1
  <2>3. t \in Seq(U) /\ Len(t) = n - 1 /\ \A i \in 1..(n - 1) : t[i] = gs[i + 1]
      BY <1>2, <1>7, <2>2
  <2>4. n - 1 = m
      BY <1>3
  <2>5. QED
      BY <2>1, <2>3, <2>4, Zenon
<1>9. b[2] = from + l /\ from + l \in from..to
  <2>1. 1 \in 1..n /\ 2 \in 1..(n + 1) /\ 2 = 1 + 1
      BY <1>2
  <2>2. b[2] = from + l
      BY <1>4, <1>5, <1>6, <2>1
  <2>3. QED
      BY <1>4, <2>1, <2>2
<1>10. ASSUME NEW i \in 2..(n + 1) PROVE b[i] \in (from + l)..to
  <2>1. PICK T : T = {k \in Nat : k + 2 \in 2..(n + 1) => b[k + 2] >= from + l}
      OBVIOUS
  <2>2. 0 \in T
      BY <1>6, <1>9, <2>1
  <2>3. ASSUME NEW k \in T PROVE k + 1 \in T
    <3>1. k \in Nat /\ (k + 2 \in 2..(n + 1) => b[k + 2] >= from + l)
        BY <2>1
    <3>2. ASSUME (k + 1) + 2 \in 2..(n + 1) PROVE b[(k + 1) + 2] >= from + l
      <4>1. k + 2 \in 2..(n + 1) /\ k + 2 \in 1..n /\ k + 2 \in 1..(n + 1)
            /\ (k + 1) + 2 = (k + 2) + 1
          BY <3>1, <3>2
      <4>2. PICK z \in Seq(S) : z = gs[k + 2]
          BY <1>2, <4>1
      <4>3. PICK u \in Nat : u = Len(z)
          OBVIOUS
      <4>4. b[(k + 2) + 1] = b[k + 2] + u
          BY <1>4, <4>1, <4>2, <4>3
      <4>5. PICK v \in Nat : v = b[k + 2] /\ v >= from + l
          BY <1>4, <3>1, <4>1
      <4>6. v + u >= from + l
          BY <4>5
      <4>7. QED
          BY <4>1, <4>4, <4>5, <4>6, Zenon
    <3>3. QED
        BY <2>1, <3>1, <3>2
  <2>4. T = Nat
    <3>1. T \in SUBSET Nat
        BY <2>1
    <3>2. QED
        BY <2>2, <2>3, <3>1, NatInduct, Zenon
  <2>5. i - 2 \in T /\ (i - 2) + 2 = i
      BY <2>4
  <2>6. b[i] >= from + l
      BY <2>1, <2>5
  <2>7. b[i] \in from..to
      BY <1>4
  <2>8. QED
      BY <2>6, <2>7
<1>11. PICK e : e = [i \in 1..(m + 1) |-> b[i + 1]]
    OBVIOUS
<1>12. \A i \in 1..(m + 1) : i + 1 \in 2..(n + 1)
    BY <1>3
<1>13. e \in [1..(m + 1) -> (from + l)..to]
    BY <1>10, <1>11, <1>12
<1>14. e[1] = from + l /\ e[m + 1] = to
    BY <1>3, <1>4, <1>9, <1>11
<1>15. ASSUME NEW i \in 1..m
       PROVE  /\ e[i + 1] = e[i] + Len(t[i])
              /\ \A j \in 1..Len(t[i]) : t[i][j].n = e[i] + j
  <2>1. i + 1 \in 1..n /\ i \in 1..(m + 1) /\ i + 1 \in 1..(m + 1)
      BY <1>3
  <2>2. t[i] = gs[i + 1] /\ e[i] = b[i + 1] /\ e[i + 1] = b[(i + 1) + 1]
      BY <1>8, <1>11, <2>1, Zenon
  <2>3. QED
      BY <1>4, <2>1, <2>2, Zenon
<1>16. InOrderAt(t, from + l, to, e)
    BY <1>8, <1>13, <1>14, <1>15, Zenon DEF InOrderAt
<1>17. from + l \in Nat /\ from + l <= to
    BY <1>9
<1>18. QED
    BY <1>5, <1>6, <1>7, <1>16, <1>17, Zenon DEF InOrder

\* An empty group behind the others.
LEMMA EmptyGroup ==
    ASSUME NEW S, NEW from \in Nat, NEW to \in Nat, NEW gs \in Seq(Seq(S)),
           InOrder(gs, from, to)
    PROVE  InOrder(Append(gs, <<>>), from, to)
<1>1. PICK b : InOrderAt(gs, from, to, b)
    BY DEF InOrder
<1>2. PICK n \in Nat : n = Len(gs)
    OBVIOUS
<1>3. /\ b \in [1..(n + 1) -> from..to] /\ b[1] = from /\ b[n + 1] = to
      /\ \A i \in 1..n : b[i + 1] = b[i] + Len(gs[i])
      /\ \A i \in 1..n : \A j \in 1..Len(gs[i]) : gs[i][j].n = b[i] + j
    BY <1>1, <1>2 DEF InOrderAt
<1>4. PICK h, z : h = Append(gs, z) /\ z = <<>>
    OBVIOUS
<1>5. Len(h) = n + 1 /\ h[n + 1] = z /\ \A i \in 1..n : h[i] = gs[i]
  <2>1. PICK U : U = Seq(S)
      OBVIOUS
  <2>2. gs \in Seq(U) /\ z \in U
      BY <1>4, <2>1
  <2>3. QED
      BY <1>2, <1>4, <2>2
<1>6. PICK e : e = [i \in 1..(n + 2) |-> IF i = n + 2 THEN to ELSE b[i]]
    OBVIOUS
<1>7. /\ e \in [1..((n + 1) + 1) -> from..to] /\ e[(n + 1) + 1] = to
      /\ \A i \in 1..(n + 1) : e[i] = b[i]
  <2>1. (n + 1) + 1 = n + 2 /\ \A i \in 1..(n + 1) : i # n + 2 /\ i \in 1..(n + 2)
      OBVIOUS
  <2>2. \A i \in 1..(n + 2) : i # n + 2 => i \in 1..(n + 1)
      OBVIOUS
  <2>3. to \in from..to
      BY <1>3
  <2>4. e \in [1..(n + 2) -> from..to]
      BY <1>3, <1>6, <2>2, <2>3
  <2>5. n + 2 \in 1..(n + 2)
      OBVIOUS
  <2>6. QED
      BY <1>6, <2>1, <2>4, <2>5, Zenon
<1>8. e[1] = from
    BY <1>3, <1>7
<1>9. ASSUME NEW i \in 1..(n + 1)
      PROVE  /\ e[i + 1] = e[i] + Len(h[i])
             /\ \A j \in 1..Len(h[i]) : h[i][j].n = e[i] + j
  <2>1. CASE i = n + 1
    <3>1. Len(h[i]) = 0 /\ e[i] = to /\ e[i + 1] = to
        BY <1>3, <1>4, <1>5, <1>7, <2>1
    <3>2. \A j \in 1..0 : h[i][j].n = e[i] + j
        OBVIOUS
    <3>3. to = to + 0
        OBVIOUS
    <3>4. QED
        BY <3>1, <3>2, <3>3, Zenon
  <2>2. CASE i # n + 1
    <3>1. i \in 1..n /\ i \in 1..(n + 1) /\ i + 1 \in 1..(n + 1)
        BY <2>2
    <3>2. h[i] = gs[i] /\ e[i] = b[i] /\ e[i + 1] = b[i + 1]
        BY <1>5, <1>7, <3>1, Zenon
    <3>3. QED
        BY <1>3, <3>1, <3>2, Zenon
  <2>3. QED
      BY <2>1, <2>2
<1>10. InOrderAt(h, from, to, e)
    BY <1>5, <1>7, <1>8, <1>9, Zenon DEF InOrderAt
<1>11. QED
    BY <1>4, <1>10, Zenon DEF InOrder

\* g[i] is the first i groups of gs in one sequence.
Flattens(g, S, gs, n) ==
    /\ g \in [1..n -> Seq(S)]
    /\ \A i \in 1..n : g[i] = IF i = 1 THEN gs[i] ELSE g[i - 1] \o gs[i]
    /\ FlattenSeq(gs) = g[n]

\* FlattenSeq has a value for every number of groups.
LEMMA FlattenRecursion ==
    ASSUME NEW S, NEW gs \in Seq(Seq(S)), NEW n \in Nat, n = Len(gs), n > 0
    PROVE  \E g : Flattens(g, S, gs, n)
<1>1. PICK D, V : D = 1..n /\ V = Seq(S)
    OBVIOUS
<1>2. \A i \in D : gs[i] \in V
    BY <1>1
<1>3. \A i \in D : i # 1 => i - 1 \in D /\ i - 1 < i
    BY <1>1
<1>4. \A u, v \in V : u \o v \in V
    BY <1>1
<1>5. V # {}
  <2>1. <<>> \in V
      BY <1>1
  <2>2. QED
      BY <2>1
<1>6. PICK size : size = [i \in D |-> i]
    OBVIOUS
<1>7. size \in [D -> 0..n]
    BY <1>1, <1>6
<1>8. PICK B : B = [z \in [D -> V] \X D |->
                       IF z[2] = 1 THEN gs[z[2]] ELSE z[1][z[2] - 1] \o gs[z[2]]]
    OBVIOUS
<1>9. \A g \in [D -> V], i \in D :
         B[<<g, i>>] = IF i = 1 THEN gs[i] ELSE g[i - 1] \o gs[i]
    BY <1>8
<1>10. B \in [[D -> V] \X D -> V]
  <2>1. ASSUME NEW g \in [D -> V], NEW i \in D PROVE B[<<g, i>>] \in V
    <3>1. CASE i = 1
        BY <1>2, <1>9, <3>1, Zenon
    <3>2. CASE i # 1
      <4>1. i - 1 \in D
          BY <1>3, <3>2, Zenon
      <4>2. g[i - 1] \in V
          BY <4>1
      <4>3. QED
          BY <1>2, <1>4, <1>9, <3>2, <4>2, Zenon
    <3>3. QED
        BY <3>1, <3>2
  <2>2. \A z \in [D -> V] \X D : z = <<z[1], z[2]>> /\ z[1] \in [D -> V] /\ z[2] \in D
      OBVIOUS
  <2>3. \A z \in [D -> V] \X D : B[z] \in V
      BY <2>1, <2>2, Zenon
  <2>4. QED
      BY <1>8, <2>3
<1>11. LooksDown(D, V, size, B)
  <2>1. ASSUME NEW g \in [D -> V], NEW h \in [D -> V], NEW i \in D,
               \A y \in D : size[y] < size[i] => g[y] = h[y]
        PROVE  B[<<g, i>>] = B[<<h, i>>]
    <3>1. CASE i = 1
        BY <1>9, <3>1, Zenon
    <3>2. CASE i # 1
      <4>1. i - 1 \in D /\ i - 1 < i
          BY <1>3, <3>2, Zenon
      <4>2. size[i - 1] < size[i]
          BY <1>6, <4>1
      <4>3. g[i - 1] = h[i - 1]
          BY <2>1, <4>1, <4>2, Zenon
      <4>4. B[<<g, i>>] = g[i - 1] \o gs[i] /\ B[<<h, i>>] = h[i - 1] \o gs[i]
          BY <1>9, <3>2, Zenon
      <4>5. QED
          BY <4>3, <4>4, Zenon
    <3>3. QED
        BY <3>1, <3>2
  <2>2. QED
      BY <2>1, Zenon DEF LooksDown
<1>12. PICK g : Solves(g, D, V, B)
    BY <1>5, <1>7, <1>10, <1>11, RecursiveFunction, Zenon
<1>13. \A i \in D : g[i] = IF i = 1 THEN gs[i] ELSE g[i - 1] \o gs[i]
    BY <1>9, <1>12, Zenon DEF Solves
<1>14. g \in [D -> V]
    BY <1>12, Zenon DEF Solves
<1>15. g = [i \in 1..Len(gs) |-> IF i = 1 THEN gs[i] ELSE g[i - 1] \o gs[i]]
  <2>1. DOMAIN g = D /\ g = [i \in DOMAIN g |-> g[i]]
      BY <1>14
  <2>2. QED
      BY <1>1, <1>13, <2>1, Zenon
<1>16. PICK h : /\ h = [i \in 1..Len(gs) |-> IF i = 1 THEN gs[i] ELSE h[i - 1] \o gs[i]]
                /\ FlattenSeq(gs) = h[n]
  <2>1. Len(gs) = n /\ Len(gs) # 0
      OBVIOUS
  <2>2. PICK h : /\ h = [i \in 1..Len(gs) |-> IF i = 1 THEN gs[i] ELSE h[i - 1] \o gs[i]]
                 /\ FlattenSeq(gs) = h[Len(gs)]
      BY <1>15, <2>1 DEF FlattenSeq
  <2>3. QED
      BY <2>1, <2>2, Zenon
<1>17. \A i \in D : h[i] = IF i = 1 THEN gs[i] ELSE h[i - 1] \o gs[i]
    BY <1>1, <1>16, Zenon
<1>18. h \in [D -> V]
  <2>1. PICK T : T = {k \in Nat : k + 1 \in D => h[k + 1] \in V}
      OBVIOUS
  <2>2. 0 \in T
    <3>1. 0 + 1 = 1 /\ 1 \in D
        BY <1>1
    <3>2. h[1] \in V
        BY <1>2, <1>17, <3>1, Zenon
    <3>3. QED
        BY <2>1, <3>1, <3>2
  <2>3. ASSUME NEW k \in T PROVE k + 1 \in T
    <3>1. k \in Nat /\ (k + 1 \in D => h[k + 1] \in V)
        BY <2>1
    <3>2. ASSUME (k + 1) + 1 \in D PROVE h[(k + 1) + 1] \in V
      <4>1. k + 1 \in D /\ (k + 1) + 1 # 1 /\ ((k + 1) + 1) - 1 = k + 1
          BY <1>1, <3>1, <3>2
      <4>2. h[(k + 1) + 1] = h[k + 1] \o gs[(k + 1) + 1]
          BY <1>17, <3>2, <4>1, Zenon
      <4>3. QED
          BY <1>2, <1>4, <3>1, <3>2, <4>1, <4>2, Zenon
    <3>3. QED
        BY <2>1, <3>1, <3>2
  <2>4. T = Nat
    <3>1. T \in SUBSET Nat
        BY <2>1
    <3>2. QED
        BY <2>2, <2>3, <3>1, NatInduct, Zenon
  <2>5. ASSUME NEW i \in D PROVE h[i] \in V
    <3>1. i - 1 \in T /\ (i - 1) + 1 = i
        BY <1>1, <2>4
    <3>2. QED
        BY <2>1, <3>1
  <2>6. h = [i \in D |-> h[i]]
      BY <1>1, <1>16
  <2>7. QED
      BY <2>5, <2>6
<1>19. QED
    BY <1>1, <1>16, <1>17, <1>18, Zenon DEF Flattens

\* The empty sequence is the one of length zero.
LEMMA EmptySeq ==
    ASSUME NEW S, NEW s \in Seq(S), Len(s) = 0
    PROVE  s = <<>>
    OBVIOUS

\* FlattenSeq numbers its groups from the first to the last one's end.
LEMMA FlattenNumbered ==
    ASSUME NEW S, NEW gs \in Seq(Seq(S)), NEW from \in Nat,
           NEW b \in [1..(Len(gs) + 1) -> Nat], b[1] = from,
           \A i \in 1..Len(gs) :
               /\ b[i + 1] = b[i] + Len(gs[i])
               /\ \A j \in 1..Len(gs[i]) : gs[i][j].n = b[i] + j
    PROVE  /\ FlattenSeq(gs) \in Seq(S)
           /\ Numbered(FlattenSeq(gs), from, b[Len(gs) + 1])
<1>1. PICK n \in Nat : n = Len(gs)
    OBVIOUS
<1>2. CASE n = 0
  <2>1. gs = <<>> /\ FlattenSeq(gs) = <<>> /\ b[Len(gs) + 1] = from
    <3>1. gs = <<>> /\ Len(gs) = 0
        BY <1>1, <1>2, EmptySeq, Zenon
    <3>2. FlattenSeq(gs) = gs
        BY <3>1, Zenon DEF FlattenSeq
    <3>3. b[Len(gs) + 1] = from
        BY <3>1
    <3>4. QED
        BY <3>1, <3>2, <3>3, Zenon
  <2>2. PICK x : x = <<>>
      OBVIOUS
  <2>3. x \in Seq(S) /\ Len(x) = from - from
      BY <2>2
  <2>4. Numbered(x, from, from)
      BY <2>3 DEF Numbered
  <2>5. QED
      BY <2>1, <2>2, <2>3, <2>4, Zenon
<1>3. CASE n > 0
  <2>a. PICK g : Flattens(g, S, gs, n)
      BY <1>1, <1>3, FlattenRecursion, Zenon
  <2>1. /\ g \in [1..n -> Seq(S)]
        /\ \A i \in 1..n : g[i] = IF i = 1 THEN gs[i] ELSE g[i - 1] \o gs[i]
        /\ FlattenSeq(gs) = g[n]
      BY <2>a, Zenon DEF Flattens
  <2>2. ASSUME NEW i \in 1..n
        PROVE  /\ gs[i] \in Seq(S) /\ b[i] \in Nat /\ b[i + 1] \in Nat
               /\ b[i + 1] = b[i] + Len(gs[i])
               /\ \A j \in 1..Len(gs[i]) : gs[i][j].n = b[i] + j
      BY <1>1
  <2>3. PICK T : T = {k \in Nat : k + 1 \in 1..n => Numbered(g[k + 1], from, b[(k + 1) + 1])}
      OBVIOUS
  <2>4. 0 \in T
    <3>1. 1 \in 1..n /\ 0 + 1 = 1
        BY <1>3
    <3>2. g[1] = gs[1]
        BY <2>1, <3>1, Zenon
    <3>3. Numbered(gs[1], from, b[1 + 1])
        BY <2>2, <3>1 DEF Numbered
    <3>4. QED
        BY <2>3, <3>1, <3>2, <3>3
  <2>5. ASSUME NEW k \in T PROVE k + 1 \in T
    <3>1. k \in Nat /\ (k + 1 \in 1..n => Numbered(g[k + 1], from, b[(k + 1) + 1]))
        BY <2>3
    <3>2. PICK i : i = k + 1
        OBVIOUS
    <3>3. ASSUME i + 1 \in 1..n PROVE Numbered(g[i + 1], from, b[(i + 1) + 1])
      <4>1. i \in 1..n /\ i + 1 # 1 /\ (i + 1) - 1 = i
          BY <3>1, <3>2, <3>3
      <4>2. g[i + 1] = g[i] \o gs[i + 1]
          BY <2>1, <3>3, <4>1, Zenon
      <4>3. Numbered(g[i], from, b[i + 1])
          BY <3>1, <3>2, <4>1, Zenon
      <4>4. PICK x \in Seq(S), y \in Seq(S) : x = g[i] /\ y = gs[i + 1]
          BY <2>1, <2>2, <3>3, <4>1
      <4>5. PICK l \in Nat, m \in Nat, c \in Nat : l = Len(x) /\ m = Len(y) /\ c = b[i + 1]
          BY <2>2, <3>3
      <4>6. l = c - from /\ \A j \in 1..l : x[j].n = from + j
          BY <4>3, <4>4, <4>5 DEF Numbered
      <4>7. b[(i + 1) + 1] = c + m /\ \A j \in 1..m : y[j].n = c + j
          BY <2>2, <3>3, <4>4, <4>5
      <4>8. PICK w : w = x \o y
          OBVIOUS
      <4>9. /\ Len(w) = l + m
            /\ \A j \in 1..l : w[j] = x[j]
            /\ \A j \in 1..m : w[l + j] = y[j]
          BY <4>5, <4>8
      <4>10. l + m = (c + m) - from
          BY <4>6
      <4>11. ASSUME NEW j \in 1..(l + m) PROVE w[j].n = from + j
        <5>1. CASE j <= l
          <6>1. j \in 1..l
              BY <5>1
          <6>2. QED
              BY <4>6, <4>9, <6>1, Zenon
        <5>2. CASE j > l
          <6>1. PICK u \in 1..m : j = l + u
            <7>1. j - l \in 1..m /\ j = l + (j - l)
                BY <5>2
            <7>2. QED
                BY <7>1
          <6>2. w[j] = y[u] /\ y[u].n = c + u
              BY <4>7, <4>9, <6>1, Zenon
          <6>3. c + u = from + j
              BY <4>6, <6>1
          <6>4. QED
              BY <6>2, <6>3, Zenon
        <5>3. QED
            BY <5>1, <5>2
      <4>12. Numbered(w, from, c + m)
          BY <4>9, <4>10, <4>11, Zenon DEF Numbered
      <4>13. QED
          BY <4>2, <4>4, <4>7, <4>8, <4>12, Zenon
    <3>4. k + 1 \in Nat
        BY <3>1
    <3>5. QED
        BY <2>3, <3>2, <3>3, <3>4, Zenon
  <2>6. T = Nat
    <3>1. T \in SUBSET Nat
        BY <2>3
    <3>2. QED
        BY <2>4, <2>5, <3>1, NatInduct, Zenon
  <2>7. n - 1 \in T /\ (n - 1) + 1 = n /\ n \in 1..n
      BY <1>3, <2>6
  <2>8. Numbered(g[n], from, b[n + 1])
    <3>1. PICK k \in T : k + 1 = n
        BY <2>7, Zenon
    <3>2. QED
        BY <2>3, <2>7, <3>1, Zenon
  <2>9. g[n] \in Seq(S)
      BY <2>1, <2>7
  <2>10. QED
      BY <1>1, <2>1, <2>8, <2>9, Zenon
<1>4. QED
    BY <1>1, <1>2, <1>3

-----------------------------------------------------------------------------
(* KeystrokesInOrder.                                                       *)

\* The keystrokes in hand, in the groups that are dispatched together.
Groups == IF Idle THEN <<PendingStrokes>> ELSE Append(call.replays, call.input)

\* While a dispatch goes on, nothing is pending.
CallShape ==
    /\ timer_tasks # {} => typed > 0
    /\ ~Idle => /\ pending_input = None /\ typed > 0
                /\ call.kind = "timer" => call.replays = <<>>
                /\ call.kind = "flush" => call.input = <<>>

\* The inductive invariant.
OrderInv == TypeOK /\ CallShape /\ InOrder(Groups, accounted, typed)

\* Nothing in hand is in order when everything is accounted for.
LEMMA NothingInOrder ==
    ASSUME NEW n \in Nat
    PROVE  InOrder(<<<<>>>>, n, n)
<1>1. PICK x : x = <<>>
    OBVIOUS
<1>2. x \in Seq({}) /\ Len(x) = n - n /\ \A j \in 1..Len(x) : x[j].n = n + j
    BY <1>1
<1>3. Numbered(x, n, n) /\ n <= n
    BY <1>2 DEF Numbered
<1>4. QED
    BY <1>1, <1>2, <1>3, OneGroup, Zenon

LEMMA OrderInit ==
    ASSUME Init
    PROVE  OrderInv
<1>1. /\ keymap = <<>> /\ focus \in Focuses /\ pending_input = None /\ timer_tasks = {}
      /\ call = None /\ typed = 0 /\ accounted = 0 /\ seen = <<>> /\ moved = FALSE
    BY DEF Init
<1>2. MaxKeys \in Nat /\ MaxBindings \in Nat
    BY KeyAssumption
<1>3. TypeOK
  <2>1. keymap \in Seq(Bindings) /\ Len(keymap) <= MaxBindings /\ seen \in Seq(Strokes)
      BY <1>1, <1>2
  <2>2. typed \in 0..MaxKeys /\ accounted \in 0..typed
      BY <1>1, <1>2
  <2>3. QED
      BY <1>1, <2>1, <2>2, Zenon DEF TypeOK
<1>4. CallShape
    BY <1>1 DEF CallShape, Idle
<1>5. Groups = <<<<>>>>
    BY <1>1, Zenon DEF Groups, Idle, PendingStrokes
<1>6. InOrder(Groups, accounted, typed)
  <2>1. 0 \in Nat
      OBVIOUS
  <2>2. QED
      BY <1>1, <1>5, <2>1, NothingInOrder, Zenon
<1>7. QED
    BY <1>3, <1>4, <1>6, Zenon DEF OrderInv

\* What TypeOK says of the pending input and of a call.
LEMMA Fields ==
    ASSUME TypeOK
    PROVE  /\ typed \in Nat /\ accounted \in Nat /\ accounted <= typed
           /\ MaxKeys \in Nat /\ typed <= MaxKeys
           /\ pending_input # None =>
                 pending_input \in Pending /\ pending_input.keystrokes \in Seq(Strokes)
           /\ ~Idle => /\ call \in Calls
                       /\ call.replays \in Seq(Seq(Strokes)) /\ call.input \in Seq(Strokes)
<1>1. typed \in 0..MaxKeys /\ accounted \in 0..typed /\ MaxKeys \in Nat
    BY KeyAssumption DEF TypeOK
<1>2. typed \in Nat /\ accounted \in Nat /\ accounted <= typed /\ typed <= MaxKeys
    BY <1>1
<1>3. pending_input # None => pending_input \in Pending
    BY Zenon DEF TypeOK
<1>4. pending_input \in Pending => pending_input.keystrokes \in Seq(Strokes)
    BY DEF Pending
<1>5. ~Idle => call \in Calls
    BY Zenon DEF TypeOK, Idle
<1>6. call \in Calls => call.replays \in Seq(Seq(Strokes)) /\ call.input \in Seq(Strokes)
    BY DEF Calls
<1>7. QED
    BY <1>1, <1>2, <1>3, <1>4, <1>5, <1>6, Zenon

\* What is pending is numbered.
LEMMA PendingNumbered ==
    ASSUME OrderInv, Idle
    PROVE  PendingStrokes \in Seq(Strokes) /\ Numbered(PendingStrokes, accounted, typed)
<1>1. /\ typed \in Nat /\ accounted \in Nat /\ accounted <= typed
      /\ pending_input # None => pending_input.keystrokes \in Seq(Strokes)
    BY Fields, Zenon DEF OrderInv
<1>2. PendingStrokes \in Seq(Strokes)
  <2>1. <<>> \in Seq(Strokes)
      OBVIOUS
  <2>2. QED
      BY <1>1, <2>1, Zenon DEF PendingStrokes
<1>3. InOrder(<<PendingStrokes>>, accounted, typed)
    BY Zenon DEF OrderInv, Groups
<1>4. QED
    BY <1>1, <1>2, <1>3, OneGroup, Zenon

\* One more keystroke.
LEMMA NextNumber ==
    ASSUME NEW from \in Nat, NEW to \in Nat, from <= to, NEW x \in Seq(Strokes),
           Numbered(x, from, to), NEW s \in Strokes, s.n = to + 1
    PROVE  Append(x, s) \in Seq(Strokes) /\ Numbered(Append(x, s), from, to + 1)
<1>1. PICK l \in Nat : l = Len(x)
    OBVIOUS
<1>2. l = to - from /\ \A j \in 1..l : x[j].n = from + j
    BY <1>1 DEF Numbered
<1>3. PICK y : y = Append(x, s)
    OBVIOUS
<1>4. /\ y \in Seq(Strokes) /\ Len(y) = l + 1 /\ y[l + 1] = s
      /\ \A j \in 1..l : y[j] = x[j]
    BY <1>1, <1>3
<1>5. ASSUME NEW j \in 1..(l + 1) PROVE y[j].n = from + j
  <2>1. CASE j = l + 1
    <3>1. to + 1 = from + j
        BY <1>2, <2>1
    <3>2. QED
        BY <1>4, <2>1, <3>1, Zenon
  <2>2. CASE j # l + 1
    <3>1. j \in 1..l
        BY <2>2
    <3>2. QED
        BY <1>2, <1>4, <3>1, Zenon
  <2>3. QED
      BY <2>1, <2>2
<1>6. l + 1 = (to + 1) - from
    BY <1>2
<1>7. Numbered(y, from, to + 1)
    BY <1>4, <1>5, <1>6, Zenon DEF Numbered
<1>8. QED
    BY <1>3, <1>4, <1>7, Zenon

\* currently_pending is a pending input; its keystrokes are numbered after the
\* ones that are accounted for once the rest is forgotten.
LEMMA CurrentlyPending ==
    ASSUME OrderInv, Idle, NEW cleared, NEW f, NEW cp, cp = currently_pending(cleared, f),
           NEW from, from = IF cp = NoPending THEN typed ELSE accounted
    PROVE  /\ cp \in Pending /\ cp.keystrokes \in Seq(Strokes)
           /\ from \in Nat /\ from <= typed
           /\ Numbered(cp.keystrokes, from, typed)
           /\ cp = NoPending \/ (pending_input # None /\ cp = pending_input)
<1>1. /\ typed \in Nat /\ accounted \in Nat /\ accounted <= typed /\ MaxKeys \in Nat
      /\ pending_input # None =>
            pending_input \in Pending /\ pending_input.keystrokes \in Seq(Strokes)
    BY Fields, Zenon DEF OrderInv
<1>2. from \in Nat /\ from <= typed
    BY <1>1
<1>3. NoPending \in Pending
  <2>1. <<>> \in Seq(Strokes) /\ NoTimer \in 0..MaxKeys /\ None \in Focuses \union {None}
      BY <1>1 DEF NoTimer
  <2>2. FALSE \in BOOLEAN
      OBVIOUS
  <2>3. QED
      BY <2>1, <2>2, Zenon DEF NoPending, Pending
<1>4. cp = NoPending \/ (pending_input # None /\ cp = pending_input)
    BY Zenon DEF currently_pending
<1>5. CASE cp = NoPending
  <2>1. PICK x : x = <<>>
      OBVIOUS
  <2>2. x \in Seq(Strokes) /\ Len(x) = typed - typed
      BY <1>1, <2>1
  <2>3. \A j \in 1..Len(x) : x[j].n = typed + j
      BY <1>1, <2>2
  <2>4. Numbered(x, typed, typed)
      BY <2>2, <2>3, Zenon DEF Numbered
  <2>5. cp.keystrokes = x
      BY <1>5, <2>1 DEF NoPending
  <2>6. QED
      BY <1>2, <1>3, <1>4, <1>5, <2>2, <2>4, <2>5, Zenon
<1>6. CASE cp # NoPending
  <2>1. pending_input # None /\ cp = pending_input
      BY <1>4, <1>6, Zenon
  <2>2. Numbered(PendingStrokes, accounted, typed)
      BY PendingNumbered, Zenon
  <2>3. PendingStrokes = cp.keystrokes
      BY <2>1, Zenon DEF PendingStrokes
  <2>4. QED
      BY <1>1, <1>2, <1>4, <1>6, <2>1, <2>2, <2>3, Zenon
<1>7. QED
    BY <1>5, <1>6

\* What dispatch_key_event leaves to do after its first part.
LEMMA OrderDispatchKey ==
    ASSUME OrderInv, NEW k \in Keys, NEW cleared \in BOOLEAN,
           NEW f \in Focuses \union {None}, DispatchKeyEvent(k, cleared, f)
    PROVE  OrderInv'
<1>1. TypeOK /\ CallShape
    BY DEF OrderInv
<1>2. /\ typed \in Nat /\ accounted \in Nat /\ accounted <= typed
      /\ MaxKeys \in Nat /\ typed <= MaxKeys
    BY <1>1, Fields, Zenon
<1>3. /\ Idle /\ typed < MaxKeys /\ typed' = typed + 1 /\ pending_input' = None
      /\ keymap' = keymap /\ focus' = f /\ seen' = seen /\ moved' = FALSE
    BY DEF DispatchKeyEvent
<1>4. PICK cp, st, result, from :
         /\ cp = currently_pending(cleared, f)
         /\ st = [key |-> k, n |-> typed + 1, moved |-> moved \/ cleared \/ f # focus]
         /\ result = dispatch_key(cp.keystrokes, st, focus)
         /\ from = IF cp = NoPending THEN typed ELSE accounted
    OBVIOUS
<1>5. /\ call' = [kind |-> "dispatch", replays |-> result.to_replay,
                  input |-> result.input, stays |-> result.pending,
                  has_binding |-> result.pending_has_binding, pending |-> cp]
      /\ accounted' = from
      /\ timer_tasks' = (IF cp = NoPending /\ pending_input # None
                         THEN DropTimer(pending_input.timer) ELSE timer_tasks)
    BY <1>4, Zenon DEF DispatchKeyEvent
<1>6. /\ cp \in Pending /\ cp.keystrokes \in Seq(Strokes)
      /\ from \in Nat /\ from <= typed /\ Numbered(cp.keystrokes, from, typed)
    BY <1>3, <1>4, CurrentlyPending, Zenon
<1>7. st \in Strokes /\ st.n = typed + 1
  <2>1. typed + 1 \in 1..MaxKeys
      BY <1>2, <1>3
  <2>2. (moved \/ cleared \/ f # focus) \in BOOLEAN
      BY Zenon
  <2>3. st \in Strokes
      BY <1>4, <2>1, <2>2, Zenon DEF Strokes
  <2>4. QED
      BY <1>4, <2>3
<1>8. PICK x : x = Append(cp.keystrokes, st)
    OBVIOUS
<1>9. x \in Seq(Strokes) /\ Numbered(x, from, typed + 1)
    BY <1>2, <1>6, <1>7, <1>8, NextNumber, Zenon
<1>10. GoodResult(Strokes, result, x)
    BY <1>4, <1>6, <1>7, <1>8, DispatchPieces, Zenon
<1>11. result \in Results(Strokes)
       /\ Pieces(Strokes, Append(result.to_replay, result.input), x)
    BY <1>10, Zenon DEF GoodResult
<1>12. /\ result.to_replay \in Seq(Seq(Strokes)) /\ result.input \in Seq(Strokes)
       /\ result.pending \in BOOLEAN /\ result.pending_has_binding \in BOOLEAN
  <2>1. result \in Results(Strokes)
      BY <1>11, Zenon
  <2>2. result.to_replay \in Seq(Seq(Strokes)) /\ result.input \in Seq(Strokes)
      BY <2>1 DEF Results
  <2>3. result.pending \in BOOLEAN /\ result.pending_has_binding \in BOOLEAN
      BY <2>1 DEF Results
  <2>4. QED
      BY <2>2, <2>3
<1>13. call' \in Calls
  <2>1. "dispatch" \in {"dispatch", "timer", "flush"}
      OBVIOUS
  <2>2. QED
      BY <1>5, <1>6, <1>12, <2>1, Zenon DEF Calls
<1>14. call' # None
    BY <1>13, NoneAssumption, Zenon
<1>15. /\ call'.replays = result.to_replay /\ call'.input = result.input
       /\ call'.kind = "dispatch"
    BY <1>5
<1>16. typed + 1 \in Nat /\ typed + 1 > 0 /\ typed + 1 \in 0..MaxKeys
       /\ from \in 0..(typed + 1) /\ from <= typed + 1
    BY <1>2, <1>3, <1>6
<1>17. TypeOK'
  <2>1. keymap' \in Seq(Bindings) /\ Len(keymap') <= MaxBindings
      BY <1>1, <1>3 DEF TypeOK
  <2>2. timer_tasks' \subseteq [id: 1..MaxKeys, keystrokes: Seq(Strokes)]
    <3>1. timer_tasks' \subseteq timer_tasks
        BY <1>5, Zenon DEF DropTimer
    <3>2. QED
        BY <1>1, <3>1, Zenon DEF TypeOK
  <2>3. moved' \in BOOLEAN
      BY <1>3, Zenon
  <2>4. focus' \in Focuses \union {None} /\ seen' \in Seq(Strokes)
      BY <1>1, <1>3, Zenon DEF TypeOK
  <2>5. typed' \in 0..MaxKeys /\ accounted' \in 0..typed'
      BY <1>3, <1>5, <1>16, Zenon
  <2>6. QED
      BY <1>3, <1>13, <2>1, <2>2, <2>3, <2>4, <2>5, Zenon DEF TypeOK
<1>18. CallShape'
  <2>1. "dispatch" # "timer" /\ "dispatch" # "flush"
      OBVIOUS
  <2>2. QED
      BY <1>3, <1>15, <1>16, <2>1, Zenon DEF CallShape
<1>19. Groups' = Append(result.to_replay, result.input)
    BY <1>14, <1>15, Zenon DEF Groups, Idle
<1>20. InOrder(Groups', accounted', typed')
  <2>1. InOrder(Append(result.to_replay, result.input), from, typed + 1)
      BY <1>6, <1>9, <1>11, <1>16, PiecesInOrder, Zenon
  <2>2. QED
      BY <1>3, <1>5, <1>19, <2>1, Zenon
<1>21. QED
    BY <1>17, <1>18, <1>20, Zenon DEF OrderInv

\* Replaying one group leaves the rest in order.
LEMMA OrderReplay ==
    ASSUME OrderInv, Replay
    PROVE  OrderInv'
<1>1. TypeOK /\ CallShape /\ InOrder(Groups, accounted, typed)
    BY DEF OrderInv
<1>2. /\ ~Idle /\ call.replays # <<>>
      /\ call' = [call EXCEPT !.replays = Tail(@)]
      /\ accounted' = accounted + Len(Head(call.replays))
      /\ focus' \in Focuses \union {None} /\ moved' = moved
      /\ keymap' = keymap /\ pending_input' = pending_input
      /\ timer_tasks' = timer_tasks /\ typed' = typed /\ seen' = seen
    BY DEF Replay
<1>3. /\ typed \in Nat /\ accounted \in Nat /\ call \in Calls
      /\ call.replays \in Seq(Seq(Strokes)) /\ call.input \in Seq(Strokes)
    BY <1>1, <1>2, Fields, Zenon
<1>4. PICK U, rs, i : U = Seq(Strokes) /\ rs = call.replays /\ i = call.input
    OBVIOUS
<1>5. rs \in Seq(U) /\ i \in U /\ rs # <<>>
    BY <1>2, <1>3, <1>4, Zenon
<1>6. PICK gs : gs = Append(rs, i)
    OBVIOUS
<1>7. /\ gs \in Seq(U) /\ gs # <<>> /\ Head(gs) = Head(rs)
      /\ Tail(gs) = Append(Tail(rs), i) /\ Tail(rs) \in Seq(U)
  <2>1. gs \in Seq(U) /\ gs # <<>> /\ Tail(rs) \in Seq(U)
      BY <1>5, <1>6
  <2>2. Head(gs) = Head(rs)
      BY <1>5, <1>6
  <2>3. Tail(gs) = Append(Tail(rs), i)
      BY <1>5, <1>6
  <2>4. QED
      BY <2>1, <2>2, <2>3
<1>8. Groups = gs
    BY <1>2, <1>4, <1>6, Zenon DEF Groups
<1>9. PICK from : from = accounted + Len(Head(gs))
    OBVIOUS
<1>10. from \in Nat /\ from <= typed /\ InOrder(Tail(gs), from, typed)
  <2>1. gs \in Seq(Seq(Strokes))
      BY <1>4, <1>7, Zenon
  <2>2. QED
      BY <1>1, <1>3, <1>7, <1>8, <1>9, <2>1, TailInOrder, Zenon
<1>11. call' \in Calls
  <2>1. PICK t : t = Tail(rs) /\ t \in Seq(Seq(Strokes))
      BY <1>4, <1>7, Zenon
  <2>2. call' = [call EXCEPT !.replays = t]
      BY <1>2, <1>4, <2>1, Zenon
  <2>3. QED
      BY <1>3, <2>1, <2>2 DEF Calls
<1>12. call'.replays = Tail(rs) /\ call'.input = i /\ call'.kind = call.kind
    BY <1>2, <1>3, <1>4 DEF Calls
<1>13. call' # None
    BY <1>11, NoneAssumption, Zenon
<1>14. accounted' = from
    BY <1>2, <1>4, <1>7, <1>9, Zenon
<1>15. from \in 0..typed
    BY <1>3, <1>10
<1>16. TypeOK'
  <2>1. keymap' \in Seq(Bindings) /\ Len(keymap') <= MaxBindings
      BY <1>1, <1>2 DEF TypeOK
  <2>2. moved' \in BOOLEAN
      BY <1>1, <1>2, Zenon DEF TypeOK
  <2>3. QED
      BY <1>1, <1>2, <1>11, <1>14, <1>15, <2>1, <2>2, Zenon DEF TypeOK
<1>17. CallShape'
  <2>1. call.kind # "timer"
      BY <1>1, <1>2, Zenon DEF CallShape
  <2>2. QED
      BY <1>1, <1>2, <1>4, <1>12, <2>1, Zenon DEF CallShape
<1>18. Groups' = Tail(gs)
    BY <1>7, <1>12, <1>13, Zenon DEF Groups, Idle
<1>19. QED
    BY <1>2, <1>10, <1>14, <1>16, <1>17, <1>18, Zenon DEF OrderInv

\* A dispatch whose replays are done holds one group.
LEMMA ReplaysDone ==
    ASSUME OrderInv, ~Idle, call.replays = <<>>
    PROVE  Numbered(call.input, accounted, typed)
<1>1. /\ typed \in Nat /\ accounted \in Nat /\ accounted <= typed
      /\ call.input \in Seq(Strokes)
    BY Fields, Zenon DEF OrderInv
<1>2. Groups = Append(<<>>, call.input)
    BY Zenon DEF Groups
<1>3. PICK i : i = call.input
    OBVIOUS
<1>4. Append(<<>>, i) = <<i>>
    OBVIOUS
<1>5. InOrder(<<i>>, accounted, typed)
    BY <1>2, <1>3, <1>4, Zenon DEF OrderInv
<1>6. QED
    BY <1>1, <1>3, <1>5, OneGroup, Zenon

\* ... and is the other half of OneGroup for what becomes pending.
LEMMA PendingInOrder ==
    ASSUME NEW x \in Seq(Strokes), NEW from \in Nat, NEW to \in Nat, from <= to,
           Numbered(x, from, to)
    PROVE  InOrder(<<x>>, from, to)
    BY OneGroup, Zenon

\* What stays pending is a pending input.
LEMMA StaysPending ==
    ASSUME OrderInv, NEW text \in BOOLEAN, StayPending(text)
    PROVE  pending_input' \in Pending
<1>1. TypeOK /\ CallShape
    BY DEF OrderInv
<1>2. PICK needs : needs = needs_timeout(text)
    OBVIOUS
<1>3. /\ ~Idle /\ call.replays = <<>>
      /\ pending_input' =
             [keystrokes |-> call.input, focus |-> focus,
              timer |-> IF needs THEN typed ELSE NoTimer,
              needs_timeout |-> needs, has_binding |-> call.has_binding]
      /\ timer_tasks' = TimersRestarted(needs)
      /\ seen' = call.input /\ call' = None
      /\ keymap' = keymap /\ focus' = focus /\ typed' = typed
      /\ accounted' = accounted /\ moved' = moved
    BY <1>2, Zenon DEF StayPending
<1>4. /\ typed \in Nat /\ accounted \in Nat /\ accounted <= typed
      /\ MaxKeys \in Nat /\ typed <= MaxKeys
      /\ call \in Calls /\ call.input \in Seq(Strokes)
    BY <1>1, <1>3, Fields, Zenon
<1>5. needs \in BOOLEAN
  <2>1. call.has_binding \in BOOLEAN /\ call.pending \in Pending
      BY <1>4 DEF Calls
  <2>2. call.pending.needs_timeout \in BOOLEAN
      BY <2>1 DEF Pending
  <2>3. QED
      BY <1>2, Zenon DEF needs_timeout
<1>6. typed > 0
    BY <1>1, <1>3, Zenon DEF CallShape
<1>7. typed \in 1..MaxKeys /\ typed \in 0..MaxKeys /\ NoTimer \in 0..MaxKeys
    BY <1>4, <1>6 DEF NoTimer
<1>8. QED
  <2>1. PICK tm : tm = IF needs THEN typed ELSE NoTimer
      OBVIOUS
  <2>2. tm \in 0..MaxKeys
      BY <1>7, <2>1, Zenon
  <2>3. call.has_binding \in BOOLEAN
      BY <1>4 DEF Calls
  <2>4. focus \in Focuses \union {None}
      BY <1>1, Zenon DEF TypeOK
  <2>5. QED
      BY <1>3, <1>4, <1>5, <2>1, <2>2, <2>3, <2>4, Zenon DEF Pending

\* Staying pending.
LEMMA OrderStayPending ==
    ASSUME OrderInv, NEW text \in BOOLEAN, StayPending(text)
    PROVE  OrderInv'
<1>1. TypeOK /\ CallShape
    BY DEF OrderInv
<1>2. PICK needs : needs = needs_timeout(text)
    OBVIOUS
<1>3. /\ ~Idle /\ call.replays = <<>>
      /\ pending_input' =
             [keystrokes |-> call.input, focus |-> focus,
              timer |-> IF needs THEN typed ELSE NoTimer,
              needs_timeout |-> needs, has_binding |-> call.has_binding]
      /\ timer_tasks' = TimersRestarted(needs)
      /\ seen' = call.input /\ call' = None
      /\ keymap' = keymap /\ focus' = focus /\ typed' = typed
      /\ accounted' = accounted /\ moved' = moved
    BY <1>2, Zenon DEF StayPending
<1>4. /\ typed \in Nat /\ accounted \in Nat /\ accounted <= typed
      /\ MaxKeys \in Nat /\ typed <= MaxKeys
      /\ call \in Calls /\ call.input \in Seq(Strokes)
    BY <1>1, <1>3, Fields, Zenon
<1>6. typed > 0
    BY <1>1, <1>3, Zenon DEF CallShape
<1>7. typed \in 1..MaxKeys /\ typed \in 0..MaxKeys /\ NoTimer \in 0..MaxKeys
    BY <1>4, <1>6 DEF NoTimer
<1>8. pending_input' \in Pending
    BY StaysPending, Zenon
<1>9. pending_input'.keystrokes = call.input
    BY <1>3
<1>10. timer_tasks' \subseteq [id: 1..MaxKeys, keystrokes: Seq(Strokes)]
  <2>1. [id |-> typed, keystrokes |-> call.input] \in [id: 1..MaxKeys, keystrokes: Seq(Strokes)]
      BY <1>4, <1>7
  <2>2. timer_tasks' \subseteq timer_tasks \union {[id |-> typed, keystrokes |-> call.input]}
      BY <1>3, Zenon DEF TimersRestarted, DropTimer
  <2>3. QED
      BY <1>1, <2>1, <2>2, Zenon DEF TypeOK
<1>11. TypeOK'
  <2>1. keymap' \in Seq(Bindings) /\ Len(keymap') <= MaxBindings
      BY <1>1, <1>3 DEF TypeOK
  <2>2. focus' \in Focuses \union {None} /\ moved' \in BOOLEAN
        /\ typed' \in 0..MaxKeys /\ accounted' \in 0..typed'
      BY <1>1, <1>3, Zenon DEF TypeOK
  <2>3. QED
      BY <1>3, <1>4, <1>8, <1>10, <2>1, <2>2, Zenon DEF TypeOK
<1>12. CallShape'
    BY <1>3, <1>6, Zenon DEF CallShape, Idle
<1>13. Groups' = <<call.input>>
  <2>1. pending_input' # None
      BY <1>8, NoneAssumption, Zenon
  <2>2. QED
      BY <1>3, <1>9, <2>1, Zenon DEF Groups, Idle, PendingStrokes
<1>14. InOrder(Groups', accounted', typed')
  <2>1. Numbered(call.input, accounted, typed)
      BY <1>3, ReplaysDone, Zenon
  <2>2. InOrder(<<call.input>>, accounted, typed)
      BY <1>4, <2>1, PendingInOrder, Zenon
  <2>3. QED
      BY <1>3, <1>13, <2>2, Zenon
<1>15. QED
    BY <1>11, <1>12, <1>14, Zenon DEF OrderInv

\* Steps at whose end nothing is in hand.
LEMMA OrderNothingLeft ==
    ASSUME OrderInv, call' = None, pending_input' = None, accounted' = typed,
           typed' = typed, timer_tasks' \subseteq timer_tasks,
           keymap' = keymap, moved' \in BOOLEAN,
           focus' \in Focuses \union {None}, seen' \in Seq(Strokes)
    PROVE  OrderInv'
<1>1. TypeOK /\ CallShape
    BY DEF OrderInv
<1>2. typed \in Nat /\ typed \in 0..typed
  <2>1. typed \in Nat
      BY <1>1, Fields, Zenon
  <2>2. QED
      BY <2>1
<1>3. TypeOK'
  <2>1. keymap' \in Seq(Bindings) /\ Len(keymap') <= MaxBindings
      BY <1>1 DEF TypeOK
  <2>2. moved' \in BOOLEAN /\ typed' \in 0..MaxKeys
      BY <1>1, Zenon DEF TypeOK
  <2>3. timer_tasks' \subseteq [id: 1..MaxKeys, keystrokes: Seq(Strokes)]
      BY <1>1, Zenon DEF TypeOK
  <2>4. QED
      BY <1>2, <2>1, <2>2, <2>3, Zenon DEF TypeOK
<1>4. CallShape'
  <2>1. timer_tasks' # {} => timer_tasks # {}
      BY Zenon
  <2>2. QED
      BY <1>1, <2>1, Zenon DEF CallShape, Idle
<1>5. Groups' = <<<<>>>>
    BY Zenon DEF Groups, Idle, PendingStrokes
<1>6. InOrder(<<<<>>>>, typed, typed)
    BY <1>2, NothingInOrder, Zenon
<1>7. QED
    BY <1>3, <1>4, <1>5, <1>6, Zenon DEF OrderInv

\* Dispatching the rest.
LEMMA OrderDispatchNow ==
    ASSUME OrderInv, DispatchNow
    PROVE  OrderInv'
<1>1. TypeOK /\ CallShape
    BY DEF OrderInv
<1>2. /\ ~Idle /\ call.replays = <<>>
      /\ accounted' = accounted + Len(call.input)
      /\ timer_tasks' = DropTimer(call.pending.timer)
      /\ focus' \in Focuses \union {None} /\ seen' = <<>> /\ call' = None
      /\ keymap' = keymap /\ pending_input' = pending_input
      /\ typed' = typed /\ moved' = moved
    BY DEF DispatchNow
<1>3. pending_input' = None
    BY <1>1, <1>2, Zenon DEF CallShape
<1>4. accounted' = typed
  <2>1. Len(call.input) = typed - accounted
      BY <1>2, ReplaysDone, Zenon DEF Numbered
  <2>2. typed \in Nat /\ accounted \in Nat
      BY <1>1, Fields, Zenon
  <2>3. QED
      BY <1>2, <2>1, <2>2
<1>5. timer_tasks' \subseteq timer_tasks
    BY <1>2, Zenon DEF DropTimer
<1>6. seen' \in Seq(Strokes)
    BY <1>2
<1>7. moved' \in BOOLEAN
    BY <1>1, <1>2, Zenon DEF TypeOK
<1>8. QED
    BY <1>2, <1>3, <1>4, <1>5, <1>6, <1>7, OrderNothingLeft, Zenon

\* The timer takes the pending input or drops it.
LEMMA OrderTimerElapsed ==
    ASSUME OrderInv, NEW task \in timer_tasks, TimerElapsed(task)
    PROVE  OrderInv'
<1>1. TypeOK /\ CallShape
    BY DEF OrderInv
<1>2. /\ Idle /\ pending_input' = None
      /\ keymap' = keymap /\ focus' = focus /\ typed' = typed /\ seen' = seen
      /\ moved' = moved
    BY DEF TimerElapsed
<1>3. timer_tasks' \subseteq timer_tasks
    BY DEF TimerElapsed
<1>4. /\ focus' \in Focuses \union {None} /\ seen' \in Seq(Strokes) /\ moved' \in BOOLEAN
    BY <1>1, <1>2, Zenon DEF TypeOK
<1>5. CASE ~(pending_input # None /\ pending_input.focus = focus)
  <2>1. accounted' = typed /\ call' = call
      BY <1>5, Zenon DEF TimerElapsed
  <2>2. call' = None
      BY <1>2, <2>1, Zenon DEF Idle
  <2>3. QED
      BY <1>2, <1>3, <1>4, <2>1, <2>2, OrderNothingLeft, Zenon
<1>6. CASE pending_input # None /\ pending_input.focus = focus
  <2>1. /\ call' = [kind |-> "timer", replays |-> <<>>,
                    input |-> pending_input.keystrokes, stays |-> FALSE,
                    has_binding |-> FALSE, pending |-> pending_input]
        /\ accounted' = accounted
      BY <1>6, Zenon DEF TimerElapsed
  <2>2. pending_input \in Pending /\ pending_input.keystrokes \in Seq(Strokes)
      BY <1>1, <1>6, Fields, Zenon
  <2>3. call' \in Calls
    <3>1. "timer" \in {"dispatch", "timer", "flush"} /\ <<>> \in Seq(Seq(Strokes))
        OBVIOUS
    <3>2. FALSE \in BOOLEAN
        OBVIOUS
    <3>3. QED
        BY <2>1, <2>2, <3>1, <3>2, Zenon DEF Calls
  <2>4. call' # None
      BY <2>3, NoneAssumption, Zenon
  <2>5. /\ call'.replays = <<>> /\ call'.kind = "timer"
        /\ call'.input = pending_input.keystrokes
      BY <2>1
  <2>6. TypeOK'
    <3>1. keymap' \in Seq(Bindings) /\ Len(keymap') <= MaxBindings
        BY <1>1, <1>2 DEF TypeOK
    <3>2. moved' \in BOOLEAN /\ typed' \in 0..MaxKeys /\ accounted' \in 0..typed'
        BY <1>1, <1>2, <2>1, Zenon DEF TypeOK
    <3>3. timer_tasks' \subseteq [id: 1..MaxKeys, keystrokes: Seq(Strokes)]
        BY <1>1, <1>3, Zenon DEF TypeOK
    <3>4. QED
        BY <1>2, <1>4, <2>3, <3>1, <3>2, <3>3, Zenon DEF TypeOK
  <2>7. CallShape'
    <3>1. typed > 0
        BY <1>1, Zenon DEF CallShape
    <3>2. "timer" # "flush"
        OBVIOUS
    <3>3. QED
        BY <1>2, <2>5, <3>1, <3>2, Zenon DEF CallShape
  <2>8. Groups' = <<PendingStrokes>>
    <3>1. PICK x : x = pending_input.keystrokes
        OBVIOUS
    <3>2. Append(<<>>, x) = <<x>>
        OBVIOUS
    <3>3. PendingStrokes = x
        BY <1>6, <3>1, Zenon DEF PendingStrokes
    <3>4. QED
        BY <2>4, <2>5, <3>1, <3>2, <3>3, Zenon DEF Groups, Idle
  <2>9. Groups = <<PendingStrokes>>
      BY <1>2, Zenon DEF Groups
  <2>10. QED
      BY <1>2, <2>1, <2>6, <2>7, <2>8, <2>9, Zenon DEF OrderInv
<1>7. QED
    BY <1>5, <1>6

\* flush_dispatch keeps the order.
LEMMA OrderFlush ==
    ASSUME OrderInv, Flush
    PROVE  OrderInv'
<1>1. TypeOK /\ CallShape
    BY DEF OrderInv
<1>2. PICK fs : fs = flush_dispatch(call.input, focus)
    OBVIOUS
<1>3. /\ ~Idle /\ call.kind = "timer"
      /\ call' = [call EXCEPT !.kind = "flush", !.input = <<>>, !.replays = fs]
      /\ seen' = <<>> /\ keymap' = keymap /\ focus' = focus
      /\ pending_input' = pending_input /\ timer_tasks' = timer_tasks
      /\ typed' = typed /\ accounted' = accounted /\ moved' = moved
    BY <1>2, Zenon DEF Flush
<1>4. /\ typed \in Nat /\ accounted \in Nat /\ accounted <= typed
      /\ call \in Calls /\ call.input \in Seq(Strokes)
    BY <1>1, <1>3, Fields, Zenon
<1>5. Pieces(Strokes, fs, call.input)
    BY <1>2, <1>4, FlushPieces, Zenon
<1>6. fs \in Seq(Seq(Strokes))
    BY <1>5, Zenon DEF Pieces
<1>7. Numbered(call.input, accounted, typed)
  <2>1. call.replays = <<>>
      BY <1>1, <1>3, Zenon DEF CallShape
  <2>2. QED
      BY <1>3, <2>1, ReplaysDone, Zenon
<1>8. InOrder(fs, accounted, typed)
    BY <1>4, <1>5, <1>7, PiecesInOrder, Zenon
<1>9. InOrder(Append(fs, <<>>), accounted, typed)
    BY <1>4, <1>6, <1>8, EmptyGroup, Zenon
<1>10. call' \in Calls
  <2>1. PICK a : a = [call EXCEPT !.kind = "flush"]
      OBVIOUS
  <2>2. a \in Calls
      BY <1>4, <2>1 DEF Calls
  <2>3. PICK b : b = [a EXCEPT !.input = <<>>]
      OBVIOUS
  <2>4. b \in Calls
    <3>1. <<>> \in Seq(Strokes)
        OBVIOUS
    <3>2. PICK e : e = <<>> /\ e \in Seq(Strokes)
        BY <3>1, Zenon
    <3>3. b = [a EXCEPT !.input = e]
        BY <2>3, <3>2, Zenon
    <3>4. QED
        BY <2>2, <3>2, <3>3 DEF Calls
  <2>5. [b EXCEPT !.replays = fs] \in Calls
      BY <1>6, <2>4 DEF Calls
  <2>6. call' = [b EXCEPT !.replays = fs]
      BY <1>3, <2>1, <2>3
  <2>7. QED
      BY <2>5, <2>6, Zenon
<1>11. call' # None
    BY <1>10, NoneAssumption, Zenon
<1>12. call'.replays = fs /\ call'.input = <<>> /\ call'.kind = "flush"
    BY <1>3, <1>4 DEF Calls
<1>13. TypeOK'
  <2>1. keymap' \in Seq(Bindings) /\ Len(keymap') <= MaxBindings
      BY <1>1, <1>3 DEF TypeOK
  <2>2. seen' \in Seq(Strokes)
      BY <1>3
  <2>3. QED
      BY <1>1, <1>3, <1>10, <2>1, <2>2, Zenon DEF TypeOK
<1>14. CallShape'
  <2>1. "timer" # "flush"
      OBVIOUS
  <2>2. QED
      BY <1>1, <1>3, <1>12, <2>1, Zenon DEF CallShape
<1>15. Groups' = Append(fs, <<>>)
    BY <1>11, <1>12, Zenon DEF Groups, Idle
<1>16. QED
    BY <1>3, <1>9, <1>13, <1>14, <1>15, Zenon DEF OrderInv

LEMMA OrderFlushDone ==
    ASSUME OrderInv, FlushDone
    PROVE  OrderInv'
<1>1. TypeOK /\ CallShape
    BY DEF OrderInv
<1>2. /\ ~Idle /\ call.kind = "flush" /\ call.replays = <<>> /\ call' = None
      /\ keymap' = keymap /\ focus' = focus /\ pending_input' = pending_input
      /\ timer_tasks' = timer_tasks /\ typed' = typed /\ accounted' = accounted
      /\ seen' = seen /\ moved' = moved
    BY DEF FlushDone
<1>3. pending_input' = None /\ call.input = <<>>
    BY <1>1, <1>2, Zenon DEF CallShape
<1>4. accounted' = typed
  <2>1. Len(call.input) = typed - accounted
      BY <1>2, ReplaysDone, Zenon DEF Numbered
  <2>2. typed \in Nat /\ accounted \in Nat
      BY <1>1, Fields, Zenon
  <2>3. Len(call.input) = 0
      BY <1>3
  <2>4. QED
      BY <1>2, <2>1, <2>2, <2>3
<1>5. focus' \in Focuses \union {None} /\ seen' \in Seq(Strokes) /\ moved' \in BOOLEAN
    BY <1>1, <1>2, Zenon DEF TypeOK
<1>6. timer_tasks' \subseteq timer_tasks
    BY <1>2
<1>7. QED
    BY <1>2, <1>3, <1>4, <1>5, <1>6, OrderNothingLeft, Zenon

\* Clearing the pending input outside of a dispatch.
LEMMA OrderClear ==
    ASSUME OrderInv, Idle, ClearPending, call' = call, typed' = typed, keymap' = keymap,
           moved' \in BOOLEAN, focus' \in Focuses \union {None}
    PROVE  OrderInv'
<1>1. /\ pending_input' = None /\ accounted' = typed /\ seen' = <<>>
      /\ timer_tasks' = (IF pending_input = None THEN timer_tasks
                         ELSE DropTimer(pending_input.timer))
    BY Zenon DEF ClearPending
<1>2. call' = None
    BY Zenon DEF Idle
<1>3. timer_tasks' \subseteq timer_tasks
    BY <1>1, Zenon DEF DropTimer
<1>4. seen' \in Seq(Strokes)
    BY <1>1
<1>5. QED
    BY <1>1, <1>2, <1>3, <1>4, OrderNothingLeft, Zenon

\* Steps that leave the keystrokes alone.
LEMMA OrderElsewhere ==
    ASSUME OrderInv, call' = call, pending_input' = pending_input,
           accounted' = accounted, typed' = typed, timer_tasks' = timer_tasks,
           seen' = seen, moved' \in BOOLEAN,
           keymap' \in Seq(Bindings), Len(keymap') <= MaxBindings,
           focus' \in Focuses \union {None}
    PROVE  OrderInv'
<1>1. TypeOK /\ CallShape
    BY DEF OrderInv
<1>2. TypeOK'
    BY <1>1, Zenon DEF TypeOK
<1>3. CallShape'
    BY <1>1, Zenon DEF CallShape, Idle
<1>4. Groups' = Groups
    BY Zenon DEF Groups, Idle, PendingStrokes
<1>5. QED
    BY <1>2, <1>3, <1>4, Zenon DEF OrderInv

LEMMA OrderNext ==
    ASSUME OrderInv, [Next]_vars
    PROVE  OrderInv'
<1>1. TypeOK
    BY DEF OrderInv
<1>2. /\ keymap \in Seq(Bindings) /\ Len(keymap) <= MaxBindings
      /\ focus \in Focuses \union {None} /\ moved \in BOOLEAN /\ MaxBindings \in Nat
    BY <1>1, KeyAssumption DEF TypeOK
<1>3. ASSUME NEW f \in Focuses, Focus(f) PROVE OrderInv'
  <2>1. /\ Idle /\ ClearPending /\ call' = call /\ typed' = typed /\ keymap' = keymap
        /\ moved' = TRUE /\ focus' = f
      BY <1>3 DEF Focus
  <2>2. moved' \in BOOLEAN
      BY <2>1, Zenon
  <2>3. QED
      BY <2>1, <2>2, OrderClear, Zenon
<1>4. CASE ClearPendingKeystrokes
  <2>1. /\ Idle /\ ClearPending /\ call' = call /\ typed' = typed /\ keymap' = keymap
        /\ moved' = moved /\ focus' = focus
      BY <1>4 DEF ClearPendingKeystrokes
  <2>2. QED
      BY <1>2, <2>1, OrderClear, Zenon
<1>5. CASE Blur
  <2>1. /\ call' = call /\ pending_input' = pending_input /\ accounted' = accounted
        /\ typed' = typed /\ timer_tasks' = timer_tasks /\ seen' = seen
        /\ moved' = (moved \/ focus # None) /\ keymap' = keymap /\ focus' = None
      BY <1>5 DEF Blur
  <2>2. QED
      BY <1>2, <2>1, OrderElsewhere, Zenon
<1>6. ASSUME NEW b \in Bindings, BindKeys(b) PROVE OrderInv'
  <2>1. /\ call' = call /\ pending_input' = pending_input /\ accounted' = accounted
        /\ typed' = typed /\ timer_tasks' = timer_tasks /\ seen' = seen
        /\ moved' = moved /\ focus' = focus
        /\ keymap' = Append(keymap, b) /\ Len(keymap) < MaxBindings
      BY <1>6 DEF BindKeys
  <2>2. keymap' \in Seq(Bindings) /\ Len(keymap') <= MaxBindings
      BY <1>2, <2>1
  <2>3. QED
      BY <1>2, <2>1, <2>2, OrderElsewhere, Zenon
<1>7. CASE ClearKeyBindings
  <2>1. /\ call' = call /\ pending_input' = pending_input /\ accounted' = accounted
        /\ typed' = typed /\ timer_tasks' = timer_tasks /\ seen' = seen
        /\ moved' = moved /\ focus' = focus /\ keymap' = <<>>
      BY <1>7 DEF ClearKeyBindings
  <2>2. keymap' \in Seq(Bindings) /\ Len(keymap') <= MaxBindings
      BY <1>2, <2>1
  <2>3. QED
      BY <1>2, <2>1, <2>2, OrderElsewhere, Zenon
<1>8. CASE UNCHANGED vars
  <2>1. /\ call' = call /\ pending_input' = pending_input /\ accounted' = accounted
        /\ typed' = typed /\ timer_tasks' = timer_tasks /\ seen' = seen
        /\ moved' = moved /\ keymap' = keymap /\ focus' = focus
      BY <1>8 DEF vars
  <2>2. QED
      BY <1>2, <2>1, OrderElsewhere, Zenon
<1>9. ASSUME NEW k \in Keys, NEW cleared \in BOOLEAN, NEW f \in Focuses \union {None},
             DispatchKeyEvent(k, cleared, f)
      PROVE  OrderInv'
    BY <1>9, OrderDispatchKey, Zenon
<1>10. CASE Replay
    BY <1>10, OrderReplay, Zenon
<1>11. ASSUME NEW text \in BOOLEAN, StayPending(text) PROVE OrderInv'
    BY <1>11, OrderStayPending, Zenon
<1>12. CASE DispatchNow
    BY <1>12, OrderDispatchNow, Zenon
<1>13. ASSUME NEW task \in timer_tasks, TimerElapsed(task) PROVE OrderInv'
    BY <1>13, OrderTimerElapsed, Zenon
<1>14. CASE Flush
    BY <1>14, OrderFlush, Zenon
<1>15. CASE FlushDone
    BY <1>15, OrderFlushDone, Zenon
<1>16. QED
    BY <1>3, <1>4, <1>5, <1>6, <1>7, <1>8, <1>9, <1>10, <1>11, <1>12, <1>13, <1>14,
       <1>15, Zenon DEF Next

\* The inductive invariant holds, and with it the types.
THEOREM OrderHolds == Spec => []OrderInv
<1>1. Init => OrderInv
    BY OrderInit
<1>2. OrderInv /\ [Next]_vars => OrderInv'
    BY OrderNext
<1>3. QED
    BY <1>1, <1>2, PTL DEF Spec

\* Pending input, timers and the dispatch in progress have the shapes that
\* dispatch_key_event and its timer task give them.
THEOREM KeyTypes == Spec => []TypeOK
<1>1. OrderInv => TypeOK
    BY DEF OrderInv
<1>2. QED
    BY <1>1, OrderHolds, PTL

\* The first groups of Append(gs, x), flattened, and x are numbered.
LEMMA FlattenInOrder ==
    ASSUME NEW S, NEW gs \in Seq(Seq(S)), NEW x \in Seq(S), NEW from \in Nat, NEW to \in Nat,
           InOrder(Append(gs, x), from, to)
    PROVE  /\ FlattenSeq(gs) \in Seq(S)
           /\ Numbered(FlattenSeq(gs) \o x, from, to)
<1>1. PICK n \in Nat : n = Len(gs)
    OBVIOUS
<1>2. PICK hs, U : hs = Append(gs, x) /\ U = Seq(S)
    OBVIOUS
<1>3. Len(hs) = n + 1 /\ hs[n + 1] = x /\ \A i \in 1..n : hs[i] = gs[i]
  <2>1. gs \in Seq(U) /\ x \in U
      BY <1>2, Zenon
  <2>2. QED
      BY <1>1, <1>2, <2>1
<1>4. PICK b : InOrderAt(hs, from, to, b)
    BY <1>2, Zenon DEF InOrder
<1>5. /\ b \in [1..((n + 1) + 1) -> from..to]
      /\ b[1] = from /\ b[(n + 1) + 1] = to
      /\ \A i \in 1..(n + 1) :
            /\ b[i + 1] = b[i] + Len(hs[i])
            /\ \A j \in 1..Len(hs[i]) : hs[i][j].n = b[i] + j
    BY <1>3, <1>4, Zenon DEF InOrderAt
<1>6. PICK l \in Nat, c \in Nat : l = Len(x) /\ c = b[n + 1]
  <2>1. n + 1 \in 1..((n + 1) + 1)
      OBVIOUS
  <2>2. b[n + 1] \in from..to
      BY <1>5, <2>1, Zenon
  <2>3. b[n + 1] \in Nat /\ Len(x) \in Nat
      BY <2>2
  <2>4. QED
      BY <2>3
<1>7. to = c + l /\ \A j \in 1..l : x[j].n = c + j
  <2>1. n + 1 \in 1..(n + 1)
      OBVIOUS
  <2>2. QED
      BY <1>3, <1>5, <1>6, <2>1, Zenon
<1>8. PICK e : e = [i \in 1..(n + 1) |-> b[i]]
    OBVIOUS
<1>9. \A i \in 1..(n + 1) : e[i] = b[i] /\ b[i] \in Nat
  <2>1. \A i \in 1..(n + 1) : i \in 1..((n + 1) + 1)
      OBVIOUS
  <2>2. \A i \in 1..(n + 1) : b[i] \in from..to
      BY <1>5, <2>1, Zenon
  <2>3. \A i \in from..to : i \in Nat
      OBVIOUS
  <2>4. QED
      BY <1>8, <2>2, <2>3, Zenon
<1>10. e \in [1..(Len(gs) + 1) -> Nat] /\ e[1] = from
  <2>1. 1 \in 1..(n + 1)
      OBVIOUS
  <2>2. e \in [1..(n + 1) -> Nat]
      BY <1>8, <1>9
  <2>3. QED
      BY <1>1, <1>5, <1>9, <2>1, <2>2, Zenon
<1>11. ASSUME NEW i \in 1..Len(gs)
       PROVE  /\ e[i + 1] = e[i] + Len(gs[i])
              /\ \A j \in 1..Len(gs[i]) : gs[i][j].n = e[i] + j
  <2>1. i \in 1..n /\ i \in 1..(n + 1) /\ i + 1 \in 1..(n + 1)
      BY <1>1
  <2>2. QED
      BY <1>3, <1>5, <1>9, <2>1, Zenon
<1>12. /\ FlattenSeq(gs) \in Seq(S)
       /\ Numbered(FlattenSeq(gs), from, e[Len(gs) + 1])
    BY <1>10, <1>11, FlattenNumbered, Zenon
<1>13. e[Len(gs) + 1] = c
  <2>1. n + 1 \in 1..(n + 1)
      OBVIOUS
  <2>2. QED
      BY <1>1, <1>6, <1>9, <2>1, Zenon
<1>14. PICK y : y = FlattenSeq(gs)
    OBVIOUS
<1>15. y \in Seq(S) /\ Numbered(y, from, c)
    BY <1>12, <1>13, <1>14, Zenon
<1>16. PICK m \in Nat : m = Len(y)
    BY <1>15
<1>17. m = c - from /\ \A j \in 1..m : y[j].n = from + j
    BY <1>15, <1>16, Zenon DEF Numbered
<1>18. PICK w : w = y \o x
    OBVIOUS
<1>19. /\ Len(w) = m + l /\ \A j \in 1..m : w[j] = y[j]
       /\ \A j \in 1..l : w[m + j] = x[j]
    BY <1>6, <1>15, <1>16, <1>18
<1>20. m + l = to - from
    BY <1>7, <1>17
<1>21. ASSUME NEW j \in 1..(m + l) PROVE w[j].n = from + j
  <2>1. CASE j <= m
    <3>1. j \in 1..m
        BY <2>1
    <3>2. QED
        BY <1>17, <1>19, <3>1, Zenon
  <2>2. CASE j > m
    <3>1. PICK u \in 1..l : j = m + u
      <4>1. j - m \in 1..l /\ j = m + (j - m)
          BY <2>2
      <4>2. QED
          BY <4>1
    <3>2. w[j] = x[u] /\ x[u].n = c + u
        BY <1>7, <1>19, <3>1, Zenon
    <3>3. c + u = from + j
        BY <1>17, <3>1
    <3>4. QED
        BY <3>2, <3>3, Zenon
  <2>3. QED
      BY <2>1, <2>2
<1>22. Numbered(w, from, to)
    BY <1>19, <1>20, <1>21, Zenon DEF Numbered
<1>23. QED
    BY <1>14, <1>15, <1>18, <1>22, Zenon

\* Every keystroke is dispatched or forgotten once and in order: whatever
\* replay_prefix cuts off, and whatever handlers do to the focus, the keystrokes
\* in hand are the ones that are not accounted for.
THEOREM KeystrokesInOrderHolds == Spec => []KeystrokesInOrder
<1>1. ASSUME OrderInv PROVE KeystrokesInOrder
  <2>1. /\ typed \in Nat /\ accounted \in Nat /\ accounted <= typed
        /\ ~Idle => call.replays \in Seq(Seq(Strokes)) /\ call.input \in Seq(Strokes)
      BY <1>1, Fields, Zenon DEF OrderInv
  <2>2. PICK strokes : strokes = (IF Idle THEN <<>> ELSE FlattenSeq(call.replays) \o call.input)
                                 \o PendingStrokes
      OBVIOUS
  <2>3. strokes \in Seq(Strokes) /\ Numbered(strokes, accounted, typed)
    <3>1. CASE Idle
      <4>1. PendingStrokes \in Seq(Strokes) /\ Numbered(PendingStrokes, accounted, typed)
          BY <1>1, <3>1, PendingNumbered, Zenon
      <4>2. PICK x \in Seq(Strokes) : x = PendingStrokes
          BY <4>1, Zenon
      <4>3. <<>> \o x = x
          OBVIOUS
      <4>4. strokes = x
          BY <2>2, <3>1, <4>2, <4>3, Zenon
      <4>5. QED
          BY <4>1, <4>2, <4>4, Zenon
    <3>2. CASE ~Idle
      <4>1. PICK rs, i : rs = call.replays /\ i = call.input
          OBVIOUS
      <4>2. rs \in Seq(Seq(Strokes)) /\ i \in Seq(Strokes)
          BY <2>1, <3>2, <4>1, Zenon
      <4>3. InOrder(Append(rs, i), accounted, typed)
          BY <1>1, <3>2, <4>1, Zenon DEF OrderInv, Groups
      <4>4. /\ FlattenSeq(rs) \in Seq(Strokes)
            /\ Numbered(FlattenSeq(rs) \o i, accounted, typed)
          BY <2>1, <4>2, <4>3, FlattenInOrder, Zenon
      <4>5. PICK y : y = FlattenSeq(rs)
          OBVIOUS
      <4>6. y \in Seq(Strokes)
          BY <4>4, <4>5, Zenon
      <4>7. y \o i \in Seq(Strokes) /\ (y \o i) \o <<>> = y \o i
          BY <4>2, <4>6
      <4>8. PendingStrokes = <<>>
          BY <1>1, <3>2, Zenon DEF OrderInv, CallShape, PendingStrokes
      <4>9. strokes = y \o i
          BY <2>2, <3>2, <4>1, <4>5, <4>7, <4>8, Zenon
      <4>10. QED
          BY <4>4, <4>5, <4>7, <4>9, Zenon
    <3>3. QED
        BY <3>1, <3>2
  <2>4. DOMAIN strokes = 1..(typed - accounted)
    <3>1. Len(strokes) = typed - accounted
        BY <2>3, Zenon DEF Numbered
    <3>2. QED
        BY <2>3, <3>1
  <2>5. \A i \in 1..(typed - accounted) : strokes[i].n = accounted + i
      BY <2>3, Zenon DEF Numbered
  <2>6. [i \in DOMAIN strokes |-> strokes[i].n]
            = [i \in 1..(typed - accounted) |-> accounted + i]
      BY <2>4, <2>5
  <2>7. QED
      BY <2>2, <2>6, Zenon DEF KeystrokesInOrder
<1>2. QED
    BY <1>1, OrderHolds, PTL

-----------------------------------------------------------------------------
(* OneFocus and TimeoutIsFresh.                                             *)

\* Keystrokes that one dispatch left pending for the next.
Together(g) == \A j \in 2..Len(g) : ~g[j].moved
AllTogether(gs) == \A i \in 1..Len(gs) : Together(gs[i])

\* Between two dispatches the focus is where the pending input waits, until it
\* is moved; then only blur has moved it, as focus clears the pending input, and
\* blur leaves an input that waits for a handle in a window without a focus.
FocusInv ==
    /\ AllTogether(Groups)
    /\ ~Idle /\ call.kind = "dispatch" => ~moved
    /\ Idle /\ pending_input # None =>
          IF moved THEN pending_input.focus # None /\ focus = None
                   ELSE pending_input.focus = focus

\* The timer that runs belongs to the input that is pending, or is about to be
\* replaced by the dispatch that took it.
TimerInv ==
    \A t \in timer_tasks :
        /\ Idle => /\ pending_input # None /\ t.id = pending_input.timer
                   /\ t.keystrokes = pending_input.keystrokes
        /\ ~Idle => call.kind = "dispatch" /\ t.id = call.pending.timer

\* Pieces of such keystrokes: the first of a piece is the first of all or has
\* the one before it in another piece.
LEMMA PiecesTogether ==
    ASSUME NEW S, NEW x \in Seq(S), Together(x), NEW ps, Pieces(S, ps, x)
    PROVE  AllTogether(ps)
<1>1. PICK b : PiecesAt(ps, x, b)
    BY DEF Pieces
<1>2. ps \in Seq(Seq(S))
    BY DEF Pieces
<1>3. PICK l \in Nat, n \in Nat : l = Len(x) /\ n = Len(ps)
    BY <1>2
<1>4. /\ b \in [1..(n + 1) -> 0..l]
      /\ \A i \in 1..n : b[i + 1] = b[i] + Len(ps[i])
      /\ \A i \in 1..n : \A j \in 1..Len(ps[i]) : ps[i][j] = x[b[i] + j]
    BY <1>1, <1>3 DEF PiecesAt
<1>5. \A j \in 2..l : ~x[j].moved
    BY <1>3, Zenon DEF Together
<1>6. ASSUME NEW i \in 1..n PROVE Together(ps[i])
  <2>1. PICK z \in Seq(S) : z = ps[i]
      BY <1>2, <1>3
  <2>2. PICK m \in Nat : m = Len(z)
      OBVIOUS
  <2>3. PICK c : c = b[i]
      OBVIOUS
  <2>4. c \in Nat /\ c + m <= l
    <3>1. i \in 1..(n + 1) /\ i + 1 \in 1..(n + 1)
        OBVIOUS
    <3>2. b[i] \in 0..l /\ b[i + 1] \in 0..l /\ b[i + 1] = b[i] + m
        BY <1>4, <2>1, <2>2, <3>1
    <3>3. QED
        BY <2>3, <3>2
  <2>5. ASSUME NEW j \in 2..m PROVE ~z[j].moved
    <3>1. j \in 1..m
        OBVIOUS
    <3>2. z[j] = x[c + j]
        BY <1>4, <2>1, <2>2, <2>3, <3>1, Zenon
    <3>3. c + j \in 2..l
        BY <2>4
    <3>4. QED
        BY <1>5, <3>2, <3>3, Zenon
  <2>6. QED
      BY <2>1, <2>2, <2>5, Zenon DEF Together
<1>7. QED
    BY <1>3, <1>6, Zenon DEF AllTogether

\* A group more.
LEMMA AppendTogether ==
    ASSUME NEW S, NEW gs \in Seq(S), NEW x \in S
    PROVE  AllTogether(Append(gs, x)) <=> AllTogether(gs) /\ Together(x)
<1>1. PICK n \in Nat : n = Len(gs)
    OBVIOUS
<1>2. PICK hs : hs = Append(gs, x)
    OBVIOUS
<1>3. Len(hs) = n + 1 /\ hs[n + 1] = x /\ \A i \in 1..n : hs[i] = gs[i]
    BY <1>1, <1>2
<1>4. ASSUME AllTogether(hs) PROVE AllTogether(gs) /\ Together(x)
  <2>1. n + 1 \in 1..(n + 1) /\ \A i \in 1..n : i \in 1..(n + 1)
      OBVIOUS
  <2>2. \A i \in 1..(n + 1) : Together(hs[i])
      BY <1>3, <1>4, Zenon DEF AllTogether
  <2>3. Together(x)
      BY <1>3, <2>1, <2>2, Zenon
  <2>4. \A i \in 1..n : Together(gs[i])
      BY <1>3, <2>1, <2>2, Zenon
  <2>5. QED
      BY <1>1, <2>3, <2>4, Zenon DEF AllTogether
<1>5. ASSUME AllTogether(gs), Together(x) PROVE AllTogether(hs)
  <2>1. \A i \in 1..n : Together(gs[i])
      BY <1>1, <1>5, Zenon DEF AllTogether
  <2>2. ASSUME NEW i \in 1..(n + 1) PROVE Together(hs[i])
    <3>1. CASE i = n + 1
        BY <1>3, <1>5, <3>1, Zenon
    <3>2. CASE i # n + 1
      <4>1. i \in 1..n
          BY <3>2
      <4>2. QED
          BY <1>3, <2>1, <4>1, Zenon
    <3>3. QED
        BY <3>1, <3>2
  <2>3. QED
      BY <1>3, <2>2, Zenon DEF AllTogether
<1>6. QED
    BY <1>2, <1>4, <1>5, Zenon

\* A keystroke more, after the others or as the first.
LEMMA StrokeTogether ==
    ASSUME NEW S, NEW x \in Seq(S), NEW s \in S, Together(x),
           x = <<>> \/ ~s.moved
    PROVE  Together(Append(x, s))
<1>1. PICK n \in Nat : n = Len(x)
    OBVIOUS
<1>2. PICK y : y = Append(x, s)
    OBVIOUS
<1>3. Len(y) = n + 1 /\ y[n + 1] = s /\ \A j \in 1..n : y[j] = x[j]
    BY <1>1, <1>2
<1>4. ASSUME NEW j \in 2..(n + 1) PROVE ~y[j].moved
  <2>1. CASE j = n + 1
    <3>1. n # 0
        BY <2>1
    <3>2. x # <<>>
        BY <1>1, <3>1
    <3>3. QED
        BY <1>3, <2>1, <3>2, Zenon
  <2>2. CASE j # n + 1
    <3>1. j \in 2..n /\ j \in 1..n
        BY <2>2
    <3>2. QED
        BY <1>1, <1>3, <3>1, Zenon DEF Together
  <2>3. QED
      BY <2>1, <2>2
<1>5. QED
    BY <1>2, <1>3, <1>4, Zenon DEF Together

\* Without the first group.
LEMMA TailTogether ==
    ASSUME NEW S, NEW gs \in Seq(S), gs # <<>>, AllTogether(gs)
    PROVE  AllTogether(Tail(gs))
<1>1. PICK n \in Nat : n = Len(gs) /\ n > 0
    OBVIOUS
<1>2. PICK t : t = Tail(gs)
    OBVIOUS
<1>3. Len(t) = n - 1 /\ \A i \in 1..(n - 1) : t[i] = gs[i + 1]
    BY <1>1, <1>2
<1>4. \A i \in 1..n : Together(gs[i])
    BY <1>1, Zenon DEF AllTogether
<1>5. \A i \in 1..(n - 1) : i + 1 \in 1..n
    BY <1>1
<1>6. QED
    BY <1>2, <1>3, <1>4, <1>5, Zenon DEF AllTogether

\* No keystrokes, and one group.
LEMMA NothingTogether == Together(<<>>) /\ AllTogether(<<>>)
<1>1. Len(<<>>) = 0
    OBVIOUS
<1>2. /\ \A j \in 2..0 : ~(<<>>[j]).moved
      /\ \A j \in 1..0 : Together(<<>>[j])
    OBVIOUS
<1>3. QED
    BY <1>1, <1>2, Zenon DEF Together, AllTogether

LEMMA OneTogether ==
    ASSUME NEW x
    PROVE  AllTogether(<<x>>) <=> Together(x)
<1>1. PICK g : g = <<x>>
    OBVIOUS
<1>2. Len(g) = 1 /\ g[1] = x
    BY <1>1
<1>3. 1 \in 1..1 /\ \A i \in 1..1 : i = 1
    OBVIOUS
<1>4. AllTogether(g) <=> Together(x)
    BY <1>2, <1>3, Zenon DEF AllTogether
<1>5. QED
    BY <1>1, <1>4, Zenon

\* A dispatch that begins or goes on is a call.
LEMMA StillCalling ==
    ASSUME OrderInv,
           \/ Replay
           \/ \E k \in Keys, cleared \in BOOLEAN, f \in Focuses \union {None} :
                 DispatchKeyEvent(k, cleared, f)
    PROVE  ~Idle'
<1>1. TypeOK
    BY DEF OrderInv
<1>2. CASE Replay
  <2>1. ~Idle /\ call' = [call EXCEPT !.replays = Tail(@)] /\ call.replays # <<>>
      BY <1>2 DEF Replay
  <2>2. call \in Calls /\ call.replays \in Seq(Seq(Strokes))
      BY <1>1, <2>1, Fields, Zenon
  <2>3. PICK U, rs : U = Seq(Strokes) /\ rs = call.replays
      OBVIOUS
  <2>4. rs \in Seq(U) /\ rs # <<>>
      BY <2>1, <2>2, <2>3, Zenon
  <2>5. PICK t : t = Tail(rs)
      OBVIOUS
  <2>6. t \in Seq(U)
      BY <2>4, <2>5
  <2>7. t \in Seq(Seq(Strokes)) /\ call' = [call EXCEPT !.replays = t]
      BY <2>1, <2>3, <2>5, <2>6, Zenon
  <2>8. call' \in Calls
      BY <2>2, <2>7 DEF Calls
  <2>9. QED
      BY <2>8, NoneAssumption, Zenon DEF Idle
<1>3. ASSUME NEW k \in Keys, NEW cleared \in BOOLEAN, NEW f \in Focuses \union {None},
             DispatchKeyEvent(k, cleared, f)
      PROVE  ~Idle'
  <2>1. PICK cp, st, result, from :
           /\ cp = currently_pending(cleared, f)
           /\ st = [key |-> k, n |-> typed + 1, moved |-> moved \/ cleared \/ f # focus]
           /\ result = dispatch_key(cp.keystrokes, st, focus)
           /\ from = IF cp = NoPending THEN typed ELSE accounted
      OBVIOUS
  <2>2. call' = [kind |-> "dispatch", replays |-> result.to_replay,
                 input |-> result.input, stays |-> result.pending,
                 has_binding |-> result.pending_has_binding, pending |-> cp]
      BY <1>3, <2>1, Zenon DEF DispatchKeyEvent
  <2>3. cp \in Pending /\ cp.keystrokes \in Seq(Strokes)
      BY <1>3, <2>1, CurrentlyPending, Zenon DEF DispatchKeyEvent
  <2>4. st \in Strokes
    <3>1. typed \in Nat /\ MaxKeys \in Nat
        BY <1>1, Fields, Zenon
    <3>2. typed < MaxKeys
        BY <1>3 DEF DispatchKeyEvent
    <3>3. typed + 1 \in 1..MaxKeys
        BY <3>1, <3>2
    <3>4. (moved \/ cleared \/ f # focus) \in BOOLEAN
        BY Zenon
    <3>5. QED
        BY <1>3, <2>1, <3>3, <3>4, Zenon DEF Strokes
  <2>5. result \in Results(Strokes)
      BY <2>1, <2>3, <2>4, DispatchPieces, Zenon DEF GoodResult
  <2>6. result.to_replay \in Seq(Seq(Strokes)) /\ result.input \in Seq(Strokes)
      BY <2>5 DEF Results
  <2>7. result.pending \in BOOLEAN /\ result.pending_has_binding \in BOOLEAN
      BY <2>5 DEF Results
  <2>8. "dispatch" \in {"dispatch", "timer", "flush"}
      OBVIOUS
  <2>9. call' \in Calls
      BY <2>2, <2>3, <2>6, <2>7, <2>8, Zenon DEF Calls
  <2>10. QED
      BY <2>9, NoneAssumption, Zenon DEF Idle
<1>4. QED
    BY <1>2, <1>3, Zenon

\* A keystroke joins what is pending only if that waits where the focus still is
\* when the interceptors are done.
LEMMA FocusDispatchKey ==
    ASSUME OrderInv, FocusInv, NEW k \in Keys, NEW cleared \in BOOLEAN,
           NEW f \in Focuses \union {None}, DispatchKeyEvent(k, cleared, f)
    PROVE  FocusInv'
<1>1. TypeOK /\ CallShape
    BY DEF OrderInv
<1>2. typed \in Nat /\ MaxKeys \in Nat
    BY <1>1, Fields, Zenon
<1>3. /\ Idle /\ typed < MaxKeys /\ Intercepted(cleared, f)
      /\ pending_input' = None /\ moved' = FALSE
    BY DEF DispatchKeyEvent
<1>4. PICK cp, st, result, from :
         /\ cp = currently_pending(cleared, f)
         /\ st = [key |-> k, n |-> typed + 1, moved |-> moved \/ cleared \/ f # focus]
         /\ result = dispatch_key(cp.keystrokes, st, focus)
         /\ from = IF cp = NoPending THEN typed ELSE accounted
    OBVIOUS
<1>5. call' = [kind |-> "dispatch", replays |-> result.to_replay,
               input |-> result.input, stays |-> result.pending,
               has_binding |-> result.pending_has_binding, pending |-> cp]
    BY <1>4, Zenon DEF DispatchKeyEvent
<1>6. /\ cp.keystrokes \in Seq(Strokes)
      /\ cp = NoPending \/ (pending_input # None /\ cp = pending_input)
  <2>1. /\ cp \in Pending /\ cp.keystrokes \in Seq(Strokes)
        /\ from \in Nat /\ from <= typed /\ Numbered(cp.keystrokes, from, typed)
      BY <1>3, <1>4, CurrentlyPending, Zenon
  <2>2. cp = NoPending \/ (pending_input # None /\ cp = pending_input)
      BY <1>4, Zenon DEF currently_pending
  <2>3. QED
      BY <2>1, <2>2
<1>7. st \in Strokes /\ st.moved = (moved \/ cleared \/ f # focus)
  <2>1. typed + 1 \in 1..MaxKeys
      BY <1>2, <1>3
  <2>2. (moved \/ cleared \/ f # focus) \in BOOLEAN
      BY Zenon
  <2>3. st \in Strokes
      BY <1>4, <2>1, <2>2, Zenon DEF Strokes
  <2>4. QED
      BY <1>4, <2>3
<1>8. call'.replays = result.to_replay /\ call'.input = result.input
    BY <1>5
<1>9. PICK x : x = Append(cp.keystrokes, st)
    OBVIOUS
<1>10. x \in Seq(Strokes)
    BY <1>6, <1>7, <1>9
<1>11. Pieces(Strokes, Append(result.to_replay, result.input), x)
    BY <1>4, <1>6, <1>7, <1>9, DispatchPieces, Zenon DEF GoodResult
<1>12. Together(x)
  <2>1. CASE cp = NoPending
    <3>1. cp.keystrokes = <<>>
        BY <2>1 DEF NoPending
    <3>2. Together(cp.keystrokes)
        BY <3>1, NothingTogether, Zenon
    <3>3. QED
        BY <1>6, <1>7, <1>9, <3>1, <3>2, StrokeTogether, Zenon
  <2>2. CASE cp # NoPending
    <3>1. pending_input # None /\ cp = pending_input
        BY <1>6, <2>2, Zenon
    <3>2. ~cleared /\ (pending_input.focus = None \/ pending_input.focus = f)
        BY <1>4, <2>2, Zenon DEF currently_pending
    <3>3. f = focus \/ f = None
        BY <1>3, <3>2, Zenon DEF Intercepted
    <3>4. IF moved THEN pending_input.focus # None /\ focus = None
                   ELSE pending_input.focus = focus
        BY <1>1, <1>3, <3>1, Zenon DEF FocusInv
    <3>5. ~moved /\ f = focus
        BY <3>2, <3>3, <3>4, Zenon
    <3>6. ~st.moved
        BY <1>7, <3>2, <3>5, Zenon
    <3>7. Together(cp.keystrokes)
      <4>1. AllTogether(<<PendingStrokes>>)
          BY <1>3, Zenon DEF FocusInv, Groups
      <4>2. PendingStrokes = cp.keystrokes
          BY <3>1, Zenon DEF PendingStrokes
      <4>3. QED
          BY <4>1, <4>2, OneTogether, Zenon
    <3>8. QED
        BY <1>6, <1>7, <1>9, <3>6, <3>7, StrokeTogether, Zenon
  <2>3. QED
      BY <2>1, <2>2
<1>13. AllTogether(Append(result.to_replay, result.input))
    BY <1>10, <1>11, <1>12, PiecesTogether, Zenon
<1>14. ~Idle'
    BY StillCalling, Zenon
<1>15. Groups' = Append(result.to_replay, result.input)
    BY <1>8, <1>14, Zenon DEF Groups
<1>16. QED
    BY <1>3, <1>13, <1>14, <1>15, Zenon DEF FocusInv

LEMMA FocusReplay ==
    ASSUME OrderInv, FocusInv, Replay
    PROVE  FocusInv'
<1>1. TypeOK /\ CallShape
    BY DEF OrderInv
<1>2. /\ ~Idle /\ call.replays # <<>>
      /\ call' = [call EXCEPT !.replays = Tail(@)]
      /\ moved' = moved /\ pending_input' = pending_input
    BY DEF Replay
<1>3. /\ call \in Calls /\ call.replays \in Seq(Seq(Strokes)) /\ call.input \in Seq(Strokes)
    BY <1>1, <1>2, Fields, Zenon
<1>4. PICK U, rs, i : U = Seq(Strokes) /\ rs = call.replays /\ i = call.input
    OBVIOUS
<1>5. rs \in Seq(U) /\ i \in U /\ rs # <<>>
    BY <1>2, <1>3, <1>4, Zenon
<1>6. Tail(rs) \in Seq(U)
    BY <1>5
<1>7. call'.replays = Tail(rs) /\ call'.input = i /\ call'.kind = call.kind
    BY <1>2, <1>3, <1>4 DEF Calls
<1>8. AllTogether(Append(rs, i))
    BY <1>2, <1>4, Zenon DEF FocusInv, Groups
<1>9. AllTogether(Tail(rs)) /\ Together(i)
    BY <1>5, <1>8, AppendTogether, TailTogether, Zenon
<1>10. AllTogether(Append(Tail(rs), i))
    BY <1>5, <1>6, <1>9, AppendTogether, Zenon
<1>11. ~Idle'
    BY StillCalling, Zenon
<1>12. Groups' = Append(Tail(rs), i)
    BY <1>7, <1>11, Zenon DEF Groups
<1>13. QED
    BY <1>2, <1>7, <1>10, <1>11, <1>12, Zenon DEF FocusInv

\* What stays pending waits where the focus is, replayed actions included.
LEMMA FocusStayPending ==
    ASSUME OrderInv, FocusInv, NEW text \in BOOLEAN, StayPending(text)
    PROVE  FocusInv'
<1>1. TypeOK /\ CallShape
    BY DEF OrderInv
<1>2. PICK tm, needs, hb :
         /\ pending_input' = [keystrokes |-> call.input, focus |-> focus, timer |-> tm,
                              needs_timeout |-> needs, has_binding |-> hb]
         /\ ~Idle /\ call' = None /\ focus' = focus /\ moved' = moved
         /\ call.replays = <<>> /\ call.kind = "dispatch"
    BY Zenon DEF StayPending
<1>3. pending_input'.keystrokes = call.input /\ pending_input'.focus = focus
    BY <1>2
<1>4. PICK i, U : i = call.input /\ U = Seq(Strokes)
    OBVIOUS
<1>5. i \in U /\ <<>> \in Seq(U)
  <2>1. <<>> \in Seq(U)
      OBVIOUS
  <2>2. QED
      BY <1>1, <1>2, <1>4, <2>1, Fields, Zenon
<1>6. Together(i)
  <2>1. AllTogether(Append(<<>>, i))
      BY <1>2, <1>4, Zenon DEF FocusInv, Groups
  <2>2. QED
      BY <1>5, <2>1, AppendTogether, Zenon
<1>7. Idle' /\ pending_input' # None
  <2>1. pending_input' \in Pending
      BY StaysPending, Zenon
  <2>2. QED
      BY <1>2, <2>1, NoneAssumption, Zenon DEF Idle
<1>8. Groups' = <<i>>
    BY <1>3, <1>4, <1>7, Zenon DEF Groups, PendingStrokes
<1>9. AllTogether(Groups')
    BY <1>6, <1>8, OneTogether, Zenon
<1>10. ~moved'
    BY <1>2, Zenon DEF FocusInv
<1>11. QED
    BY <1>2, <1>3, <1>7, <1>9, <1>10, Zenon DEF FocusInv

\* Steps at whose end nothing is in hand.
LEMMA FocusNothingLeft ==
    ASSUME Idle', pending_input' = None
    PROVE  FocusInv'
<1>1. Groups' = <<<<>>>>
    BY Zenon DEF Groups, PendingStrokes
<1>2. AllTogether(<<<<>>>>)
    BY NothingTogether, OneTogether, Zenon
<1>3. QED
    BY <1>1, <1>2, Zenon DEF FocusInv

LEMMA FocusTimerElapsed ==
    ASSUME OrderInv, FocusInv, NEW task \in timer_tasks, TimerElapsed(task)
    PROVE  FocusInv'
<1>1. TypeOK /\ CallShape
    BY DEF OrderInv
<1>2. Idle /\ pending_input' = None
    BY DEF TimerElapsed
<1>3. CASE ~(pending_input # None /\ pending_input.focus = focus)
  <2>1. call' = call
      BY <1>3, Zenon DEF TimerElapsed
  <2>2. Idle'
      BY <1>2, <2>1, Zenon DEF Idle
  <2>3. QED
      BY <1>2, <2>2, FocusNothingLeft, Zenon
<1>4. CASE pending_input # None /\ pending_input.focus = focus
  <2>1. call' = [kind |-> "timer", replays |-> <<>>,
                 input |-> pending_input.keystrokes, stays |-> FALSE,
                 has_binding |-> FALSE, pending |-> pending_input]
      BY <1>4, Zenon DEF TimerElapsed
  <2>2. /\ call'.replays = <<>> /\ call'.input = pending_input.keystrokes
        /\ call'.kind = "timer"
      BY <2>1
  <2>3. PICK U, i : U = Seq(Strokes) /\ i = pending_input.keystrokes
      OBVIOUS
  <2>4. i \in U /\ <<>> \in Seq(U)
    <3>1. pending_input.keystrokes \in Seq(Strokes)
        BY <1>1, <1>4, Fields, Zenon
    <3>2. <<>> \in Seq(U)
        OBVIOUS
    <3>3. QED
        BY <2>3, <3>1, <3>2, Zenon
  <2>5. Together(i)
    <3>1. AllTogether(<<PendingStrokes>>)
        BY <1>2, Zenon DEF FocusInv, Groups
    <3>2. PendingStrokes = i
        BY <1>4, <2>3, Zenon DEF PendingStrokes
    <3>3. QED
        BY <3>1, <3>2, OneTogether, Zenon
  <2>6. AllTogether(Append(<<>>, i))
      BY <2>4, <2>5, NothingTogether, AppendTogether, Zenon
  <2>7. AllTogether(Groups')
    <3>1. CASE Idle'
        BY <1>2, <3>1, FocusNothingLeft, Zenon DEF FocusInv
    <3>2. CASE ~Idle'
        BY <2>2, <2>3, <2>6, <3>2, Zenon DEF Groups
    <3>3. QED
        BY <3>1, <3>2
  <2>8. "timer" # "dispatch"
      OBVIOUS
  <2>9. QED
      BY <1>2, <2>2, <2>7, <2>8, Zenon DEF FocusInv
<1>5. QED
    BY <1>3, <1>4

LEMMA FocusFlush ==
    ASSUME OrderInv, FocusInv, Flush
    PROVE  FocusInv'
<1>1. TypeOK /\ CallShape
    BY DEF OrderInv
<1>2. PICK fs, U, i, e : /\ fs = flush_dispatch(call.input, focus)
                         /\ U = Seq(Strokes) /\ i = call.input /\ e = <<>>
    OBVIOUS
<1>3. /\ ~Idle /\ call.kind = "timer"
      /\ call' = [call EXCEPT !.kind = "flush", !.input = e, !.replays = fs]
      /\ pending_input' = pending_input
    BY <1>2, Zenon DEF Flush
<1>4. call \in Calls /\ i \in Seq(Strokes)
    BY <1>1, <1>2, <1>3, Fields, Zenon
<1>5. Pieces(Strokes, fs, i)
    BY <1>2, <1>4, FlushPieces, Zenon
<1>6. fs \in Seq(U)
    BY <1>2, <1>5, Zenon DEF Pieces
<1>7. e \in U
    BY <1>2
<1>8. call'.replays = fs /\ call'.input = e /\ call'.kind = "flush"
    BY <1>3, <1>4 DEF Calls
<1>9. pending_input' = None /\ call.replays = <<>>
    BY <1>1, <1>3, Zenon DEF CallShape
<1>10. AllTogether(Append(fs, e))
  <2>1. AllTogether(Append(<<>>, i))
      BY <1>2, <1>3, <1>9, Zenon DEF FocusInv, Groups
  <2>2. <<>> \in Seq(U)
      OBVIOUS
  <2>3. Together(i)
      BY <1>2, <1>4, <2>1, <2>2, AppendTogether, Zenon
  <2>4. AllTogether(fs)
      BY <1>4, <1>5, <2>3, PiecesTogether, Zenon
  <2>5. Together(e)
      BY <1>2, NothingTogether, Zenon
  <2>6. QED
      BY <1>6, <1>7, <2>4, <2>5, AppendTogether, Zenon
<1>11. AllTogether(Groups')
  <2>1. CASE Idle'
      BY <1>9, <2>1, FocusNothingLeft, Zenon DEF FocusInv
  <2>2. CASE ~Idle'
      BY <1>8, <1>10, <2>2, Zenon DEF Groups
  <2>3. QED
      BY <2>1, <2>2
<1>12. "flush" # "dispatch"
    OBVIOUS
<1>13. QED
    BY <1>8, <1>9, <1>11, <1>12, Zenon DEF FocusInv

LEMMA FocusNext ==
    ASSUME OrderInv, FocusInv, [Next]_vars
    PROVE  FocusInv'
<1>1. ASSUME call' = call, pending_input' = pending_input,
             \/ moved' = moved /\ focus' = focus
             \/ Idle /\ focus' = None /\ moved' = (moved \/ focus # None)
      PROVE  FocusInv'
  <2>1. Groups' = Groups /\ (Idle' <=> Idle)
      BY <1>1, Zenon DEF Groups, Idle, PendingStrokes
  <2>2. AllTogether(Groups')
      BY <2>1, Zenon DEF FocusInv
  <2>3. ASSUME ~Idle', call'.kind = "dispatch" PROVE ~moved'
      BY <1>1, <2>1, <2>3, Zenon DEF FocusInv
  <2>4. ASSUME Idle', pending_input' # None
        PROVE  IF moved' THEN pending_input'.focus # None /\ focus' = None
                         ELSE pending_input'.focus = focus'
    <3>1. Idle /\ pending_input # None
        BY <1>1, <2>1, <2>4, Zenon
    <3>2. IF moved THEN pending_input.focus # None /\ focus = None
                   ELSE pending_input.focus = focus
        BY <3>1, Zenon DEF FocusInv
    <3>3. CASE moved' = moved /\ focus' = focus
        BY <1>1, <3>2, <3>3
    <3>4. CASE focus' = None /\ moved' = (moved \/ focus # None)
      <4>1. CASE moved \/ focus # None
          BY <1>1, <3>2, <3>4, <4>1
      <4>2. CASE ~moved /\ focus = None
          BY <1>1, <3>2, <3>4, <4>2
      <4>3. QED
          BY <4>1, <4>2
    <3>5. QED
        BY <1>1, <3>3, <3>4
  <2>5. QED
      BY <2>2, <2>3, <2>4, Zenon DEF FocusInv
<1>2. CASE DispatchNow
  <2>1. ~Idle /\ call' = None /\ pending_input' = pending_input
      BY <1>2 DEF DispatchNow
  <2>2. pending_input' = None
      BY <2>1, Zenon DEF OrderInv, CallShape
  <2>3. QED
      BY <2>1, <2>2, FocusNothingLeft, Zenon DEF Idle
<1>3. CASE FlushDone
  <2>1. ~Idle /\ call' = None /\ pending_input' = pending_input
      BY <1>3 DEF FlushDone
  <2>2. pending_input' = None
      BY <2>1, Zenon DEF OrderInv, CallShape
  <2>3. QED
      BY <2>1, <2>2, FocusNothingLeft, Zenon DEF Idle
<1>4. ASSUME NEW f \in Focuses, Focus(f) PROVE FocusInv'
    BY <1>4, FocusNothingLeft, Zenon DEF Focus, ClearPending, Idle
<1>5. CASE ClearPendingKeystrokes
    BY <1>5, FocusNothingLeft, Zenon DEF ClearPendingKeystrokes, ClearPending, Idle
<1>6. CASE Blur
  <2>1. call' = call /\ pending_input' = pending_input
        /\ Idle /\ focus' = None /\ moved' = (moved \/ focus # None)
      BY <1>6 DEF Blur
  <2>2. QED
      BY <1>1, <2>1, Zenon
<1>7. ASSUME NEW b \in Bindings, BindKeys(b) PROVE FocusInv'
  <2>1. call' = call /\ pending_input' = pending_input /\ moved' = moved /\ focus' = focus
      BY <1>7 DEF BindKeys
  <2>2. QED
      BY <1>1, <2>1, Zenon
<1>8. CASE ClearKeyBindings
  <2>1. call' = call /\ pending_input' = pending_input /\ moved' = moved /\ focus' = focus
      BY <1>8 DEF ClearKeyBindings
  <2>2. QED
      BY <1>1, <2>1, Zenon
<1>9. CASE UNCHANGED vars
  <2>1. call' = call /\ pending_input' = pending_input /\ moved' = moved /\ focus' = focus
      BY <1>9 DEF vars
  <2>2. QED
      BY <1>1, <2>1, Zenon
<1>10. ASSUME NEW k \in Keys, NEW cleared \in BOOLEAN, NEW f \in Focuses \union {None},
              DispatchKeyEvent(k, cleared, f)
       PROVE  FocusInv'
    BY <1>10, FocusDispatchKey, Zenon
<1>11. CASE Replay
    BY <1>11, FocusReplay, Zenon
<1>12. ASSUME NEW text \in BOOLEAN, StayPending(text) PROVE FocusInv'
    BY <1>12, FocusStayPending, Zenon
<1>13. ASSUME NEW task \in timer_tasks, TimerElapsed(task) PROVE FocusInv'
    BY <1>13, FocusTimerElapsed, Zenon
<1>14. CASE Flush
    BY <1>14, FocusFlush, Zenon
<1>15. QED
    BY <1>2, <1>3, <1>4, <1>5, <1>6, <1>7, <1>8, <1>9, <1>10, <1>11, <1>12, <1>13,
       <1>14, Zenon DEF Next

\* What is pending waits where its dispatch left the focus, until the focus is
\* moved away; the groups in hand are keystrokes that waited for each other.
THEOREM FocusHolds == Spec => [](OrderInv /\ FocusInv)
<1>1. ASSUME Init PROVE FocusInv
  <2>1. Idle /\ pending_input = None
      BY <1>1, Zenon DEF Init, Idle
  <2>2. Groups = <<<<>>>>
      BY <2>1, Zenon DEF Groups, PendingStrokes
  <2>3. AllTogether(<<<<>>>>)
      BY NothingTogether, OneTogether, Zenon
  <2>4. QED
      BY <2>1, <2>2, <2>3, Zenon DEF FocusInv
<1>2. Init => FocusInv
    BY <1>1
<1>3. OrderInv /\ FocusInv /\ [Next]_vars => FocusInv'
    BY FocusNext
<1>4. QED
    BY <1>2, <1>3, OrderHolds, PTL DEF Spec

\* A keystroke forms a binding with the ones before it only if nobody moved the
\* focus since the dispatch of the one before ended, whatever is bound and
\* whoever moves it: calls between the keystrokes, interceptors of the second.
THEOREM OneFocusHolds == Spec => []OneFocus
<1>1. ASSUME OrderInv, FocusInv PROVE OneFocus
  <2>1. ASSUME NEW g \in Seq(Strokes), Together(g)
        PROVE  \A i \in DOMAIN g : i > 1 => ~g[i].moved
    <3>1. \A i \in DOMAIN g : i > 1 => i \in 2..Len(g)
        OBVIOUS
    <3>2. QED
        BY <2>1, <3>1, Zenon DEF Together
  <2>2. \A i \in DOMAIN PendingStrokes : i > 1 => ~PendingStrokes[i].moved
    <3>1. CASE pending_input = None
      <4>1. PendingStrokes = <<>>
          BY <3>1, Zenon DEF PendingStrokes
      <4>2. DOMAIN PendingStrokes = {}
          BY <4>1
      <4>3. QED
          BY <4>2, Zenon
    <3>2. CASE pending_input # None
      <4>1. Idle
          BY <1>1, <3>2, Zenon DEF OrderInv, CallShape
      <4>2. AllTogether(<<PendingStrokes>>)
          BY <1>1, <4>1, Zenon DEF FocusInv, Groups
      <4>3. PendingStrokes \in Seq(Strokes)
          BY <1>1, <3>2, Fields, Zenon DEF OrderInv, PendingStrokes
      <4>4. QED
          BY <2>1, <4>2, <4>3, OneTogether, Zenon
    <3>3. QED
        BY <3>1, <3>2
  <2>3. ASSUME ~Idle, NEW g \in Range(call.replays) \union {call.input}
        PROVE  \A i \in DOMAIN g : i > 1 => ~g[i].moved
    <3>1. PICK U, rs, x : U = Seq(Strokes) /\ rs = call.replays /\ x = call.input
        OBVIOUS
    <3>2. rs \in Seq(U) /\ x \in U
        BY <1>1, <2>3, <3>1, Fields, Zenon DEF OrderInv
    <3>3. AllTogether(rs) /\ Together(x)
      <4>1. AllTogether(Append(rs, x))
          BY <1>1, <2>3, <3>1, Zenon DEF FocusInv, Groups
      <4>2. QED
          BY <3>2, <4>1, AppendTogether, Zenon
    <3>4. ASSUME g \in Range(rs) PROVE g \in U /\ Together(g)
      <4>1. PICK i \in DOMAIN rs : g = rs[i]
          BY <3>4 DEF Range
      <4>2. i \in 1..Len(rs) /\ rs[i] \in U
          BY <3>2, <4>1
      <4>3. QED
          BY <3>3, <4>1, <4>2, Zenon DEF AllTogether
    <3>5. g \in U /\ Together(g)
        BY <2>3, <3>1, <3>2, <3>3, <3>4, Zenon
    <3>6. QED
        BY <2>1, <3>1, <3>5, Zenon
  <2>4. QED
      BY <2>2, <2>3, Zenon DEF OneFocus
<1>2. OrderInv /\ FocusInv => OneFocus
    BY <1>1
<1>3. QED
    BY <1>2, FocusHolds, PTL

\* Every step keeps the timers with their input.
LEMMA TimerNext ==
    ASSUME OrderInv, TimerInv, [Next]_vars
    PROVE  TimerInv'
<1>1. TypeOK /\ CallShape
    BY DEF OrderInv
<1>2. ASSUME timer_tasks' = {} PROVE TimerInv'
    BY <1>2, Zenon DEF TimerInv
<1>3. ASSUME Idle, pending_input # None PROVE DropTimer(pending_input.timer) = {}
    BY <1>3, Zenon DEF DropTimer, TimerInv
<1>4. ASSUME Idle, pending_input = None PROVE timer_tasks = {}
    BY <1>4, Zenon DEF TimerInv
<1>5. ASSUME ~Idle PROVE DropTimer(call.pending.timer) = {}
    BY <1>5, Zenon DEF DropTimer, TimerInv
<1>6. ASSUME timer_tasks' = timer_tasks, call' = call, pending_input' = pending_input
      PROVE  TimerInv'
    BY <1>6, Zenon DEF TimerInv, Idle
<1>7. ASSUME NEW k \in Keys, NEW cleared \in BOOLEAN, NEW f \in Focuses \union {None},
             DispatchKeyEvent(k, cleared, f)
      PROVE  TimerInv'
  <2>1. PICK cp : cp = currently_pending(cleared, f)
      OBVIOUS
  <2>2. PICK rs, i, st, hb :
           call' = [kind |-> "dispatch", replays |-> rs, input |-> i, stays |-> st,
                    has_binding |-> hb, pending |-> cp]
      BY <1>7, <2>1, Zenon DEF DispatchKeyEvent
  <2>3. /\ Idle
        /\ timer_tasks' = (IF cp = NoPending /\ pending_input # None
                           THEN DropTimer(pending_input.timer) ELSE timer_tasks)
      BY <1>7, <2>1, Zenon DEF DispatchKeyEvent
  <2>4. cp = NoPending \/ (pending_input # None /\ cp = pending_input)
      BY <2>1, Zenon DEF currently_pending
  <2>5. CASE cp = NoPending
    <3>1. timer_tasks' = {}
        BY <1>3, <1>4, <2>3, <2>5, Zenon
    <3>2. QED
        BY <1>2, <3>1, Zenon
  <2>6. CASE cp # NoPending
    <3>1. timer_tasks' = timer_tasks /\ pending_input # None /\ cp = pending_input
        BY <2>3, <2>4, <2>6, Zenon
    <3>2. call'.kind = "dispatch" /\ call'.pending = cp
        BY <2>2
    <3>3. \A t \in timer_tasks : t.id = cp.timer
        BY <2>3, <3>1, Zenon DEF TimerInv
    <3>4. ~Idle'
        BY <1>7, StillCalling, Zenon
    <3>5. QED
        BY <3>1, <3>2, <3>3, <3>4, Zenon DEF TimerInv
  <2>7. QED
      BY <2>5, <2>6
<1>8. CASE Replay
  <2>1. ~Idle /\ call' = [call EXCEPT !.replays = Tail(@)] /\ timer_tasks' = timer_tasks
      BY <1>8 DEF Replay
  <2>2. call \in Calls
      BY <1>1, <2>1, Fields, Zenon
  <2>3. call'.kind = call.kind /\ call'.pending = call.pending
      BY <2>1, <2>2 DEF Calls
  <2>4. ~Idle'
      BY <1>8, StillCalling, Zenon
  <2>5. QED
      BY <2>1, <2>3, <2>4, Zenon DEF TimerInv
<1>9. ASSUME NEW text \in BOOLEAN, StayPending(text) PROVE TimerInv'
  <2>1. PICK needs : needs = needs_timeout(text)
      OBVIOUS
  <2>2. /\ pending_input' =
             [keystrokes |-> call.input, focus |-> focus,
              timer |-> IF needs THEN typed ELSE NoTimer,
              needs_timeout |-> needs, has_binding |-> call.has_binding]
        /\ ~Idle /\ call' = None /\ timer_tasks' = TimersRestarted(needs)
      BY <1>9, <2>1, Zenon DEF StayPending
  <2>3. timer_tasks' = IF needs THEN {[id |-> typed, keystrokes |-> call.input]} ELSE {}
    <3>1. DropTimer(call.pending.timer) = {}
        BY <1>5, <2>2, Zenon
    <3>2. QED
        BY <2>2, <3>1, Zenon DEF TimersRestarted
  <2>4. CASE ~needs
      BY <1>2, <2>3, <2>4, Zenon
  <2>5. CASE needs
    <3>1. pending_input'.timer = typed /\ pending_input'.keystrokes = call.input
        BY <2>2, <2>5
    <3>2. pending_input' # None
      <4>1. pending_input' \in Pending
          BY <1>9, StaysPending, Zenon
      <4>2. QED
          BY <4>1, NoneAssumption, Zenon
    <3>3. ASSUME NEW t \in timer_tasks'
          PROVE  t.id = typed /\ t.keystrokes = call.input
        BY <2>3, <2>5, <3>3
    <3>4. Idle'
        BY <2>2, Zenon DEF Idle
    <3>5. QED
        BY <3>1, <3>2, <3>3, <3>4, Zenon DEF TimerInv
  <2>6. QED
      BY <2>4, <2>5
<1>10. CASE DispatchNow
    BY <1>2, <1>5, <1>10, Zenon DEF DispatchNow
<1>11. ASSUME NEW task \in timer_tasks, TimerElapsed(task) PROVE TimerInv'
  <2>1. Idle
      BY <1>11, Zenon DEF TimerElapsed
  <2>2. pending_input # None /\ \A t \in timer_tasks : t.id = pending_input.timer
      BY <2>1, Zenon DEF TimerInv
  <2>3. timer_tasks' = timer_tasks \
           {t \in timer_tasks : \/ t = task
                                \/ pending_input # None /\ t.id = pending_input.timer}
      BY <1>11, Zenon DEF TimerElapsed
  <2>4. timer_tasks' = {}
      BY <2>2, <2>3, Zenon
  <2>5. QED
      BY <1>2, <2>4, Zenon
<1>12. CASE Flush
  <2>1. ~Idle /\ call.kind = "timer" /\ timer_tasks' = timer_tasks
      BY <1>12, Zenon DEF Flush
  <2>2. "timer" # "dispatch"
      OBVIOUS
  <2>3. timer_tasks' = {}
      BY <2>1, <2>2, Zenon DEF TimerInv
  <2>4. QED
      BY <1>2, <2>3, Zenon
<1>13. CASE FlushDone
  <2>1. ~Idle /\ call.kind = "flush" /\ timer_tasks' = timer_tasks
      BY <1>13 DEF FlushDone
  <2>2. "flush" # "dispatch"
      OBVIOUS
  <2>3. timer_tasks' = {}
      BY <2>1, <2>2, Zenon DEF TimerInv
  <2>4. QED
      BY <1>2, <2>3, Zenon
<1>14. ASSUME Idle, ClearPending PROVE TimerInv'
    BY <1>2, <1>3, <1>4, <1>14, Zenon DEF ClearPending
<1>15. ASSUME NEW f \in Focuses, Focus(f) PROVE TimerInv'
    BY <1>14, <1>15, Zenon DEF Focus
<1>16. CASE ClearPendingKeystrokes
    BY <1>14, <1>16, Zenon DEF ClearPendingKeystrokes
<1>17. CASE Blur
  <2>1. call' = call /\ pending_input' = pending_input /\ timer_tasks' = timer_tasks
      BY <1>17 DEF Blur
  <2>2. QED
      BY <1>6, <2>1, Zenon
<1>18. ASSUME NEW b \in Bindings, BindKeys(b) PROVE TimerInv'
  <2>1. call' = call /\ pending_input' = pending_input /\ timer_tasks' = timer_tasks
      BY <1>18 DEF BindKeys
  <2>2. QED
      BY <1>6, <2>1, Zenon
<1>19. CASE ClearKeyBindings
  <2>1. call' = call /\ pending_input' = pending_input /\ timer_tasks' = timer_tasks
      BY <1>19 DEF ClearKeyBindings
  <2>2. QED
      BY <1>6, <2>1, Zenon
<1>20. CASE UNCHANGED vars
  <2>1. call' = call /\ pending_input' = pending_input /\ timer_tasks' = timer_tasks
      BY <1>20 DEF vars
  <2>2. QED
      BY <1>6, <2>1, Zenon
<1>21. QED
    BY <1>7, <1>8, <1>9, <1>10, <1>11, <1>12, <1>13, <1>15, <1>16, <1>17, <1>18, <1>19,
       <1>20, Zenon DEF Next

\* A timer that has elapsed flushes the keystrokes it was started for, and
\* none that were typed after them.
THEOREM TimeoutIsFreshHolds == Spec => TimeoutIsFresh
<1>1. Init => TimerInv
    BY Zenon DEF Init, TimerInv
<1>2. OrderInv /\ TimerInv /\ [Next]_vars => TimerInv'
    BY TimerNext
<1>3. ASSUME TimerInv
      PROVE  [\A task \in timer_tasks :
                 TimerElapsed(task) /\ call' # None
                     => task.keystrokes = pending_input.keystrokes]_vars
    BY <1>3, Zenon DEF TimerInv, TimerElapsed
<1>4. TimerInv => [\A task \in timer_tasks :
                      TimerElapsed(task) /\ call' # None
                          => task.keystrokes = pending_input.keystrokes]_vars
    BY <1>3
<1>5. QED
    BY <1>1, <1>2, <1>4, OrderHolds, PTL DEF Spec, TimeoutIsFresh

-----------------------------------------------------------------------------
(* MatchFollowsPrecedence: the bindings that bindings_for_input returns.    *)

\* The order of matched_bindings.sort_by, for the deepest depths mx.
Before(mx, i, j) == mx[i] > mx[j] \/ (mx[i] = mx[j] /\ i > j)

SortedBy(mx, s) == \A m, n \in DOMAIN s : m < n => Before(mx, s[m], s[n])

\* One binding comes after all others.
LEMMA LastBinding ==
    ASSUME NEW A \in SUBSET Nat, NEW mx \in [A -> Nat], NEW W \in SUBSET A, W # {}
    PROVE  \E x \in W : \A y \in W : y # x => Before(mx, y, x)
<1>1. PICK U : U = {u \in Nat : \E i \in W : mx[i] = u}
    OBVIOUS
<1>2. U \in SUBSET Nat /\ U # {}
  <2>1. PICK i \in W : TRUE
      OBVIOUS
  <2>2. mx[i] \in U
      BY <1>1
  <2>3. QED
      BY <1>1, <2>2
<1>3. PICK u \in U : \A v \in U : u <= v
    BY <1>2, LeastNat, Zenon
<1>4. PICK X : X = {i \in W : mx[i] = u}
    OBVIOUS
<1>5. X \in SUBSET Nat /\ X # {}
    BY <1>1, <1>3, <1>4
<1>6. PICK x \in X : \A y \in X : x <= y
    BY <1>5, LeastNat, Zenon
<1>7. x \in W /\ mx[x] = u /\ u \in Nat
    BY <1>1, <1>3, <1>4, <1>6
<1>8. ASSUME NEW y \in W, y # x PROVE Before(mx, y, x)
  <2>1. mx[y] \in U /\ mx[y] \in Nat /\ y \in Nat /\ x \in Nat
      BY <1>1, <1>7
  <2>2. u <= mx[y]
      BY <1>3, <2>1, Zenon
  <2>3. CASE mx[y] = u
    <3>1. y \in X
        BY <1>4, <2>3
    <3>2. x <= y
        BY <1>6, <3>1, Zenon
    <3>3. y > x
        BY <1>8, <2>1, <3>2
    <3>4. QED
        BY <1>7, <2>3, <3>3 DEF Before
  <2>4. CASE mx[y] # u
    <3>1. mx[y] > mx[x]
        BY <1>7, <2>1, <2>2, <2>4
    <3>2. QED
        BY <3>1 DEF Before
  <2>5. QED
      BY <2>3, <2>4
<1>9. QED
    BY <1>7, <1>8

\* A finite set of bindings can be sorted.
LEMMA CanSort ==
    ASSUME NEW A \in SUBSET Nat, NEW mx \in [A -> Nat], NEW c \in Nat,
           NEW W \in SUBSET A, IsFiniteSet(W), Cardinality(W) = c
    PROVE  \E s \in [1..c -> W] : SortedBy(mx, s)
<1>1. PICK T : T = {n \in Nat : \A V \in SUBSET A : IsFiniteSet(V) /\ Cardinality(V) = n
                                    => \E s \in [1..n -> V] : SortedBy(mx, s)}
    OBVIOUS
<1>2. 0 \in T
  <2>1. ASSUME NEW V \in SUBSET A PROVE \E s \in [1..0 -> V] : SortedBy(mx, s)
    <3>1. PICK s : s = [i \in 1..0 |-> i]
        OBVIOUS
    <3>2. s \in [1..0 -> V] /\ DOMAIN s = {}
        BY <3>1
    <3>3. SortedBy(mx, s)
        BY <3>2, Zenon DEF SortedBy
    <3>4. QED
        BY <3>2, <3>3, Zenon
  <2>2. 0 \in Nat
      OBVIOUS
  <2>3. QED
      BY <1>1, <2>1, <2>2, Zenon
<1>3. ASSUME NEW n \in T PROVE n + 1 \in T
  <2>1. n \in Nat /\ \A V \in SUBSET A : IsFiniteSet(V) /\ Cardinality(V) = n
                                => \E s \in [1..n -> V] : SortedBy(mx, s)
      BY <1>1, Zenon
  <2>2. ASSUME NEW V \in SUBSET A, IsFiniteSet(V), Cardinality(V) = n + 1
        PROVE  \E s \in [1..(n + 1) -> V] : SortedBy(mx, s)
    <3>1. V # {}
      <4>1. n + 1 # 0
          BY <2>1
      <4>2. QED
          BY <2>2, <4>1, FS_EmptySet, Zenon
    <3>2. PICK x \in V : \A y \in V : y # x => Before(mx, y, x)
        BY <3>1, LastBinding, Zenon
    <3>3. PICK R : R = V \ {x}
        OBVIOUS
    <3>4. IsFiniteSet(R) /\ Cardinality(R) = n /\ R \in SUBSET A
      <4>1. IsFiniteSet(R) /\ Cardinality(R) = Cardinality(V) - 1
          BY <2>2, <3>2, <3>3, FS_RemoveElement, Zenon
      <4>2. (n + 1) - 1 = n
          BY <2>1
      <4>3. QED
          BY <2>2, <3>3, <4>1, <4>2, Zenon
    <3>5. PICK s \in [1..n -> R] : SortedBy(mx, s)
        BY <2>1, <3>4, Zenon
    <3>6. PICK t : t = [i \in 1..(n + 1) |-> IF i = n + 1 THEN x ELSE s[i]]
        OBVIOUS
    <3>7. /\ t[n + 1] = x /\ DOMAIN t = 1..(n + 1)
          /\ \A i \in 1..n : t[i] = s[i] /\ s[i] \in R
        BY <2>1, <3>6
    <3>8. \A i \in 1..(n + 1) : i # n + 1 => i \in 1..n
        BY <2>1
    <3>9. t \in [1..(n + 1) -> V]
      <4>1. \A i \in 1..(n + 1) : t[i] \in V
          BY <3>2, <3>3, <3>7, <3>8, Zenon
      <4>2. QED
          BY <3>6, <4>1
    <3>10. ASSUME NEW i \in 1..(n + 1), NEW j \in 1..(n + 1), i < j
           PROVE  Before(mx, t[i], t[j])
      <4>1. i \in 1..n
          BY <2>1, <3>10
      <4>2. CASE j = n + 1
        <5>1. t[i] \in V /\ t[i] # x
            BY <3>3, <3>7, <4>1
        <5>2. QED
            BY <3>2, <3>7, <4>2, <5>1, Zenon
      <4>3. CASE j # n + 1
        <5>1. j \in 1..n
            BY <3>8, <4>3
        <5>2. DOMAIN s = 1..n
            OBVIOUS
        <5>3. Before(mx, s[i], s[j])
            BY <3>5, <3>10, <4>1, <5>1, <5>2, Zenon DEF SortedBy
        <5>4. QED
            BY <3>7, <4>1, <5>1, <5>3, Zenon
      <4>4. QED
          BY <4>2, <4>3
    <3>11. SortedBy(mx, t)
        BY <3>7, <3>10, Zenon DEF SortedBy
    <3>12. QED
        BY <3>9, <3>11, Zenon
  <2>3. n + 1 \in Nat
      BY <2>1
  <2>4. QED
      BY <1>1, <2>2, <2>3, Zenon
<1>4. T = Nat
  <2>1. T \in SUBSET Nat
      BY <1>1
  <2>2. QED
      BY <1>2, <1>3, <2>1, NatInduct, Zenon
<1>5. QED
    BY <1>1, <1>4, Zenon

Covers(s, c, W) == \A x \in W : \E m \in 1..c : s[m] = x

\* A sorted sequence as long as the set has all of its elements.
LEMMA SortedHasAll ==
    ASSUME NEW A \in SUBSET Nat, NEW mx \in [A -> Nat], NEW c \in Nat,
           NEW W \in SUBSET A, IsFiniteSet(W), Cardinality(W) = c,
           NEW s \in [1..c -> W], SortedBy(mx, s)
    PROVE  Covers(s, c, W)
<1>1. \A i \in W : ~Before(mx, i, i)
    BY DEF Before
<1>2. ASSUME NEW m \in 1..c, NEW n \in 1..c, s[m] = s[n] PROVE m = n
  <2>1. DOMAIN s = 1..c /\ s[m] \in W
      OBVIOUS
  <2>2. ~(m < n) /\ ~(n < m)
      BY <1>1, <1>2, <2>1, Zenon DEF SortedBy
  <2>3. QED
      BY <2>2
<1>3. s \in Injection(1..c, W)
    BY <1>2 DEF Injection, IsInjective
<1>4. Cardinality(1..c) = c
  <2>1. 1 \in Int /\ c \in Int
      OBVIOUS
  <2>2. Cardinality(1..c) = IF 1 > c THEN 0 ELSE c - 1 + 1
      BY <2>1, FS_Interval, Zenon
  <2>3. QED
      BY <2>2
<1>5. s \in Surjection(1..c, W)
    BY <1>3, <1>4, FS_Injection, Zenon
<1>6. QED
    BY <1>5 DEF Surjection, Covers

\* s lists the matched bindings in order of precedence.
IsOrder(s, c, matched, depths) ==
    /\ c \in Nat /\ s \in [1..c -> matched]
    /\ \A m, n \in 1..c : m < n => Precedes(depths, s[m], s[n])
    /\ Covers(s, c, matched)

\* sort_by sorts; no two bindings precede each other.
LEMMA SortedIsOrder ==
    ASSUME NEW N \in Nat, NEW M \in Nat, NEW matched \in SUBSET (1..N), NEW depths,
           \A i \in matched : depths[i] \in SUBSET (0..M) /\ depths[i] # {}
    PROVE  /\ IsOrder(Sorted(matched, depths), Cardinality(matched), matched, depths)
           /\ \A i, j \in matched : Precedes(depths, i, j) => ~Precedes(depths, j, i)
<1>1. PICK c : c = Cardinality(matched)
    OBVIOUS
<1>2. IsFiniteSet(matched) /\ c \in Nat
  <2>1. 1 \in Int /\ N \in Int
      OBVIOUS
  <2>2. IsFiniteSet(1..N)
      BY <2>1, FS_Interval, Zenon
  <2>3. IsFiniteSet(matched)
      BY <2>2, FS_Subset, Zenon
  <2>4. QED
      BY <1>1, <2>3, FS_CardinalityType, Zenon
<1>3. ASSUME NEW i \in matched PROVE Max(depths[i]) \in Nat
  <2>1. PICK D \in SUBSET (0..M) : D = depths[i] /\ D # {}
      OBVIOUS
  <2>2. Max(D) \in D
      BY <2>1, MaxOf, Zenon
  <2>3. QED
      BY <2>1, <2>2
<1>4. PICK mx : mx = [i \in matched |-> Max(depths[i])]
    OBVIOUS
<1>5. mx \in [matched -> Nat]
    BY <1>3, <1>4
<1>6. ASSUME NEW i \in matched, NEW j \in matched
      PROVE  Precedes(depths, i, j) <=> Before(mx, i, j)
    BY <1>4, Zenon DEF Precedes, Before
<1>7. matched \in SUBSET Nat /\ matched \in SUBSET matched
    OBVIOUS
<1>8. ASSUME NEW s \in [1..c -> matched]
      PROVE  SortedBy(mx, s) <=> \A m, n \in DOMAIN s : m < n => Precedes(depths, s[m], s[n])
  <2>1. \A m \in DOMAIN s : s[m] \in matched
      OBVIOUS
  <2>2. QED
      BY <1>6, <2>1, Zenon DEF SortedBy
<1>9. \E s \in [1..c -> matched] : SortedBy(mx, s)
    BY <1>1, <1>2, <1>5, <1>7, CanSort, Zenon
<1>10. \E s \in [1..c -> matched] : \A m, n \in DOMAIN s : m < n => Precedes(depths, s[m], s[n])
    BY <1>8, <1>9, Zenon
<1>11. PICK s : s = Sorted(matched, depths)
    OBVIOUS
<1>12. s \in [1..c -> matched] /\ \A m, n \in DOMAIN s : m < n => Precedes(depths, s[m], s[n])
    BY <1>1, <1>10, <1>11, Zenon DEF Sorted
<1>13. SortedBy(mx, s)
    BY <1>8, <1>12, Zenon
<1>14. Covers(s, c, matched)
  <2>1. Cardinality(matched) = c /\ s \in [1..c -> matched]
      BY <1>1, <1>12, Zenon
  <2>2. PICK A, W : A = matched /\ W = matched
      OBVIOUS
  <2>3. /\ A \in SUBSET Nat /\ mx \in [A -> Nat] /\ W \in SUBSET A
        /\ IsFiniteSet(W) /\ Cardinality(W) = c /\ s \in [1..c -> W]
      BY <1>2, <1>5, <1>7, <2>1, <2>2, Zenon
  <2>4. Covers(s, c, W)
      BY <1>2, <1>13, <2>3, SortedHasAll, Zenon
  <2>5. QED
      BY <2>2, <2>4, Zenon
<1>15. DOMAIN s = 1..c
    BY <1>12
<1>16. IsOrder(s, c, matched, depths)
    BY <1>2, <1>12, <1>14, <1>15, Zenon DEF IsOrder
<1>17. ASSUME NEW i \in matched, NEW j \in matched, Precedes(depths, i, j)
       PROVE  ~Precedes(depths, j, i)
  <2>1. PICK u, v : u = Max(depths[i]) /\ v = Max(depths[j])
      OBVIOUS
  <2>a. u \in Nat /\ v \in Nat
      BY <1>3, <2>1, Zenon
  <2>2. i \in Nat /\ j \in Nat
      BY <1>7, Zenon
  <2>3. u > v \/ (u = v /\ i > j)
      BY <1>17, <2>1 DEF Precedes
  <2>4. ~(v > u \/ (v = u /\ j > i))
      BY <2>a, <2>2, <2>3
  <2>5. QED
      BY <2>1, <2>4 DEF Precedes
<1>18. QED
    BY <1>1, <1>11, <1>16, <1>17, Zenon

\* What the loop over the matched bindings keeps.
Loops(W) == [bindings: Seq(W), unbound: SUBSET W, stopped: BOOLEAN]

\* One round of the loop.
LEMMA VisitType ==
    ASSUME NEW K, NEW W, NEW acc \in Loops(W), NEW i \in W, K[i].user \in BOOLEAN
    PROVE  VisitMatched(K, acc, i) \in Loops(W)
<1>1. acc.bindings \in Seq(W) /\ acc.unbound \in SUBSET W /\ acc.stopped \in BOOLEAN
    BY DEF Loops
<1>2. PICK u : u = K[i].user
    OBVIOUS
<1>3. [acc EXCEPT !.stopped = u] \in Loops(W)
    BY <1>2 DEF Loops
<1>4. [acc EXCEPT !.unbound = @ \union {i}] \in Loops(W)
  <2>1. PICK v \in SUBSET W : v = acc.unbound \union {i}
      BY <1>1
  <2>2. [acc EXCEPT !.unbound = v] \in Loops(W)
      BY DEF Loops
  <2>3. QED
      BY <2>1, <2>2, Zenon
<1>5. [acc EXCEPT !.bindings = Append(@, i)] \in Loops(W)
  <2>1. PICK b \in Seq(W) : b = acc.bindings
      BY <1>1
  <2>2. Append(b, i) \in Seq(W)
      OBVIOUS
  <2>3. PICK v \in Seq(W) : v = Append(acc.bindings, i)
      BY <2>1, <2>2, Zenon
  <2>4. [acc EXCEPT !.bindings = v] \in Loops(W)
      BY DEF Loops
  <2>5. QED
      BY <2>3, <2>4, Zenon
<1>6. QED
    BY <1>2, <1>3, <1>4, <1>5, Zenon DEF VisitMatched

\* g[n] is what the loop has found after n rounds.
LoopIs(g, K, s, c, W) ==
    /\ g \in [0..c -> Loops(W)]
    /\ g[0] = [bindings |-> <<>>, unbound |-> {}, stopped |-> FALSE]
    /\ \A n \in 1..c : g[n] = VisitMatched(K, g[n - 1], s[n])

LEMMA VisitedRecursion ==
    ASSUME NEW K, NEW W, NEW c \in Nat, NEW s \in [1..c -> W],
           \A i \in W : K[i].user \in BOOLEAN
    PROVE  LoopIs(Visited(K, s), K, s, c, W)
<1>1. PICK D, V : D = 0..c /\ V = Loops(W)
    OBVIOUS
<1>2. Len(s) = c
  <2>1. s \in Seq(W) /\ DOMAIN s = 1..c
      OBVIOUS
  <2>2. QED
      BY <2>1
<1>3. PICK start : start = [bindings |-> <<>>, unbound |-> {}, stopped |-> FALSE]
    OBVIOUS
<1>4. start \in V
  <2>1. <<>> \in Seq(W)
      OBVIOUS
  <2>2. {} \in SUBSET W /\ FALSE \in BOOLEAN
      OBVIOUS
  <2>3. QED
      BY <1>1, <1>3, <2>1, <2>2, Zenon DEF Loops
<1>5. ASSUME NEW n \in D, n # 0 PROVE n \in 1..c /\ n - 1 \in D /\ n - 1 < n
    BY <1>1, <1>5
<1>6. ASSUME NEW n \in D, n # 0, NEW acc \in V PROVE VisitMatched(K, acc, s[n]) \in V
  <2>1. s[n] \in W
      BY <1>5, <1>6
  <2>2. QED
      BY <1>1, <2>1, VisitType, Zenon
<1>7. PICK size : size = [n \in D |-> n]
    OBVIOUS
<1>8. size \in [D -> 0..c]
    BY <1>1, <1>7
<1>9. PICK B : B = [z \in [D -> V] \X D |->
                       IF z[2] = 0 THEN start
                       ELSE VisitMatched(K, z[1][z[2] - 1], s[z[2]])]
    OBVIOUS
<1>10. \A g \in [D -> V], n \in D :
          B[<<g, n>>] = IF n = 0 THEN start ELSE VisitMatched(K, g[n - 1], s[n])
    BY <1>9
<1>11. B \in [[D -> V] \X D -> V]
  <2>1. ASSUME NEW g \in [D -> V], NEW n \in D PROVE B[<<g, n>>] \in V
    <3>1. CASE n = 0
        BY <1>4, <1>10, <3>1, Zenon
    <3>2. CASE n # 0
      <4>1. n - 1 \in D
          BY <1>5, <3>2, Zenon
      <4>2. g[n - 1] \in V
          BY <4>1
      <4>3. QED
          BY <1>6, <1>10, <3>2, <4>2, Zenon
    <3>3. QED
        BY <3>1, <3>2
  <2>2. \A z \in [D -> V] \X D : z = <<z[1], z[2]>> /\ z[1] \in [D -> V] /\ z[2] \in D
      OBVIOUS
  <2>3. \A z \in [D -> V] \X D : B[z] \in V
      BY <2>1, <2>2, Zenon
  <2>4. QED
      BY <1>9, <2>3
<1>12. LooksDown(D, V, size, B)
  <2>1. ASSUME NEW g \in [D -> V], NEW h \in [D -> V], NEW n \in D,
               \A y \in D : size[y] < size[n] => g[y] = h[y]
        PROVE  B[<<g, n>>] = B[<<h, n>>]
    <3>1. CASE n = 0
        BY <1>10, <3>1, Zenon
    <3>2. CASE n # 0
      <4>1. n - 1 \in D /\ n - 1 < n
          BY <1>5, <3>2, Zenon
      <4>2. size[n - 1] < size[n]
          BY <1>7, <4>1
      <4>3. g[n - 1] = h[n - 1]
          BY <2>1, <4>1, <4>2, Zenon
      <4>4. /\ B[<<g, n>>] = VisitMatched(K, g[n - 1], s[n])
            /\ B[<<h, n>>] = VisitMatched(K, h[n - 1], s[n])
          BY <1>10, <3>2, Zenon
      <4>5. QED
          BY <4>3, <4>4, Zenon
    <3>3. QED
        BY <3>1, <3>2
  <2>2. QED
      BY <2>1, Zenon DEF LooksDown
<1>13. PICK g : Solves(g, D, V, B)
  <2>1. V # {}
      BY <1>4
  <2>2. QED
      BY <1>8, <1>11, <1>12, <2>1, RecursiveFunction, Zenon
<1>14. \A n \in D : g[n] = IF n = 0 THEN start ELSE VisitMatched(K, g[n - 1], s[n])
    BY <1>10, <1>13, Zenon DEF Solves
<1>15. g \in [D -> V]
    BY <1>13, Zenon DEF Solves
<1>16. g = [n \in 0..Len(s) |-> IF n = 0 THEN [bindings |-> <<>>, unbound |-> {}, stopped |-> FALSE]
                                ELSE VisitMatched(K, g[n - 1], s[n])]
  <2>1. DOMAIN g = D /\ g = [n \in DOMAIN g |-> g[n]]
      BY <1>15
  <2>2. QED
      BY <1>1, <1>2, <1>3, <1>14, <2>1, Zenon
<1>17. PICK v : v = Visited(K, s)
    OBVIOUS
<1>18. v = [n \in 0..Len(s) |-> IF n = 0 THEN [bindings |-> <<>>, unbound |-> {}, stopped |-> FALSE]
                                ELSE VisitMatched(K, v[n - 1], s[n])]
    BY <1>16, <1>17, Zenon DEF Visited
<1>19. \A n \in D : v[n] = IF n = 0 THEN start ELSE VisitMatched(K, v[n - 1], s[n])
    BY <1>1, <1>2, <1>3, <1>18, Zenon
<1>20. v[0] = start
  <2>1. 0 \in D
      BY <1>1
  <2>2. QED
      BY <1>19, <2>1, Zenon
<1>21. \A n \in D : v[n] \in V
  <2>1. PICK T : T = {n \in Nat : n \in D => v[n] \in V}
      OBVIOUS
  <2>2. 0 \in T
      BY <1>4, <1>20, <2>1
  <2>3. ASSUME NEW n \in T PROVE n + 1 \in T
    <3>1. n \in Nat /\ (n \in D => v[n] \in V)
        BY <2>1
    <3>2. ASSUME n + 1 \in D PROVE v[n + 1] \in V
      <4>1. n \in D /\ n + 1 # 0 /\ (n + 1) - 1 = n
          BY <1>1, <3>1, <3>2
      <4>2. v[n + 1] = VisitMatched(K, v[n], s[n + 1])
          BY <1>19, <3>2, <4>1, Zenon
      <4>3. QED
          BY <1>6, <3>1, <3>2, <4>1, <4>2, Zenon
    <3>3. QED
        BY <2>1, <3>1, <3>2
  <2>4. T = Nat
    <3>1. T \in SUBSET Nat
        BY <2>1
    <3>2. QED
        BY <2>2, <2>3, <3>1, NatInduct, Zenon
  <2>5. QED
      BY <1>1, <2>1, <2>4
<1>22. v \in [D -> V]
  <2>1. v = [n \in D |-> v[n]]
      BY <1>1, <1>2, <1>18
  <2>2. QED
      BY <1>21, <2>1
<1>23. \A n \in 1..c : v[n] = VisitMatched(K, v[n - 1], s[n])
  <2>1. \A n \in 1..c : n \in D /\ n # 0
      BY <1>1
  <2>2. QED
      BY <1>19, <2>1, Zenon
<1>24. QED
    BY <1>1, <1>3, <1>17, <1>20, <1>22, <1>23, Zenon DEF LoopIs

\* What ends the loop, what skips a binding, and what is found.
Stops(K, j) == is_no_action(K[j]) /\ K[j].user
Skips(K, j, i) == is_unbind(K[j]) /\ K[j].unbinds = K[i].action
Survives(K, s, l) ==
    /\ ~IsDisabling(K[s[l]])
    /\ \A m \in 1..(l - 1) : ~Stops(K, s[m]) /\ ~Skips(K, s[m], s[l])

StoppedBy(K, s, n) == \E l \in 1..n : Stops(K, s[l])
UnboundBy(K, s, n, u) == \E l \in 1..n : u = s[l] /\ is_unbind(K[s[l]])
FoundBy(K, s, n, i) == \E l \in 1..n : i = s[l] /\ Survives(K, s, l)
Has(bindings, i) == \E p \in 1..Len(bindings) : i = bindings[p]
Ordered(bindings, depths) ==
    \A p, q \in 1..Len(bindings) : p < q => Precedes(depths, bindings[p], bindings[q])

\* The loop after n rounds.
FoundAfter(acc, K, s, n, depths) ==
    /\ acc.stopped <=> StoppedBy(K, s, n)
    /\ ~acc.stopped => \A u : u \in acc.unbound <=> UnboundBy(K, s, n, u)
    /\ \A i : Has(acc.bindings, i) <=> FoundBy(K, s, n, i)
    /\ Ordered(acc.bindings, depths)

\* The binding i takes part in the loop as the one after n.
GrowsBy(K, s, n, i) ==
    /\ StoppedBy(K, s, n + 1) <=> StoppedBy(K, s, n) \/ Stops(K, i)
    /\ \A u : UnboundBy(K, s, n + 1, u) <=> UnboundBy(K, s, n, u) \/ (u = i /\ is_unbind(K[i]))
    /\ \A j : FoundBy(K, s, n + 1, j) <=> FoundBy(K, s, n, j) \/ (j = i /\ Survives(K, s, n + 1))
    /\ Survives(K, s, n + 1)
          <=> /\ ~IsDisabling(K[i]) /\ ~StoppedBy(K, s, n)
              /\ \A u : UnboundBy(K, s, n, u) => K[u].unbinds # K[i].action

\* One more round.
LEMMA RoundMore ==
    ASSUME NEW K, NEW s, NEW n \in Nat, NEW i, i = s[n + 1]
    PROVE  GrowsBy(K, s, n, i)
<1>1. /\ \A l \in 1..(n + 1) : l \in 1..n \/ l = n + 1
      /\ \A l \in 1..n : l \in 1..(n + 1)
      /\ n + 1 \in 1..(n + 1) /\ (n + 1) - 1 = n
    OBVIOUS
<1>2. StoppedBy(K, s, n + 1) <=> StoppedBy(K, s, n) \/ Stops(K, i)
    BY <1>1, Zenon DEF StoppedBy
<1>3. ASSUME NEW u
      PROVE  UnboundBy(K, s, n + 1, u)
                <=> UnboundBy(K, s, n, u) \/ (u = i /\ is_unbind(K[i]))
    BY <1>1, Zenon DEF UnboundBy
<1>4. ASSUME NEW j
      PROVE  FoundBy(K, s, n + 1, j)
                <=> FoundBy(K, s, n, j) \/ (j = i /\ Survives(K, s, n + 1))
    BY <1>1, Zenon DEF FoundBy
<1>5. Survives(K, s, n + 1)
         <=> /\ ~IsDisabling(K[i])
             /\ \A m \in 1..n : ~Stops(K, s[m]) /\ ~Skips(K, s[m], i)
    BY <1>1, Zenon DEF Survives
<1>6. (\A m \in 1..n : ~Skips(K, s[m], i))
         <=> \A u : UnboundBy(K, s, n, u) => K[u].unbinds # K[i].action
    BY Zenon DEF Skips, UnboundBy
<1>7. (\A m \in 1..n : ~Stops(K, s[m])) <=> ~StoppedBy(K, s, n)
    BY Zenon DEF StoppedBy
<1>8. QED
    BY <1>2, <1>3, <1>4, <1>5, <1>6, <1>7, Zenon DEF GrowsBy

\* One more binding that comes after those that are found.
LEMMA BindingMore ==
    ASSUME NEW W, NEW bs \in Seq(W), NEW i \in W, NEW depths, Ordered(bs, depths),
           \A j : Has(bs, j) => Precedes(depths, j, i)
    PROVE  /\ \A j : Has(Append(bs, i), j) <=> Has(bs, j) \/ j = i
           /\ Ordered(Append(bs, i), depths)
<1>1. PICK n \in Nat : n = Len(bs)
    OBVIOUS
<1>2. PICK cs : cs = Append(bs, i)
    OBVIOUS
<1>3. Len(cs) = n + 1 /\ cs[n + 1] = i /\ \A p \in 1..n : cs[p] = bs[p]
    BY <1>1, <1>2
<1>4. /\ \A p \in 1..(n + 1) : p \in 1..n \/ p = n + 1
      /\ \A p \in 1..n : p \in 1..(n + 1)
      /\ n + 1 \in 1..(n + 1)
    OBVIOUS
<1>5. ASSUME NEW j PROVE Has(cs, j) <=> Has(bs, j) \/ j = i
    BY <1>1, <1>3, <1>4, Zenon DEF Has
<1>6. ASSUME NEW p \in 1..(n + 1), NEW q \in 1..(n + 1), p < q
      PROVE  Precedes(depths, cs[p], cs[q])
  <2>1. p \in 1..n
      BY <1>6
  <2>2. CASE q = n + 1
    <3>1. Has(bs, bs[p])
        BY <1>1, <2>1, Zenon DEF Has
    <3>2. QED
        BY <1>3, <2>1, <2>2, <3>1, Zenon
  <2>3. CASE q # n + 1
    <3>1. q \in 1..n
        BY <1>4, <2>3
    <3>2. Precedes(depths, bs[p], bs[q])
        BY <1>1, <1>6, <2>1, <3>1, Zenon DEF Ordered
    <3>3. QED
        BY <1>3, <2>1, <3>1, <3>2, Zenon
  <2>4. QED
      BY <2>2, <2>3
<1>7. Ordered(cs, depths)
    BY <1>3, <1>6, Zenon DEF Ordered
<1>8. QED
    BY <1>2, <1>5, <1>7, Zenon

\* A round of the loop finds what survives.
LEMMA RoundFinds ==
    ASSUME NEW K, NEW W, NEW c, NEW s, NEW depths, NEW input, IsOrder(s, c, W, depths),
           \A i \in W : K[i].keystrokes = input /\ K[i].user \in BOOLEAN,
           NEW n \in Nat, n + 1 \in 1..c,
           NEW acc \in Loops(W), FoundAfter(acc, K, s, n, depths)
    PROVE  FoundAfter(VisitMatched(K, acc, s[n + 1]), K, s, n + 1, depths)
<1>1. PICK i : i = s[n + 1]
    OBVIOUS
<1>2. /\ c \in Nat /\ \A l \in 1..c : s[l] \in W
      /\ \A l, m \in 1..c : l < m => Precedes(depths, s[l], s[m])
    BY DEF IsOrder
<1>3. \A l \in 1..n : l \in 1..c /\ l < n + 1
    BY <1>2
<1>4. i \in W /\ K[i].keystrokes = input /\ K[i].user \in BOOLEAN
    BY <1>1, <1>2, Zenon
<1>5. /\ acc.stopped <=> StoppedBy(K, s, n)
      /\ ~acc.stopped => \A u : u \in acc.unbound <=> UnboundBy(K, s, n, u)
      /\ \A j : Has(acc.bindings, j) <=> FoundBy(K, s, n, j)
      /\ Ordered(acc.bindings, depths)
    BY Zenon DEF FoundAfter
<1>6. acc.bindings \in Seq(W) /\ acc.unbound \in SUBSET W /\ acc.stopped \in BOOLEAN
    BY DEF Loops
<1>7. GrowsBy(K, s, n, i)
    BY <1>1, RoundMore, Zenon
<1>8. PICK new : new = VisitMatched(K, acc, i)
    OBVIOUS
<1>a. SUFFICES FoundAfter(new, K, s, n + 1, depths)
    BY <1>1, <1>8, Zenon
<1>g. /\ StoppedBy(K, s, n + 1) <=> StoppedBy(K, s, n) \/ Stops(K, i)
      /\ \A u : UnboundBy(K, s, n + 1, u) <=> UnboundBy(K, s, n, u) \/ (u = i /\ is_unbind(K[i]))
      /\ \A j : FoundBy(K, s, n + 1, j) <=> FoundBy(K, s, n, j) \/ (j = i /\ Survives(K, s, n + 1))
      /\ Survives(K, s, n + 1)
            <=> /\ ~IsDisabling(K[i]) /\ ~StoppedBy(K, s, n)
                /\ \A u : UnboundBy(K, s, n, u) => K[u].unbinds # K[i].action
    BY <1>7, Zenon DEF GrowsBy
<1>9. ~(is_no_action(K[i]) /\ is_unbind(K[i]))
    BY DEF is_no_action, is_unbind
<1>10. ASSUME new.bindings = acc.bindings, ~Survives(K, s, n + 1),
              new.stopped <=> StoppedBy(K, s, n + 1),
              ~new.stopped => \A u : u \in new.unbound <=> UnboundBy(K, s, n + 1, u)
       PROVE  FoundAfter(new, K, s, n + 1, depths)
    BY <1>5, <1>g, <1>10, Zenon DEF FoundAfter
<1>11. CASE acc.stopped
  <2>1. new = acc
      BY <1>8, <1>11, Zenon DEF VisitMatched
  <2>2. QED
      BY <1>5, <1>g, <1>10, <1>11, <2>1, Zenon
<1>12. CASE ~acc.stopped /\ is_no_action(K[i])
  <2>1. PICK u : u = K[i].user /\ u \in BOOLEAN
      BY <1>4, Zenon
  <2>2. new = [acc EXCEPT !.stopped = u]
      BY <1>8, <1>12, <2>1, Zenon DEF VisitMatched
  <2>3. new.bindings = acc.bindings /\ new.unbound = acc.unbound /\ new.stopped = u
      BY <2>2 DEF Loops
  <2>4. new.stopped <=> StoppedBy(K, s, n + 1)
      BY <1>5, <1>g, <1>12, <2>1, <2>3, Zenon DEF Stops
  <2>5. ~Survives(K, s, n + 1)
      BY <1>g, <1>12, Zenon DEF IsDisabling
  <2>6. \A v : v \in new.unbound <=> UnboundBy(K, s, n + 1, v)
      BY <1>5, <1>g, <1>9, <1>12, <2>3, Zenon
  <2>7. QED
      BY <1>10, <2>3, <2>4, <2>5, <2>6, Zenon
<1>13. CASE ~acc.stopped /\ ~is_no_action(K[i]) /\ is_unbind(K[i])
  <2>1. PICK v : v = acc.unbound \union {i}
      OBVIOUS
  <2>2. new = [acc EXCEPT !.unbound = v]
      BY <1>8, <1>13, <2>1, Zenon DEF VisitMatched
  <2>3. new.bindings = acc.bindings /\ new.unbound = v /\ new.stopped = acc.stopped
      BY <2>2 DEF Loops
  <2>4. new.stopped <=> StoppedBy(K, s, n + 1)
      BY <1>5, <1>g, <1>13, <2>3, Zenon DEF Stops
  <2>5. ~Survives(K, s, n + 1)
      BY <1>g, <1>13, Zenon DEF IsDisabling
  <2>6. \A u : u \in v <=> u \in acc.unbound \/ u = i
      BY <2>1
  <2>7. \A u : u \in new.unbound <=> UnboundBy(K, s, n + 1, u)
      BY <1>5, <1>g, <1>13, <2>3, <2>6, Zenon
  <2>8. QED
      BY <1>10, <2>3, <2>4, <2>5, <2>7, Zenon
<1>14. CASE ~acc.stopped /\ ~IsDisabling(K[i])
  <2>1. ~is_no_action(K[i]) /\ ~is_unbind(K[i])
      BY <1>14, Zenon DEF IsDisabling
  <2>2. \A u \in W : binding_is_unbound(K[u], K[i])
                        <=> is_unbind(K[u]) /\ K[u].unbinds = K[i].action
      BY <1>4, Zenon DEF binding_is_unbound
  <2>3. \A u : u \in acc.unbound <=> UnboundBy(K, s, n, u)
      BY <1>5, <1>14, Zenon
  <2>4. \A u \in acc.unbound : u \in W /\ is_unbind(K[u])
      BY <1>6, <2>3, Zenon DEF UnboundBy
  <2>5. (\E u \in acc.unbound : binding_is_unbound(K[u], K[i]))
           <=> \E u : UnboundBy(K, s, n, u) /\ K[u].unbinds = K[i].action
      BY <2>2, <2>3, <2>4, Zenon
  <2>6. StoppedBy(K, s, n + 1) <=> acc.stopped
      BY <1>5, <1>g, <2>1, Zenon DEF Stops
  <2>7. \A u : UnboundBy(K, s, n + 1, u) <=> u \in acc.unbound
      BY <1>g, <2>1, <2>3, Zenon
  <2>8. CASE \E u \in acc.unbound : binding_is_unbound(K[u], K[i])
    <3>1. new = acc
        BY <1>8, <1>14, <2>1, <2>8, Zenon DEF VisitMatched
    <3>2. ~Survives(K, s, n + 1)
        BY <1>g, <2>5, <2>8, Zenon
    <3>3. QED
        BY <1>10, <2>6, <2>7, <3>1, <3>2, Zenon
  <2>9. CASE ~(\E u \in acc.unbound : binding_is_unbound(K[u], K[i]))
    <3>1. PICK bs : bs = acc.bindings
        OBVIOUS
    <3>2. PICK cs : cs = Append(bs, i)
        OBVIOUS
    <3>3. new = [acc EXCEPT !.bindings = cs]
        BY <1>8, <1>14, <2>1, <2>9, <3>1, <3>2, Zenon DEF VisitMatched
    <3>4. new.bindings = cs /\ new.unbound = acc.unbound /\ new.stopped = acc.stopped
        BY <3>3 DEF Loops
    <3>5. Survives(K, s, n + 1)
        BY <1>5, <1>g, <1>14, <2>5, <2>9, Zenon
    <3>6. ASSUME NEW j, Has(bs, j) PROVE Precedes(depths, j, i)
      <4>1. FoundBy(K, s, n, j)
          BY <1>5, <3>1, <3>6, Zenon
      <4>2. PICK l \in 1..n : j = s[l]
          BY <4>1, Zenon DEF FoundBy
      <4>3. QED
          BY <1>1, <1>2, <1>3, <4>2, Zenon
    <3>7. bs \in Seq(W) /\ Ordered(bs, depths)
        BY <1>5, <1>6, <3>1, Zenon
    <3>8. (\A j : Has(cs, j) <=> Has(bs, j) \/ j = i) /\ Ordered(cs, depths)
        BY <1>4, <3>2, <3>6, <3>7, BindingMore, Zenon
    <3>9. \A j : Has(cs, j) <=> FoundBy(K, s, n + 1, j)
        BY <1>5, <1>g, <3>1, <3>5, <3>8, Zenon
    <3>10. QED
        BY <2>6, <2>7, <3>4, <3>8, <3>9, Zenon DEF FoundAfter
  <2>10. QED
      BY <2>8, <2>9
<1>15. QED
    BY <1>11, <1>12, <1>13, <1>14, Zenon DEF IsDisabling

\* All rounds of the loop.
LEMMA LoopFinds ==
    ASSUME NEW K, NEW W, NEW c \in Nat, NEW s, NEW depths, NEW input, IsOrder(s, c, W, depths),
           \A i \in W : K[i].keystrokes = input /\ K[i].user \in BOOLEAN,
           NEW g, LoopIs(g, K, s, c, W)
    PROVE  FoundAfter(g[c], K, s, c, depths)
<1>1. PICK T : T = {n \in Nat : n \in 0..c => FoundAfter(g[n], K, s, n, depths)}
    OBVIOUS
<1>2. /\ g \in [0..c -> Loops(W)]
      /\ g[0] = [bindings |-> <<>>, unbound |-> {}, stopped |-> FALSE]
      /\ \A n \in 1..c : g[n] = VisitMatched(K, g[n - 1], s[n])
    BY Zenon DEF LoopIs
<1>3. 0 \in T
  <2>1. PICK acc : acc = g[0]
      OBVIOUS
  <2>2. acc.bindings = <<>> /\ acc.unbound = {} /\ acc.stopped = FALSE
      BY <1>2, <2>1
  <2>3. \A l \in 1..0 : FALSE
      OBVIOUS
  <2>4. 1..Len(<<>>) = 1..0
      OBVIOUS
  <2>5. acc.stopped <=> StoppedBy(K, s, 0)
      BY <2>2, <2>3, Zenon DEF StoppedBy
  <2>6. \A u : u \in acc.unbound <=> UnboundBy(K, s, 0, u)
      BY <2>2, <2>3, Zenon DEF UnboundBy
  <2>7. \A i : Has(acc.bindings, i) <=> FoundBy(K, s, 0, i)
      BY <2>2, <2>3, <2>4, Zenon DEF Has, FoundBy
  <2>8. Ordered(acc.bindings, depths)
      BY <2>2, <2>3, <2>4, Zenon DEF Ordered
  <2>9. FoundAfter(acc, K, s, 0, depths)
      BY <2>5, <2>6, <2>7, <2>8, Zenon DEF FoundAfter
  <2>10. QED
      BY <1>1, <2>1, <2>9
<1>4. ASSUME NEW n \in T PROVE n + 1 \in T
  <2>1. n \in Nat /\ (n \in 0..c => FoundAfter(g[n], K, s, n, depths))
      BY <1>1, Zenon
  <2>2. ASSUME n + 1 \in 0..c PROVE FoundAfter(g[n + 1], K, s, n + 1, depths)
    <3>1. n \in 0..c /\ n + 1 \in 1..c /\ (n + 1) - 1 = n
        BY <2>1, <2>2
    <3>2. g[n + 1] = VisitMatched(K, g[n], s[n + 1])
        BY <1>2, <3>1, Zenon
    <3>3. PICK acc : acc = g[n]
        OBVIOUS
    <3>4. acc \in Loops(W) /\ FoundAfter(acc, K, s, n, depths)
        BY <1>2, <2>1, <3>1, <3>3
    <3>5. FoundAfter(VisitMatched(K, acc, s[n + 1]), K, s, n + 1, depths)
        BY <2>1, <3>1, <3>4, RoundFinds, Zenon
    <3>6. QED
        BY <3>2, <3>3, <3>5, Zenon
  <2>3. n + 1 \in Nat
      BY <2>1
  <2>4. QED
      BY <1>1, <2>2, <2>3, Zenon
<1>5. T = Nat
  <2>1. T \in SUBSET Nat
      BY <1>1
  <2>2. QED
      BY <1>3, <1>4, <2>1, NatInduct, Zenon
<1>6. c \in 0..c
    OBVIOUS
<1>7. QED
    BY <1>1, <1>5, <1>6, Zenon

\* A matched binding that is not disabled, and that nothing before it disables.
Fires(K, W, depths, i) ==
    /\ i \in W /\ ~IsDisabling(K[i])
    /\ \A j \in W : Precedes(depths, j, i) => ~Stops(K, j) /\ ~Skips(K, j, i)

\* Over all matched bindings, the rounds are the order of precedence.
LEMMA FiresIsFound ==
    ASSUME NEW K, NEW W, NEW c, NEW s, NEW depths, IsOrder(s, c, W, depths),
           \A i, j \in W : Precedes(depths, i, j) => ~Precedes(depths, j, i),
           NEW i
    PROVE  FoundBy(K, s, c, i) <=> Fires(K, W, depths, i)
<1>1. /\ c \in Nat /\ \A l \in 1..c : s[l] \in W
      /\ \A m, n \in 1..c : m < n => Precedes(depths, s[m], s[n])
      /\ \A x \in W : \E m \in 1..c : s[m] = x
    BY DEF IsOrder, Covers
<1>2. ASSUME NEW l \in 1..c, NEW m \in 1..c
      PROVE  Precedes(depths, s[m], s[l]) <=> m \in 1..(l - 1)
  <2>1. m < l <=> m \in 1..(l - 1)
      BY <1>1
  <2>2. ASSUME Precedes(depths, s[m], s[l]) PROVE m < l
    <3>1. ~Precedes(depths, s[l], s[m])
        BY <1>1, <2>2, Zenon
    <3>2. ~(l < m)
        BY <1>1, <3>1, Zenon
    <3>3. l # m
        BY <2>2, <3>1, Zenon
    <3>4. QED
        BY <1>1, <3>2, <3>3
  <2>3. QED
      BY <1>1, <2>1, <2>2, Zenon
<1>3. \A l \in 1..c : \A m \in 1..(l - 1) : m \in 1..c
    BY <1>1
<1>4. ASSUME NEW l \in 1..c
      PROVE  Survives(K, s, l) <=> Fires(K, W, depths, s[l])
  <2>1. ASSUME Survives(K, s, l), NEW j \in W, Precedes(depths, j, s[l])
        PROVE  ~Stops(K, j) /\ ~Skips(K, j, s[l])
    <3>1. PICK m \in 1..c : s[m] = j
        BY <1>1, Zenon
    <3>2. m \in 1..(l - 1)
        BY <1>2, <2>1, <3>1, Zenon
    <3>3. QED
        BY <2>1, <3>1, <3>2, Zenon DEF Survives
  <2>2. ASSUME Fires(K, W, depths, s[l]), NEW m \in 1..(l - 1)
        PROVE  ~Stops(K, s[m]) /\ ~Skips(K, s[m], s[l])
    <3>1. m \in 1..c
        BY <1>3
    <3>2. Precedes(depths, s[m], s[l]) /\ s[m] \in W
        BY <1>1, <1>2, <3>1, Zenon
    <3>3. QED
        BY <2>2, <3>2, Zenon DEF Fires
  <2>3. s[l] \in W
      BY <1>1, Zenon
  <2>4. QED
      BY <2>1, <2>2, <2>3, Zenon DEF Survives, Fires
<1>5. ASSUME FoundBy(K, s, c, i) PROVE Fires(K, W, depths, i)
  <2>1. PICK l \in 1..c : i = s[l] /\ Survives(K, s, l)
      BY <1>5, Zenon DEF FoundBy
  <2>2. QED
      BY <1>4, <2>1, Zenon
<1>6. ASSUME Fires(K, W, depths, i) PROVE FoundBy(K, s, c, i)
  <2>1. i \in W
      BY <1>6, Zenon DEF Fires
  <2>2. PICK l \in 1..c : s[l] = i
      BY <1>1, <2>1, Zenon
  <2>3. Survives(K, s, l)
      BY <1>4, <1>6, <2>2, Zenon
  <2>4. QED
      BY <2>2, <2>3, Zenon DEF FoundBy
<1>7. QED
    BY <1>5, <1>6

\* What the loop returns.
Follows(bindings, K, W, depths) ==
    /\ bindings \in Seq(W)
    /\ \A i : Has(bindings, i) <=> Fires(K, W, depths, i)
    /\ Ordered(bindings, depths)

LEMMA LoopFollows ==
    ASSUME NEW K, NEW N \in Nat, NEW M \in Nat, NEW W \in SUBSET (1..N), NEW depths, NEW input,
           \A i \in W : depths[i] \in SUBSET (0..M) /\ depths[i] # {},
           \A i \in W : K[i].keystrokes = input /\ K[i].user \in BOOLEAN
    PROVE  Follows(Visited(K, Sorted(W, depths))[Cardinality(W)].bindings, K, W, depths)
<1>1. PICK s : s = Sorted(W, depths)
    OBVIOUS
<1>2. PICK c : c = Cardinality(W)
    OBVIOUS
<1>3. /\ IsOrder(s, c, W, depths)
      /\ \A i, j \in W : Precedes(depths, i, j) => ~Precedes(depths, j, i)
  <2>1. /\ IsOrder(Sorted(W, depths), Cardinality(W), W, depths)
        /\ \A i, j \in W : Precedes(depths, i, j) => ~Precedes(depths, j, i)
      BY SortedIsOrder, Zenon
  <2>2. QED
      BY <1>1, <1>2, <2>1, Zenon
<1>4. c \in Nat /\ s \in [1..c -> W]
    BY <1>3, Zenon DEF IsOrder
<1>5. PICK g : g = Visited(K, s)
    OBVIOUS
<1>6. \A i \in W : K[i].user \in BOOLEAN
    BY Zenon
<1>7. LoopIs(g, K, s, c, W)
    BY <1>4, <1>5, <1>6, VisitedRecursion, Zenon
<1>8. FoundAfter(g[c], K, s, c, depths)
    BY <1>3, <1>4, <1>7, LoopFinds, Zenon
<1>9. PICK bs : bs = g[c].bindings
    OBVIOUS
<1>10. bs \in Seq(W)
  <2>1. g \in [0..c -> Loops(W)] /\ c \in 0..c
      BY <1>4, <1>7 DEF LoopIs
  <2>2. g[c] \in Loops(W)
      BY <2>1
  <2>3. QED
      BY <1>9, <2>2 DEF Loops
<1>11. \A i : FoundBy(K, s, c, i) <=> Fires(K, W, depths, i)
    BY <1>3, FiresIsFound, Zenon
<1>12. Follows(bs, K, W, depths)
    BY <1>8, <1>9, <1>10, <1>11, Zenon DEF Follows, FoundAfter
<1>13. QED
    BY <1>1, <1>2, <1>5, <1>9, <1>12, Zenon

\* The depths at which the bindings of a keymap apply.
DepthsOf(K, contexts) == [i \in DOMAIN K |-> binding_depths(K[i], contexts)]
MatchedBy(K, input, depths) ==
    {i \in DOMAIN K : depths[i] # {} /\ K[i].keystrokes = input}

LEMMA DepthsBounded ==
    ASSUME NEW contexts, IsStack(contexts), NEW b
    PROVE  Len(contexts) \in Nat /\ binding_depths(b, contexts) \in SUBSET (0..Len(contexts))
<1>1. PICK M \in Nat : M = Len(contexts) /\ DOMAIN contexts = 1..M
    BY Zenon DEF IsStack
<1>2. 1..M \in SUBSET (0..M) /\ {M} \in SUBSET (0..M)
    BY <1>1
<1>3. MatchingDepths(b.predicate, contexts) \in SUBSET (1..M)
  <2>1. MatchingDepths(b.predicate, contexts) \in SUBSET DOMAIN contexts
      BY Zenon DEF MatchingDepths
  <2>2. QED
      BY <1>1, <2>1, Zenon
<1>4. CASE b.predicate = NoPredicate
  <2>1. binding_depths(b, contexts) = {M}
      BY <1>1, <1>4, Zenon DEF binding_depths
  <2>2. QED
      BY <1>1, <1>2, <2>1, Zenon
<1>5. CASE b.predicate # NoPredicate
  <2>1. PICK D : D = MatchingDepths(b.predicate, contexts)
      OBVIOUS
  <2>2. binding_depths(b, contexts) = D
      BY <1>5, <2>1, Zenon DEF binding_depths
  <2>3. D \in SUBSET (0..M)
      BY <1>2, <1>3, <2>1
  <2>4. QED
      BY <1>1, <2>2, <2>3, Zenon
<1>6. QED
    BY <1>4, <1>5

\* bindings_for_input returns the bindings that fire.
LEMMA InputFollows ==
    ASSUME NEW K \in Seq(Bindings), NEW input, NEW contexts, IsStack(contexts),
           NEW depths, depths = DepthsOf(K, contexts), NEW W, W = MatchedBy(K, input, depths)
    PROVE  Follows(bindings_for_input(K, input, contexts).bindings, K, W, depths)
<1>1. PICK N \in Nat : N = Len(K)
    OBVIOUS
<1>2. DOMAIN K = 1..N /\ \A i \in 1..N : K[i] \in Bindings
    BY <1>1
<1>3. W \in SUBSET (1..N)
    BY <1>2, Zenon DEF MatchedBy
<1>4. PICK M \in Nat : M = Len(contexts)
    BY DepthsBounded, Zenon
<1>5. ASSUME NEW i \in W PROVE depths[i] \in SUBSET (0..M) /\ depths[i] # {}
  <2>1. i \in DOMAIN K /\ depths[i] # {}
      BY Zenon DEF MatchedBy
  <2>2. depths[i] = binding_depths(K[i], contexts)
      BY <2>1 DEF DepthsOf
  <2>3. QED
      BY <1>4, <2>1, <2>2, DepthsBounded, Zenon
<1>6. ASSUME NEW i \in W PROVE K[i].keystrokes = input /\ K[i].user \in BOOLEAN
  <2>1. K[i].keystrokes = input
      BY Zenon DEF MatchedBy
  <2>2. K[i] \in Bindings
      BY <1>2, <1>3
  <2>3. QED
      BY <2>1, <2>2, KeyAssumption, Zenon
<1>7. PICK bs : bs = Visited(K, Sorted(W, depths))[Cardinality(W)].bindings
    OBVIOUS
<1>8. Follows(bs, K, W, depths)
  <2>1. Follows(Visited(K, Sorted(W, depths))[Cardinality(W)].bindings, K, W, depths)
      BY <1>3, <1>5, <1>6, LoopFollows, Zenon
  <2>2. QED
      BY <1>7, <2>1, Zenon
<1>9. bs = MatchedBindings(K, input, depths)
    BY <1>7, Zenon DEF MatchedBindings, MatchedBy, MatchesCompletely
<1>10. bindings_for_input(K, input, contexts) = WithMatched(K, input, depths)
    BY Zenon DEF bindings_for_input, DepthsOf
<1>11. PICK more : more = (PendingKeys(K, input, depths, bs) # {})
    OBVIOUS
<1>12. WithMatched(K, input, depths) = [bindings |-> bs, pending |-> more]
    BY <1>9, <1>11, Zenon DEF WithMatched, WithPending
<1>13. bindings_for_input(K, input, contexts).bindings = bs
    BY <1>10, <1>12
<1>14. QED
    BY <1>8, <1>13, Zenon

\* bindings_for_input returns what the rule of its documentation says: with
\* every keymap the program can reach, for every input and context stack, the
\* matching bindings that no binding before them disables, in their order.
THEOREM MatchFollowsPrecedenceHolds == Spec => []MatchFollowsPrecedence
<1>1. TypeOK => MatchFollowsPrecedence
  <2>1. SUFFICES ASSUME TypeOK, NEW input \in Inputs, NEW contexts \in Stacks
        PROVE  LET depths == [i \in DOMAIN keymap |-> binding_depths(keymap[i], contexts)]
                   matched == {i \in DOMAIN keymap : /\ depths[i] # {}
                                                     /\ keymap[i].keystrokes = input}
                   over(i) == {j \in matched : Precedes(depths, j, i)}
                   found == bindings_for_input(keymap, input, contexts).bindings
               IN  /\ Range(found) =
                         {i \in matched :
                             /\ ~IsDisabling(keymap[i])
                             /\ \A j \in over(i) :
                                   /\ ~(is_no_action(keymap[j]) /\ keymap[j].user)
                                   /\ ~(is_unbind(keymap[j]) /\ keymap[j].unbinds = keymap[i].action)}
                   /\ \A m, n \in DOMAIN found : m < n => found[m] \in over(found[n])
      BY Zenon DEF MatchFollowsPrecedence
  <2> DEFINE depths == [i \in DOMAIN keymap |-> binding_depths(keymap[i], contexts)]
             matched == {i \in DOMAIN keymap : /\ depths[i] # {}
                                               /\ keymap[i].keystrokes = input}
             found == bindings_for_input(keymap, input, contexts).bindings
  <2>2. keymap \in Seq(Bindings)
      BY <2>1, Zenon DEF TypeOK
  <2>3. IsStack(contexts)
    <3>1. PICK f \in DOMAIN Contexts : contexts = Contexts[f]
        BY DEF Stacks
    <3>2. QED
        BY <3>1, KeyAssumption, Zenon
  <2>4. depths = DepthsOf(keymap, contexts)
      BY Zenon DEF DepthsOf
  <2>5. matched = MatchedBy(keymap, input, depths)
      BY Zenon DEF MatchedBy
  <2> HIDE DEF depths, matched
  <2>6. Follows(bindings_for_input(keymap, input, contexts).bindings, keymap, matched, depths)
      BY <2>2, <2>3, <2>4, <2>5, InputFollows, Zenon
  <2>7. Follows(found, keymap, matched, depths)
      BY <2>6, Zenon
  <2> HIDE DEF found
  <2>8. PICK n \in Nat : n = Len(found)
      BY <2>7 DEF Follows
  <2>9. DOMAIN found = 1..n /\ \A m \in 1..n : found[m] \in matched
    <3>1. found \in Seq(matched)
        BY <2>7, Zenon DEF Follows
    <3>2. QED
        BY <2>8, <3>1
  <2>10. \A i : i \in Range(found) <=> Fires(keymap, matched, depths, i)
    <3>1. \A i : Has(found, i) <=> Fires(keymap, matched, depths, i)
        BY <2>7, Zenon DEF Follows
    <3>2. \A i : i \in Range(found) <=> Has(found, i)
      <4>1. ASSUME NEW i PROVE i \in Range(found) <=> \E p \in DOMAIN found : i = found[p]
          BY Zenon DEF Range
      <4>2. QED
          BY <2>8, <2>9, <4>1, Zenon DEF Has
    <3>3. QED
        BY <3>1, <3>2, Zenon
  <2>11. \A m, l \in 1..n : m < l => Precedes(depths, found[m], found[l])
      BY <2>7, <2>8, Zenon DEF Follows, Ordered
  <2>12. Range(found) =
            {i \in matched :
                /\ ~IsDisabling(keymap[i])
                /\ \A j \in {j \in matched : Precedes(depths, j, i)} :
                      /\ ~(is_no_action(keymap[j]) /\ keymap[j].user)
                      /\ ~(is_unbind(keymap[j]) /\ keymap[j].unbinds = keymap[i].action)}
      BY <2>10, Zenon DEF Fires, Stops, Skips
  <2>13. \A m, l \in DOMAIN found :
            m < l => found[m] \in {j \in matched : Precedes(depths, j, found[l])}
      BY <2>9, <2>11, Zenon
  <2>14. QED
      BY <2>12, <2>13, Zenon DEF depths, matched, found
<1>2. QED
    BY <1>1, KeyTypes, PTL

-----------------------------------------------------------------------------
(* HiddenNeverFires: is_superset and the evaluation of predicates.          *)

\* eval_inner of a predicate p on a slice s, kind by kind, for the values f of
\* its parts.
SliceTo(s, i) == [s EXCEPT !.hi = i]
IdRule(stack, p, s) == p[1] = "id" /\ p[2] \in stack[s.hi]
NotRule(f, p, s) == p[1] = "not" /\ \A i \in s.lo..s.top : ~f[<<p[2], SliceTo(s, i)>>]
AndRule(f, p, s) == p[1] = "and" /\ f[<<p[2], s>>] /\ f[<<p[3], s>>]
OrRule(f, p, s) == p[1] = "or" /\ (f[<<p[2], s>>] \/ f[<<p[3], s>>])
ParentsIn(f, p, s) == {i \in s.lo..(s.hi - 1) : f[<<p[2], SliceTo(s, i)>>]}
RestAfter(s, i) == [lo |-> i + 1, hi |-> s.hi, top |-> s.hi]
ChildRule(f, p, s) ==
    p[1] = "child" /\ ParentsIn(f, p, s) # {} /\ f[<<p[3], RestAfter(s, Min(ParentsIn(f, p, s)))>>]

EvalBody(f, stack, p, s) ==
    /\ s.lo <= s.hi
    /\ \/ IdRule(stack, p, s)
       \/ NotRule(f, p, s)
       \/ AndRule(f, p, s)
       \/ OrRule(f, p, s)
       \/ ChildRule(f, p, s)

\* The parts of a predicate.
LEMMA PredicateParts ==
    ASSUME NEW p \in Predicates
    PROVE  /\ p[1] \in {"id", "not", "and", "or", "child"}
           /\ p[1] # "id" => p[2] \in Parts(p)
           /\ p[1] \in {"and", "or", "child"} => p[3] \in Parts(p)
<1>1. p[1] \in {"id", "not", "and", "or", "child"}
    BY PredicateAssumption, Zenon
<1>2. ASSUME p[1] # "id" PROVE Parts(p) = {p[i] : i \in 2..Len(p)}
    BY <1>2, Zenon DEF Parts
<1>3. ASSUME p[1] = "not" PROVE p[2] \in Parts(p)
  <2>1. Len(p) = 2
      BY <1>3, PredicateAssumption, Zenon
  <2>2. 2 \in 2..2
      OBVIOUS
  <2>3. QED
      BY <1>2, <1>3, <2>1, <2>2
<1>4. ASSUME p[1] \in {"and", "or", "child"} PROVE p[2] \in Parts(p) /\ p[3] \in Parts(p)
  <2>1. Len(p) = 3
      BY <1>4, PredicateAssumption, Zenon
  <2>2. 2 \in 2..3 /\ 3 \in 2..3
      OBVIOUS
  <2>3. p[1] # "id"
      BY <1>4
  <2>4. QED
      BY <1>2, <2>1, <2>2, <2>3, Zenon
<1>5. QED
    BY <1>1, <1>3, <1>4

MovesTo(t, stack, s, i) == t \in Slices(stack) /\ t.lo = s.lo /\ t.hi = i

\* Slices, and where eval_inner moves on to.
LEMMA SliceMoves ==
    ASSUME NEW stack, IsStack(stack), NEW s \in Slices(stack)
    PROVE  /\ s.lo \in Nat /\ s.hi \in Nat /\ s.top \in Nat
           /\ \A i : i \in 1..Len(stack) => MovesTo(SliceTo(s, i), stack, s, i)
           /\ \A i : i \in s.lo..s.top => i \in 1..Len(stack)
           /\ \A i : i \in s.lo..(s.hi - 1) =>
                 i \in 1..Len(stack) /\ RestAfter(s, i) \in Slices(stack)
<1>1. PICK L \in Nat : L = Len(stack)
    BY Zenon DEF IsStack
<1>2. s \in [lo: 1..L, hi: 1..L, top: 1..L]
    BY <1>1, Zenon DEF Slices
<1>3. s.lo \in 1..L /\ s.hi \in 1..L /\ s.top \in 1..L
    BY <1>2
<1>4. ASSUME NEW i \in 1..L
      PROVE  /\ SliceTo(s, i) \in Slices(stack)
             /\ SliceTo(s, i).lo = s.lo /\ SliceTo(s, i).hi = i
  <2>1. PICK t : t = [s EXCEPT !.hi = i]
      OBVIOUS
  <2>2. t \in [lo: 1..L, hi: 1..L, top: 1..L] /\ t.lo = s.lo /\ t.hi = i
      BY <1>2, <2>1
  <2>3. QED
      BY <1>1, <2>1, <2>2, Zenon DEF Slices, SliceTo
<1>5. \A i \in s.lo..s.top : i \in 1..L
    BY <1>3
<1>6. ASSUME NEW i \in s.lo..(s.hi - 1)
      PROVE  i \in 1..L /\ RestAfter(s, i) \in Slices(stack)
  <2>1. i \in 1..L /\ i + 1 \in 1..L
      BY <1>3
  <2>2. RestAfter(s, i) \in [lo: 1..L, hi: 1..L, top: 1..L]
      BY <1>3, <2>1 DEF RestAfter
  <2>3. QED
      BY <1>1, <2>1, <2>2, Zenon DEF Slices
<1>7. s.lo \in Nat /\ s.hi \in Nat /\ s.top \in Nat
    BY <1>3
<1>8. QED
    BY <1>1, <1>4, <1>5, <1>6, <1>7, Zenon DEF MovesTo

\* The first parent.
LEMMA MinOf ==
    ASSUME NEW T \in SUBSET Nat, T # {}
    PROVE  Min(T) \in T /\ \A y \in T : Min(T) <= y
<1>1. \E x \in T : \A y \in T : x <= y
    BY LeastNat, Zenon
<1>2. QED
    BY <1>1, Zenon DEF Min

SameParts(f, g, stack, p) ==
    \A q \in Parts(p), t \in Slices(stack) : f[<<q, t>>] = g[<<q, t>>]
SameBody(f, g, stack, p, s) == EvalBody(f, stack, p, s) = EvalBody(g, stack, p, s)

\* eval_inner looks at the parts of a predicate only.
LEMMA EvalLooksDown ==
    ASSUME NEW stack, IsStack(stack), NEW f, NEW g, NEW p \in Predicates, NEW s \in Slices(stack),
           SameParts(f, g, stack, p)
    PROVE  SameBody(f, g, stack, p, s)
<1>a. \A q \in Parts(p), t \in Slices(stack) : f[<<q, t>>] = g[<<q, t>>]
    BY DEF SameParts
<1>1. /\ \A i : i \in s.lo..s.top => SliceTo(s, i) \in Slices(stack)
      /\ \A i : i \in s.lo..(s.hi - 1) =>
            SliceTo(s, i) \in Slices(stack) /\ RestAfter(s, i) \in Slices(stack)
    BY SliceMoves, Zenon DEF MovesTo
<1>2. NotRule(f, p, s) <=> NotRule(g, p, s)
  <2>1. CASE p[1] = "not"
    <3>1. p[2] \in Parts(p)
        BY <2>1, PredicateParts
    <3>2. QED
        BY <1>1, <3>1, <1>a, Zenon DEF NotRule
  <2>2. QED
      BY <2>1, Zenon DEF NotRule
<1>3. AndRule(f, p, s) <=> AndRule(g, p, s)
  <2>1. CASE p[1] = "and"
    <3>1. p[2] \in Parts(p) /\ p[3] \in Parts(p)
        BY <2>1, PredicateParts
    <3>2. QED
        BY <3>1, <1>a, Zenon DEF AndRule
  <2>2. QED
      BY <2>1, Zenon DEF AndRule
<1>4. OrRule(f, p, s) <=> OrRule(g, p, s)
  <2>1. CASE p[1] = "or"
    <3>1. p[2] \in Parts(p) /\ p[3] \in Parts(p)
        BY <2>1, PredicateParts
    <3>2. QED
        BY <3>1, <1>a, Zenon DEF OrRule
  <2>2. QED
      BY <2>1, Zenon DEF OrRule
<1>5. ChildRule(f, p, s) <=> ChildRule(g, p, s)
  <2>1. CASE p[1] = "child"
    <3>1. p[2] \in Parts(p) /\ p[3] \in Parts(p)
        BY <2>1, PredicateParts
    <3>2. ParentsIn(f, p, s) = ParentsIn(g, p, s)
        BY <1>1, <1>a, <3>1, Zenon DEF ParentsIn
    <3>3. PICK T : T = ParentsIn(f, p, s)
        OBVIOUS
    <3>4. ASSUME T # {} PROVE f[<<p[3], RestAfter(s, Min(T))>>] = g[<<p[3], RestAfter(s, Min(T))>>]
      <4>1. \A i \in T : i \in s.lo..(s.hi - 1)
          BY <3>3, Zenon DEF ParentsIn
      <4>2. T \in SUBSET Nat
        <5>1. s.lo \in Nat /\ s.hi \in Nat
            BY SliceMoves, Zenon
        <5>2. \A i \in s.lo..(s.hi - 1) : i \in Nat
            BY <5>1
        <5>3. QED
            BY <4>1, <5>2, Zenon
      <4>3. Min(T) \in T
          BY <3>4, <4>2, MinOf, Zenon
      <4>4. QED
          BY <1>1, <1>a, <3>1, <4>1, <4>3, Zenon
    <3>5. QED
        BY <3>2, <3>3, <3>4, Zenon DEF ChildRule
  <2>2. QED
      BY <2>1, Zenon DEF ChildRule
<1>6. QED
    BY <1>2, <1>3, <1>4, <1>5, Zenon DEF EvalBody, SameBody

\* f evaluates every predicate on every slice.
EvalIs(f, stack) ==
    /\ f \in [Predicates \X Slices(stack) -> BOOLEAN]
    /\ \A p \in Predicates, s \in Slices(stack) : f[<<p, s>>] = EvalBody(f, stack, p, s)

LEMMA EvalRecursion ==
    ASSUME NEW stack, IsStack(stack)
    PROVE  EvalIs(eval_inner(stack), stack)
<1>1. PICK D, V : D = Predicates \X Slices(stack) /\ V = BOOLEAN
    OBVIOUS
<1>2. PICK h \in [Predicates -> 0..MaxHeight] :
          \A p \in Predicates : \A q \in Parts(p) : q \in Predicates /\ h[q] < h[p]
    BY PredicateAssumption, Zenon
<1>3. MaxHeight \in Nat
    BY PredicateAssumption
<1>4. \A x \in D : x = <<x[1], x[2]>> /\ x[1] \in Predicates /\ x[2] \in Slices(stack)
    BY <1>1
<1>5. \A p \in Predicates, s \in Slices(stack) : <<p, s>> \in D
    BY <1>1
<1>6. PICK size : size = [x \in D |-> h[x[1]]]
    OBVIOUS
<1>7. size \in [D -> 0..MaxHeight]
    BY <1>2, <1>4, <1>6
<1>8. PICK B : B = [z \in [D -> V] \X D |-> EvalBody(z[1], stack, z[2][1], z[2][2])]
    OBVIOUS
<1>9. \A g \in [D -> V], x \in D : B[<<g, x>>] = EvalBody(g, stack, x[1], x[2])
    BY <1>8
<1>10. ASSUME NEW g, NEW p, NEW s PROVE EvalBody(g, stack, p, s) \in V
    BY <1>1 DEF EvalBody
<1>11. B \in [[D -> V] \X D -> V]
    BY <1>8, <1>10
<1>12. LooksDown(D, V, size, B)
  <2>1. ASSUME NEW f \in [D -> V], NEW g \in [D -> V], NEW x \in D,
               \A y \in D : size[y] < size[x] => f[y] = g[y]
        PROVE  B[<<f, x>>] = B[<<g, x>>]
    <3>1. PICK p \in Predicates, s \in Slices(stack) : x = <<p, s>> /\ p = x[1] /\ s = x[2]
        BY <1>4, Zenon
    <3>2. ASSUME NEW q \in Parts(p), NEW t \in Slices(stack) PROVE f[<<q, t>>] = g[<<q, t>>]
      <4>1. q \in Predicates /\ h[q] < h[p]
          BY <1>2, Zenon
      <4>2. <<q, t>> \in D /\ <<q, t>>[1] = q
          BY <1>5, <4>1
      <4>3. size[<<q, t>>] = h[q] /\ size[x] = h[p]
          BY <1>6, <3>1, <4>2
      <4>4. size[<<q, t>>] < size[x]
          BY <4>1, <4>3, Zenon
      <4>5. QED
          BY <2>1, <4>2, <4>4, Zenon
    <3>3. EvalBody(f, stack, p, s) = EvalBody(g, stack, p, s)
      <4>1. SameParts(f, g, stack, p)
          BY <3>2, Zenon DEF SameParts
      <4>2. SameBody(f, g, stack, p, s)
          BY <4>1, EvalLooksDown, Zenon
      <4>3. QED
          BY <4>2, Zenon DEF SameBody
    <3>4. QED
        BY <1>9, <3>1, <3>3, Zenon
  <2>2. QED
      BY <2>1, Zenon DEF LooksDown
<1>13. PICK g : Solves(g, D, V, B)
  <2>1. V # {}
      BY <1>1
  <2>2. QED
      BY <1>3, <1>7, <1>11, <1>12, <2>1, RecursiveFunction, Zenon
<1>14. g \in [D -> V] /\ \A x \in D : g[x] = EvalBody(g, stack, x[1], x[2])
    BY <1>9, <1>13, Zenon DEF Solves
<1>15. g = [x \in Predicates \X Slices(stack) |-> EvalBody(g, stack, x[1], x[2])]
  <2>1. DOMAIN g = D /\ g = [x \in DOMAIN g |-> g[x]]
      BY <1>14
  <2>2. QED
      BY <1>1, <1>14, <2>1, Zenon
<1>16. PICK v : v = eval_inner(stack)
    OBVIOUS
<1>17. eval_inner(stack) =
          CHOOSE f : f = [x \in Predicates \X Slices(stack) |-> EvalBody(f, stack, x[1], x[2])]
    BY Zenon DEF eval_inner, EvalBody, IdRule, NotRule, AndRule, OrRule, ChildRule, ParentsIn,
                 RestAfter, SliceTo
<1>18. v = [x \in Predicates \X Slices(stack) |-> EvalBody(v, stack, x[1], x[2])]
    BY <1>15, <1>16, <1>17, Zenon
<1>19. \A x \in D : v[x] = EvalBody(v, stack, x[1], x[2])
    BY <1>1, <1>18
<1>20. v \in [D -> V]
  <2>1. v = [x \in D |-> v[x]]
      BY <1>1, <1>18
  <2>2. ASSUME NEW x \in D PROVE v[x] \in V
    <3>1. PICK b : b = EvalBody(v, stack, x[1], x[2])
        OBVIOUS
    <3>2. b \in V
        BY <1>10, <3>1
    <3>3. QED
        BY <1>19, <3>1, <3>2, Zenon
  <2>3. QED
      BY <2>1, <2>2
<1>21. ASSUME NEW p \in Predicates, NEW s \in Slices(stack)
       PROVE  v[<<p, s>>] = EvalBody(v, stack, p, s)
  <2>1. PICK x : x = <<p, s>>
      OBVIOUS
  <2>2. x \in D /\ x[1] = p /\ x[2] = s
      BY <1>1, <2>1
  <2>3. QED
      BY <1>19, <2>1, <2>2, Zenon
<1>22. QED
    BY <1>1, <1>16, <1>20, <1>21, Zenon DEF EvalIs

\* is_superset, for the values f of the parts of p and other.
SupersetBody(f, p, other) ==
    \/ p = other
    \/ p[1] = "or" /\ (f[<<p[2], other>>] \/ f[<<p[3], other>>])
    \/ p[1] # "or" /\ other[1] = "child" /\ f[<<p, other[3]>>]
    \/ /\ p[1] # "or" /\ other[1] = "and"
       /\ f[<<p, other[2]>>] \/ f[<<p, other[3]>>]

SupersetIs(f) ==
    /\ f \in [Predicates \X Predicates -> BOOLEAN]
    /\ \A p, other \in Predicates : f[<<p, other>>] = SupersetBody(f, p, other)

SameBelow(f, g, p, other) ==
    /\ \A q \in Parts(p) : f[<<q, other>>] = g[<<q, other>>]
    /\ \A q \in Parts(other) : f[<<p, q>>] = g[<<p, q>>]
SameAnswer(f, g, p, other) == SupersetBody(f, p, other) = SupersetBody(g, p, other)

\* is_superset looks at the parts of one of the predicates only.
LEMMA SupersetLooksDown ==
    ASSUME NEW f, NEW g, NEW p \in Predicates, NEW other \in Predicates,
           SameBelow(f, g, p, other)
    PROVE  SameAnswer(f, g, p, other)
<1>1. /\ \A q \in Parts(p) : f[<<q, other>>] = g[<<q, other>>]
      /\ \A q \in Parts(other) : f[<<p, q>>] = g[<<p, q>>]
    BY Zenon DEF SameBelow
<1>2. ASSUME p[1] = "or"
      PROVE  f[<<p[2], other>>] = g[<<p[2], other>>] /\ f[<<p[3], other>>] = g[<<p[3], other>>]
  <2>1. p[2] \in Parts(p) /\ p[3] \in Parts(p)
      BY <1>2, PredicateParts
  <2>2. QED
      BY <1>1, <2>1, Zenon
<1>3. ASSUME other[1] = "child" PROVE f[<<p, other[3]>>] = g[<<p, other[3]>>]
  <2>1. other[3] \in Parts(other)
      BY <1>3, PredicateParts
  <2>2. QED
      BY <1>1, <2>1, Zenon
<1>4. ASSUME other[1] = "and"
      PROVE  f[<<p, other[2]>>] = g[<<p, other[2]>>] /\ f[<<p, other[3]>>] = g[<<p, other[3]>>]
  <2>1. other[2] \in Parts(other) /\ other[3] \in Parts(other)
      BY <1>4, PredicateParts
  <2>2. QED
      BY <1>1, <2>1, Zenon
<1>5. SupersetBody(f, p, other) <=> SupersetBody(g, p, other)
    BY <1>2, <1>3, <1>4, Zenon DEF SupersetBody
<1>6. QED
    BY <1>5, Zenon DEF SameAnswer, SupersetBody

LEMMA SupersetRecursion == SupersetIs(Supersets(3))
<1>1. PICK D, V : D = Predicates \X Predicates /\ V = BOOLEAN
    OBVIOUS
<1>2. PICK h \in [Predicates -> 0..MaxHeight] :
          \A p \in Predicates : \A q \in Parts(p) : q \in Predicates /\ h[q] < h[p]
    BY PredicateAssumption, Zenon
<1>3. PICK N \in Nat : N = MaxHeight + MaxHeight
    BY PredicateAssumption
<1>4. \A x \in D : x = <<x[1], x[2]>> /\ x[1] \in Predicates /\ x[2] \in Predicates
    BY <1>1
<1>5. \A p, q \in Predicates : <<p, q>> \in D
    BY <1>1
<1>6. PICK size : size = [x \in D |-> h[x[1]] + h[x[2]]]
    OBVIOUS
<1>7. size \in [D -> 0..N]
  <2>1. MaxHeight \in Nat
      BY PredicateAssumption
  <2>2. \A m, n \in 0..MaxHeight : m + n \in 0..N
      BY <1>3, <2>1
  <2>3. \A x \in D : h[x[1]] \in 0..MaxHeight /\ h[x[2]] \in 0..MaxHeight
      BY <1>2, <1>4
  <2>4. \A x \in D : h[x[1]] + h[x[2]] \in 0..N
      BY <2>2, <2>3, Zenon
  <2>5. QED
      BY <1>6, <2>4
<1>8. PICK B : B = [z \in [D -> V] \X D |-> SupersetBody(z[1], z[2][1], z[2][2])]
    OBVIOUS
<1>9. \A g \in [D -> V], x \in D : B[<<g, x>>] = SupersetBody(g, x[1], x[2])
    BY <1>8
<1>10. ASSUME NEW g, NEW p, NEW q PROVE SupersetBody(g, p, q) \in V
    BY <1>1 DEF SupersetBody
<1>11. B \in [[D -> V] \X D -> V]
    BY <1>8, <1>10
<1>12. LooksDown(D, V, size, B)
  <2>1. ASSUME NEW f \in [D -> V], NEW g \in [D -> V], NEW x \in D,
               \A y \in D : size[y] < size[x] => f[y] = g[y]
        PROVE  B[<<f, x>>] = B[<<g, x>>]
    <3>1. PICK p, other \in Predicates : x = <<p, other>> /\ p = x[1] /\ other = x[2]
        BY <1>4, Zenon
    <3>2. h[p] \in Nat /\ h[other] \in Nat
        BY <1>2
    <3>3. ASSUME NEW q \in Parts(p) PROVE f[<<q, other>>] = g[<<q, other>>]
      <4>1. q \in Predicates /\ h[q] < h[p]
          BY <1>2, Zenon
      <4>2. PICK y \in D : y = <<q, other>> /\ y[1] = q /\ y[2] = other
          BY <1>5, <4>1
      <4>3. size[y] = h[q] + h[other] /\ size[x] = h[p] + h[other] /\ h[q] \in Nat
          BY <1>2, <1>6, <3>1, <4>1, <4>2
      <4>4. size[y] < size[x]
          BY <3>2, <4>1, <4>3
      <4>5. QED
          BY <2>1, <4>2, <4>4, Zenon
    <3>4. ASSUME NEW q \in Parts(other) PROVE f[<<p, q>>] = g[<<p, q>>]
      <4>1. q \in Predicates /\ h[q] < h[other]
          BY <1>2, Zenon
      <4>2. PICK y \in D : y = <<p, q>> /\ y[1] = p /\ y[2] = q
          BY <1>5, <4>1
      <4>3. size[y] = h[p] + h[q] /\ size[x] = h[p] + h[other] /\ h[q] \in Nat
          BY <1>2, <1>6, <3>1, <4>1, <4>2
      <4>4. size[y] < size[x]
          BY <3>2, <4>1, <4>3
      <4>5. QED
          BY <2>1, <4>2, <4>4, Zenon
    <3>5. SameBelow(f, g, p, other)
        BY <3>3, <3>4, Zenon DEF SameBelow
    <3>6. SameAnswer(f, g, p, other)
        BY <3>5, SupersetLooksDown, Zenon
    <3>7. QED
        BY <1>9, <3>1, <3>6, Zenon DEF SameAnswer
  <2>2. QED
      BY <2>1, Zenon DEF LooksDown
<1>13. PICK g : Solves(g, D, V, B)
  <2>1. V # {}
      BY <1>1
  <2>2. QED
      BY <1>3, <1>7, <1>11, <1>12, <2>1, RecursiveFunction, Zenon
<1>14. g \in [D -> V] /\ \A x \in D : g[x] = SupersetBody(g, x[1], x[2])
    BY <1>9, <1>13, Zenon DEF Solves
<1>15. g = [x \in Predicates \X Predicates |-> SupersetBody(g, x[1], x[2])]
  <2>1. DOMAIN g = D /\ g = [x \in DOMAIN g |-> g[x]]
      BY <1>14
  <2>2. QED
      BY <1>1, <1>14, <2>1, Zenon
<1>16. PICK v : v = Supersets(3)
    OBVIOUS
<1>17. Supersets(3) =
          CHOOSE f : f = [x \in Predicates \X Predicates |-> SupersetBody(f, x[1], x[2])]
    BY Zenon DEF Supersets, SupersetBody
<1>18. v = [x \in Predicates \X Predicates |-> SupersetBody(v, x[1], x[2])]
    BY <1>15, <1>16, <1>17, Zenon
<1>19. \A x \in D : v[x] = SupersetBody(v, x[1], x[2])
    BY <1>1, <1>18
<1>20. v \in [D -> V]
  <2>1. v = [x \in D |-> v[x]]
      BY <1>1, <1>18
  <2>2. ASSUME NEW x \in D PROVE v[x] \in V
    <3>1. PICK b : b = SupersetBody(v, x[1], x[2])
        OBVIOUS
    <3>2. b \in V
        BY <1>10, <3>1
    <3>3. QED
        BY <1>19, <3>1, <3>2, Zenon
  <2>3. QED
      BY <2>1, <2>2
<1>21. ASSUME NEW p \in Predicates, NEW other \in Predicates
       PROVE  v[<<p, other>>] = SupersetBody(v, p, other)
  <2>1. PICK x : x = <<p, other>>
      OBVIOUS
  <2>2. x \in D /\ x[1] = p /\ x[2] = other
      BY <1>1, <2>1
  <2>3. QED
      BY <1>19, <2>1, <2>2, Zenon
<1>22. QED
    BY <1>1, <1>16, <1>20, <1>21, Zenon DEF SupersetIs

\* Induction over predicates: what holds of a predicate when it holds of its
\* parts holds of all.
LEMMA PredicateInduct ==
    ASSUME NEW G \in SUBSET Predicates,
           \A p \in Predicates : Parts(p) \subseteq G => p \in G
    PROVE  G = Predicates
<1>1. PICK h \in [Predicates -> 0..MaxHeight] :
          \A p \in Predicates : \A q \in Parts(p) : q \in Predicates /\ h[q] < h[p]
    BY PredicateAssumption, Zenon
<1>2. \A p \in Predicates : h[p] \in Nat
    BY <1>1, PredicateAssumption
<1>3. PICK T : T = {n \in Nat : \A p \in Predicates : h[p] < n => p \in G}
    OBVIOUS
<1>4. 0 \in T
  <2>1. \A p \in Predicates : ~(h[p] < 0)
      BY <1>2
  <2>2. 0 \in Nat
      OBVIOUS
  <2>3. QED
      BY <1>3, <2>1, <2>2, Zenon
<1>5. ASSUME NEW n \in T PROVE n + 1 \in T
  <2>1. n \in Nat /\ \A p \in Predicates : h[p] < n => p \in G
      BY <1>3, Zenon
  <2>2. ASSUME NEW p \in Predicates, h[p] < n + 1 PROVE p \in G
    <3>1. ASSUME NEW q \in Parts(p) PROVE q \in G
      <4>1. q \in Predicates /\ h[q] < h[p]
          BY <1>1, Zenon
      <4>2. h[q] < n
          BY <1>2, <2>1, <2>2, <4>1
      <4>3. QED
          BY <2>1, <4>1, <4>2, Zenon
    <3>2. QED
        BY <3>1, Zenon
  <2>3. n + 1 \in Nat
      BY <2>1
  <2>4. QED
      BY <1>3, <2>2, <2>3, Zenon
<1>6. T = Nat
  <2>1. T \in SUBSET Nat
      BY <1>3
  <2>2. QED
      BY <1>4, <1>5, <2>1, NatInduct, Zenon
<1>7. ASSUME NEW p \in Predicates PROVE p \in G
  <2>1. h[p] + 1 \in T /\ h[p] < h[p] + 1
      BY <1>2, <1>6
  <2>2. QED
      BY <1>3, <2>1, Zenon
<1>8. QED
    BY <1>7

\* A predicate that matches a slice also matches a longer one that ends there.
Keeps(f, stack, p) ==
    \A s, t \in Slices(stack) : s.hi = t.hi /\ t.lo <= s.lo /\ f[<<p, s>>] => f[<<p, t>>]

LEMMA KeepsParts ==
    ASSUME NEW stack, IsStack(stack), NEW f, EvalIs(f, stack), NEW p \in Predicates,
           p[1] # "not", \A q \in Parts(p) : q \in Predicates /\ Keeps(f, stack, q)
    PROVE  Keeps(f, stack, p)
<1>1. SUFFICES ASSUME NEW s \in Slices(stack), NEW t \in Slices(stack),
                      s.hi = t.hi, t.lo <= s.lo, f[<<p, s>>]
      PROVE  f[<<p, t>>]
    BY Zenon DEF Keeps
<1>2. /\ f[<<p, s>>] <=> EvalBody(f, stack, p, s)
      /\ f[<<p, t>>] <=> EvalBody(f, stack, p, t)
    BY Zenon DEF EvalIs
<1>3. /\ s.lo \in Nat /\ s.hi \in Nat /\ t.lo \in Nat /\ t.hi \in Nat
    BY SliceMoves, Zenon
<1>4. s.lo <= s.hi /\ t.lo <= t.hi
  <2>1. s.lo <= s.hi
      BY <1>1, <1>2, Zenon DEF EvalBody
  <2>2. QED
      BY <1>1, <1>3, <2>1
<1>5. \A q \in Parts(p) : f[<<q, s>>] => f[<<q, t>>]
    BY <1>1, Zenon DEF Keeps
<1>6. CASE IdRule(stack, p, s)
  <2>1. IdRule(stack, p, t)
      BY <1>1, <1>6, Zenon DEF IdRule
  <2>2. QED
      BY <1>2, <1>4, <2>1, Zenon DEF EvalBody
<1>7. CASE AndRule(f, p, s)
  <2>1. p[2] \in Parts(p) /\ p[3] \in Parts(p)
      BY <1>7, PredicateParts DEF AndRule
  <2>2. AndRule(f, p, t)
      BY <1>5, <1>7, <2>1, Zenon DEF AndRule
  <2>3. QED
      BY <1>2, <1>4, <2>2, Zenon DEF EvalBody
<1>8. CASE OrRule(f, p, s)
  <2>1. p[2] \in Parts(p) /\ p[3] \in Parts(p)
      BY <1>8, PredicateParts DEF OrRule
  <2>2. OrRule(f, p, t)
      BY <1>5, <1>8, <2>1, Zenon DEF OrRule
  <2>3. QED
      BY <1>2, <1>4, <2>2, Zenon DEF EvalBody
<1>9. CASE ChildRule(f, p, s)
  <2>1. p[2] \in Parts(p) /\ p[3] \in Parts(p)
      BY <1>9, PredicateParts DEF ChildRule
  <2>2. PICK S, T : S = ParentsIn(f, p, s) /\ T = ParentsIn(f, p, t)
      OBVIOUS
  <2>3. p[1] = "child" /\ S # {} /\ f[<<p[3], RestAfter(s, Min(S))>>]
      BY <1>9, <2>2, Zenon DEF ChildRule
  <2>4. /\ S = {i \in s.lo..(s.hi - 1) : f[<<p[2], SliceTo(s, i)>>]}
        /\ T = {i \in t.lo..(t.hi - 1) : f[<<p[2], SliceTo(t, i)>>]}
      BY <2>2, Zenon DEF ParentsIn
  <2>5. ASSUME NEW i \in S PROVE i \in T
    <3>1. i \in s.lo..(s.hi - 1) /\ f[<<p[2], SliceTo(s, i)>>]
        BY <2>4, Zenon
    <3>2. i \in t.lo..(t.hi - 1)
        BY <1>1, <1>3, <3>1
    <3>3. i \in 1..Len(stack)
        BY <3>1, SliceMoves, Zenon
    <3>4. /\ SliceTo(s, i) \in Slices(stack) /\ SliceTo(t, i) \in Slices(stack)
          /\ SliceTo(s, i).hi = SliceTo(t, i).hi /\ SliceTo(t, i).lo <= SliceTo(s, i).lo
      <4>5. MovesTo(SliceTo(s, i), stack, s, i)
          BY <3>3, SliceMoves, Zenon
      <4>6. MovesTo(SliceTo(t, i), stack, t, i)
          BY <3>3, SliceMoves, Zenon
      <4>0. /\ SliceTo(s, i) \in Slices(stack)
            /\ SliceTo(s, i).lo = s.lo /\ SliceTo(s, i).hi = i
          BY <4>5, Zenon DEF MovesTo
      <4>1. /\ SliceTo(t, i) \in Slices(stack)
            /\ SliceTo(t, i).lo = t.lo /\ SliceTo(t, i).hi = i
          BY <4>6, Zenon DEF MovesTo
      <4>2. PICK u, v : u = SliceTo(s, i).lo /\ v = SliceTo(t, i).lo
          OBVIOUS
      <4>3. v <= u
        <5>1. u = s.lo /\ v = t.lo
            BY <4>0, <4>1, <4>2, Zenon
        <5>2. QED
            BY <1>1, <5>1
      <4>4. QED
          BY <4>0, <4>1, <4>2, <4>3, Zenon
    <3>5. f[<<p[2], SliceTo(t, i)>>]
        BY <2>1, <3>1, <3>4, Zenon DEF Keeps
    <3>6. QED
        BY <2>4, <3>2, <3>5, Zenon
  <2>6. S \in SUBSET Nat /\ T \in SUBSET Nat
    <3>1. \A i \in s.lo..(s.hi - 1) : i \in Nat
        BY <1>3
    <3>2. \A i \in t.lo..(t.hi - 1) : i \in Nat
        BY <1>3
    <3>3. QED
        BY <2>4, <3>1, <3>2, Zenon
  <2>7. T # {}
      BY <2>3, <2>5
  <2>8. PICK m, n : m = Min(S) /\ n = Min(T)
      OBVIOUS
  <2>9. m \in S /\ m \in Nat
      BY <2>3, <2>6, <2>8, MinOf, Zenon
  <2>10. n \in T /\ n \in Nat /\ n <= m
      BY <2>5, <2>6, <2>7, <2>8, <2>9, MinOf, Zenon
  <2>11. RestAfter(s, m) \in Slices(stack) /\ RestAfter(t, n) \in Slices(stack)
    <3>1. m \in s.lo..(s.hi - 1) /\ n \in t.lo..(t.hi - 1)
        BY <2>4, <2>9, <2>10, Zenon
    <3>2. QED
        BY <3>1, SliceMoves, Zenon
  <2>12. RestAfter(s, m).hi = RestAfter(t, n).hi /\ RestAfter(t, n).lo <= RestAfter(s, m).lo
    <3>1. n + 1 <= m + 1
        BY <2>9, <2>10
    <3>2. /\ RestAfter(s, m).hi = s.hi /\ RestAfter(s, m).lo = m + 1
          /\ RestAfter(t, n).hi = t.hi /\ RestAfter(t, n).lo = n + 1
        BY DEF RestAfter
    <3>3. QED
        BY <1>1, <3>1, <3>2, Zenon
  <2>13. f[<<p[3], RestAfter(t, n)>>]
      BY <2>1, <2>3, <2>8, <2>11, <2>12, Zenon DEF Keeps
  <2>14. ChildRule(f, p, t)
      BY <2>2, <2>3, <2>7, <2>8, <2>13, Zenon DEF ChildRule
  <2>15. QED
      BY <1>2, <1>4, <2>14, Zenon DEF EvalBody
<1>10. ~NotRule(f, p, s)
    BY Zenon DEF NotRule
<1>11. QED
    BY <1>1, <1>2, <1>6, <1>7, <1>8, <1>9, <1>10, Zenon DEF EvalBody

LEMMA PositiveKeeps ==
    ASSUME NEW stack, IsStack(stack), NEW f, EvalIs(f, stack), NEW P \in SUBSET Predicates, Positive(P), NEW p \in P
    PROVE  Keeps(f, stack, p)
<1>1. PICK G : G = {q \in Predicates : q \in P => Keeps(f, stack, q)}
    OBVIOUS
<1>2. ASSUME NEW q \in Predicates, Parts(q) \subseteq G PROVE q \in G
  <2>1. ASSUME q \in P PROVE Keeps(f, stack, q)
    <3>1. q[1] # "not" /\ Parts(q) \subseteq P
        BY <2>1, Zenon DEF Positive
    <3>2. \A r \in Parts(q) : r \in Predicates /\ Keeps(f, stack, r)
        BY <1>1, <1>2, <3>1, Zenon
    <3>3. QED
        BY <3>1, <3>2, KeepsParts, Zenon
  <2>2. QED
      BY <1>1, <2>1
<1>3. G = Predicates
  <2>1. G \in SUBSET Predicates
      BY <1>1
  <2>2. QED
      BY <1>2, <2>1, PredicateInduct, Zenon
<1>4. p \in G
    BY <1>3, Zenon DEF Positive
<1>5. QED
    BY <1>1, <1>4, Zenon

\* What is_superset finds of p and other is true of the slices of a stack.
Sound(f, g, stack, p, other) ==
    g[<<p, other>>] => \A s \in Slices(stack) : f[<<other, s>>] => f[<<p, s>>]

LEMMA SoundParts ==
    ASSUME NEW stack, IsStack(stack), NEW f, EvalIs(f, stack), NEW g, SupersetIs(g),
           NEW p \in Predicates, NEW other \in Predicates, Keeps(f, stack, p),
           \A q \in Parts(p) : q \in Predicates /\ Sound(f, g, stack, q, other),
           \A q \in Parts(other) : q \in Predicates /\ Sound(f, g, stack, p, q)
    PROVE  Sound(f, g, stack, p, other)
<1>1. SUFFICES ASSUME g[<<p, other>>], NEW s \in Slices(stack), f[<<other, s>>]
      PROVE  f[<<p, s>>]
    BY Zenon DEF Sound
<1>2. /\ f[<<p, s>>] <=> EvalBody(f, stack, p, s)
      /\ f[<<other, s>>] <=> EvalBody(f, stack, other, s)
    BY Zenon DEF EvalIs
<1>3. s.lo <= s.hi
    BY <1>1, <1>2, Zenon DEF EvalBody
<1>4. SupersetBody(g, p, other)
    BY <1>1, Zenon DEF SupersetIs
<1>5. ASSUME NEW q \in Parts(p), g[<<q, other>>] PROVE f[<<q, s>>]
    BY <1>1, <1>5, Zenon DEF Sound
<1>6. ASSUME NEW q \in Parts(other), g[<<p, q>>], f[<<q, s>>] PROVE f[<<p, s>>]
    BY <1>6, Zenon DEF Sound
<1>7. CASE p = other
    BY <1>1, <1>7, Zenon
<1>8. CASE p[1] = "or" /\ (g[<<p[2], other>>] \/ g[<<p[3], other>>])
  <2>1. p[2] \in Parts(p) /\ p[3] \in Parts(p)
      BY <1>8, PredicateParts
  <2>2. OrRule(f, p, s)
      BY <1>5, <1>8, <2>1, Zenon DEF OrRule
  <2>3. QED
      BY <1>2, <1>3, <2>2, Zenon DEF EvalBody
<1>9. CASE other[1] = "child" /\ g[<<p, other[3]>>]
  <2>1. other[3] \in Parts(other)
      BY <1>9, PredicateParts
  <2>2. /\ ~IdRule(stack, other, s) /\ ~NotRule(f, other, s)
        /\ ~AndRule(f, other, s) /\ ~OrRule(f, other, s)
      BY <1>9 DEF IdRule, NotRule, AndRule, OrRule
  <2>3. ChildRule(f, other, s)
      BY <1>1, <1>2, <2>2, Zenon DEF EvalBody
  <2>4. PICK S : S = ParentsIn(f, other, s)
      OBVIOUS
  <2>5. S # {} /\ f[<<other[3], RestAfter(s, Min(S))>>]
      BY <2>3, <2>4, Zenon DEF ChildRule
  <2>6. \A i \in S : i \in s.lo..(s.hi - 1)
      BY <2>4, Zenon DEF ParentsIn
  <2>7. s.lo \in Nat /\ s.hi \in Nat
      BY SliceMoves, Zenon
  <2>8. PICK m : m = Min(S)
      OBVIOUS
  <2>9. m \in S
    <3>1. \A i \in s.lo..(s.hi - 1) : i \in Nat
        BY <2>7
    <3>2. S \in SUBSET Nat
        BY <2>6, <3>1, Zenon
    <3>3. QED
        BY <2>5, <2>8, <3>2, MinOf, Zenon
  <2>10. m \in s.lo..(s.hi - 1)
      BY <2>6, <2>9, Zenon
  <2>11. PICK r : r = RestAfter(s, m)
      OBVIOUS
  <2>12. r \in Slices(stack)
    <3>1. RestAfter(s, m) \in Slices(stack)
        BY <2>10, SliceMoves, Zenon
    <3>2. QED
        BY <2>11, <3>1, Zenon
  <2>13. r.hi = s.hi /\ s.lo <= r.lo
    <3>1. s.lo <= m + 1
        BY <2>7, <2>10
    <3>2. r.hi = s.hi /\ r.lo = m + 1
        BY <2>11 DEF RestAfter
    <3>3. QED
        BY <3>1, <3>2
  <2>14. f[<<other[3], r>>]
      BY <2>5, <2>8, <2>11, Zenon
  <2>15. f[<<p, r>>]
      BY <1>9, <2>1, <2>12, <2>14, Zenon DEF Sound
  <2>16. QED
      BY <2>12, <2>13, <2>15, Zenon DEF Keeps
<1>10. CASE other[1] = "and" /\ (g[<<p, other[2]>>] \/ g[<<p, other[3]>>])
  <2>1. other[2] \in Parts(other) /\ other[3] \in Parts(other)
      BY <1>10, PredicateParts
  <2>2. /\ ~IdRule(stack, other, s) /\ ~NotRule(f, other, s)
        /\ ~ChildRule(f, other, s) /\ ~OrRule(f, other, s)
      BY <1>10 DEF IdRule, NotRule, ChildRule, OrRule
  <2>3. f[<<other[2], s>>] /\ f[<<other[3], s>>]
      BY <1>1, <1>2, <2>2, Zenon DEF EvalBody, AndRule
  <2>4. QED
      BY <1>6, <1>10, <2>1, <2>3, Zenon
<1>11. QED
    BY <1>4, <1>7, <1>8, <1>9, <1>10, Zenon DEF SupersetBody

LEMMA PositiveSound ==
    ASSUME NEW stack, IsStack(stack), NEW f, EvalIs(f, stack), NEW g, SupersetIs(g),
           NEW P \in SUBSET Predicates, Positive(P), NEW p \in P, NEW other \in Predicates
    PROVE  Sound(f, g, stack, p, other)
<1>1. PICK G : G = {q \in Predicates : q \in P => \A o \in Predicates : Sound(f, g, stack, q, o)}
    OBVIOUS
<1>2. \A q \in Predicates : Parts(q) \subseteq Predicates
    BY PredicateAssumption, Zenon
<1>3. ASSUME NEW q \in Predicates, Parts(q) \subseteq G PROVE q \in G
  <2>1. ASSUME q \in P, NEW o \in Predicates PROVE Sound(f, g, stack, q, o)
    <3>1. PICK H : H = {z \in Predicates : Sound(f, g, stack, q, z)}
        OBVIOUS
    <3>2. Keeps(f, stack, q)
        BY <2>1, PositiveKeeps, Zenon
    <3>3. Parts(q) \subseteq P
        BY <2>1, Zenon DEF Positive
    <3>4. ASSUME NEW z \in Predicates, Parts(z) \subseteq H PROVE z \in H
      <4>1. \A r \in Parts(q) : r \in Predicates /\ Sound(f, g, stack, r, z)
          BY <1>1, <1>3, <3>3, Zenon
      <4>2. \A r \in Parts(z) : r \in Predicates /\ Sound(f, g, stack, q, r)
          BY <3>1, <3>4, Zenon
      <4>3. Sound(f, g, stack, q, z)
          BY <3>2, <4>1, <4>2, SoundParts, Zenon
      <4>4. QED
          BY <3>1, <4>3
    <3>5. H = Predicates
      <4>1. H \in SUBSET Predicates
          BY <3>1
      <4>2. QED
          BY <3>4, <4>1, PredicateInduct, Zenon
    <3>6. QED
        BY <3>1, <3>5, Zenon
  <2>2. QED
      BY <1>1, <2>1
<1>4. G = Predicates
  <2>1. G \in SUBSET Predicates
      BY <1>1
  <2>2. QED
      BY <1>3, <2>1, PredicateInduct, Zenon
<1>5. p \in G
    BY <1>4, Zenon
<1>6. QED
    BY <1>1, <1>5, Zenon

\* A superset matches at every depth at which the other predicate matches.
LEMMA SupersetMatches ==
    ASSUME NEW contexts, IsStack(contexts), NEW P \in SUBSET Predicates, Positive(P), NEW p \in P,
           NEW other \in Predicates, is_superset(p, other)
    PROVE  MatchingDepths(other, contexts) \subseteq MatchingDepths(p, contexts)
<1>1. PICK f : f = eval_inner(contexts)
    OBVIOUS
<1>2. PICK g : g = Supersets(3)
    OBVIOUS
<1>3. EvalIs(f, contexts) /\ SupersetIs(g)
    BY <1>1, <1>2, EvalRecursion, SupersetRecursion, Zenon
<1>4. Sound(f, g, contexts, p, other)
    BY <1>3, PositiveSound, Zenon
<1>5. g[<<p, other>>]
    BY <1>2, Zenon DEF is_superset
<1>6. ASSUME NEW d \in MatchingDepths(other, contexts) PROVE d \in MatchingDepths(p, contexts)
  <2>1. PICK s : s = [lo |-> 1, hi |-> d, top |-> Len(contexts)]
      OBVIOUS
  <2>2. d \in DOMAIN contexts /\ f[<<other, s>>]
      BY <1>1, <1>6, <2>1, Zenon DEF MatchingDepths
  <2>3. s \in Slices(contexts)
    <3>1. PICK L \in Nat : L = Len(contexts) /\ DOMAIN contexts = 1..L
        BY Zenon DEF IsStack
    <3>2. 1 \in 1..L /\ d \in 1..L /\ L \in 1..L
        BY <2>2, <3>1
    <3>3. s \in [lo: 1..L, hi: 1..L, top: 1..L]
        BY <2>1, <3>1, <3>2
    <3>4. QED
        BY <3>1, <3>3, Zenon DEF Slices
  <2>4. f[<<p, s>>]
      BY <1>4, <1>5, <2>2, <2>3, Zenon DEF Sound
  <2>5. QED
      BY <1>1, <2>1, <2>2, <2>4, Zenon DEF MatchingDepths
<1>7. QED
    BY <1>6, Zenon

\* A disabling binding applies wherever a binding does that it hides, at a depth
\* that is not less.
LEMMA HiddenPrecedes ==
    ASSUME NEW contexts, IsStack(contexts), NEW P \in SUBSET Predicates, Positive(P),
           NEW b \in Bindings, NEW disabled \in Bindings,
           disabled.predicate \in P \union {NoPredicate},
           disabled_binding_matches_context(disabled, b), binding_depths(b, contexts) # {}
    PROVE  /\ binding_depths(disabled, contexts) # {}
           /\ Max(binding_depths(b, contexts)) \in Nat
           /\ Max(binding_depths(disabled, contexts)) \in Nat
           /\ Max(binding_depths(b, contexts)) <= Max(binding_depths(disabled, contexts))
<1>1. PICK X, Y : X = binding_depths(b, contexts) /\ Y = binding_depths(disabled, contexts)
    OBVIOUS
<1>2. PICK L \in Nat : L = Len(contexts)
    BY Zenon DEF IsStack
<1>3. X \in SUBSET (0..L) /\ Y \in SUBSET (0..L) /\ X # {}
    BY <1>1, <1>2, DepthsBounded, Zenon
<1>4. CASE disabled.predicate = NoPredicate
  <2>1. Y = {L}
      BY <1>1, <1>2, <1>4, Zenon DEF binding_depths
  <2>2. PICK x, y : x = Max(X) /\ y = Max(Y)
      OBVIOUS
  <2>3. x \in X
      BY <1>2, <1>3, <2>2, MaxOf, Zenon
  <2>4. Y # {}
      BY <2>1
  <2>5. y \in Y
      BY <1>2, <1>3, <2>2, <2>4, MaxOf, Zenon
  <2>6. x \in Nat /\ y \in Nat /\ x <= y
      BY <1>2, <1>3, <2>1, <2>3, <2>5
  <2>7. QED
      BY <1>1, <2>2, <2>4, <2>6, Zenon
<1>5. CASE disabled.predicate # NoPredicate
  <2>1. b.predicate # NoPredicate /\ is_superset(disabled.predicate, b.predicate)
      BY <1>5, Zenon DEF disabled_binding_matches_context
  <2>2. disabled.predicate \in P
      BY <1>5
  <2>3. b.predicate \in Predicates
    <3>1. b.predicate \in Predicates \union {NoPredicate}
        BY KeyAssumption, Zenon
    <3>2. QED
        BY <2>1, <3>1
  <2>4. X = MatchingDepths(b.predicate, contexts) /\ Y = MatchingDepths(disabled.predicate, contexts)
      BY <1>1, <1>5, <2>1, Zenon DEF binding_depths
  <2>5. X \subseteq Y
    <3>1. MatchingDepths(b.predicate, contexts) \subseteq MatchingDepths(disabled.predicate, contexts)
        BY <2>1, <2>2, <2>3, SupersetMatches, Zenon
    <3>2. QED
        BY <2>4, <3>1, Zenon
  <2>6. PICK x, y : x = Max(X) /\ y = Max(Y)
      OBVIOUS
  <2>7. x \in X
      BY <1>2, <1>3, <2>6, MaxOf, Zenon
  <2>8. Y # {}
      BY <2>5, <2>7, Zenon
  <2>9. y \in Y /\ \A z \in Y : z <= y
      BY <1>2, <1>3, <2>6, <2>8, MaxOf, Zenon
  <2>10. x <= y
      BY <2>5, <2>7, <2>9, Zenon
  <2>11. x \in Nat /\ y \in Nat
      BY <1>2, <1>3, <2>7, <2>9
  <2>12. QED
      BY <1>1, <2>6, <2>8, <2>10, <2>11, Zenon
<1>6. QED
    BY <1>4, <1>5

\* When no disabling binding looks for an absence, a binding that
\* bindings_for_action hides is returned by bindings_for_input in no context.
THEOREM HiddenNeverFiresHolds ==
    ASSUME DisablingIsPositive
    PROVE  Spec => []HiddenNeverFires
<1>1. ASSUME TypeOK PROVE HiddenNeverFires
  <2>1. SUFFICES ASSUME NEW i \in DOMAIN keymap, NEW contexts \in Stacks,
                        ~IsDisabling(keymap[i]),
                        i \notin bindings_for_action(keymap, keymap[i].action),
                        \A d \in DOMAIN keymap : is_no_action(keymap[d]) => keymap[d].user,
                        i \in Range(bindings_for_input(keymap, keymap[i].keystrokes,
                                                       contexts).bindings)
        PROVE  FALSE
      BY Zenon DEF HiddenNeverFires
  <2>2. PICK P \in SUBSET Predicates :
                 /\ Positive(P)
                 /\ \A b \in Bindings : IsDisabling(b) => b.predicate \in P \union {NoPredicate}
      BY Zenon DEF DisablingIsPositive
  <2>3. keymap \in Seq(Bindings)
      BY <1>1, Zenon DEF TypeOK
  <2>4. PICK N \in Nat : N = Len(keymap) /\ DOMAIN keymap = 1..N
      BY <2>3
  <2>5. \A j \in 1..N : keymap[j] \in Bindings
      BY <2>3, <2>4
  <2>6. IsStack(contexts)
    <3>1. PICK f \in DOMAIN Contexts : contexts = Contexts[f]
        BY DEF Stacks
    <3>2. QED
        BY <3>1, KeyAssumption, Zenon
  <2>7. PICK d \in (i + 1)..N :
            /\ IsDisabling(keymap[d])
            /\ keymap[d].keystrokes = keymap[i].keystrokes
            /\ disabled_binding_matches_context(keymap[d], keymap[i])
            /\ is_no_action(keymap[d]) \/ binding_is_unbound(keymap[d], keymap[i])
      BY <2>1, <2>4, Zenon DEF bindings_for_action
  <2>8. i \in 1..N /\ d \in 1..N /\ i \in Nat /\ d \in Nat /\ d > i
      BY <2>4, <2>7
  <2>9. PICK input : input = keymap[i].keystrokes
      OBVIOUS
  <2>10. PICK depths : depths = DepthsOf(keymap, contexts)
      OBVIOUS
  <2>11. PICK W : W = MatchedBy(keymap, input, depths)
      OBVIOUS
  <2>12. PICK found : found = bindings_for_input(keymap, input, contexts).bindings
      OBVIOUS
  <2>13. Follows(found, keymap, W, depths)
    <3>1. Follows(bindings_for_input(keymap, input, contexts).bindings, keymap, W, depths)
        BY <2>3, <2>6, <2>10, <2>11, InputFollows, Zenon
    <3>2. QED
        BY <2>12, <3>1, Zenon
  <2>14. Fires(keymap, W, depths, i)
    <3>1. i \in Range(found)
        BY <2>1, <2>9, <2>12, Zenon
    <3>2. PICK n \in Nat : n = Len(found) /\ DOMAIN found = 1..n
        BY <2>13 DEF Follows
    <3>3. Has(found, i)
        BY <3>1, <3>2, Zenon DEF Range, Has
    <3>4. QED
        BY <2>13, <3>3, Zenon DEF Follows
  <2>15. depths[i] # {}
      BY <2>11, <2>14, Zenon DEF Fires, MatchedBy
  <2>16. depths[i] = binding_depths(keymap[i], contexts) /\ depths[d] = binding_depths(keymap[d], contexts)
      BY <2>4, <2>8, <2>10 DEF DepthsOf
  <2>17. PICK b, disabled \in Bindings : b = keymap[i] /\ disabled = keymap[d]
      BY <2>5, <2>8, Zenon
  <2>18. /\ binding_depths(disabled, contexts) # {}
         /\ Max(binding_depths(b, contexts)) \in Nat
         /\ Max(binding_depths(disabled, contexts)) \in Nat
         /\ Max(binding_depths(b, contexts)) <= Max(binding_depths(disabled, contexts))
    <3>1. disabled.predicate \in P \union {NoPredicate}
        BY <2>2, <2>7, <2>17, Zenon
    <3>2. disabled_binding_matches_context(disabled, b) /\ binding_depths(b, contexts) # {}
        BY <2>7, <2>15, <2>16, <2>17, Zenon
    <3>3. QED
        BY <2>2, <2>6, <3>1, <3>2, HiddenPrecedes, Zenon
  <2>19. d \in W
      BY <2>4, <2>7, <2>8, <2>9, <2>11, <2>16, <2>17, <2>18, Zenon DEF MatchedBy
  <2>20. Precedes(depths, d, i)
    <3>1. PICK x, y : x = Max(depths[i]) /\ y = Max(depths[d])
        OBVIOUS
    <3>2. x \in Nat /\ y \in Nat /\ x <= y
        BY <2>16, <2>17, <2>18, <3>1, Zenon
    <3>3. y > x \/ (y = x /\ d > i)
        BY <2>8, <3>2
    <3>4. QED
        BY <3>1, <3>3, Zenon DEF Precedes
  <2>21. ~Stops(keymap, d) /\ ~Skips(keymap, d, i)
      BY <2>14, <2>19, <2>20, Zenon DEF Fires
  <2>22. CASE is_no_action(keymap[d])
    <3>1. keymap[d].user
        BY <2>1, <2>4, <2>8, <2>22, Zenon
    <3>2. QED
        BY <2>21, <2>22, <3>1, Zenon DEF Stops
  <2>23. CASE binding_is_unbound(keymap[d], keymap[i])
      BY <2>21, <2>23, Zenon DEF Skips, binding_is_unbound
  <2>24. QED
      BY <2>7, <2>22, <2>23, Zenon
<1>2. TypeOK => HiddenNeverFires
    BY <1>1
<1>3. QED
    BY <1>2, KeyTypes, PTL

=============================================================================
