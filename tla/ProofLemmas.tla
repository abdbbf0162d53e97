------------------------------ MODULE ProofLemmas ------------------------------
(***************************************************************************)
(* Induction over the naturals in the form the proofs use: a set of        *)
(* natural numbers that is not empty has a least element.  A recursive     *)
(* function over an interval is then what its equation says.  And the      *)
(* facts about sequences that are written as functions.                    *)
(***************************************************************************)
EXTENDS Integers, Sequences, WellFoundedInduction, SequenceTheorems, TLAPS

\* Every set of natural numbers that has an element has a least one.
LEMMA LeastNatural ==
    ASSUME NEW T \in SUBSET Nat, T # {}
    PROVE  \E n \in T : \A m \in T : n <= m
  <1> DEFINE Less == {ss \in Nat \X Nat : ss[1] < ss[2]}
  <1>1. OpToRel(<, Nat) = Less
    BY Zenon DEF OpToRel
  <1>2. \E x \in T : \A y \in T : <<y, x>> \notin Less
    BY <1>1, WFMin, NatLessThanWellFounded, Zenon
  <1>3. ASSUME NEW x \in T, NEW y \in T, <<y, x>> \notin Less
        PROVE  x <= y
    <2>1. <<y, x>> \in Nat \X Nat
      OBVIOUS
    <2>2. ~(<<y, x>>[1] < <<y, x>>[2])
      BY <1>3, <2>1, Zenon
    <2> QED BY <2>2
  <1> QED BY <1>2, <1>3, Zenon

\* f and g agree at lo, and at a place up to hi whenever they agree just before it.
StepwiseEqual(f, g, lo, hi) ==
    /\ lo <= hi => f[lo] = g[lo]
    /\ \A i \in lo + 1 .. hi : f[i - 1] = g[i - 1] => f[i] = g[i]

\* Functions that agree step by step agree on the whole interval.
LEMMA EqualAlong ==
    ASSUME NEW f, NEW g, NEW lo \in Nat, NEW hi \in Int, StepwiseEqual(f, g, lo, hi)
    PROVE  \A i \in lo .. hi : f[i] = g[i]
  <1> DEFINE T == {i \in lo .. hi : f[i] # g[i]}
  <1> SUFFICES ASSUME T # {} PROVE FALSE
    OBVIOUS
  <1>1. T \in SUBSET Nat
    OBVIOUS
  <1>2. PICK n \in T : \A m \in T : n <= m
    BY <1>1, LeastNatural
  <1>3. n \in lo .. hi /\ f[n] # g[n]
    OBVIOUS
  <1>4. n # lo
    BY <1>3 DEF StepwiseEqual
  <1>5. n - 1 \in lo .. hi /\ n \in lo + 1 .. hi
    BY <1>3, <1>4
  <1>6. n - 1 \notin T
    BY <1>2, <1>5
  <1> QED BY <1>3, <1>5, <1>6 DEF StepwiseEqual

--------------------------------------------------------------------------------

\* A function over 1 .. n is a sequence of length n.
LEMMA FunctionIsSeq ==
    ASSUME NEW S, NEW n \in Nat, NEW f \in [1 .. n -> S]
    PROVE  f \in Seq(S) /\ Len(f) = n
  <1>1. f \in Seq(S)
    BY SeqDef
  <1>2. DOMAIN f = 1 .. Len(f) /\ Len(f) \in Nat
    BY <1>1, LenProperties
  <1> QED BY <1>1, <1>2

\* u has the m elements of s and then the n elements of t.
OneAfterOther(S, u, s, m, t, n) ==
    /\ s \in [1 .. m -> S] /\ t \in [1 .. n -> S] /\ u \in [1 .. m + n -> S]
    /\ \A i \in 1 .. m : u[i] = s[i]
    /\ \A i \in 1 .. n : u[m + i] = t[i]

\* A function that has s and then t is the concatenation of the two.
LEMMA ConcatByElements ==
    ASSUME NEW S, NEW m \in Nat, NEW n \in Nat, NEW s, NEW t, NEW u,
           OneAfterOther(S, u, s, m, t, n)
    PROVE  u = s \o t
  <1> USE DEF OneAfterOther
  <1>1. s \in Seq(S) /\ Len(s) = m /\ t \in Seq(S) /\ Len(t) = n
    BY FunctionIsSeq
  <1>2. u \in Seq(S) /\ Len(u) = m + n
    <2>1. m + n \in Nat
      OBVIOUS
    <2> QED BY <2>1, FunctionIsSeq
  <1>3. /\ s \o t \in Seq(S) /\ Len(s \o t) = m + n
        /\ \A i \in 1 .. m + n : (s \o t)[i] = IF i <= m THEN s[i] ELSE t[i - m]
    BY <1>1, ConcatProperties
  <1>4. \A i \in 1 .. m + n : u[i] = (s \o t)[i]
    <2> SUFFICES ASSUME NEW i \in 1 .. m + n PROVE u[i] = (s \o t)[i]
      OBVIOUS
    <2>1. CASE i <= m
      BY <2>1, <1>3
    <2>2. CASE i > m
      <3>1. i - m \in 1 .. n /\ m + (i - m) = i
        BY <2>2
      <3> QED BY <2>2, <3>1, <1>3
    <2> QED BY <2>1, <2>2
  <1> QED BY <1>2, <1>3, <1>4, SeqEqual

\* A function over 1 .. n - m that starts at place m + 1 of s is a suffix of it.
LEMMA SuffixByElements ==
    ASSUME NEW S, NEW n \in Nat, NEW m \in 0 .. n, NEW k \in m .. n,
           NEW s \in [1 .. n -> S], NEW u \in [1 .. k - m -> S],
           \A i \in 1 .. k - m : u[i] = s[m + i]
    PROVE  u = SubSeq(s, m + 1, k)
  <1>1. u \in Seq(S) /\ Len(u) = k - m
    <2>1. k - m \in Nat
      OBVIOUS
    <2> QED BY <2>1, FunctionIsSeq
  <1>2. \A i \in m + 1 .. k : s[i] \in S
    OBVIOUS
  <1>3. /\ SubSeq(s, m + 1, k) \in Seq(S)
        /\ Len(SubSeq(s, m + 1, k)) = k - m
        /\ \A i \in 1 .. k - m : SubSeq(s, m + 1, k)[i] = s[m + i]
    <2>1. /\ SubSeq(s, m + 1, k) \in Seq(S)
          /\ Len(SubSeq(s, m + 1, k)) = IF m + 1 <= k THEN k - (m + 1) + 1 ELSE 0
          /\ \A i \in 1 .. k - (m + 1) + 1 : SubSeq(s, m + 1, k)[i] = s[m + 1 + i - 1]
      BY <1>2, SubSeqProperties
    <2> QED BY <2>1
  <1> QED BY <1>1, <1>3, SeqEqual

\* A function that has s and then x is s with x appended.
LEMMA AppendByElements ==
    ASSUME NEW S, NEW m \in Nat, NEW s \in [1 .. m -> S], NEW x \in S,
           NEW u \in [1 .. m + 1 -> S],
           \A i \in 1 .. m : u[i] = s[i],
           u[m + 1] = x
    PROVE  u = s \o <<x>>
  <1> DEFINE t == <<x>>
  <1>0. PICK n \in Nat : n = 1
    OBVIOUS
  <1>1. t \in [1 .. n -> S] /\ u \in [1 .. m + n -> S]
    BY <1>0
  <1>2. \A i \in 1 .. n : u[m + i] = t[i]
    BY <1>0
  <1> HIDE DEF t
  <1>3. u = s \o t
    BY <1>1, <1>2, ConcatByElements DEF OneAfterOther
  <1> QED BY <1>3 DEF t
\* The first n elements of a sequence, as a function.
LEMMA PrefixElements ==
    ASSUME NEW S, NEW xs \in Seq(S), NEW n \in Nat, n <= Len(xs)
    PROVE  /\ SubSeq(xs, 1, n) \in [1 .. n -> S]
           /\ \A i \in 1 .. n : SubSeq(xs, 1, n)[i] = xs[i]
  <1>1. Len(xs) \in Nat
    BY LenProperties
  <1>2. \A i \in 1 .. n : xs[i] \in S
    <2>1. \A i \in 1 .. n : i \in 1 .. Len(xs)
      BY <1>1
    <2> QED BY <2>1, ElementOfSeq
  <1> DEFINE t == SubSeq(xs, 1, n)
  <1>3. /\ t \in Seq(S) /\ Len(t) = n
        /\ \A i \in 1 .. n - 1 + 1 : t[i] = xs[1 + i - 1]
    <2>1. 1 \in Int /\ n \in Int
      OBVIOUS
    <2> QED BY <1>2, <2>1, SubSeqProperties
  <1> HIDE DEF t
  <1>4. t \in [1 .. n -> S]
    BY <1>3, LenProperties
  <1>5. \A i \in 1 .. n : t[i] = xs[i]
    BY <1>3
  <1> QED BY <1>4, <1>5 DEF t
\* The elements of a piece of a sequence.
LEMMA PieceElements ==
    ASSUME NEW S, NEW s \in Seq(S), NEW a \in Nat, NEW b \in Nat, a >= 1, b <= Len(s), a <= b + 1
    PROVE  /\ SubSeq(s, a, b) \in Seq(S) /\ Len(SubSeq(s, a, b)) = b - a + 1
           /\ \A k \in 1 .. b - a + 1 : SubSeq(s, a, b)[k] = s[k + a - 1]
  <1>1. Len(s) \in Nat
    BY LenProperties
  <1>2. \A k \in a .. b : s[k] \in S
    <2>1. \A k \in a .. b : k \in 1 .. Len(s)
      BY <1>1
    <2> QED BY <2>1, ElementOfSeq
  <1>3. /\ SubSeq(s, a, b) \in Seq(S)
        /\ Len(SubSeq(s, a, b)) = IF a <= b THEN b - a + 1 ELSE 0
        /\ \A k \in 1 .. b - a + 1 : SubSeq(s, a, b)[k] = s[a + k - 1]
    <2>1. a \in Int /\ b \in Int
      OBVIOUS
    <2> QED BY <1>2, <2>1, SubSeqProperties
  <1>4. \A k \in 1 .. b - a + 1 : a + k - 1 = k + a - 1
    OBVIOUS
  <1>5. (IF a <= b THEN b - a + 1 ELSE 0) = b - a + 1
    OBVIOUS
  <1> QED BY <1>3, <1>4, <1>5

\* The concatenation of two sequences of known lengths.
LEMMA JoinElements ==
    ASSUME NEW S, NEW u \in Seq(S), NEW w \in Seq(S)
    PROVE  /\ u \o w \in Seq(S) /\ Len(u \o w) = Len(u) + Len(w)
           /\ \A k \in 1 .. Len(u) : (u \o w)[k] = u[k]
           /\ \A k \in Len(u) + 1 .. Len(u) + Len(w) : (u \o w)[k] = w[k - Len(u)]
  <1>0. Len(u) \in Nat /\ Len(w) \in Nat
    BY LenProperties
  <1>1. /\ u \o w \in Seq(S) /\ Len(u \o w) = Len(u) + Len(w)
        /\ \A k \in 1 .. Len(u) + Len(w) :
              (u \o w)[k] = IF k <= Len(u) THEN u[k] ELSE w[k - Len(u)]
    BY ConcatProperties
  <1>2. ASSUME NEW k \in 1 .. Len(u) PROVE (u \o w)[k] = u[k]
    <2>1. k \in 1 .. Len(u) + Len(w) /\ k <= Len(u)
      BY <1>0
    <2> QED BY <1>1, <2>1
  <1>3. ASSUME NEW k \in Len(u) + 1 .. Len(u) + Len(w) PROVE (u \o w)[k] = w[k - Len(u)]
    <2>1. k \in 1 .. Len(u) + Len(w) /\ ~(k <= Len(u))
      BY <1>0
    <2> QED BY <1>1, <2>1
  <1> QED BY <1>1, <1>2, <1>3

\* A sequence with e put in at place p, and one without its element at place p
\* (InsertAt and RemoveAt of SequencesExt).
Inserted(s, p, e) == SubSeq(s, 1, p - 1) \o <<e>> \o SubSeq(s, p, Len(s))
Removed(s, p) == SubSeq(s, 1, p - 1) \o SubSeq(s, p + 1, Len(s))

\* The elements after an insertion.
LEMMA InsertedElements ==
    ASSUME NEW S, NEW s \in Seq(S), NEW p \in 1 .. Len(s) + 1, NEW e \in S
    PROVE  /\ Inserted(s, p, e) \in Seq(S) /\ Len(Inserted(s, p, e)) = Len(s) + 1
           /\ \A k \in 1 .. p - 1 : Inserted(s, p, e)[k] = s[k]
           /\ Inserted(s, p, e)[p] = e
           /\ \A k \in p + 1 .. Len(s) + 1 : Inserted(s, p, e)[k] = s[k - 1]
  <1>0. PICK n \in Nat : n = Len(s)
    BY LenProperties
  <1>p. p \in Nat /\ p - 1 \in Nat /\ n - p + 1 \in Nat /\ p <= n + 1
    BY <1>0
  <1>1. PICK u \in Seq(S) : u = SubSeq(s, 1, p - 1) /\ Len(u) = p - 1
                            /\ \A k \in 1 .. p - 1 : u[k] = s[k]
    <2>1. 1 \in Nat /\ 1 >= 1 /\ p - 1 <= Len(s) /\ 1 <= p - 1 + 1
      BY <1>0, <1>p
    <2>2. /\ SubSeq(s, 1, p - 1) \in Seq(S) /\ Len(SubSeq(s, 1, p - 1)) = p - 1 - 1 + 1
          /\ \A k \in 1 .. p - 1 - 1 + 1 : SubSeq(s, 1, p - 1)[k] = s[k + 1 - 1]
      BY <1>p, <2>1, PieceElements
    <2>3. p - 1 - 1 + 1 = p - 1 /\ \A k \in 1 .. p - 1 : k + 1 - 1 = k
      BY <1>p
    <2> QED BY <2>2, <2>3
  <1>2. PICK v \in Seq(S) : v = <<e>> /\ Len(v) = 1 /\ v[1] = e
    <2>1. <<e>> \in Seq(S) /\ Len(<<e>>) = 1 /\ <<e>>[1] = e
      OBVIOUS
    <2> QED BY <2>1, Zenon
  <1>3. PICK w \in Seq(S) : w = SubSeq(s, p, n) /\ Len(w) = n - p + 1
                            /\ \A k \in 1 .. n - p + 1 : w[k] = s[k + p - 1]
    <2>1. p >= 1 /\ n <= Len(s)
      BY <1>0
    <2>2. /\ SubSeq(s, p, n) \in Seq(S) /\ Len(SubSeq(s, p, n)) = n - p + 1
          /\ \A k \in 1 .. n - p + 1 : SubSeq(s, p, n)[k] = s[k + p - 1]
      BY <1>p, <2>1, PieceElements
    <2> QED BY <2>2, Zenon
  <1>4. PICK x \in Seq(S) : /\ x = u \o v /\ Len(x) = p - 1 + 1
                            /\ \A k \in 1 .. p - 1 : x[k] = u[k]
                            /\ \A k \in p - 1 + 1 .. p - 1 + 1 : x[k] = v[k - (p - 1)]
    <2>1. /\ u \o v \in Seq(S) /\ Len(u \o v) = p - 1 + 1
          /\ \A k \in 1 .. p - 1 : (u \o v)[k] = u[k]
          /\ \A k \in p - 1 + 1 .. p - 1 + 1 : (u \o v)[k] = v[k - (p - 1)]
      <3>1. /\ u \o v \in Seq(S) /\ Len(u \o v) = Len(u) + Len(v)
            /\ \A k \in 1 .. Len(u) : (u \o v)[k] = u[k]
            /\ \A k \in Len(u) + 1 .. Len(u) + Len(v) : (u \o v)[k] = v[k - Len(u)]
        BY JoinElements
      <3> QED BY <3>1, <1>1, <1>2
    <2> QED BY <2>1, Zenon
  <1>5. Len(x) = p /\ x[p] = e
    BY <1>p, <1>2, <1>4
  <1>6. PICK y \in Seq(S) : /\ y = x \o w /\ Len(y) = p + (n - p + 1)
                            /\ \A k \in 1 .. p : y[k] = x[k]
                            /\ \A k \in p + 1 .. p + (n - p + 1) : y[k] = w[k - p]
    <2>1. /\ x \o w \in Seq(S) /\ Len(x \o w) = p + (n - p + 1)
          /\ \A k \in 1 .. p : (x \o w)[k] = x[k]
          /\ \A k \in p + 1 .. p + (n - p + 1) : (x \o w)[k] = w[k - p]
      <3>1. /\ x \o w \in Seq(S) /\ Len(x \o w) = Len(x) + Len(w)
            /\ \A k \in 1 .. Len(x) : (x \o w)[k] = x[k]
            /\ \A k \in Len(x) + 1 .. Len(x) + Len(w) : (x \o w)[k] = w[k - Len(x)]
        BY JoinElements
      <3> QED BY <3>1, <1>3, <1>5
    <2> QED BY <2>1, Zenon
  <1>7. y = Inserted(s, p, e)
    BY <1>0, <1>1, <1>2, <1>3, <1>4, <1>6 DEF Inserted
  <1>8. p + (n - p + 1) = n + 1
    BY <1>p
  <1>9. ASSUME NEW k \in p + 1 .. n + 1 PROVE y[k] = s[k - 1]
    <2>1. k - p \in 1 .. n - p + 1 /\ (k - p) + p - 1 = k - 1
      BY <1>p
    <2>2. w[k - p] = s[(k - p) + p - 1]
      BY <1>3, <2>1
    <2> QED BY <1>6, <1>8, <2>1, <2>2
  <1>10. \A k \in 1 .. p - 1 : y[k] = s[k]
    <2>1. \A k \in 1 .. p - 1 : k \in 1 .. p
      BY <1>p
    <2> QED BY <1>1, <1>4, <1>6, <2>1
  <1>11. y[p] = e
    <2>1. p \in 1 .. p
      BY <1>p
    <2> QED BY <1>5, <1>6, <2>1
  <1> QED BY <1>0, <1>6, <1>7, <1>8, <1>9, <1>10, <1>11

\* The elements after a removal.
LEMMA RemovedElements ==
    ASSUME NEW S, NEW s \in Seq(S), NEW p \in 1 .. Len(s)
    PROVE  /\ Removed(s, p) \in Seq(S) /\ Len(Removed(s, p)) = Len(s) - 1
           /\ \A k \in 1 .. p - 1 : Removed(s, p)[k] = s[k]
           /\ \A k \in p .. Len(s) - 1 : Removed(s, p)[k] = s[k + 1]
  <1>0. PICK n \in Nat : n = Len(s)
    BY LenProperties
  <1>p. p \in Nat /\ p - 1 \in Nat /\ p + 1 \in Nat /\ n - p \in Nat /\ p <= n
    BY <1>0
  <1>1. PICK u \in Seq(S) : u = SubSeq(s, 1, p - 1) /\ Len(u) = p - 1
                            /\ \A k \in 1 .. p - 1 : u[k] = s[k]
    <2>1. 1 \in Nat /\ 1 >= 1 /\ p - 1 <= Len(s) /\ 1 <= p - 1 + 1
      BY <1>0, <1>p
    <2>2. /\ SubSeq(s, 1, p - 1) \in Seq(S) /\ Len(SubSeq(s, 1, p - 1)) = p - 1 - 1 + 1
          /\ \A k \in 1 .. p - 1 - 1 + 1 : SubSeq(s, 1, p - 1)[k] = s[k + 1 - 1]
      BY <1>p, <2>1, PieceElements
    <2>3. p - 1 - 1 + 1 = p - 1 /\ \A k \in 1 .. p - 1 : k + 1 - 1 = k
      BY <1>p
    <2> QED BY <2>2, <2>3
  <1>2. PICK w \in Seq(S) : w = SubSeq(s, p + 1, n) /\ Len(w) = n - p
                            /\ \A k \in 1 .. n - p : w[k] = s[k + p]
    <2>1. p + 1 >= 1 /\ n <= Len(s) /\ p + 1 <= n + 1
      BY <1>0, <1>p
    <2>2. /\ SubSeq(s, p + 1, n) \in Seq(S) /\ Len(SubSeq(s, p + 1, n)) = n - (p + 1) + 1
          /\ \A k \in 1 .. n - (p + 1) + 1 : SubSeq(s, p + 1, n)[k] = s[k + (p + 1) - 1]
      BY <1>p, <2>1, PieceElements
    <2>3. n - (p + 1) + 1 = n - p /\ \A k \in 1 .. n - p : k + (p + 1) - 1 = k + p
      BY <1>p
    <2> QED BY <2>2, <2>3
  <1>3. PICK y \in Seq(S) : /\ y = u \o w /\ Len(y) = p - 1 + (n - p)
                            /\ \A k \in 1 .. p - 1 : y[k] = u[k]
                            /\ \A k \in p - 1 + 1 .. p - 1 + (n - p) : y[k] = w[k - (p - 1)]
    <2>1. /\ u \o w \in Seq(S) /\ Len(u \o w) = p - 1 + (n - p)
          /\ \A k \in 1 .. p - 1 : (u \o w)[k] = u[k]
          /\ \A k \in p - 1 + 1 .. p - 1 + (n - p) : (u \o w)[k] = w[k - (p - 1)]
      <3>1. /\ u \o w \in Seq(S) /\ Len(u \o w) = Len(u) + Len(w)
            /\ \A k \in 1 .. Len(u) : (u \o w)[k] = u[k]
            /\ \A k \in Len(u) + 1 .. Len(u) + Len(w) : (u \o w)[k] = w[k - Len(u)]
        BY JoinElements
      <3> QED BY <3>1, <1>1, <1>2
    <2> QED BY <2>1, Zenon
  <1>4. y = Removed(s, p)
    BY <1>0, <1>1, <1>2, <1>3 DEF Removed
  <1>5. p - 1 + (n - p) = n - 1 /\ p - 1 + 1 = p
    BY <1>p
  <1>6. ASSUME NEW k \in p .. n - 1 PROVE y[k] = s[k + 1]
    <2>1. k - (p - 1) \in 1 .. n - p /\ k - (p - 1) + p = k + 1
      BY <1>p
    <2>2. w[k - (p - 1)] = s[k - (p - 1) + p]
      BY <1>2, <2>1
    <2> QED BY <1>3, <1>5, <2>1, <2>2
  <1> QED BY <1>0, <1>1, <1>3, <1>4, <1>5, <1>6
-------------------------------------------------------------------------------
(* Sequences that differ in one element.                                   *)

\* The place in the longer sequence of place k of the shorter one, and back.
Above(k, p) == IF k < p THEN k ELSE k + 1
Below(k, p) == IF k < p THEN k ELSE k - 1

\* long is short with one more element, at place p.
OneLonger(S, long, short, p) ==
    /\ long \in Seq(S) /\ short \in Seq(S) /\ Len(long) = Len(short) + 1
    /\ p \in DOMAIN long
    /\ \A k \in DOMAIN short :
          Above(k, p) \in DOMAIN long /\ Above(k, p) # p /\ long[Above(k, p)] = short[k]
    /\ \A k \in DOMAIN long :
          k # p => Below(k, p) \in DOMAIN short /\ short[Below(k, p)] = long[k]

\* InsertAt and Append make a sequence one longer.
LEMMA InsertedIsLonger ==
    ASSUME NEW S, NEW s \in Seq(S), NEW p \in 1 .. Len(s) + 1, NEW e \in S
    PROVE  OneLonger(S, Inserted(s, p, e), s, p) /\ Inserted(s, p, e)[p] = e
  <1>0. PICK n \in Nat : n = Len(s) /\ DOMAIN s = 1 .. n
    BY LenProperties
  <1>1. PICK r : r = Inserted(s, p, e)
    OBVIOUS
  <1>2. /\ r \in Seq(S) /\ Len(r) = n + 1
        /\ \A k \in 1 .. p - 1 : r[k] = s[k]
        /\ r[p] = e
        /\ \A k \in p + 1 .. n + 1 : r[k] = s[k - 1]
    <2>1. /\ Inserted(s, p, e) \in Seq(S) /\ Len(Inserted(s, p, e)) = Len(s) + 1
          /\ \A k \in 1 .. p - 1 : Inserted(s, p, e)[k] = s[k]
          /\ Inserted(s, p, e)[p] = e
          /\ \A k \in p + 1 .. Len(s) + 1 : Inserted(s, p, e)[k] = s[k - 1]
      BY InsertedElements
    <2> QED BY <1>0, <1>1, <2>1
  <1>3. DOMAIN r = 1 .. n + 1 /\ p \in 1 .. n + 1
    BY <1>0, <1>2, LenProperties
  <1>4. ASSUME NEW k \in 1 .. n
        PROVE  Above(k, p) \in 1 .. n + 1 /\ Above(k, p) # p /\ r[Above(k, p)] = s[k]
    <2>1. CASE k < p
      <3>1. k \in 1 .. p - 1
        BY <1>3, <2>1
      <3> QED BY <1>2, <1>3, <2>1, <3>1 DEF Above
    <2>2. CASE k >= p
      <3>1. k + 1 \in p + 1 .. n + 1 /\ (k + 1) - 1 = k /\ k + 1 # p /\ ~(k < p)
        BY <1>3, <2>2
      <3>2. r[k + 1] = s[k]
        BY <1>2, <3>1
      <3> QED BY <1>3, <3>1, <3>2 DEF Above
    <2> QED BY <1>3, <2>1, <2>2
  <1>5. ASSUME NEW k \in 1 .. n + 1, k # p
        PROVE  Below(k, p) \in 1 .. n /\ s[Below(k, p)] = r[k]
    <2>1. CASE k < p
      <3>1. k \in 1 .. p - 1
        BY <1>3, <2>1
      <3> QED BY <1>2, <1>3, <2>1, <3>1 DEF Below
    <2>2. CASE k > p
      <3>1. k \in p + 1 .. n + 1 /\ ~(k < p)
        BY <1>3, <2>2
      <3> QED BY <1>2, <1>3, <3>1 DEF Below
    <2> QED BY <1>3, <1>5, <2>1, <2>2
  <1>6. OneLonger(S, r, s, p)
    BY <1>0, <1>2, <1>3, <1>4, <1>5 DEF OneLonger
  <1> QED BY <1>1, <1>2, <1>6

\* Append is such an insertion at the end.
LEMMA AppendedIsLonger ==
    ASSUME NEW S, NEW s \in Seq(S), NEW e \in S
    PROVE  /\ OneLonger(S, Append(s, e), s, Len(s) + 1)
           /\ Append(s, e)[Len(s) + 1] = e
  <1>0. PICK n \in Nat : n = Len(s) /\ DOMAIN s = 1 .. n
    BY LenProperties
  <1>1. PICK r : r = Append(s, e)
    OBVIOUS
  <1>2. /\ r \in Seq(S) /\ Len(r) = n + 1
        /\ \A k \in 1 .. n : r[k] = s[k]
        /\ r[n + 1] = e
    BY <1>0, <1>1, AppendProperties
  <1>3. DOMAIN r = 1 .. n + 1
    BY <1>2, LenProperties
  <1>4. /\ \A k \in 1 .. n : Above(k, n + 1) = k /\ k \in 1 .. n + 1 /\ k # n + 1
        /\ \A k \in 1 .. n + 1 : k # n + 1 => Below(k, n + 1) = k /\ k \in 1 .. n
        /\ n + 1 \in 1 .. n + 1
    BY DEF Above, Below
  <1>5. OneLonger(S, r, s, n + 1)
    BY <1>0, <1>2, <1>3, <1>4 DEF OneLonger
  <1> QED BY <1>0, <1>1, <1>2, <1>5

\* RemoveAt and Tail leave a sequence one shorter.
LEMMA RemovedIsShorter ==
    ASSUME NEW S, NEW s \in Seq(S), NEW p \in 1 .. Len(s)
    PROVE  OneLonger(S, s, Removed(s, p), p)
  <1>0. PICK n \in Nat : n = Len(s) /\ DOMAIN s = 1 .. n
    BY LenProperties
  <1>1. PICK r : r = Removed(s, p)
    OBVIOUS
  <1>2. /\ r \in Seq(S) /\ Len(r) = n - 1
        /\ \A k \in 1 .. p - 1 : r[k] = s[k]
        /\ \A k \in p .. n - 1 : r[k] = s[k + 1]
    BY <1>0, <1>1, RemovedElements
  <1>3. DOMAIN r = 1 .. n - 1 /\ p \in 1 .. n
    BY <1>0, <1>2, LenProperties
  <1>4. ASSUME NEW k \in 1 .. n - 1
        PROVE  Above(k, p) \in 1 .. n /\ Above(k, p) # p /\ s[Above(k, p)] = r[k]
    <2>1. CASE k < p
      <3>1. k \in 1 .. p - 1
        BY <1>3, <2>1
      <3> QED BY <1>2, <1>3, <2>1, <3>1 DEF Above
    <2>2. CASE k >= p
      <3>1. k \in p .. n - 1 /\ k + 1 # p /\ ~(k < p)
        BY <1>3, <2>2
      <3> QED BY <1>2, <1>3, <3>1 DEF Above
    <2> QED BY <1>3, <2>1, <2>2
  <1>5. ASSUME NEW k \in 1 .. n, k # p
        PROVE  Below(k, p) \in 1 .. n - 1 /\ r[Below(k, p)] = s[k]
    <2>1. CASE k < p
      <3>1. k \in 1 .. p - 1 /\ k \in 1 .. n - 1
        BY <1>3, <2>1
      <3> QED BY <1>2, <2>1, <3>1 DEF Below
    <2>2. CASE k > p
      <3>1. k - 1 \in p .. n - 1 /\ (k - 1) + 1 = k /\ ~(k < p) /\ k - 1 \in 1 .. n - 1
        BY <1>3, <2>2
      <3>2. r[k - 1] = s[k]
        BY <1>2, <3>1
      <3> QED BY <3>1, <3>2 DEF Below
    <2> QED BY <1>3, <1>5, <2>1, <2>2
  <1>6. OneLonger(S, s, r, p)
    BY <1>0, <1>2, <1>3, <1>4, <1>5 DEF OneLonger
  <1> QED BY <1>1, <1>6

\* Tail takes away place 1.
LEMMA TailIsShorter ==
    ASSUME NEW S, NEW s \in Seq(S), s # <<>>
    PROVE  OneLonger(S, s, Tail(s), 1) /\ Head(s) = s[1]
  <1>0. PICK n \in Nat : n = Len(s) /\ DOMAIN s = 1 .. n
    BY LenProperties
  <1>z. n > 0
    BY <1>0, EmptySeq
  <1>1. PICK r : r = Tail(s)
    OBVIOUS
  <1>2. r \in Seq(S) /\ Len(r) = n - 1 /\ \A k \in 1 .. n - 1 : r[k] = s[k + 1]
    BY <1>0, <1>1, HeadTailProperties
  <1>3. DOMAIN r = 1 .. n - 1
    BY <1>2, LenProperties
  <1>4. /\ \A k \in 1 .. n - 1 : Above(k, 1) = k + 1 /\ k + 1 \in 1 .. n /\ k + 1 # 1
        /\ \A k \in 1 .. n : k # 1 =>
              Below(k, 1) = k - 1 /\ k - 1 \in 1 .. n - 1 /\ (k - 1) + 1 = k
        /\ 1 \in 1 .. n
    BY <1>z DEF Above, Below
  <1>5. \A k \in 1 .. n : k # 1 => r[k - 1] = s[k]
    BY <1>2, <1>4
  <1>6. OneLonger(S, s, r, 1)
    BY <1>0, <1>2, <1>3, <1>4, <1>5 DEF OneLonger
  <1>7. Head(s) = s[1]
    BY <1>0, <1>z
  <1> QED BY <1>1, <1>6, <1>7
===============================================================================
