------------------------------ MODULE ImiDbProofs ------------------------------
(***************************************************************************)
(* Theorems about ImiDb, for every number of files, keys and timer threads *)
(* and all values that iniparser can save.                                 *)
(***************************************************************************)
EXTENDS ImiDb, ProofLemmas
-------------------------------------------------------------------------------
(* The recursive function behind FlattenSeq.                               *)

Texts == Seq(Cells)

\* The equation that FlattenSeq solves for n pieces, and its solution.
Flattens(g, ps, n) == g = [i \in 1 .. n |-> IF i = 1 THEN ps[i] ELSE g[i - 1] \o ps[i]]
Flat(ps, n) == CHOOSE g : Flattens(g, ps, n)

\* The equation has a solution, whose values are texts.
LEMMA FlatExists ==
  ASSUME NEW n \in Nat, NEW ps, \A i \in 1 .. n : ps[i] \in Texts
  PROVE  \E g \in [1 .. n -> Texts] : Flattens(g, ps, n)
  <1> DEFINE Bad == {k \in 0 .. n : ~ \E g \in [1 .. k -> Texts] : Flattens(g, ps, k)}
  <1>1. ASSUME Bad # {} PROVE FALSE
    <2>1. Bad \in SUBSET Nat
      OBVIOUS
    <2>2. PICK k \in Bad : \A m \in Bad : k <= m
      BY <1>1, <2>1, LeastNatural
    <2>3. k \in 0 .. n /\ ~ \E g \in [1 .. k -> Texts] : Flattens(g, ps, k)
      BY <2>2
    <2>4. CASE k = 0
      <3>1. PICK g : g = [i \in 1 .. 0 |-> <<>>]
        OBVIOUS
      <3>2. g \in [1 .. 0 -> Texts] /\ Flattens(g, ps, 0)
        BY <3>1 DEF Flattens
      <3> QED BY <2>3, <2>4, <3>2
    <2>5. CASE k # 0
      <3>1. k - 1 \in 0 .. n /\ k - 1 \notin Bad
        BY <2>2, <2>3, <2>5
      <3>2. PICK g \in [1 .. k - 1 -> Texts] : Flattens(g, ps, k - 1)
        BY <3>1
      <3>3. \A i \in 1 .. k - 1 : g[i] = IF i = 1 THEN ps[i] ELSE g[i - 1] \o ps[i]
        BY <3>2 DEF Flattens
      <3>4. ps[k] \in Texts /\ k \in 1 .. n
        BY <2>3, <2>5
      <3>5. PICK h : h = [i \in 1 .. k |-> IF i < k THEN g[i] ELSE IF i = 1 THEN ps[i]
                                                               ELSE g[i - 1] \o ps[i]]
        OBVIOUS
      <3>6. k # 1 => g[k - 1] \in Texts /\ g[k - 1] \o ps[k] \in Texts
        <4>1. k # 1 => k - 1 \in 1 .. k - 1
          BY <3>4
        <4>2. k # 1 => g[k - 1] \in Texts
          BY <4>1
        <4> QED BY <3>4, <4>2, ConcatProperties DEF Texts
      <3>7. h \in [1 .. k -> Texts]
        <4>1. ASSUME NEW i \in 1 .. k PROVE h[i] \in Texts
          <5>1. CASE i < k
            <6>1. i \in 1 .. k - 1
              BY <5>1, <3>4
            <6> QED BY <3>5, <5>1, <6>1
          <5>2. CASE i = k
            BY <3>4, <3>5, <3>6, <5>2
          <5> QED BY <5>1, <5>2
        <4> QED BY <3>5, <4>1
      <3>8. ASSUME NEW i \in 1 .. k
            PROVE  h[i] = IF i = 1 THEN ps[i] ELSE h[i - 1] \o ps[i]
        <4>1. i # 1 => i - 1 \in 1 .. k /\ i - 1 < k
          BY <3>4
        <4>2. i # 1 => h[i - 1] = g[i - 1]
          BY <3>5, <4>1
        <4>3. CASE i < k
          <5>1. i \in 1 .. k - 1
            BY <4>3, <3>4
          <5> QED BY <3>3, <3>5, <4>2, <4>3, <5>1
        <4>4. CASE i = k
          BY <3>5, <4>2, <4>4
        <4> QED BY <4>3, <4>4
      <3>9. Flattens(h, ps, k)
        <4>1. h = [i \in 1 .. k |-> h[i]]
          BY <3>7
        <4> QED BY <3>8, <4>1 DEF Flattens
      <3> QED BY <2>3, <3>7, <3>9
    <2> QED BY <2>4, <2>5
  <1>2. n \in 0 .. n /\ n \notin Bad
    BY <1>1
  <1> QED BY <1>2

\* Pieces of a text, one after the other: piece i begins behind place o[i - 1].
Placed(text, ps, n, o) ==
    /\ o \in [0 .. n -> Nat] /\ o[0] = 0
    /\ \A i \in 1 .. n : o[i] = o[i - 1] + Len(ps[i])
    /\ text \in Texts /\ Len(text) = o[n]
    /\ \A i \in 1 .. n : o[i] <= o[n]
    /\ \A i \in 1 .. n : \A j \in 1 .. Len(ps[i]) : text[o[i - 1] + j] = ps[i][j]

\* The pieces are one after the other in what FlattenSeq makes of them.
LEMMA FlatPlaced ==
  ASSUME NEW ps \in Seq(Texts), NEW n \in Nat, n = Len(ps), n # 0
  PROVE  \E o : Placed(FlattenSeq(ps), ps, n, o)
  <1>1. \A i \in 1 .. n : ps[i] \in Texts /\ Len(ps[i]) \in Nat
    BY ElementOfSeq, LenProperties DEF Texts
  <1>2. PICK g \in [1 .. n -> Texts] : Flattens(g, ps, n)
    BY <1>1, FlatExists
  <1>3. \A i \in 1 .. n : g[i] = IF i = 1 THEN ps[i] ELSE g[i - 1] \o ps[i]
    BY <1>2 DEF Flattens
  <1>4. FlattenSeq(ps) = g[n]
    <2> DEFINE f == CHOOSE h : Flattens(h, ps, n)
    <2>1. Flattens(f, ps, n)
      BY <1>2, Zenon
    <2>2. FlattenSeq(ps) = f[n]
      BY DEF FlattenSeq, Flattens
    <2> HIDE DEF f
    <2>3. StepwiseEqual(f, g, 1, n)
      <3>1. \A i \in 1 .. n : f[i] = IF i = 1 THEN ps[i] ELSE f[i - 1] \o ps[i]
        BY <2>1 DEF Flattens
      <3>2. 1 \in 1 .. n /\ f[1] = g[1]
        <4>1. 1 \in 1 .. n
          OBVIOUS
        <4>2. f[1] = ps[1] /\ g[1] = ps[1]
          BY <1>3, <3>1, <4>1, Zenon
        <4> QED BY <4>1, <4>2
      <3>3. ASSUME NEW i \in 2 .. n, f[i - 1] = g[i - 1] PROVE f[i] = g[i]
        <4>1. i \in 1 .. n /\ i # 1
          OBVIOUS
        <4>2. f[i] = f[i - 1] \o ps[i] /\ g[i] = g[i - 1] \o ps[i]
          BY <1>3, <3>1, <4>1, Zenon
        <4> QED BY <3>3, <4>2
      <3> QED BY <3>2, <3>3 DEF StepwiseEqual
    <2>4. 1 \in Nat /\ n \in Int /\ n \in 1 .. n
      OBVIOUS
    <2>5. f[n] = g[n]
      BY <2>3, <2>4, EqualAlong
    <2> QED BY <2>2, <2>5
  <1>5. PICK o : o = [i \in 0 .. n |-> IF i = 0 THEN 0 ELSE Len(g[i])]
    OBVIOUS
  <1>6. o \in [0 .. n -> Nat] /\ o[0] = 0 /\ \A i \in 1 .. n : o[i] = Len(g[i])
    <2>1. \A i \in 1 .. n : Len(g[i]) \in Nat
      BY LenProperties DEF Texts
    <2> QED BY <1>5, <2>1
  <1>7. ASSUME NEW i \in 1 .. n, i # 1
        PROVE  /\ i - 1 \in 1 .. n
               /\ g[i] = g[i - 1] \o ps[i] /\ o[i] = o[i - 1] + Len(ps[i])
               /\ \A k \in 1 .. o[i - 1] : g[i][k] = g[i - 1][k]
               /\ \A k \in o[i - 1] + 1 .. o[i - 1] + Len(ps[i]) : g[i][k] = ps[i][k - o[i - 1]]
    <2>1. i - 1 \in 1 .. n
      BY <1>7
    <2>2. g[i] = g[i - 1] \o ps[i] /\ g[i - 1] \in Texts /\ ps[i] \in Texts
      BY <1>1, <1>3, <1>7, <2>1
    <2>3. /\ Len(g[i - 1] \o ps[i]) = Len(g[i - 1]) + Len(ps[i])
          /\ \A k \in 1 .. Len(g[i - 1]) : (g[i - 1] \o ps[i])[k] = g[i - 1][k]
          /\ \A k \in Len(g[i - 1]) + 1 .. Len(g[i - 1]) + Len(ps[i]) :
                (g[i - 1] \o ps[i])[k] = ps[i][k - Len(g[i - 1])]
      BY <2>2, JoinElements DEF Texts
    <2>4. o[i] = Len(g[i]) /\ o[i - 1] = Len(g[i - 1])
      BY <1>6, <2>1
    <2> QED BY <2>1, <2>2, <2>3, <2>4
  <1>8. \A i \in 1 .. n : o[i] = o[i - 1] + Len(ps[i])
    <2>1. o[1] = o[0] + Len(ps[1])
      <3>1. 1 \in 1 .. n
        OBVIOUS
      <3>2. g[1] = ps[1]
        BY <1>3, <3>1, Zenon
      <3>3. o[1] = Len(ps[1]) /\ o[0] = 0 /\ Len(ps[1]) \in Nat
        BY <1>1, <1>6, <3>1, <3>2, Zenon
      <3> QED BY <3>3
    <2>2. ASSUME NEW i \in 1 .. n, i # 1 PROVE o[i] = o[i - 1] + Len(ps[i])
      BY <1>7, <2>2, Zenon
    <2>3. 1 - 1 = 0
      OBVIOUS
    <2> QED BY <2>1, <2>2, <2>3, Zenon
  <1> DEFINE In(k) == \A i \in 1 .. k :
                        /\ o[i] <= o[k]
                        /\ \A j \in 1 .. Len(ps[i]) : g[k][o[i - 1] + j] = ps[i][j]
  <1> DEFINE Bad == {k \in 1 .. n : ~In(k)}
  <1>9. ASSUME NEW k \in 1 .. n, k = 1 \/ In(k - 1) PROVE In(k)
    <2> SUFFICES ASSUME NEW i \in 1 .. k
                 PROVE  /\ o[i] <= o[k]
                        /\ \A j \in 1 .. Len(ps[i]) : g[k][o[i - 1] + j] = ps[i][j]
      OBVIOUS
    <2>0. i \in 1 .. n /\ i - 1 \in 0 .. n /\ o[i - 1] \in Nat /\ o[i] \in Nat /\ o[k] \in Nat
      BY <1>6
    <2>1. CASE k = 1
      <3>0. i = 1 /\ 1 \in 1 .. n
        BY <2>1
      <3>1. i = 1 /\ g[1] = ps[1] /\ o[0] = 0
        BY <1>3, <1>6, <3>0, Zenon
      <3>2. \A j \in 1 .. Len(ps[1]) : 0 + j = j
        BY <1>1
      <3> QED BY <2>0, <2>1, <3>1, <3>2
    <2>2. CASE k # 1 /\ i < k
      <3>1. i \in 1 .. k - 1 /\ In(k - 1)
        BY <1>9, <2>2
      <3>2. /\ o[i] <= o[k - 1]
            /\ \A j \in 1 .. Len(ps[i]) : g[k - 1][o[i - 1] + j] = ps[i][j]
        BY <3>1
      <3>3. /\ o[k] = o[k - 1] + Len(ps[k]) /\ o[k - 1] \in Nat /\ Len(ps[k]) \in Nat
            /\ \A m \in 1 .. o[k - 1] : g[k][m] = g[k - 1][m]
        <4>1. k - 1 \in 0 .. n
          OBVIOUS
        <4> QED BY <1>1, <1>6, <1>7, <2>2, <4>1
      <3>4. ASSUME NEW j \in 1 .. Len(ps[i]) PROVE g[k][o[i - 1] + j] = ps[i][j]
        <4>1. o[i] = o[i - 1] + Len(ps[i]) /\ Len(ps[i]) \in Nat
          BY <1>1, <1>8, <2>0
        <4>2. o[i - 1] + j \in 1 .. o[k - 1]
          <5> HIDE DEF In, Bad
          <5>1. o[i - 1] + Len(ps[i]) <= o[k - 1]
            BY <3>2, <4>1
          <5>2. \A a, b, m \in Nat : a + m <= b => \A x \in 1 .. m : a + x \in 1 .. b
            OBVIOUS
          <5>3. o[i - 1] \in Nat /\ o[k - 1] \in Nat /\ Len(ps[i]) \in Nat
            BY <2>0, <3>3, <4>1
          <5> QED BY <5>1, <5>2, <5>3, Zenon
        <4> QED BY <3>2, <3>3, <4>2
      <3>5. o[i] <= o[k]
        BY <2>0, <3>2, <3>3
      <3> QED BY <3>4, <3>5
    <2>3. CASE k # 1 /\ i = k
      <3>1. ASSUME NEW j \in 1 .. Len(ps[i]) PROVE g[k][o[i - 1] + j] = ps[i][j]
        <4>1. o[k - 1] \in Nat /\ Len(ps[k]) \in Nat
          BY <1>1, <2>0, <2>3
        <4>2. /\ o[k - 1] + j \in o[k - 1] + 1 .. o[k - 1] + Len(ps[k])
              /\ (o[k - 1] + j) - o[k - 1] = j
          BY <2>3, <4>1
        <4>3. k \in 1 .. n /\ k # 1
          BY <2>3
        <4>4. g[k][o[k - 1] + j] = ps[k][(o[k - 1] + j) - o[k - 1]]
          BY <1>7, <4>2, <4>3, Zenon
        <4> QED BY <2>3, <4>2, <4>4
      <3> QED BY <2>0, <2>3, <3>1
    <2> QED BY <2>1, <2>2, <2>3
  <1>10. In(n)
    <2>1. ASSUME Bad # {} PROVE FALSE
      <3>1. Bad \in SUBSET Nat
        OBVIOUS
      <3> HIDE DEF In
      <3>2. PICK k \in Bad : \A m \in Bad : k <= m
        BY <2>1, <3>1, LeastNatural
      <3>3. k \in 1 .. n /\ ~In(k)
        BY <3>2
      <3>4. k # 1 => k - 1 \in 1 .. n /\ k - 1 \notin Bad
        BY <3>2, <3>3
      <3>5. k = 1 \/ In(k - 1)
        BY <3>4
      <3> QED BY <1>9, <3>3, <3>5
    <2> HIDE DEF In
    <2>2. n \in 1 .. n /\ n \notin Bad
      BY <2>1
    <2> QED BY <2>2
  <1>11. g[n] \in Texts /\ Len(g[n]) = o[n]
    BY <1>6
  <1>12. Placed(g[n], ps, n, o)
    BY <1>6, <1>8, <1>10, <1>11 DEF Placed
  <1> QED BY <1>4, <1>12

-------------------------------------------------------------------------------
(* A line and the lines of a file.                                         *)

Line(d, i, before, after) ==
    <<Keys[i]>> \o Blanks(before) \o <<"=", "sp">> \o d[Keys[i]] \o Blanks(after) \o <<"nl">>

\* The cells of the line for key k and value v behind place p of a text.
LineAt(text, p, k, v, before, after) ==
    /\ text[p + 1] = k
    /\ \A j \in 1 .. before : text[p + 1 + j] = "sp"
    /\ text[p + before + 2] = "=" /\ text[p + before + 3] = "sp"
    /\ \A j \in 1 .. Len(v) : text[p + before + 3 + j] = v[j]
    /\ \A j \in 1 .. after : text[p + before + 3 + Len(v) + j] = "sp"
    /\ text[p + before + Len(v) + after + 4] = "nl"

\* Blanks are a text.
LEMMA BlankCells ==
  ASSUME NEW m \in Nat
  PROVE  /\ Blanks(m) \in Texts /\ Len(Blanks(m)) = m
         /\ \A j \in 1 .. m : Blanks(m)[j] = "sp"
  <1>0. PICK c \in Cells : c = "sp"
    BY DEF Cells, Marks
  <1>1. PICK f : f = [i \in 1 .. m |-> c]
    OBVIOUS
  <1>2. f \in [1 .. m -> Cells] /\ \A j \in 1 .. m : f[j] = c
    BY <1>1
  <1>3. f \in Texts /\ Len(f) = m
    BY <1>2, FunctionIsSeq DEF Texts
  <1>4. Blanks(m) = f
    BY <1>0, <1>1 DEF Blanks
  <1> QED BY <1>0, <1>2, <1>3, <1>4

\* A sequence of one element.
LEMMA OneCell ==
  ASSUME NEW S, NEW e \in S
  PROVE  <<e>> \in Seq(S) /\ Len(<<e>>) = 1 /\ <<e>>[1] = e
  OBVIOUS

\* A sequence of two elements.
LEMMA TwoCells ==
  ASSUME NEW S, NEW e \in S, NEW f \in S
  PROVE  /\ <<e, f>> \in Seq(S) /\ Len(<<e, f>>) = 2
         /\ <<e, f>>[1] = e /\ <<e, f>>[2] = f
  OBVIOUS

\* x is the text u of length m and behind it the text w of length n.
After(x, u, m, w, n) ==
    /\ x \in Texts /\ Len(x) = m + n
    /\ \A k \in 1 .. m : x[k] = u[k]
    /\ \A k \in 1 .. n : x[m + k] = w[k]

\* A concatenation, with places counted from the start.
LEMMA TextJoin ==
  ASSUME NEW u \in Texts, NEW w \in Texts, NEW m \in Nat, NEW n \in Nat, Len(u) = m, Len(w) = n
  PROVE  After(u \o w, u, m, w, n)
  <1>1. /\ u \o w \in Texts /\ Len(u \o w) = m + n
        /\ \A k \in 1 .. m : (u \o w)[k] = u[k]
        /\ \A k \in m + 1 .. m + n : (u \o w)[k] = w[k - m]
    BY JoinElements DEF Texts
  <1>2. \A k \in 1 .. n : m + k \in m + 1 .. m + n /\ (m + k) - m = k
    OBVIOUS
  <1> QED BY <1>1, <1>2 DEF After

\* What a line holds.
LEMMA LineCells ==
  ASSUME NEW k \in Cells, NEW v \in Texts, NEW b \in Nat, NEW a \in Nat
  PROVE  LET line == <<k>> \o Blanks(b) \o <<"=", "sp">> \o v \o Blanks(a) \o <<"nl">>
         IN /\ line \in Texts /\ Len(line) = b + Len(v) + a + 4
            /\ LineAt(line, 0, k, v, b, a)
  <1>0. PICK m \in Nat : m = Len(v)
    BY LenProperties DEF Texts
  <1>1. PICK t1 \in Texts : t1 = <<k>> /\ Len(t1) = 1 /\ t1[1] = k
    <2>1. <<k>> \in Texts /\ Len(<<k>>) = 1 /\ <<k>>[1] = k
      BY OneCell DEF Texts
    <2> QED BY <2>1, Zenon
  <1>2. PICK t2 \in Texts : t2 = <<"=", "sp">> /\ Len(t2) = 2 /\ t2[1] = "=" /\ t2[2] = "sp"
    <2>1. /\ <<"=", "sp">> \in Texts /\ Len(<<"=", "sp">>) = 2
          /\ <<"=", "sp">>[1] = "=" /\ <<"=", "sp">>[2] = "sp"
      <3>1. "=" \in Cells /\ "sp" \in Cells
        BY DEF Cells, Marks
      <3> QED BY <3>1, TwoCells, Zenon DEF Texts
    <2> QED BY <2>1, Zenon
  <1>3. PICK t3 \in Texts : t3 = <<"nl">> /\ Len(t3) = 1 /\ t3[1] = "nl"
    <2>1. <<"nl">> \in Texts /\ Len(<<"nl">>) = 1 /\ <<"nl">>[1] = "nl"
      <3>1. "nl" \in Cells
        BY DEF Cells, Marks
      <3> QED BY <3>1, OneCell, Zenon DEF Texts
    <2> QED BY <2>1, Zenon
  <1>4. PICK bb \in Texts : bb = Blanks(b) /\ Len(bb) = b /\ \A j \in 1 .. b : bb[j] = "sp"
    BY BlankCells
  <1>5. PICK ba \in Texts : ba = Blanks(a) /\ Len(ba) = a /\ \A j \in 1 .. a : ba[j] = "sp"
    BY BlankCells
  <1>6. PICK x1 \in Texts : x1 = t1 \o bb /\ After(x1, t1, 1, bb, b)
    <2>1. 1 \in Nat
      OBVIOUS
    <2>2. After(t1 \o bb, t1, 1, bb, b)
      BY <1>1, <1>4, <2>1, TextJoin
    <2> QED BY <2>2 DEF After
  <1>7. PICK x2 \in Texts : x2 = x1 \o t2 /\ After(x2, x1, 1 + b, t2, 2)
    <2>1. 1 + b \in Nat /\ 2 \in Nat
      OBVIOUS
    <2>3. Len(x1) = 1 + b
      BY <1>6, <2>1 DEF After
    <2>2. After(x1 \o t2, x1, 1 + b, t2, 2)
      BY <1>2, <2>1, <2>3, TextJoin
    <2> QED BY <2>2 DEF After
  <1>8. PICK x3 \in Texts : x3 = x2 \o v /\ After(x3, x2, b + 3, v, m)
    <2>1. b + 3 \in Nat /\ (1 + b) + 2 = b + 3
      OBVIOUS
    <2>3. Len(x2) = b + 3
      BY <1>7, <2>1 DEF After
    <2>2. After(x2 \o v, x2, b + 3, v, m)
      BY <1>0, <2>1, <2>3, TextJoin
    <2> QED BY <2>2 DEF After
  <1>9. PICK x4 \in Texts : x4 = x3 \o ba /\ After(x4, x3, b + 3 + m, ba, a)
    <2>1. b + 3 + m \in Nat
      OBVIOUS
    <2>3. Len(x3) = b + 3 + m
      BY <1>8, <2>1 DEF After
    <2>2. After(x3 \o ba, x3, b + 3 + m, ba, a)
      BY <1>5, <2>1, <2>3, TextJoin
    <2> QED BY <2>2 DEF After
  <1>10. PICK x5 \in Texts : x5 = x4 \o t3 /\ After(x5, x4, b + 3 + m + a, t3, 1)
    <2>1. b + 3 + m + a \in Nat /\ 1 \in Nat
      OBVIOUS
    <2>3. Len(x4) = b + 3 + m + a
      BY <1>9, <2>1 DEF After
    <2>2. After(x4 \o t3, x4, b + 3 + m + a, t3, 1)
      BY <1>3, <2>1, <2>3, TextJoin
    <2> QED BY <2>2 DEF After
  <1>11. x5 = <<k>> \o Blanks(b) \o <<"=", "sp">> \o v \o Blanks(a) \o <<"nl">>
    BY <1>1, <1>2, <1>3, <1>4, <1>5, <1>6, <1>7, <1>8, <1>9, <1>10
  <1>12. Len(x5) = b + Len(v) + a + 4
    BY <1>0, <1>10 DEF After
  <1>13. \A j \in 1 .. b + 3 : x5[j] = x2[j]
    <2>1. \A j \in 1 .. b + 3 : j \in 1 .. b + 3 + m /\ j \in 1 .. b + 3 + m + a
      OBVIOUS
    <2> QED BY <1>8, <1>9, <1>10, <2>1 DEF After
  <1>14. x5[1] = k /\ \A j \in 1 .. b : x5[1 + j] = "sp"
    <2>1. 1 \in 1 .. 1 /\ 1 \in 1 .. 1 + b /\ 1 \in 1 .. b + 3
      OBVIOUS
    <2>2. \A j \in 1 .. b : 1 + j \in 1 .. 1 + b /\ 1 + j \in 1 .. b + 3
      OBVIOUS
    <2>3. \A j \in 1 .. 1 + b : x5[j] = x1[j]
      <3>1. \A j \in 1 .. 1 + b : j \in 1 .. b + 3
        OBVIOUS
      <3> QED BY <1>7, <1>13, <3>1 DEF After
    <2>4. x1[1] = k /\ \A j \in 1 .. b : x1[1 + j] = "sp"
      BY <1>1, <1>4, <1>6, <2>1 DEF After
    <2> QED BY <2>1, <2>2, <2>3, <2>4
  <1>15. x5[b + 2] = "=" /\ x5[b + 3] = "sp"
    <2>1. /\ 1 \in 1 .. 2 /\ 2 \in 1 .. 2 /\ (1 + b) + 1 = b + 2 /\ (1 + b) + 2 = b + 3
          /\ b + 2 \in 1 .. b + 3 /\ b + 3 \in 1 .. b + 3
      OBVIOUS
    <2>2. x2[(1 + b) + 1] = "=" /\ x2[(1 + b) + 2] = "sp"
      BY <1>2, <1>7, <2>1 DEF After
    <2> QED BY <1>13, <2>1, <2>2
  <1>16. \A j \in 1 .. m : x5[b + 3 + j] = v[j]
    <2>1. \A j \in 1 .. m : b + 3 + j \in 1 .. b + 3 + m /\ b + 3 + j \in 1 .. b + 3 + m + a
      OBVIOUS
    <2> QED BY <1>8, <1>9, <1>10, <2>1 DEF After
  <1>17. \A j \in 1 .. a : x5[b + 3 + m + j] = "sp"
    <2>1. \A j \in 1 .. a : b + 3 + m + j \in 1 .. b + 3 + m + a
      OBVIOUS
    <2> QED BY <1>5, <1>9, <1>10, <2>1 DEF After
  <1>18. x5[b + m + a + 4] = "nl"
    <2>1. 1 \in 1 .. 1 /\ (b + 3 + m + a) + 1 = b + m + a + 4
      OBVIOUS
    <2> QED BY <1>3, <1>10, <2>1 DEF After
  <1>19. LineAt(x5, 0, k, v, b, a)
    <2>1. /\ 0 + 1 = 1 /\ 0 + b + 2 = b + 2 /\ 0 + b + 3 = b + 3
          /\ 0 + b + m + a + 4 = b + m + a + 4 /\ 0 + b + 3 + m = b + 3 + m
      OBVIOUS
    <2> QED BY <1>0, <1>14, <1>15, <1>16, <1>17, <1>18, <2>1 DEF LineAt
  <1> QED BY <1>11, <1>12, <1>19

\* The keys and values of a dictionary are cells and texts.
LEMMA KeyFacts ==
  /\ Len(Keys) \in Nat \ {0} /\ DOMAIN Keys = 1 .. Len(Keys)
  /\ \A i \in 1 .. Len(Keys) : Keys[i] \in ToSet(Keys) /\ Keys[i] \in Cells /\ Keys[i] \notin Marks
  /\ \A i, j \in 1 .. Len(Keys) : Keys[i] = Keys[j] => i = j
  /\ \A k \in ToSet(Keys) : \E i \in 1 .. Len(Keys) : Keys[i] = k
  <1>1. DOMAIN Keys = 1 .. Len(Keys) /\ Len(Keys) \in Nat
    BY KeysAssumption, LenProperties
  <1>2. Len(Keys) # 0
    BY KeysAssumption, EmptySeq
  <1>3. \A i \in 1 .. Len(Keys) : Keys[i] \in ToSet(Keys)
    BY <1>1, Zenon DEF ToSet
  <1>4. \A i \in 1 .. Len(Keys) : Keys[i] \in Cells /\ Keys[i] \notin Marks
    BY <1>3, KeysAssumption, Zenon DEF Cells
  <1>5. \A i, j \in 1 .. Len(Keys) : Keys[i] = Keys[j] => i = j
    BY <1>1, KeysAssumption, Zenon DEF IsInjective
  <1>6. \A k \in ToSet(Keys) : \E i \in 1 .. Len(Keys) : Keys[i] = k
    BY <1>1, Zenon DEF ToSet
  <1> QED BY <1>1, <1>2, <1>3, <1>4, <1>5, <1>6

\* What is assumed of a value: it is a text without ends of lines or blanks at its ends.
LEMMA ValueText ==
  ASSUME NEW v \in Values
  PROVE  /\ v \in Texts /\ Len(v) \in Nat
         /\ \A j \in 1 .. Len(v) : v[j] # "nl"
         /\ Len(v) # 0 => v[1] # "sp" /\ v[Len(v)] # "sp"
  <1>1. v \in Seq(ToSet(v)) /\ Plain(v)
    BY ValuesAssumption
  <1>2. ToSet(v) \subseteq Cells
    BY Zenon DEF Cells
  <1>3. v \in Texts
    BY <1>1, <1>2, SeqMonotonic DEF Texts
  <1>4. Len(v) \in Nat /\ DOMAIN v = 1 .. Len(v)
    BY <1>1, LenProperties
  <1>5. \A j \in 1 .. Len(v) : v[j] # "nl"
    <2>1. \A j \in 1 .. Len(v) : v[j] \in ToSet(v)
      BY <1>4, Zenon DEF ToSet
    <2>2. "nl" \notin ToSet(v)
      BY <1>1 DEF Plain
    <2> QED BY <2>1, <2>2, Zenon
  <1>6. Len(v) # 0 => v[1] # "sp" /\ v[Len(v)] # "sp"
    <2>1. Len(v) # 0 => v # <<>>
      OBVIOUS
    <2> QED BY <1>1, <2>1, Zenon DEF Plain
  <1> QED BY <1>3, <1>4, <1>5, <1>6

\* The c cells of a text behind place p are those of another behind place r.
Copied(text, p, line, r, c) == \A j \in 1 .. c : text[p + j] = line[r + j]

\* A line that is copied into a text is a line of the text.
LEMMA LineShifted ==
  ASSUME NEW line, NEW r \in Nat, NEW text, NEW p \in Nat, NEW k, NEW v, NEW b \in Nat,
         NEW a \in Nat, Len(v) \in Nat, LineAt(line, r, k, v, b, a),
         Copied(text, p, line, r, b + Len(v) + a + 4)
  PROVE  LineAt(text, p, k, v, b, a)
  <1>0. PICK m \in Nat : m = Len(v)
    OBVIOUS
  <1>1. /\ line[r + 1] = k
        /\ \A j \in 1 .. b : line[r + 1 + j] = "sp"
        /\ line[r + b + 2] = "=" /\ line[r + b + 3] = "sp"
        /\ \A j \in 1 .. m : line[r + b + 3 + j] = v[j]
        /\ \A j \in 1 .. a : line[r + b + 3 + m + j] = "sp"
        /\ line[r + b + m + a + 4] = "nl"
    BY <1>0, Zenon DEF LineAt
  <1>2. \A j \in 1 .. b + m + a + 4 : text[p + j] = line[r + j]
    BY <1>0 DEF Copied
  <1>3. text[p + 1] = k
    <2>1. 1 \in 1 .. b + m + a + 4
      OBVIOUS
    <2> QED BY <1>1, <1>2, <2>1
  <1>4. ASSUME NEW j \in 1 .. b PROVE text[p + 1 + j] = "sp"
    <2>1. 1 + j \in 1 .. b + m + a + 4 /\ r + 1 + j = r + (1 + j) /\ p + 1 + j = p + (1 + j)
      OBVIOUS
    <2>2. line[r + 1 + j] = "sp"
      BY <1>1, Zenon
    <2>3. text[p + (1 + j)] = line[r + (1 + j)]
      BY <1>2, <2>1, Zenon
    <2> QED BY <2>1, <2>2, <2>3
  <1>5. text[p + b + 2] = "=" /\ text[p + b + 3] = "sp"
    <2>1. /\ b + 2 \in 1 .. b + m + a + 4 /\ r + b + 2 = r + (b + 2) /\ p + b + 2 = p + (b + 2)
          /\ b + 3 \in 1 .. b + m + a + 4 /\ r + b + 3 = r + (b + 3) /\ p + b + 3 = p + (b + 3)
      OBVIOUS
    <2> QED BY <1>1, <1>2, <2>1
  <1>6. ASSUME NEW j \in 1 .. m PROVE text[p + b + 3 + j] = v[j]
    <2>1. /\ b + 3 + j \in 1 .. b + m + a + 4 /\ r + b + 3 + j = r + (b + 3 + j)
          /\ p + b + 3 + j = p + (b + 3 + j)
      OBVIOUS
    <2>2. line[r + b + 3 + j] = v[j]
      BY <1>1, Zenon
    <2>3. text[p + (b + 3 + j)] = line[r + (b + 3 + j)]
      BY <1>2, <2>1, Zenon
    <2> QED BY <2>1, <2>2, <2>3
  <1>7. ASSUME NEW j \in 1 .. a PROVE text[p + b + 3 + m + j] = "sp"
    <2>1. /\ b + 3 + m + j \in 1 .. b + m + a + 4 /\ r + b + 3 + m + j = r + (b + 3 + m + j)
          /\ p + b + 3 + m + j = p + (b + 3 + m + j)
      OBVIOUS
    <2>2. line[r + b + 3 + m + j] = "sp"
      BY <1>1, Zenon
    <2>3. text[p + (b + 3 + m + j)] = line[r + (b + 3 + m + j)]
      BY <1>2, <2>1, Zenon
    <2> QED BY <2>1, <2>2, <2>3
  <1>8. text[p + b + m + a + 4] = "nl"
    <2>1. /\ b + m + a + 4 \in 1 .. b + m + a + 4 /\ r + b + m + a + 4 = r + (b + m + a + 4)
          /\ p + b + m + a + 4 = p + (b + m + a + 4)
      OBVIOUS
    <2> QED BY <1>1, <1>2, <2>1
  <1> QED BY <1>0, <1>3, <1>4, <1>5, <1>6, <1>7, <1>8 DEF LineAt

\* A file: ends of lines and the header up to place o[0], then a line for every key, up to
\* o[i] for the i-th one, and ends of lines behind them.
Laid(text, d, o, before, after) ==
    /\ text \in Texts
    /\ o \in [0 .. Len(Keys) -> Nat] /\ o[0] # 0
    /\ \A i \in 0 .. Len(Keys) : o[i] <= o[Len(Keys)]
    /\ o[Len(Keys)] <= Len(text)
    /\ \A i \in 1 .. o[0] : text[i] \in {"nl", "[]"}
    /\ text[o[0]] = "nl"
    /\ \A i \in 1 .. Len(Keys) :
          /\ o[i] = o[i - 1] + (before + Len(d[Keys[i]]) + after + 4)
          /\ LineAt(text, o[i - 1], Keys[i], d[Keys[i]], before, after)
    /\ \A i \in o[Len(Keys)] + 1 .. Len(text) : text[i] = "nl"

\* An end of the file: nothing but ends of lines.
Tails == Seq({"nl"})

\* The first c cells of a file, up to the first key.
Header(h, c) ==
    /\ h \in Texts /\ c \in Nat /\ Len(h) = c /\ c # 0
    /\ \A i \in 1 .. c : h[i] \in {"nl", "[]"}
    /\ h[c] = "nl"

\* A header, the lines of a dictionary and ends of lines make a file.
LEMMA LinesLaid ==
  ASSUME NEW d \in Dictionaries, NEW b \in Nat, NEW a \in Nat,
         NEW h, NEW c, Header(h, c), NEW t \in Tails
  PROVE  /\ h \o Lines(d, b, a) \in Texts
         /\ \E o : /\ Laid(h \o Lines(d, b, a) \o t, d, o, b, a)
                   /\ o[Len(Keys)] = Len(h \o Lines(d, b, a))
  <1>a. /\ h \in Texts /\ c \in Nat /\ Len(h) = c /\ c # 0
        /\ \A i \in 1 .. c : h[i] \in {"nl", "[]"}
        /\ h[c] = "nl"
    BY DEF Header
  <1> USE <1>a
  <1>0. PICK n \in Nat : n = Len(Keys) /\ n # 0
    BY KeyFacts
  <1>1. PICK ps : ps = [i \in 1 .. n |-> Line(d, i, b, a)]
    OBVIOUS
  <1>2. ASSUME NEW i \in 1 .. n
        PROVE  /\ ps[i] \in Texts /\ d[Keys[i]] \in Texts /\ Len(d[Keys[i]]) \in Nat
               /\ Len(ps[i]) = b + Len(d[Keys[i]]) + a + 4
               /\ LineAt(ps[i], 0, Keys[i], d[Keys[i]], b, a)
    <2>1. Keys[i] \in Cells /\ Keys[i] \in ToSet(Keys)
      BY <1>0, KeyFacts
    <2>2. d[Keys[i]] \in Values
      BY <2>1 DEF Dictionaries
    <2>3. d[Keys[i]] \in Texts /\ Len(d[Keys[i]]) \in Nat
      BY <2>2, ValueText
    <2>4. ps[i] = Line(d, i, b, a)
      BY <1>1
    <2>5. /\ Line(d, i, b, a) \in Texts /\ Len(Line(d, i, b, a)) = b + Len(d[Keys[i]]) + a + 4
          /\ LineAt(Line(d, i, b, a), 0, Keys[i], d[Keys[i]], b, a)
      BY <2>1, <2>3, LineCells DEF Line
    <2> QED BY <2>3, <2>4, <2>5
  <1>3. ps \in Seq(Texts) /\ Len(ps) = n
    <2>1. ps \in [1 .. n -> Texts]
      BY <1>1, <1>2
    <2> QED BY <2>1, FunctionIsSeq
  <1>4. PICK q : Placed(FlattenSeq(ps), ps, n, q)
    BY <1>0, <1>3, FlatPlaced
  <1>5. PICK x : x = FlattenSeq(ps) /\ x = Lines(d, b, a)
    BY <1>0, <1>1 DEF Lines, Line
  <1>6. /\ q \in [0 .. n -> Nat] /\ q[0] = 0
        /\ \A i \in 1 .. n : q[i] = q[i - 1] + Len(ps[i])
        /\ x \in Texts /\ Len(x) = q[n]
        /\ \A i \in 1 .. n : q[i] <= q[n]
        /\ \A i \in 1 .. n : \A j \in 1 .. Len(ps[i]) : x[q[i - 1] + j] = ps[i][j]
    BY <1>4, <1>5 DEF Placed
  <1>7. PICK e \in Nat : e = q[n]
    BY <1>6
  <1>8. PICK y \in Texts : y = h \o x /\ After(y, h, c, x, e)
    <2>1. After(h \o x, h, c, x, e)
      BY <1>6, <1>7, TextJoin
    <2> QED BY <2>1 DEF After
  <1>9. PICK r \in Nat : Len(t) = r /\ t \in Texts /\ \A i \in 1 .. r : t[i] = "nl"
    <2>1. Len(t) \in Nat /\ \A i \in 1 .. Len(t) : t[i] \in {"nl"}
      BY LenProperties, ElementOfSeq DEF Tails
    <2>2. {"nl"} \subseteq Cells
      BY DEF Cells, Marks
    <2>3. t \in Texts
      BY <2>2, SeqMonotonic DEF Tails, Texts
    <2> QED BY <2>1, <2>3
  <1>10. PICK z \in Texts : z = y \o t /\ After(z, y, c + e, t, r)
    <2>1. c + e \in Nat /\ Len(y) = c + e
      BY <1>8 DEF After
    <2>2. After(y \o t, y, c + e, t, r)
      BY <1>9, <2>1, TextJoin
    <2> QED BY <2>2 DEF After
  <1>11. PICK o : o = [i \in 0 .. n |-> c + q[i]]
    OBVIOUS
  <1>12. /\ o \in [0 .. n -> Nat] /\ o[0] = c /\ o[n] = c + e
         /\ \A i \in 0 .. n : o[i] = c + q[i]
    <2>1. \A i \in 0 .. n : q[i] \in Nat
      BY <1>6
    <2> QED BY <1>6, <1>7, <1>11, <2>1
  <1>13. \A j \in 1 .. c : z[j] = h[j]
    <2>1. \A j \in 1 .. c : j \in 1 .. c + e
      OBVIOUS
    <2> QED BY <1>8, <1>10, <2>1 DEF After
  <1>14. \A j \in 1 .. e : z[c + j] = x[j]
    <2>1. \A j \in 1 .. e : c + j \in 1 .. c + e
      OBVIOUS
    <2> QED BY <1>8, <1>10, <2>1 DEF After
  <1>15. ASSUME NEW i \in 1 .. n
         PROVE  /\ o[i] = o[i - 1] + (b + Len(d[Keys[i]]) + a + 4)
                /\ LineAt(z, o[i - 1], Keys[i], d[Keys[i]], b, a)
    <2>1. PICK m \in Nat : m = Len(d[Keys[i]])
      BY <1>2
    <2>2. Len(ps[i]) = b + m + a + 4
      BY <1>2, <2>1
    <2>3. i - 1 \in 0 .. n /\ i \in 0 .. n
      OBVIOUS
    <2>4. PICK s \in Nat : s = q[i - 1] /\ o[i - 1] = c + s
      BY <1>6, <1>12, <2>3
    <2>5. q[i] = s + (b + m + a + 4) /\ s + (b + m + a + 4) <= e
      BY <1>6, <1>7, <2>2, <2>4
    <2>6. o[i] = o[i - 1] + (b + m + a + 4)
      <3>1. o[i] = c + (s + (b + m + a + 4))
        BY <1>12, <2>3, <2>5, Zenon
      <3>2. c + (s + (b + m + a + 4)) = (c + s) + (b + m + a + 4)
        OBVIOUS
      <3> QED BY <2>4, <3>1, <3>2, Zenon
    <2>7. ASSUME NEW j \in 1 .. b + m + a + 4 PROVE z[(c + s) + j] = ps[i][j]
      <3>1. s + j \in 1 .. e /\ (c + s) + j = c + (s + j)
        BY <2>5
      <3>2. x[s + j] = ps[i][j]
        BY <1>6, <2>2, <2>4
      <3>3. z[c + (s + j)] = x[s + j]
        BY <1>14, <3>1
      <3> QED BY <3>1, <3>2, <3>3
    <2>8. LineAt(z, c + s, Keys[i], d[Keys[i]], b, a)
      <3>1. c + s \in Nat /\ Len(d[Keys[i]]) \in Nat /\ LineAt(ps[i], 0, Keys[i], d[Keys[i]], b, a)
        BY <1>2
      <3>2. \A j \in 1 .. b + Len(d[Keys[i]]) + a + 4 : z[(c + s) + j] = ps[i][j]
        BY <2>1, <2>7
      <3>3. PICK r0 \in Nat : r0 = 0
        OBVIOUS
      <3>4. Copied(z, c + s, ps[i], r0, b + Len(d[Keys[i]]) + a + 4)
        <4>1. \A j \in 1 .. b + Len(d[Keys[i]]) + a + 4 : r0 + j = j
          BY <3>3
        <4> QED BY <3>2, <4>1 DEF Copied
      <3> QED BY <3>1, <3>3, <3>4, LineShifted
    <2> QED BY <2>1, <2>4, <2>6, <2>8
  <1>16. /\ \A i \in 1 .. c : z[i] \in {"nl", "[]"}
         /\ z[c] = "nl"
    <2>1. c \in 1 .. c
      OBVIOUS
    <2> QED BY <1>13, <2>1
  <1>17. Len(z) = c + e + r /\ \A i \in c + e + 1 .. c + e + r : z[i] = "nl"
    <2>1. Len(z) = c + e + r
      BY <1>10 DEF After
    <2>2. ASSUME NEW i \in c + e + 1 .. c + e + r PROVE z[i] = "nl"
      <3>1. i - (c + e) \in 1 .. r /\ (c + e) + (i - (c + e)) = i
        OBVIOUS
      <3>2. z[(c + e) + (i - (c + e))] = t[i - (c + e)]
        BY <1>10, <3>1 DEF After
      <3> QED BY <1>9, <3>1, <3>2
    <2> QED BY <2>1, <2>2
  <1>18. \A i \in 0 .. n : o[i] <= c + e
    <2> SUFFICES ASSUME NEW i \in 0 .. n PROVE o[i] <= c + e
      OBVIOUS
    <2>1. q[i] \in Nat /\ o[i] = c + q[i]
      BY <1>6, <1>12
    <2>2. q[i] <= e
      <3>1. CASE i = 0
        BY <1>6, <3>1
      <3>2. CASE i # 0
        <4>1. i \in 1 .. n
          BY <3>2
        <4> QED BY <1>6, <1>7, <4>1
      <3> QED BY <3>1, <3>2
    <2> QED BY <2>1, <2>2
  <1>19. Laid(z, d, o, b, a)
    <2>1. c + e <= Len(z)
      BY <1>17
    <2> QED BY <1>0, <1>12, <1>15, <1>16, <1>17, <1>18, <2>1 DEF Laid
  <1>20. y = h \o Lines(d, b, a) /\ z = h \o Lines(d, b, a) \o t
    BY <1>5, <1>8, <1>10
  <1>21. o[n] = Len(y)
    BY <1>8, <1>12 DEF After
  <1> QED BY <1>0, <1>19, <1>20, <1>21

-------------------------------------------------------------------------------
(* What iniparser_load makes of a file.                                    *)

\* The least element of a set of numbers is its minimum.
LEMMA MinIs ==
  ASSUME NEW S \in SUBSET Int, NEW x \in S, \A y \in S : x <= y
  PROVE  Min(S) = x
  <1>1. \A u \in S : (\A y \in S : u <= y) => u = x
    OBVIOUS
  <1>2. Min(S) \in S /\ \A y \in S : Min(S) <= y
    <2>1. \E u \in S : \A y \in S : u <= y
      OBVIOUS
    <2> QED BY <2>1, Zenon DEF Min
  <1> QED BY <1>1, <1>2

\* The greatest element of a set of numbers is its maximum.
LEMMA MaxIs ==
  ASSUME NEW S \in SUBSET Int, NEW x \in S, \A y \in S : x >= y
  PROVE  Max(S) = x
  <1>1. \A u \in S : (\A y \in S : u >= y) => u = x
    OBVIOUS
  <1>2. Max(S) \in S /\ \A y \in S : Max(S) >= y
    <2>1. \E u \in S : \A y \in S : u >= y
      OBVIOUS
    <2> QED BY <2>1, Zenon DEF Max
  <1> QED BY <1>1, <1>2

\* A value of length m between p and r blanks.
Padded(s, p, v, m, r) ==
    /\ s \in Texts /\ Len(s) = p + m + r
    /\ \A j \in 1 .. p : s[j] = "sp"
    /\ \A j \in 1 .. m : s[p + j] = v[j]
    /\ \A j \in 1 .. r : s[p + m + j] = "sp"

\* Stripping takes the blanks around a value away.
LEMMA StripValue ==
  ASSUME NEW v \in Values, NEW m \in Nat, Len(v) = m, NEW s, NEW p \in Nat, NEW r \in Nat,
         Padded(s, p, v, m, r)
  PROVE  strstrip[s] = v
  <1>0. /\ s \in Texts /\ Len(s) = p + m + r
        /\ \A j \in 1 .. p : s[j] = "sp"
        /\ \A j \in 1 .. m : s[p + j] = v[j]
        /\ \A j \in 1 .. r : s[p + m + j] = "sp"
    BY DEF Padded
  <1>1. DOMAIN s = 1 .. p + m + r
    BY <1>0, LenProperties DEF Texts
  <1>2. ASSUME NEW i \in 1 .. p + m + r, s[i] # "sp" PROVE i \in p + 1 .. p + m
    <2>1. i > p
      <3>1. i <= p => i \in 1 .. p
        OBVIOUS
      <3> QED BY <1>0, <1>2, <3>1
    <2>2. CASE i > p + m
      <3>1. i - (p + m) \in 1 .. r /\ p + m + (i - (p + m)) = i
        BY <2>2
      <3>2. s[p + m + (i - (p + m))] = "sp"
        BY <1>0, <3>1
      <3> QED BY <1>2, <3>1, <3>2
    <2> QED BY <2>1, <2>2
  <1> DEFINE ink == {i \in 1 .. p + m + r : s[i] # "sp"}
  <1>5. strstrip[s] = IF ink = {} THEN <<>> ELSE SubSeq(s, Min(ink), Max(ink))
    <2>1. s \in Seq(Cells)
      BY <1>0 DEF Texts
    <2> QED BY <1>1, <2>1, Zenon DEF strstrip
  <1>3. CASE m = 0
    <2>1. ink = {}
      BY <1>2, <1>3
    <2>2. v = <<>>
      BY <1>0, <1>3, ValueText, EmptySeq DEF Texts
    <2> QED BY <1>5, <2>1, <2>2
  <1>4. CASE m # 0
    <2>1. v[1] # "sp" /\ v[m] # "sp" /\ v \in Texts
      BY <1>0, <1>4, ValueText
    <2>2. s[p + 1] = v[1] /\ s[p + m] = v[m]
      <3>1. 1 \in 1 .. m /\ m \in 1 .. m
        BY <1>4
      <3> QED BY <1>0, <3>1
    <2>3. p + 1 \in ink /\ p + m \in ink /\ ink \in SUBSET Int
      BY <1>4, <2>1, <2>2
    <2>4. (\A y \in ink : p + 1 <= y) /\ (\A y \in ink : p + m >= y)
      <3>1. \A y \in 1 .. p + m + r : s[y] # "sp" => p + 1 <= y /\ p + m >= y
        BY <1>2
      <3> QED BY <3>1
    <2> HIDE DEF ink
    <2>5. Min(ink) = p + 1
      BY <2>3, <2>4, MinIs
    <2>6. Max(ink) = p + m
      BY <2>3, <2>4, MaxIs
    <2>7. strstrip[s] = SubSeq(s, p + 1, p + m)
      <3>1. ink # {}
        BY <2>3
      <3> QED BY <1>5, <2>5, <2>6, <3>1
    <2>8. /\ SubSeq(s, p + 1, p + m) \in Texts
          /\ Len(SubSeq(s, p + 1, p + m)) = (p + m) - (p + 1) + 1
          /\ \A k \in 1 .. (p + m) - (p + 1) + 1 : SubSeq(s, p + 1, p + m)[k] = s[k + (p + 1) - 1]
      <3>1. p + 1 \in Nat /\ p + m \in Nat /\ p + 1 >= 1 /\ p + m <= Len(s) /\ p + 1 <= (p + m) + 1
        BY <1>0
      <3>2. s \in Seq(Cells)
        BY <1>0 DEF Texts
      <3> QED BY <3>1, <3>2, PieceElements DEF Texts
    <2>9. PICK u \in Texts : u = SubSeq(s, p + 1, p + m)
      BY <2>8
    <2>10. Len(u) = m
      BY <2>8, <2>9
    <2>11. ASSUME NEW k \in 1 .. m PROVE u[k] = v[k]
      <3>1. k \in 1 .. (p + m) - (p + 1) + 1 /\ k + (p + 1) - 1 = p + k
        OBVIOUS
      <3>2. u[k] = s[p + k]
        BY <2>8, <2>9, <3>1
      <3> QED BY <1>0, <3>2
    <2>12. u = v
      BY <1>0, <2>1, <2>10, <2>11, SeqEqual DEF Texts
    <2> QED BY <2>7, <2>9, <2>12
  <1> QED BY <1>3, <1>4

\* A line has no end of a line but its own.
LEMMA InsideLine ==
  ASSUME NEW text, NEW q \in Nat, NEW k, k # "nl", NEW v, NEW m \in Nat, Len(v) = m,
         \A j \in 1 .. m : v[j] # "nl", NEW b \in Nat, NEW a \in Nat,
         LineAt(text, q, k, v, b, a), NEW j \in 1 .. b + m + a + 3
  PROVE  text[q + j] # "nl"
  <1>1. /\ text[q + 1] = k
        /\ \A i \in 1 .. b : text[q + 1 + i] = "sp"
        /\ text[q + b + 2] = "=" /\ text[q + b + 3] = "sp"
        /\ \A i \in 1 .. m : text[q + b + 3 + i] = v[i]
        /\ \A i \in 1 .. a : text[q + b + 3 + m + i] = "sp"
    BY DEF LineAt
  <1>2. CASE j = 1
    BY <1>1, <1>2
  <1>3. CASE j \in 2 .. b + 1
    <2>1. j - 1 \in 1 .. b /\ q + 1 + (j - 1) = q + j
      BY <1>3
    <2>2. text[q + 1 + (j - 1)] = "sp"
      BY <1>1, <2>1, Zenon
    <2> QED BY <2>1, <2>2
  <1>4. CASE j = b + 2 \/ j = b + 3
    <2>1. q + (b + 2) = q + b + 2 /\ q + (b + 3) = q + b + 3
      OBVIOUS
    <2> QED BY <1>1, <1>4, <2>1
  <1>5. CASE j \in b + 4 .. b + 3 + m
    <2>1. j - (b + 3) \in 1 .. m /\ q + b + 3 + (j - (b + 3)) = q + j
      BY <1>5
    <2>2. text[q + b + 3 + (j - (b + 3))] = v[j - (b + 3)] /\ v[j - (b + 3)] # "nl"
      BY <1>1, <2>1, Zenon
    <2> QED BY <2>1, <2>2
  <1>6. CASE j \in b + 4 + m .. b + 3 + m + a
    <2>1. j - (b + 3 + m) \in 1 .. a /\ q + b + 3 + m + (j - (b + 3 + m)) = q + j
      BY <1>6
    <2>2. text[q + b + 3 + m + (j - (b + 3 + m))] = "sp"
      BY <1>1, <2>1, Zenon
    <2> QED BY <2>1, <2>2
  <1>7. \/ j = 1 \/ j \in 2 .. b + 1 \/ j = b + 2 \/ j = b + 3
        \/ j \in b + 4 .. b + 3 + m \/ j \in b + 4 + m .. b + 3 + m + a
    OBVIOUS
  <1> QED BY <1>2, <1>3, <1>4, <1>5, <1>6, <1>7

\* The value of key i of a dictionary.
LEMMA EntryText ==
  ASSUME NEW d \in Dictionaries, NEW i \in 1 .. Len(Keys)
  PROVE  /\ d[Keys[i]] \in Values /\ d[Keys[i]] \in Texts /\ Len(d[Keys[i]]) \in Nat
         /\ \A j \in 1 .. Len(d[Keys[i]]) : d[Keys[i]][j] # "nl"
  <1>1. d[Keys[i]] \in Values
    BY KeyFacts DEF Dictionaries
  <1> QED BY <1>1, ValueText

\* Every line of a file is empty, the header, or that of a key.
LEMMA LaidStarts ==
  ASSUME NEW d \in Dictionaries, NEW b \in Nat, NEW a \in Nat, NEW text, NEW o,
         Laid(text, d, o, b, a), NEW p \in LineStarts(text)
  PROVE  \/ text[p] \in {"nl", "[]"}
         \/ \E i \in 1 .. Len(Keys) : p = o[i - 1] + 1 /\ text[p] = Keys[i]
  <1>0. PICK n \in Nat : n = Len(Keys) /\ n # 0
    BY KeyFacts
  <1>1. PICK size \in Nat : size = Len(text) /\ text \in Texts
    BY LenProperties DEF Laid, Texts
  <1>2. p \in 1 .. size /\ (p = 1 \/ text[p - 1] = "nl")
    BY <1>1 DEF LineStarts
  <1>3. /\ o \in [0 .. n -> Nat] /\ o[0] # 0
        /\ \A i \in 1 .. o[0] : text[i] \in {"nl", "[]"}
        /\ \A i \in 1 .. n : /\ o[i] = o[i - 1] + (b + Len(d[Keys[i]]) + a + 4)
                             /\ LineAt(text, o[i - 1], Keys[i], d[Keys[i]], b, a)
        /\ \A i \in o[n] + 1 .. size : text[i] = "nl"
    BY <1>0, <1>1 DEF Laid
  <1>4. o[0] \in Nat /\ o[n] \in Nat
    BY <1>3
  <1>5. CASE p <= o[0]
    <2>1. p \in 1 .. o[0]
      BY <1>2, <1>4, <1>5
    <2> QED BY <1>3, <2>1
  <1>6. CASE p > o[n]
    <2>1. p \in o[n] + 1 .. size
      BY <1>2, <1>4, <1>6
    <2> QED BY <1>3, <2>1
  <1>7. CASE o[0] < p /\ p <= o[n]
    <2> DEFINE R == {i \in 1 .. n : p <= o[i]}
    <2>1. R \in SUBSET Nat /\ R # {}
      <3>1. n \in 1 .. n
        BY <1>0
      <3> QED BY <1>7, <3>1
    <2>2. PICK i \in R : \A x \in R : i <= x
      BY <2>1, LeastNatural
    <2>3. i \in 1 .. n /\ p <= o[i]
      BY <2>2
    <2>4. o[i - 1] < p /\ o[i - 1] \in Nat
      <3>1. CASE i = 1
        <4>1. i - 1 = 0
          BY <3>1
        <4> QED BY <1>4, <1>7, <4>1
      <3>2. CASE i # 1
        <4>1. i - 1 \in 1 .. n /\ i - 1 \in 0 .. n
          BY <2>3, <3>2
        <4>2. o[i - 1] \in Nat
          BY <1>3, <4>1
        <4>3. i - 1 \notin R
          BY <2>2, <2>3
        <4>4. ~(p <= o[i - 1])
          BY <4>1, <4>3
        <4> QED BY <1>2, <4>2, <4>4
      <3> QED BY <3>1, <3>2
    <2>5. PICK q \in Nat : q = o[i - 1]
      BY <2>4
    <2>6. PICK m \in Nat : m = Len(d[Keys[i]]) /\ \A j \in 1 .. m : d[Keys[i]][j] # "nl"
      BY <1>0, <2>3, EntryText
    <2>7. LineAt(text, q, Keys[i], d[Keys[i]], b, a) /\ o[i] = q + (b + m + a + 4)
      BY <1>3, <2>3, <2>5, <2>6
    <2>8. p - 1 \notin q + 1 .. q + (b + m + a + 3)
      <3> SUFFICES ASSUME p - 1 \in q + 1 .. q + (b + m + a + 3) PROVE FALSE
        OBVIOUS
      <3>1. PICK j \in 1 .. b + m + a + 3 : p - 1 = q + j
        <4>1. p - 1 - q \in 1 .. b + m + a + 3 /\ p - 1 = q + (p - 1 - q)
          BY <1>2
        <4> QED BY <4>1
      <3>2. Keys[i] # "nl"
        BY <1>0, <2>3, KeyFacts DEF Marks
      <3>3. text[q + j] # "nl"
        BY <2>6, <2>7, <3>2, InsideLine
      <3>4. p # 1
        BY <1>2
      <3> QED BY <1>2, <3>1, <3>3, <3>4
    <2>9. p = q + 1
      <3>1. p <= q + (b + m + a + 4) /\ q < p
        BY <2>3, <2>4, <2>5, <2>7
      <3> QED BY <1>2, <2>8, <3>1
    <2>10. text[p] = Keys[i]
      BY <2>7, <2>9 DEF LineAt
    <2> QED BY <1>0, <2>3, <2>5, <2>9, <2>10
  <1> QED BY <1>2, <1>4, <1>5, <1>6, <1>7

\* The value behind the key of a line.
LEMMA LineValue ==
  ASSUME NEW v \in Values, NEW m \in Nat, Len(v) = m, NEW k, k # "=",
         NEW b \in Nat, NEW a \in Nat, NEW q \in Nat, NEW size \in Nat,
         NEW text \in Texts, Len(text) = size, q + (b + m + a + 4) <= size,
         LineAt(text, q, k, v, b, a)
  PROVE  ValueAt(text, q + 1) = v
  <1>1. /\ text[q + 1] = k
        /\ \A i \in 1 .. b : text[q + 1 + i] = "sp"
        /\ text[q + b + 2] = "=" /\ text[q + b + 3] = "sp"
        /\ \A i \in 1 .. m : text[q + b + 3 + i] = v[i]
        /\ \A i \in 1 .. a : text[q + b + 3 + m + i] = "sp"
        /\ text[q + b + m + a + 4] = "nl"
    BY DEF LineAt
  <1>2. \A j \in 1 .. m : v[j] # "nl"
    BY ValueText
  <1> DEFINE E == {j \in q + 1 .. size : text[j] = "="}
  <1>3. Min(E) = q + b + 2
    <2>1. q + b + 2 \in E
      <3>1. q + b + 2 \in q + 1 .. size
        OBVIOUS
      <3> QED BY <1>1, <3>1
    <2>2. ASSUME NEW y \in q + 1 .. size, text[y] = "=" PROVE q + b + 2 <= y
      <3> SUFFICES ASSUME y < q + b + 2 PROVE FALSE
        OBVIOUS
      <3>1. CASE y = q + 1
        BY <1>1, <2>2, <3>1
      <3>2. CASE y # q + 1
        <4>1. y - (q + 1) \in 1 .. b /\ q + 1 + (y - (q + 1)) = y
          BY <3>2
        <4>2. text[q + 1 + (y - (q + 1))] = "sp"
          BY <1>1, <4>1, Zenon
        <4> QED BY <2>2, <4>1, <4>2
      <3> QED BY <3>1, <3>2
    <2>3. \A y \in E : q + b + 2 <= y
      BY <2>2, Zenon
    <2>4. E \in SUBSET Int
      OBVIOUS
    <2> HIDE DEF E
    <2> QED BY <2>1, <2>3, <2>4, MinIs
  <1> DEFINE N == {j \in q + b + 2 .. size : text[j] = "nl"}
  <1>4. Min(N) = q + b + m + a + 4
    <2>1. q + b + m + a + 4 \in N
      <3>1. q + b + m + a + 4 \in q + b + 2 .. size
        OBVIOUS
      <3> QED BY <1>1, <3>1
    <2>2. ASSUME NEW y \in q + b + 2 .. size, text[y] = "nl" PROVE q + b + m + a + 4 <= y
      <3> SUFFICES ASSUME y < q + b + m + a + 4 PROVE FALSE
        OBVIOUS
      <3>1. CASE y = q + b + 2 \/ y = q + b + 3
        BY <1>1, <2>2, <3>1
      <3>2. CASE y \in q + b + 4 .. q + b + 3 + m
        <4>1. y - (q + b + 3) \in 1 .. m /\ q + b + 3 + (y - (q + b + 3)) = y
          BY <3>2
        <4>2. /\ text[q + b + 3 + (y - (q + b + 3))] = v[y - (q + b + 3)]
              /\ v[y - (q + b + 3)] # "nl"
          BY <1>1, <1>2, <4>1, Zenon
        <4> QED BY <2>2, <4>1, <4>2
      <3>3. CASE y \in q + b + 4 + m .. q + b + 3 + m + a
        <4>1. y - (q + b + 3 + m) \in 1 .. a /\ q + b + 3 + m + (y - (q + b + 3 + m)) = y
          BY <3>3
        <4>2. text[q + b + 3 + m + (y - (q + b + 3 + m))] = "sp"
          BY <1>1, <4>1, Zenon
        <4> QED BY <2>2, <4>1, <4>2
      <3>4. \/ y = q + b + 2 \/ y = q + b + 3
            \/ y \in q + b + 4 .. q + b + 3 + m \/ y \in q + b + 4 + m .. q + b + 3 + m + a
        OBVIOUS
      <3> QED BY <3>1, <3>2, <3>3, <3>4
    <2>3. \A y \in N : q + b + m + a + 4 <= y
      BY <2>2, Zenon
    <2>4. N \in SUBSET Int
      OBVIOUS
    <2> HIDE DEF N
    <2> QED BY <2>1, <2>3, <2>4, MinIs
  <1>5. PICK from \in Nat : from = q + b + 3
    OBVIOUS
  <1>6. PICK to \in Nat : to = q + b + m + a + 3
    OBVIOUS
  <1>7. ValueAt(text, q + 1) = strstrip[SubSeq(text, from, to)]
    <2>1. (q + b + 2) + 1 = from /\ (q + b + m + a + 4) - 1 = to
      BY <1>5, <1>6
    <2> HIDE DEF E, N
    <2>2. ValueAt(text, q + 1) = strstrip[SubSeq(text, Min(E) + 1, Min(N) - 1)]
      BY <1>3, Zenon DEF ValueAt, E, N
    <2> QED BY <1>3, <1>4, <2>1, <2>2
  <1>8. /\ SubSeq(text, from, to) \in Texts /\ Len(SubSeq(text, from, to)) = to - from + 1
        /\ \A i \in 1 .. to - from + 1 : SubSeq(text, from, to)[i] = text[i + from - 1]
    <2>1. from >= 1 /\ to <= Len(text) /\ from <= to + 1
      BY <1>5, <1>6
    <2>2. text \in Seq(Cells)
      BY DEF Texts
    <2> QED BY <2>1, <2>2, PieceElements DEF Texts
  <1>9. PICK s \in Texts : s = SubSeq(text, from, to)
    BY <1>8
  <1>10. Len(s) = 1 + m + a /\ \A i \in 1 .. 1 + m + a : s[i] = text[q + b + 2 + i]
    <2>1. to - from + 1 = 1 + m + a
      BY <1>5, <1>6
    <2>2. \A i \in 1 .. 1 + m + a : i + from - 1 = q + b + 2 + i
      BY <1>5
    <2> QED BY <1>8, <1>9, <2>1, <2>2
  <1>11. \A j \in 1 .. 1 : s[j] = "sp"
    <2>1. 1 \in 1 .. 1 + m + a /\ q + b + 2 + 1 = q + b + 3
      OBVIOUS
    <2> QED BY <1>1, <1>10, <2>1
  <1>12. \A j \in 1 .. m : s[1 + j] = v[j]
    <2>1. \A j \in 1 .. m : 1 + j \in 1 .. 1 + m + a /\ q + b + 2 + (1 + j) = q + b + 3 + j
      OBVIOUS
    <2> QED BY <1>1, <1>10, <2>1
  <1>13. \A j \in 1 .. a : s[1 + m + j] = "sp"
    <2> SUFFICES ASSUME NEW j \in 1 .. a PROVE s[1 + m + j] = "sp"
      OBVIOUS
    <2>1. PICK x \in 1 .. 1 + m + a : x = 1 + m + j
      OBVIOUS
    <2>2. s[x] = text[q + b + 2 + x]
      BY <1>10
    <2>3. q + b + 2 + x = q + b + 3 + m + j
      BY <2>1
    <2>4. text[q + b + 3 + m + j] = "sp"
      BY <1>1
    <2> QED BY <2>1, <2>2, <2>3, <2>4
  <1>14. Padded(s, 1, v, m, a)
    BY <1>10, <1>11, <1>12, <1>13 DEF Padded
  <1>15. strstrip[s] = v
    <2>1. 1 \in Nat
      OBVIOUS
    <2> QED BY <1>14, <2>1, StripValue
  <1> QED BY <1>7, <1>9, <1>15

\* Every key has a line.
HasKeys(text) == \A k \in ToSet(Keys) : LinesOf(text, k) # {}

\* A file has a line for every key and gives the dictionary back.
LEMMA LaidLoads ==
  ASSUME NEW d \in Dictionaries, NEW b \in Nat, NEW a \in Nat, NEW text, NEW o,
         Laid(text, d, o, b, a)
  PROVE  iniparser_load(text) = d /\ HasKeys(text)
  <1>0. PICK n \in Nat : n = Len(Keys) /\ n # 0
    BY KeyFacts
  <1>1. PICK size \in Nat : size = Len(text) /\ text \in Texts /\ text # NULL
    BY NullAssumption, LenProperties DEF Laid, Texts
  <1>2. /\ o \in [0 .. n -> Nat] /\ o[0] # 0
        /\ \A i \in 0 .. n : o[i] <= o[n]
        /\ o[n] <= size
        /\ text[o[0]] = "nl"
        /\ \A i \in 1 .. n : /\ o[i] = o[i - 1] + (b + Len(d[Keys[i]]) + a + 4)
                             /\ LineAt(text, o[i - 1], Keys[i], d[Keys[i]], b, a)
    BY <1>0, <1>1 DEF Laid
  <1>3. ASSUME NEW p \in LineStarts(text) PROVE GoodLine(text, p)
    <2>1. p \in 1 .. size
      BY <1>1 DEF LineStarts
    <2>2. text[p] \in {"nl", "[]"} \cup ToSet(Keys) /\ text[p] # "sp"
      <3>1. \/ text[p] \in {"nl", "[]"}
            \/ \E i \in 1 .. Len(Keys) : p = o[i - 1] + 1 /\ text[p] = Keys[i]
        BY LaidStarts
      <3> QED BY <3>1, KeyFacts DEF Marks
    <2>3. PICK r \in 1 .. size : r = p
      BY <2>1
    <2> DEFINE S == {j \in r .. size : text[j] # "sp"}
    <2>4. r \in S /\ S \in SUBSET Int /\ \A y \in S : r <= y
      BY <2>2, <2>3
    <2> HIDE DEF S
    <2>5. Min(S) = r
      BY <2>4, MinIs
    <2> QED BY <1>1, <2>2, <2>3, <2>5, Zenon DEF GoodLine, S
  <1>4. ASSUME NEW k \in ToSet(Keys)
        PROVE  LinesOf(text, k) # {} /\ ValueAt(text, Max(LinesOf(text, k))) = d[k]
    <2>1. PICK i \in 1 .. n : Keys[i] = k
      BY <1>0, KeyFacts
    <2>2. /\ k \notin {"nl", "[]"} /\ k # "="
          /\ \A x \in 1 .. n : Keys[x] = k => x = i
      BY <1>0, <2>1, KeyFacts DEF Marks
    <2>3. i - 1 \in 0 .. n /\ i \in 0 .. n
      OBVIOUS
    <2>4. PICK q \in Nat : q = o[i - 1]
      BY <1>2, <2>3
    <2>5. PICK m \in Nat : m = Len(d[k]) /\ d[k] \in Values
      BY <1>0, <2>1, EntryText
    <2>6. LineAt(text, q, k, d[k], b, a) /\ o[i] = q + (b + m + a + 4)
      BY <1>2, <2>1, <2>4, <2>5
    <2>7. q + (b + m + a + 4) <= size
      <3>1. o[i] <= o[n] /\ o[n] \in Nat
        BY <1>2, <2>3
      <3> QED BY <1>2, <2>6, <3>1
    <2>8. text[q] = "nl" /\ q # 0
      <3>1. CASE i = 1
        <4>1. i - 1 = 0
          BY <3>1
        <4> QED BY <1>2, <2>4, <4>1
      <3>2. CASE i # 1
        <4>1. i - 1 \in 1 .. n /\ (i - 1) - 1 \in 0 .. n
          BY <3>2
        <4>2. PICK u \in Nat : u = o[(i - 1) - 1]
          BY <1>2, <4>1
        <4>3. PICK w \in Nat : w = Len(d[Keys[i - 1]])
          BY <1>0, <4>1, EntryText
        <4>4. /\ o[i - 1] = u + (b + w + a + 4)
              /\ LineAt(text, u, Keys[i - 1], d[Keys[i - 1]], b, a)
          BY <1>2, <4>1, <4>2, <4>3
        <4>5. text[u + b + w + a + 4] = "nl"
          BY <4>3, <4>4 DEF LineAt
        <4>6. q = u + b + w + a + 4
          BY <2>4, <4>4
        <4> QED BY <4>5, <4>6
      <3> QED BY <3>1, <3>2
    <2> DEFINE S == {p \in LineStarts(text) : text[p] = k}
    <2>9. q + 1 \in S
      <3>1. q + 1 \in 1 .. size /\ (q + 1) - 1 = q
        BY <2>7
      <3>2. q + 1 \in LineStarts(text)
        BY <1>1, <2>8, <3>1 DEF LineStarts
      <3>3. text[q + 1] = k
        BY <2>6 DEF LineAt
      <3> QED BY <3>2, <3>3
    <2>10. ASSUME NEW p \in S PROVE p = q + 1
      <3>1. \/ text[p] \in {"nl", "[]"}
            \/ \E x \in 1 .. Len(Keys) : p = o[x - 1] + 1 /\ text[p] = Keys[x]
        BY LaidStarts
      <3>2. text[p] = k
        OBVIOUS
      <3>3. PICK x \in 1 .. n : p = o[x - 1] + 1 /\ Keys[x] = k
        BY <1>0, <2>2, <3>1, <3>2
      <3>4. x = i
        BY <2>2, <3>3
      <3> QED BY <2>4, <3>3, <3>4
    <2>11. S = {q + 1}
      BY <2>9, <2>10
    <2>12. Max(S) = q + 1
      <3>1. {q + 1} \in SUBSET Int /\ q + 1 \in {q + 1} /\ \A y \in {q + 1} : q + 1 >= y
        OBVIOUS
      <3>2. Max({q + 1}) = q + 1
        BY <3>1, MaxIs
      <3> QED BY <2>11, <3>2
    <2>13. ValueAt(text, q + 1) = d[k]
      BY <1>1, <2>2, <2>5, <2>6, <2>7, LineValue
    <2>14. LinesOf(text, k) = S
      BY DEF LinesOf
    <2> HIDE DEF S
    <2> QED BY <2>9, <2>12, <2>13, <2>14
  <1>5. {k \in ToSet(Keys) : LinesOf(text, k) # {}} = ToSet(Keys)
    BY <1>4
  <1>6. iniparser_load(text) = [k \in {k \in ToSet(Keys) : LinesOf(text, k) # {}} |->
                                   ValueAt(text, Max(LinesOf(text, k)))]
    BY <1>1, <1>3, Zenon DEF iniparser_load
  <1>7. iniparser_load(text) = [k \in ToSet(Keys) |-> ValueAt(text, Max(LinesOf(text, k)))]
    BY <1>5, <1>6
  <1>8. iniparser_load(text) = [k \in ToSet(Keys) |-> d[k]]
    BY <1>4, <1>7
  <1> QED BY <1>4, <1>8 DEF Dictionaries, HasKeys

\* The end of a file is a text, and so are two ends in a row.
LEMMA TailText ==
  ASSUME NEW t \in Tails
  PROVE  /\ t \in Texts /\ <<"nl", "nl">> \o t \in Tails
         /\ \A i \in 1 .. Len(t) : t[i] = "nl"
  <1>1. t \in Texts
    <2>1. {"nl"} \subseteq Cells
      BY DEF Cells, Marks
    <2> QED BY <2>1, SeqMonotonic DEF Tails, Texts
  <1>2. <<"nl", "nl">> \in Seq({"nl"})
    OBVIOUS
  <1>3. <<"nl", "nl">> \o t \in Tails
    BY <1>2, ConcatProperties DEF Tails
  <1>4. \A i \in 1 .. Len(t) : t[i] \in {"nl"}
    BY ElementOfSeq DEF Tails
  <1> QED BY <1>1, <1>3, <1>4

\* Three texts in a row are the same text however they are put together.
LEMMA TextsJoin ==
  ASSUME NEW u \in Texts, NEW v \in Texts, NEW w \in Texts
  PROVE  u \o v \o w = u \o (v \o w)
  BY ConcatAssociative DEF Texts

\* The two ends of lines behind the last key.
LEMMA TwoEnds ==
  <<"nl", "nl">> \in Tails /\ <<"nl", "nl">> \in Texts /\ Len(<<"nl", "nl">>) = 2
  <1>1. "nl" \in {"nl"} /\ "nl" \in Cells
    BY DEF Cells, Marks
  <1> QED BY <1>1, TwoCells DEF Tails, Texts

\* The header and the lines that the database writes.
Body(d) == <<"nl", "[]", "nl">> \o Lines(d, Padding, 0)

\* The header and the lines are a text, and what follows them may be any end of a file.
LEMMA BodyLaid ==
  ASSUME NEW d \in Dictionaries, NEW t \in Tails
  PROVE  /\ Body(d) \in Texts
         /\ \E o : Laid(Body(d) \o t, d, o, Padding, 0) /\ o[Len(Keys)] = Len(Body(d))
  <1>1. PICK h : h = <<"nl", "[]", "nl">>
    OBVIOUS
  <1>2. /\ h \in Seq({"nl", "[]"}) /\ Len(h) = 3
        /\ \A i \in 1 .. 3 : h[i] \in {"nl", "[]"}
        /\ h[3] = "nl"
    BY <1>1
  <1>3. h \in Texts
    <2>1. {"nl", "[]"} \subseteq Cells
      BY DEF Cells, Marks
    <2> QED BY <1>2, <2>1, SeqMonotonic DEF Texts
  <1>4. Padding \in Nat
    BY ValuesAssumption
  <1>5. /\ h \o Lines(d, Padding, 0) \in Texts
        /\ \E o : /\ Laid(h \o Lines(d, Padding, 0) \o t, d, o, Padding, 0)
                  /\ o[Len(Keys)] = Len(h \o Lines(d, Padding, 0))
    <2>1. PICK b \in Nat : b = Padding
      BY <1>4
    <2>2. PICK a \in Nat : a = 0
      OBVIOUS
    <2>3. Header(h, 3)
      BY <1>2, <1>3 DEF Header
    <2>4. /\ h \o Lines(d, b, a) \in Texts
          /\ \E o : /\ Laid(h \o Lines(d, b, a) \o t, d, o, b, a)
                    /\ o[Len(Keys)] = Len(h \o Lines(d, b, a))
      BY <2>3, LinesLaid
    <2> QED BY <2>1, <2>2, <2>4
  <1> QED BY <1>1, <1>5 DEF Body

\* What iniparser_dump_ini writes is a text that ends with the end of the last line and two
\* more, and iniparser_load gives the dictionary back, whatever ends of lines follow.
THEOREM DumpLoads ==
  ASSUME NEW d \in Dictionaries
  PROVE  /\ iniparser_dump_ini(d) \in Texts
         /\ \A t \in Tails : iniparser_load(iniparser_dump_ini(d) \o t) = d
         /\ iniparser_load(iniparser_dump_ini(d)) = d
  <1>1. PICK y \in Texts : y = Body(d)
    <2>1. <<>> \in Tails
      BY DEF Tails
    <2> QED BY <2>1, BodyLaid
  <1>2. PICK w \in Tails : w = <<"nl", "nl">>
    BY TwoEnds
  <1>3. iniparser_dump_ini(d) = y \o w
    BY <1>1, <1>2 DEF iniparser_dump_ini, Body
  <1>4. w \in Texts
    BY TailText
  <1>5. y \o w \in Texts
    BY <1>4, ConcatProperties DEF Texts
  <1>6. ASSUME NEW t \in Tails PROVE iniparser_load(y \o w \o t) = d
    <2>1. t \in Texts /\ w \o t \in Tails
      BY <1>2, TailText
    <2>2. y \o w \o t = y \o (w \o t)
      BY <1>4, <2>1, TextsJoin
    <2>3. \E o : Laid(y \o (w \o t), d, o, Padding, 0)
      BY <1>1, <2>1, BodyLaid
    <2>4. Padding \in Nat /\ 0 \in Nat
      BY ValuesAssumption
    <2> QED BY <2>2, <2>3, <2>4, LaidLoads
  <1>7. iniparser_load(y \o w) = d
    <2>1. <<>> \in Tails
      BY DEF Tails
    <2>2. y \o w \o <<>> = y \o w
      BY <1>5, ConcatEmptySeq DEF Texts
    <2> QED BY <1>6, <2>1, <2>2
  <1> QED BY <1>3, <1>5, <1>6, <1>7

-------------------------------------------------------------------------------
(* Texts that old text shows behind: every key in them still has its line. *)

\* A line behind place q of a text, up to its end.
LineHere(text, q) ==
    \E v \in Values, b \in Nat, a \in Nat :
        /\ q + (b + Len(v) + a + 4) <= Len(text)
        /\ LineAt(text, q, text[q + 1], v, b, a)

\* Wherever a key is, its line is.
Whole(text) == \A q \in Nat : q < Len(text) /\ text[q + 1] \in ToSet(Keys) => LineHere(text, q)

\* A file, whole, with a line for every key.
Good(text) == text \in Texts /\ Whole(text) /\ HasKeys(text)

\* A file without a key.
Bare(text) == text \in Texts /\ \A i \in 1 .. Len(text) : text[i] \notin ToSet(Keys)

\* The characters of a value are no keys.
LEMMA ValueNoKey ==
  ASSUME NEW v \in Values
  PROVE  \A j \in 1 .. Len(v) : v[j] \notin ToSet(Keys)
  <1>1. v \in Seq(ToSet(v)) /\ ToSet(Keys) \cap ToSet(v) = {}
    BY ValuesAssumption, KeysAssumption
  <1>2. DOMAIN v = 1 .. Len(v)
    BY <1>1, LenProperties
  <1>3. \A j \in 1 .. Len(v) : v[j] \in ToSet(v)
    BY <1>2, Zenon DEF ToSet
  <1> QED BY <1>1, <1>3

\* A line has no key behind its own.
LEMMA BehindKey ==
  ASSUME NEW text, NEW q \in Nat, NEW k, NEW v \in Values, NEW m \in Nat, Len(v) = m,
         NEW b \in Nat, NEW a \in Nat, LineAt(text, q, k, v, b, a), NEW j \in 2 .. b + m + a + 4
  PROVE  text[q + j] \notin ToSet(Keys)
  <1>0. /\ "sp" \notin ToSet(Keys) /\ "=" \notin ToSet(Keys) /\ "nl" \notin ToSet(Keys)
        /\ \A i \in 1 .. m : v[i] \notin ToSet(Keys)
    BY KeysAssumption, ValueNoKey DEF Marks
  <1>1. /\ \A i \in 1 .. b : text[q + 1 + i] = "sp"
        /\ text[q + b + 2] = "=" /\ text[q + b + 3] = "sp"
        /\ \A i \in 1 .. m : text[q + b + 3 + i] = v[i]
        /\ \A i \in 1 .. a : text[q + b + 3 + m + i] = "sp"
        /\ text[q + b + m + a + 4] = "nl"
    BY DEF LineAt
  <1>3. CASE j \in 2 .. b + 1
    <2>1. j - 1 \in 1 .. b /\ q + 1 + (j - 1) = q + j
      BY <1>3
    <2>2. text[q + 1 + (j - 1)] = "sp"
      BY <1>1, <2>1, Zenon
    <2> QED BY <1>0, <2>1, <2>2
  <1>4. CASE j = b + 2 \/ j = b + 3 \/ j = b + m + a + 4
    <2>1. /\ q + (b + 2) = q + b + 2 /\ q + (b + 3) = q + b + 3
          /\ q + (b + m + a + 4) = q + b + m + a + 4
      OBVIOUS
    <2> QED BY <1>0, <1>1, <1>4, <2>1
  <1>5. CASE j \in b + 4 .. b + 3 + m
    <2>1. j - (b + 3) \in 1 .. m /\ q + b + 3 + (j - (b + 3)) = q + j
      BY <1>5
    <2>2. text[q + b + 3 + (j - (b + 3))] = v[j - (b + 3)] /\ v[j - (b + 3)] \notin ToSet(Keys)
      BY <1>0, <1>1, <2>1, Zenon
    <2> QED BY <2>1, <2>2
  <1>6. CASE j \in b + 4 + m .. b + 3 + m + a
    <2>1. j - (b + 3 + m) \in 1 .. a /\ q + b + 3 + m + (j - (b + 3 + m)) = q + j
      BY <1>6
    <2>2. text[q + b + 3 + m + (j - (b + 3 + m))] = "sp"
      BY <1>1, <2>1, Zenon
    <2> QED BY <1>0, <2>1, <2>2
  <1>7. \/ j \in 2 .. b + 1 \/ j = b + 2 \/ j = b + 3 \/ j = b + m + a + 4
        \/ j \in b + 4 .. b + 3 + m \/ j \in b + 4 + m .. b + 3 + m + a
    OBVIOUS
  <1> QED BY <1>3, <1>4, <1>5, <1>6, <1>7

\* In a file as it is written, every key begins its line.
LEMMA LaidWhole ==
  ASSUME NEW d \in Dictionaries, NEW b \in Nat, NEW a \in Nat, NEW text, NEW o,
         Laid(text, d, o, b, a)
  PROVE  Whole(text)
  <1>0. PICK n \in Nat : n = Len(Keys) /\ n # 0
    BY KeyFacts
  <1>1. PICK size \in Nat : size = Len(text) /\ text \in Texts
    BY LenProperties DEF Laid, Texts
  <1>3. /\ o \in [0 .. n -> Nat] /\ o[0] # 0
        /\ \A i \in 0 .. n : o[i] <= o[n]
        /\ o[n] <= size
        /\ \A i \in 1 .. o[0] : text[i] \in {"nl", "[]"}
        /\ \A i \in 1 .. n : /\ o[i] = o[i - 1] + (b + Len(d[Keys[i]]) + a + 4)
                             /\ LineAt(text, o[i - 1], Keys[i], d[Keys[i]], b, a)
        /\ \A i \in o[n] + 1 .. size : text[i] = "nl"
    BY <1>0, <1>1 DEF Laid
  <1>4. o[0] \in Nat /\ o[n] \in Nat
    BY <1>3
  <1>a. "nl" \notin ToSet(Keys) /\ "[]" \notin ToSet(Keys)
    BY KeysAssumption DEF Marks
  <1> SUFFICES ASSUME NEW u \in Nat, u < size, text[u + 1] \in ToSet(Keys)
               PROVE  LineHere(text, u)
    BY <1>1 DEF Whole
  <1>2. PICK p \in 1 .. size : p = u + 1
    OBVIOUS
  <1>5. o[0] < p
    <2>1. p <= o[0] => p \in 1 .. o[0]
      BY <1>4
    <2> QED BY <1>2, <1>3, <1>4, <1>a, <2>1
  <1>6. p <= o[n]
    <2>1. p > o[n] => p \in o[n] + 1 .. size
      BY <1>4
    <2> QED BY <1>2, <1>3, <1>4, <1>a, <2>1
  <1> DEFINE R == {i \in 1 .. n : p <= o[i]}
  <1>7. R \in SUBSET Nat /\ R # {}
    <2>1. n \in 1 .. n
      BY <1>0
    <2> QED BY <1>6, <2>1
  <1>8. PICK i \in R : \A x \in R : i <= x
    BY <1>7, LeastNatural
  <1>9. i \in 1 .. n /\ p <= o[i]
    BY <1>8
  <1>10. o[i - 1] < p /\ o[i - 1] \in Nat
    <2>1. CASE i = 1
      <3>1. i - 1 = 0
        BY <2>1
      <3> QED BY <1>4, <1>5, <3>1
    <2>2. CASE i # 1
      <3>1. i - 1 \in 1 .. n /\ i - 1 \in 0 .. n
        BY <1>9, <2>2
      <3>2. o[i - 1] \in Nat
        BY <1>3, <3>1
      <3>3. i - 1 \notin R
        BY <1>8, <1>9
      <3>4. ~(p <= o[i - 1])
        BY <3>1, <3>3
      <3> QED BY <1>2, <3>2, <3>4
    <2> QED BY <2>1, <2>2
  <1>11. PICK q \in Nat : q = o[i - 1]
    BY <1>10
  <1>12. PICK v \in Values : v = d[Keys[i]]
    BY <1>0, <1>9, EntryText
  <1>13. PICK m \in Nat : m = Len(v)
    BY ValueText
  <1>14. LineAt(text, q, Keys[i], v, b, a) /\ o[i] = q + (b + m + a + 4)
    BY <1>3, <1>9, <1>11, <1>12, <1>13
  <1>15. p = q + 1
    <2> SUFFICES ASSUME p # q + 1 PROVE FALSE
      OBVIOUS
    <2>1. PICK j \in 2 .. b + m + a + 4 : p = q + j
      <3>1. p - q \in 2 .. b + m + a + 4 /\ p = q + (p - q)
        BY <1>9, <1>10, <1>11, <1>14
      <3> QED BY <3>1
    <2>2. text[q + j] \notin ToSet(Keys)
      BY <1>13, <1>14, BehindKey
    <2> QED BY <1>2, <2>1, <2>2
  <1>16. u = q /\ text[u + 1] = Keys[i]
    <2>1. u = q
      BY <1>2, <1>15
    <2> QED BY <1>14, <2>1 DEF LineAt
  <1>17. q + (b + m + a + 4) <= size
    <2>1. i \in 0 .. n /\ o[i] <= o[n] /\ o[i] \in Nat
      BY <1>3, <1>9
    <2> QED BY <1>3, <1>4, <1>14, <2>1
  <1> QED BY <1>1, <1>13, <1>14, <1>16, <1>17 DEF LineHere

\* A line that is copied whole is a line.
LEMMA LineCopied ==
  ASSUME NEW line \in Texts, NEW r \in Nat, NEW text \in Texts, NEW p \in Nat,
         NEW size \in Nat, Len(line) = size, r <= size, p + (size - r) <= Len(text),
         LineHere(line, r), Copied(text, p, line, r, size - r)
  PROVE  LineHere(text, p)
  <1>0. PICK bound \in Nat : bound = Len(text)
    BY LenProperties DEF Texts
  <1>1. PICK v \in Values, b \in Nat, a \in Nat :
          /\ r + (b + Len(v) + a + 4) <= size
          /\ LineAt(line, r, line[r + 1], v, b, a)
    BY DEF LineHere
  <1>2. PICK m \in Nat : m = Len(v)
    BY ValueText
  <1>3. Copied(text, p, line, r, b + Len(v) + a + 4)
    <2>1. \A j \in 1 .. b + m + a + 4 : j \in 1 .. size - r
      BY <1>1, <1>2
    <2> QED BY <1>2, <2>1 DEF Copied
  <1>4. LineAt(text, p, line[r + 1], v, b, a)
    <2>1. PICK k : k = line[r + 1]
      OBVIOUS
    <2>2. LineAt(line, r, k, v, b, a) /\ Len(v) \in Nat
      BY <1>1, <1>2, <2>1
    <2>3. LineAt(text, p, k, v, b, a)
      BY <1>3, <2>2, LineShifted
    <2> QED BY <2>1, <2>3
  <1>5. text[p + 1] = line[r + 1]
    BY <1>4 DEF LineAt
  <1>6. p + (b + Len(v) + a + 4) <= bound
    BY <1>0, <1>1, <1>2
  <1> QED BY <1>0, <1>4, <1>5, <1>6 DEF LineHere

\* Two whole texts in a row are whole.
LEMMA WholeJoin ==
  ASSUME NEW x, NEW u \in Texts, NEW m \in Nat, Len(u) = m, NEW w \in Texts, NEW n \in Nat,
         Len(w) = n, After(x, u, m, w, n), Whole(u), Whole(w)
  PROVE  Whole(x)
  <1>1. /\ x \in Texts /\ Len(x) = m + n
        /\ \A k \in 1 .. m : x[k] = u[k]
        /\ \A k \in 1 .. n : x[m + k] = w[k]
    BY DEF After
  <1> SUFFICES ASSUME NEW q \in Nat, q < m + n, x[q + 1] \in ToSet(Keys)
               PROVE  LineHere(x, q)
    BY <1>1 DEF Whole
  <1>2. CASE q < m
    <2>1. q + 1 \in 1 .. m
      BY <1>2
    <2>2. LineHere(u, q)
      BY <1>1, <1>2, <2>1 DEF Whole
    <2>3. Copied(x, q, u, q, m - q)
      <3>1. \A j \in 1 .. m - q : q + j \in 1 .. m
        BY <1>2
      <3> QED BY <1>1, <3>1 DEF Copied
    <2>4. q <= m /\ q + (m - q) <= Len(x)
      BY <1>1, <1>2
    <2> QED BY <1>1, <2>2, <2>3, <2>4, LineCopied
  <1>3. CASE q >= m
    <2>1. PICK r \in Nat : r = q - m
      BY <1>3
    <2>2. r + 1 \in 1 .. n /\ m + (r + 1) = q + 1
      BY <2>1
    <2>3. w[r + 1] = x[q + 1]
      <3>1. PICK k \in 1 .. n : k = r + 1
        BY <2>2
      <3>2. x[m + k] = w[k] /\ m + k = q + 1
        BY <1>1, <2>2, <3>1
      <3> QED BY <3>1, <3>2
    <2>4. LineHere(w, r)
      BY <2>2, <2>3 DEF Whole
    <2>5. Copied(x, q, w, r, n - r)
      <3>1. \A j \in 1 .. n - r : r + j \in 1 .. n /\ m + (r + j) = q + j
        BY <2>1
      <3> QED BY <1>1, <3>1 DEF Copied
    <2>6. r <= n /\ q + (n - r) <= Len(x)
      BY <1>1, <2>1
    <2> QED BY <1>1, <2>4, <2>5, <2>6, LineCopied
  <1> QED BY <1>2, <1>3

\* What a shorter text leaves of an old one: it is whole when the old one is, it has no key
\* when the old one has none.
LEMMA BehindText ==
  ASSUME NEW old \in Texts, NEW new \in Texts
  PROVE  /\ Behind(old, new) \in Texts
         /\ Whole(old) => Whole(Behind(old, new))
         /\ Bare(old) => Bare(Behind(old, new))
  <1>1. PICK n \in Nat : n = Len(new)
    BY LenProperties DEF Texts
  <1>2. PICK size \in Nat : size = Len(old)
    BY LenProperties DEF Texts
  <1>3. PICK t : t = SubSeq(old, n + 1, size)
    OBVIOUS
  <1>4. Behind(old, new) = t
    BY <1>1, <1>2, <1>3 DEF Behind
  <1>5. CASE size <= n
    <2>1. n + 1 \in Int /\ size \in Int /\ size < n + 1
      BY <1>5
    <2>2. t = <<>>
      BY <1>3, <2>1, SubSeqEmpty
    <2>3. t \in Texts /\ Len(t) = 0
      BY <2>2 DEF Texts
    <2> QED BY <1>4, <2>3 DEF Whole, Bare
  <1>6. CASE size > n
    <2>1. /\ t \in Texts /\ Len(t) = size - (n + 1) + 1
          /\ \A k \in 1 .. size - (n + 1) + 1 : t[k] = old[k + (n + 1) - 1]
      <3>1. n + 1 \in Nat /\ n + 1 >= 1 /\ size <= Len(old) /\ n + 1 <= size + 1
        BY <1>2, <1>6
      <3>2. old \in Seq(Cells)
        BY DEF Texts
      <3> QED BY <1>3, <3>1, <3>2, PieceElements DEF Texts
    <2>2. PICK r \in Nat : r = size - n
      BY <1>6
    <2>3. Len(t) = r
      BY <2>1, <2>2
    <2>4. ASSUME NEW k \in 1 .. r PROVE t[k] = old[n + k]
      <3>1. k \in 1 .. size - (n + 1) + 1 /\ k + (n + 1) - 1 = n + k
        BY <2>2
      <3> QED BY <2>1, <3>1
    <2>5. ASSUME Whole(old) PROVE Whole(t)
      <3> SUFFICES ASSUME NEW q \in Nat, q < r, t[q + 1] \in ToSet(Keys) PROVE LineHere(t, q)
        BY <2>3 DEF Whole
      <3>1. PICK p \in Nat : p = n + q
        OBVIOUS
      <3>2. q + 1 \in 1 .. r /\ n + (q + 1) = p + 1 /\ p < size
        BY <2>2, <3>1
      <3>3. old[p + 1] = t[q + 1]
        BY <2>4, <3>2
      <3>4. LineHere(old, p)
        BY <1>2, <2>5, <3>2, <3>3 DEF Whole
      <3>5. Copied(t, q, old, p, size - p)
        <4>1. ASSUME NEW j \in 1 .. size - p PROVE t[q + j] = old[p + j]
          <5>1. q + j \in 1 .. r /\ n + (q + j) = p + j
            BY <2>2, <3>1
          <5> QED BY <2>4, <5>1
        <4> QED BY <4>1 DEF Copied
      <3>6. p <= size /\ q + (size - p) <= Len(t)
        BY <2>2, <2>3, <3>1, <3>2
      <3> QED BY <1>2, <2>1, <3>4, <3>5, <3>6, LineCopied
    <2>6. ASSUME Bare(old) PROVE Bare(t)
      <3>1. ASSUME NEW i \in 1 .. r PROVE t[i] \notin ToSet(Keys)
        <4>1. n + i \in 1 .. size
          BY <2>2
        <4> QED BY <1>2, <2>4, <2>6, <4>1 DEF Bare
      <3> QED BY <2>1, <2>3, <3>1 DEF Bare
    <2> QED BY <1>4, <2>1, <2>5, <2>6
  <1> QED BY <1>5, <1>6

\* A dump over a file leaves a good one: the new lines, and what shows of old ones, whole.
LEMMA OverwrittenGood ==
  ASSUME NEW old \in Texts, Whole(old), NEW new, Good(new)
  PROVE  Good(Overwritten(old, new))
  <1>1. new \in Texts /\ Whole(new) /\ HasKeys(new)
    BY DEF Good
  <1>2. PICK n \in Nat : n = Len(new)
    BY <1>1, LenProperties DEF Texts
  <1>3. PICK t \in Texts : t = Behind(old, new) /\ Whole(t)
    BY <1>1, BehindText
  <1>4. PICK r \in Nat : r = Len(t)
    BY LenProperties DEF Texts
  <1>5. PICK z : z = new \o t
    OBVIOUS
  <1>6. Overwritten(old, new) = z
    BY <1>3, <1>5 DEF Overwritten
  <1>7. After(z, new, n, t, r)
    BY <1>1, <1>2, <1>4, <1>5, TextJoin
  <1>8. Whole(z)
    BY <1>1, <1>2, <1>3, <1>4, <1>7, WholeJoin
  <1>9. z \in Texts /\ Len(z) = n + r /\ \A k \in 1 .. n : z[k] = new[k]
    BY <1>7 DEF After
  <1>10. ASSUME NEW k \in ToSet(Keys) PROVE LinesOf(z, k) # {}
    <2>1. PICK i \in LinesOf(new, k) : TRUE
      BY <1>1 DEF HasKeys
    <2>2. i \in 1 .. n /\ (i = 1 \/ new[i - 1] = "nl") /\ new[i] = k
      BY <1>2, <2>1 DEF LinesOf, LineStarts
    <2>3. i \in 1 .. n + r /\ z[i] = k
      BY <1>9, <2>2
    <2>4. i = 1 \/ z[i - 1] = "nl"
      <3>1. i # 1 => i - 1 \in 1 .. n
        BY <2>2
      <3> QED BY <1>9, <2>2, <3>1
    <2>5. i \in LinesOf(z, k)
      BY <1>9, <2>3, <2>4 DEF LinesOf, LineStarts
    <2> QED BY <2>5
  <1> QED BY <1>6, <1>8, <1>9, <1>10 DEF Good, HasKeys

\* Text without a key over such text.
LEMMA OverwrittenBare ==
  ASSUME NEW old, Bare(old), NEW new, Bare(new)
  PROVE  Bare(Overwritten(old, new))
  <1>1. new \in Texts /\ old \in Texts
    BY DEF Bare
  <1>2. PICK n \in Nat : n = Len(new)
    BY <1>1, LenProperties DEF Texts
  <1>3. PICK t \in Texts : t = Behind(old, new) /\ Bare(t)
    BY <1>1, BehindText
  <1>4. PICK r \in Nat : r = Len(t)
    BY LenProperties DEF Texts
  <1>5. PICK z : z = new \o t
    OBVIOUS
  <1>6. Overwritten(old, new) = z
    BY <1>3, <1>5 DEF Overwritten
  <1>7. After(z, new, n, t, r)
    BY <1>1, <1>2, <1>4, <1>5, TextJoin
  <1>8. /\ z \in Texts /\ Len(z) = n + r
        /\ \A k \in 1 .. n : z[k] = new[k]
        /\ \A k \in 1 .. r : z[n + k] = t[k]
    BY <1>7 DEF After
  <1>9. ASSUME NEW i \in 1 .. n + r PROVE z[i] \notin ToSet(Keys)
    <2>1. CASE i <= n
      <3>1. i \in 1 .. n
        BY <2>1
      <3> QED BY <1>2, <1>8, <3>1 DEF Bare
    <2>2. CASE i > n
      <3>1. PICK k \in 1 .. r : i = n + k
        <4>1. i - n \in 1 .. r /\ i = n + (i - n)
          BY <2>2
        <4> QED BY <4>1
      <3>2. t[k] \notin ToSet(Keys)
        BY <1>3, <1>4, <3>1 DEF Bare
      <3> QED BY <1>8, <3>1, <3>2
    <2> QED BY <2>1, <2>2
  <1> QED BY <1>6, <1>8, <1>9 DEF Bare

\* What iniparser_dump_ini writes is a good file.
LEMMA DumpGood ==
  ASSUME NEW d \in Dictionaries
  PROVE  Good(iniparser_dump_ini(d))
  <1>1. PICK y \in Texts : y = Body(d)
    <2>1. <<>> \in Tails
      BY DEF Tails
    <2> QED BY <2>1, BodyLaid
  <1>2. PICK w \in Tails : w = <<"nl", "nl">>
    BY TwoEnds
  <1>3. iniparser_dump_ini(d) = y \o w
    BY <1>1, <1>2 DEF iniparser_dump_ini, Body
  <1>4. PICK o : Laid(y \o w, d, o, Padding, 0)
    BY <1>1, BodyLaid
  <1>5. PICK b \in Nat : b = Padding
    BY ValuesAssumption
  <1>6. PICK a \in Nat : a = 0
    OBVIOUS
  <1>7. Laid(y \o w, d, o, b, a)
    BY <1>4, <1>5, <1>6
  <1>8. y \o w \in Texts
    BY <1>7 DEF Laid
  <1>9. HasKeys(y \o w)
    BY <1>7, LaidLoads
  <1>10. Whole(y \o w)
    BY <1>7, LaidWhole
  <1> QED BY <1>3, <1>8, <1>9, <1>10 DEF Good

\* The file that imi_db_mi_create_default_db writes is good, and loads as the defaults.
LEMMA DefaultLoads ==
  /\ DefaultDict \in Dictionaries
  /\ Good(default_file)
  /\ iniparser_load(default_file) = DefaultDict
  <1>1. DefaultDict \in Dictionaries
    BY ValuesAssumption DEF DefaultDict, Dictionaries
  <1>2. PICK h : h = <<"nl", "nl", "[]", "nl">>
    OBVIOUS
  <1>3. /\ h \in Seq({"nl", "[]"}) /\ Len(h) = 4
        /\ \A i \in 1 .. 4 : h[i] \in {"nl", "[]"}
        /\ h[4] = "nl"
    BY <1>2
  <1>4. h \in Texts
    <2>1. {"nl", "[]"} \subseteq Cells
      BY DEF Cells, Marks
    <2> QED BY <1>3, <2>1, SeqMonotonic DEF Texts
  <1>5. PICK y : y = h \o Lines(DefaultDict, 1, 1) /\ y = default_file
    BY <1>2 DEF default_file
  <1>6. <<>> \in Tails
    BY DEF Tails
  <1>7. PICK b \in Nat : b = 1
    OBVIOUS
  <1>8. y \in Texts /\ \E o : Laid(y \o <<>>, DefaultDict, o, b, b)
    <2>1. Header(h, 4)
      BY <1>3, <1>4 DEF Header
    <2>3. PICK t \in Tails : t = <<>>
      BY <1>6
    <2>4. /\ h \o Lines(DefaultDict, b, b) \in Texts
          /\ \E o : /\ Laid(h \o Lines(DefaultDict, b, b) \o t, DefaultDict, o, b, b)
                    /\ o[Len(Keys)] = Len(h \o Lines(DefaultDict, b, b))
      BY <1>1, <2>1, LinesLaid
    <2> QED BY <1>5, <1>7, <2>3, <2>4
  <1>9. y \o <<>> = y
    BY <1>8, ConcatEmptySeq DEF Texts
  <1>10. PICK o : Laid(y, DefaultDict, o, b, b)
    BY <1>8, <1>9
  <1>11. iniparser_load(y) = DefaultDict /\ HasKeys(y)
    BY <1>1, <1>10, LaidLoads
  <1>12. Whole(y)
    BY <1>1, <1>10, LaidWhole
  <1> QED BY <1>1, <1>5, <1>8, <1>11, <1>12 DEF Good

\* What a dump leaves of a longer text may be ends of lines; then the file loads as the
\* dictionary that was dumped.
LEMMA OverwrittenLoads ==
  ASSUME NEW old \in Texts, NEW d \in Dictionaries,
         ToSet(Behind(old, iniparser_dump_ini(d))) \subseteq {"nl"}
  PROVE  iniparser_load(Overwritten(old, iniparser_dump_ini(d))) = d
  <1>1. PICK y \in Texts : y = iniparser_dump_ini(d)
    BY DumpLoads
  <1>2. PICK t \in Texts : t = Behind(old, y)
    BY BehindText
  <1>3. PICK r \in Nat : r = Len(t) /\ DOMAIN t = 1 .. r
    BY LenProperties DEF Texts
  <1>4. ASSUME NEW j \in 1 .. r PROVE t[j] = "nl"
    <2>1. t[j] \in ToSet(t)
      BY <1>3, Zenon DEF ToSet
    <2> QED BY <1>1, <1>2, <2>1
  <1>5. t \in Tails
    <2>1. t = [k \in 1 .. r |-> t[k]]
      BY <1>3, LenProperties DEF Texts
    <2>2. t \in [1 .. r -> {"nl"}]
      BY <1>4, <2>1
    <2> QED BY <2>2, FunctionIsSeq DEF Tails
  <1>6. Overwritten(old, y) = y \o t
    BY <1>2 DEF Overwritten
  <1> QED BY <1>1, <1>5, <1>6, DumpLoads

\* A set of places of a text has a last one.
LEMMA LastPlace ==
  ASSUME NEW size \in Nat, NEW S \in SUBSET (1 .. size), S # {}
  PROVE  \E p \in S : \A x \in S : p >= x
  <1> DEFINE T == {y \in 0 .. size : size - y \in S}
  <1>1. T \in SUBSET Nat /\ T # {}
    <2>1. PICK x \in S : x \in 1 .. size
      OBVIOUS
    <2>2. size - x \in 0 .. size /\ size - (size - x) = x
      BY <2>1
    <2>3. size - x \in T
      BY <2>1, <2>2
    <2>4. \A y \in T : y \in Nat
      OBVIOUS
    <2> HIDE DEF T
    <2> QED BY <2>3, <2>4
  <1>2. PICK u \in T : \A w \in T : u <= w
    BY <1>1, LeastNatural
  <1>3. PICK p \in S : p = size - u /\ u \in 0 .. size
    BY <1>2
  <1>4. ASSUME NEW x \in S PROVE p >= x
    <2>1. x \in 1 .. size
      OBVIOUS
    <2>2. size - x \in 0 .. size /\ size - (size - x) = x
      BY <2>1
    <2>3. size - x \in T
      BY <2>2
    <2>4. u <= size - x
      BY <1>2, <2>3
    <2> QED BY <1>3, <2>1, <2>4
  <1> QED BY <1>3, <1>4

\* A good file is refused, or it gives a value to every key.
LEMMA GoodLoads ==
  ASSUME NEW text, Good(text)
  PROVE  iniparser_load(text) \in Dictionaries \cup {NULL}
  <1>1. text \in Texts /\ Whole(text) /\ HasKeys(text)
    BY DEF Good
  <1>2. PICK size \in Nat : size = Len(text)
    BY <1>1, LenProperties DEF Texts
  <1>3. ASSUME NEW k \in ToSet(Keys)
        PROVE  ValueAt(text, Max(LinesOf(text, k))) \in Values
    <2>1. PICK S : S = LinesOf(text, k)
      OBVIOUS
    <2>2. S \in SUBSET (1 .. size) /\ S # {} /\ \A x \in S : text[x] = k
      BY <1>1, <1>2, <2>1 DEF LinesOf, LineStarts, HasKeys
    <2>3. PICK p \in S : \A x \in S : p >= x
      BY <2>2, LastPlace
    <2>4. Max(S) = p
      <3>1. S \in SUBSET Int
        BY <2>2
      <3> QED BY <2>3, <3>1, MaxIs
    <2>5. PICK q \in Nat : p = q + 1
      <3>1. p - 1 \in Nat /\ p = (p - 1) + 1
        BY <2>2
      <3> QED BY <3>1
    <2>6. q < size /\ text[q + 1] = k
      BY <2>2, <2>5
    <2>7. PICK v \in Values, b \in Nat, a \in Nat :
            /\ q + (b + Len(v) + a + 4) <= size
            /\ LineAt(text, q, text[q + 1], v, b, a)
      <3>1. LineHere(text, q)
        BY <1>1, <1>2, <2>6 DEF Whole
      <3> QED BY <1>2, <3>1 DEF LineHere
    <2>8. PICK m \in Nat : m = Len(v)
      BY ValueText
    <2>9. LineAt(text, q, k, v, b, a) /\ q + (b + m + a + 4) <= size
      BY <2>6, <2>7, <2>8
    <2>10. k # "="
      BY KeysAssumption DEF Marks
    <2>11. ValueAt(text, q + 1) = v
      BY <1>1, <1>2, <2>8, <2>9, <2>10, LineValue
    <2> QED BY <2>1, <2>4, <2>5, <2>11
  <1>4. {k \in ToSet(Keys) : LinesOf(text, k) # {}} = ToSet(Keys)
    BY <1>1 DEF HasKeys
  <1>5. \/ iniparser_load(text) = NULL
        \/ iniparser_load(text) = [k \in {k \in ToSet(Keys) : LinesOf(text, k) # {}} |->
                                      ValueAt(text, Max(LinesOf(text, k)))]
    BY Zenon DEF iniparser_load
  <1>6. \/ iniparser_load(text) = NULL
        \/ iniparser_load(text) = [k \in ToSet(Keys) |-> ValueAt(text, Max(LinesOf(text, k)))]
    BY <1>4, <1>5
  <1> QED BY <1>3, <1>6 DEF Dictionaries

\* A file without a key is refused, or it gives a value to none.
LEMMA BareLoads ==
  ASSUME NEW text, Bare(text)
  PROVE  iniparser_load(text) \in {NoKeys, NULL}
  <1>1. {k \in ToSet(Keys) : LinesOf(text, k) # {}} = {}
    BY DEF Bare, LinesOf, LineStarts
  <1>2. \/ iniparser_load(text) = NULL
        \/ iniparser_load(text) = [k \in {k \in ToSet(Keys) : LinesOf(text, k) # {}} |->
                                      ValueAt(text, Max(LinesOf(text, k)))]
    BY Zenon DEF iniparser_load
  <1>3. \/ iniparser_load(text) = NULL
        \/ iniparser_load(text) = [k \in {} |-> ValueAt(text, Max(LinesOf(text, k)))]
    BY <1>1, <1>2
  <1>4. [k \in {} |-> ValueAt(text, Max(LinesOf(text, k)))] = [k \in {} |-> NULL]
    OBVIOUS
  <1> QED BY <1>3, <1>4 DEF NoKeys

\* What a dictionary without a section is dumped as has no key.
LEMMA BareDumps ==
  ASSUME NEW text \in bare_dumps
  PROVE  Bare(text)
  <1>1. {"::", "=", "nl"} \subseteq Cells /\ {"::", "=", "nl"} \cap ToSet(Keys) = {}
    BY KeysAssumption DEF Cells, Marks
  <1>2. text \in Seq({"::", "=", "nl"})
    <2>1. <<>> \in Seq({"::", "=", "nl"})
      OBVIOUS
    <2>2. <<"::", "nl">> \in Seq({"::", "=", "nl"})
      OBVIOUS
    <2>3. <<"::", "=", "=", "nl">> \in Seq({"::", "=", "nl"})
      OBVIOUS
    <2> QED BY <2>1, <2>2, <2>3, Zenon DEF bare_dumps
  <1>3. text \in Texts
    BY <1>1, <1>2, SeqMonotonic DEF Texts
  <1>4. \A i \in 1 .. Len(text) : text[i] \in {"::", "=", "nl"}
    BY <1>2, ElementOfSeq
  <1> QED BY <1>1, <1>3, <1>4 DEF Bare

\* No dictionary is that of a file without a section, and none is missing.
LEMMA KindsDiffer ==
  /\ NoKeys \notin Dictionaries /\ NoKeys # NULL /\ NULL \notin Dictionaries
  /\ \A text : Good(text) \/ Bare(text) => text # NULL
  <1>1. \A d \in Dictionaries : DOMAIN d # {}
    <2>1. PICK k : k \in ToSet(Keys)
      <3>1. 1 \in 1 .. Len(Keys)
        BY KeyFacts
      <3> QED BY <3>1, KeyFacts
    <2> QED BY <2>1 DEF Dictionaries
  <1>2. DOMAIN NoKeys = {}
    BY DEF NoKeys
  <1>3. NoKeys # NULL
    BY NullAssumption DEF NoKeys
  <1>4. NULL \notin Dictionaries
    BY NullAssumption DEF Dictionaries
  <1>5. \A text : Good(text) \/ Bare(text) => text # NULL
    BY NullAssumption DEF Good, Bare, Texts
  <1> QED BY <1>1, <1>2, <1>3, <1>4, <1>5

-------------------------------------------------------------------------------
(* The invariant: what the files hold, how far a start has come, what the   *)
(* threads that save hold, and what holds for a database whose last set no  *)
(* save has overlapped.                                                     *)

\* A file, once there is one, is good, or a start has left it empty.  It holds what was
\* last saved, unless one of the two kinds of damage is recorded; a file that is missing
\* or being created has never been saved to.
FileInv ==
    \A d \in Paths :
        /\ file[d] = NULL \/ Good(file[d]) \/ Bare(file[d])
        /\ Bare(file[d]) => emptied[d] \/ Filling(d)
        /\ ~emptied[d] => saved[d] \in Dictionaries
        /\ ~overhang[d] /\ ~emptied[d] =>
              IF file[d] = NULL \/ Filling(d) THEN saved[d] = DefaultDict
              ELSE iniparser_load(file[d]) = saved[d]

\* A dictionary in memory is of the kind of its file, which is not being created.
HeldInv ==
    \A d \in Paths :
        /\ dict[d] = NoKeys => Bare(file[d]) /\ emptied[d] /\ ~Filling(d)
        /\ dict[d] \in Dictionaries => Good(file[d]) /\ ~Filling(d)

\* A start loads the databases in their order, and a database that it has loaded holds
\* what was last saved, but for the recorded damage.
StartInv ==
    /\ ~up => \A d \in Paths : dict[d] \in Dictionaries =>
                 saved[d] = dict[d] \/ overhang[d] \/ emptied[d]
    /\ ~up /\ pc["main"] = "idle" => at["main"] = 1
    /\ ~up => \A i \in 1 .. Len(Files) : dict[Files[i]] = NULL <=> i >= at["main"]
    /\ pc["main"] = "fill" => at["main"] <= Len(Files)

\* A thread at work on a file has its index, and behind the lock a whole dump; only the
\* first thread runs imi_db_mi_init and imi_db_mi_set_value.
SaverInv ==
    \A t \in Threads :
        /\ pc[t] \in {"load", "fill"} => t = "main" /\ ~up
        /\ ~up => pc[t] \in {"idle", "load", "fill"}
        /\ pc[t] \in {"locking", "dumped", "unlocked", "written"} => at[t] <= Len(Files)
        /\ pc[t] \in {"dumped", "unlocked"} =>
              IF dict[Files[at[t]]] = NoKeys THEN buf[t] \in bare_dumps
              ELSE \E e \in Dictionaries : buf[t] = iniparser_dump_ini(e)
        /\ pc[t] = "set" =>
              /\ t = "main"
              /\ call \in [db : Dbs, key : ToSet(Keys), value : Values, save : BOOLEAN]

SetsNow(d) == pc["main"] = "set" /\ call.db = d

\* As long as no save has overlapped a set, whoever is past the dump of a database has
\* its values, and a flag that is down means that they are saved, but for the recorded
\* damage.
FreshInv ==
    \A d \in Paths : up /\ ~raced[d] /\ dict[d] # NoKeys =>
        /\ SetsNow(d) => sync_flag[d]
        /\ ~SetsNow(d) =>
              /\ ~sync_flag[d] => saved[d] = dict[d] \/ overhang[d] \/ emptied[d]
              /\ \A t \in Threads : InSave(t, d) =>
                    /\ pc[t] \in {"dumped", "unlocked"} =>
                          buf[t] = iniparser_dump_ini(dict[d])
                    /\ pc[t] = "written" => saved[d] = dict[d]

\* Files and buffers hold texts.
TextsOK == file \in [Paths -> Texts \cup {NULL}] /\ buf \in [Threads -> Texts]

DbInv == TypeOK /\ TextsOK /\ FileInv /\ HeldInv /\ StartInv /\ SaverInv /\ FreshInv

\* The index of a thread that works on a file is that of a database with a path.
LEMMA AtPath ==
  ASSUME TypeOK, NEW t \in Threads, at[t] <= Len(Files)
  PROVE  /\ Files[at[t]] \in Paths /\ Files[at[t]] \in Dbs
         /\ at[t] + 1 \in 1 .. Len(Files) + 1 /\ at[t] \in 1 .. Len(Files)
  <1>1. Len(Files) \in Nat /\ \A i \in 1 .. Len(Files) : Files[i] \in ToSet(Files)
    BY DbAssumption, LenProperties, ElementOfSeq
  <1>2. at[t] \in 1 .. Len(Files)
    BY <1>1 DEF TypeOK
  <1> QED BY <1>1, <1>2 DEF Paths, Dbs

\* The databases with a path, by their index.
LEMMA FileIndex ==
  /\ Len(Files) \in Nat /\ 1 \in 1 .. Len(Files) + 1
  /\ \A i \in 1 .. Len(Files) : Files[i] \in Paths
  /\ \A i, j \in 1 .. Len(Files) : Files[i] = Files[j] => i = j
  /\ \A d \in Paths : \E i \in 1 .. Len(Files) : Files[i] = d
  /\ "main" \in Threads /\ Paths \subseteq Dbs /\ Timers \subseteq Threads
  <1>1. DOMAIN Files = 1 .. Len(Files) /\ Len(Files) \in Nat
    BY DbAssumption, LenProperties
  <1>2. 1 \in 1 .. Len(Files) + 1
    BY <1>1
  <1>3. \A i \in 1 .. Len(Files) : Files[i] \in Paths
    BY <1>1, Zenon DEF ToSet, Paths
  <1>4. \A i, j \in 1 .. Len(Files) : Files[i] = Files[j] => i = j
    BY <1>1, DbAssumption, Zenon DEF IsInjective
  <1>5. \A d \in Paths : \E i \in 1 .. Len(Files) : Files[i] = d
    BY <1>1, Zenon DEF ToSet, Paths
  <1>6. "main" \in Threads /\ Paths \subseteq Dbs /\ Timers \subseteq Threads
    BY DEF Threads, Dbs
  <1> QED BY <1>1, <1>2, <1>3, <1>4, <1>5, <1>6

\* What is loaded when no file is.
LEMMA NothingLoaded ==
  /\ NotLoaded \in [Dbs -> Dictionaries \cup {NoKeys, NULL}]
  /\ \A d \in Paths : NotLoaded[d] = NULL
  /\ \A d \in Dbs : NotLoaded[d] = NULL => d \in Paths
  BY DefaultLoads, KindsDiffer, FileIndex DEF NotLoaded

\* The first start.
LEMMA DbStarts ==
  ASSUME Init
  PROVE  DbInv
  <1>1. TypeOK
    BY FileIndex, DefaultLoads, NothingLoaded DEF Init, TypeOK
  <1>2. TextsOK
    BY DEF Init, TextsOK, Texts
  <1>3. /\ \A d \in Paths : file[d] = NULL /\ saved[d] = DefaultDict /\ dict[d] = NULL
        /\ pc["main"] = "idle" /\ at["main"] = 1
    BY FileIndex, NothingLoaded DEF Init
  <1>4. FileInv
    BY <1>3, DefaultLoads, KindsDiffer DEF FileInv
  <1>5. HeldInv
    BY <1>3, KindsDiffer DEF HeldInv
  <1>6. StartInv
    BY <1>3, FileIndex, KindsDiffer DEF StartInv
  <1>7. SaverInv
    BY DEF Init, SaverInv
  <1>8. FreshInv
    BY DEF Init, FreshInv
  <1> QED BY <1>1, <1>2, <1>4, <1>5, <1>6, <1>7, <1>8 DEF DbInv

\* A stop leaves the files and what was saved to them; it is recorded when it leaves a
\* file empty.
LEMMA CrashKeeps ==
  ASSUME DbInv, Crash
  PROVE  DbInv'
  <1> USE DEF DbInv
  <1>0. /\ ~up' /\ file' = file /\ saved' = saved /\ overhang' = overhang
        /\ \A d \in Paths : dict'[d] = NULL
        /\ \A d \in Paths : emptied'[d] = (emptied[d] \/ Filling(d))
        /\ \A t \in Threads : pc'[t] = "idle" /\ at'[t] = 1
    BY NothingLoaded DEF Crash
  <1>1. pc'["main"] = "idle" /\ at'["main"] = 1 /\ \A d \in Paths : ~Filling(d)'
    BY <1>0, FileIndex DEF Filling
  <1>2. TypeOK'
    <2>1. emptied' \in [Paths -> BOOLEAN]
      BY DEF Crash, TypeOK, Filling
    <2>2. dict' \in [Dbs -> Dictionaries \cup {NoKeys, NULL}] /\ \A d \in Dbs : dict'[d] = NULL => d \in Paths
      BY NothingLoaded DEF Crash
    <2> QED BY <1>0, <2>1, <2>2, FileIndex DEF TypeOK, Crash
  <1>3. TextsOK'
    BY DEF TextsOK, Texts, Crash
  <1>4. FileInv'
    <2> SUFFICES ASSUME NEW d \in Paths PROVE FileInv!(d)'
      BY DEF FileInv
    <2> QED BY <1>0, <1>1 DEF FileInv
  <1>5. HeldInv'
    BY <1>0, KindsDiffer DEF HeldInv
  <1>6. StartInv'
    BY <1>0, <1>1, FileIndex, KindsDiffer DEF StartInv
  <1>7. SaverInv'
    BY <1>0 DEF SaverInv
  <1>8. FreshInv'
    BY <1>0 DEF FreshInv
  <1> QED BY <1>2, <1>3, <1>4, <1>5, <1>6, <1>7, <1>8

\* While a start runs, no other thread does.
LEMMA StartsAlone ==
  ASSUME DbInv, ~up \/ pc["main"] \in {"load", "fill"}
  PROVE  /\ ~up /\ pc["main"] \in {"idle", "load", "fill"}
         /\ \A t \in Threads : t # "main" => pc[t] = "idle"
  BY FileIndex DEF DbInv, SaverInv

\* A step of a start that leaves its thread in imi_db_mi_init keeps what holds of the
\* threads.
LEMMA StartThreads ==
  ASSUME DbInv, ~up, ~up', NEW to \in {"load", "fill"}, pc' = [pc EXCEPT !["main"] = to]
  PROVE  /\ SaverInv' /\ FreshInv' /\ pc'["main"] = to
         /\ pc' \in [Threads -> {"idle", "load", "fill", "set", "scan", "locking", "dumped",
                                 "unlocked", "written"}]
  <1>1. \A t \in Threads : pc'[t] = IF t = "main" THEN to ELSE "idle"
    BY StartsAlone DEF DbInv, TypeOK
  <1>2. SaverInv'
    <2> SUFFICES ASSUME NEW t \in Threads PROVE SaverInv!(t)'
      BY DEF SaverInv
    <2> QED BY <1>1
  <1>3. FreshInv'
    BY DEF FreshInv
  <1> QED BY <1>1, <1>2, <1>3, FileIndex DEF DbInv, TypeOK

\* imi_db_mi_init begins.
LEMMA StartBegins ==
  ASSUME DbInv, InitStart
  PROVE  DbInv'
  <1> USE DEF DbInv
  <1>0. UNCHANGED <<up, dict, file, at, sync_flag, call, lock, buf, saved, raced, overhang, emptied>>
    BY DEF InitStart, InitStep, damage
  <1>1. ~up /\ ~up' /\ pc["main"] = "idle" /\ pc' = [pc EXCEPT !["main"] = "load"]
    BY <1>0 DEF InitStart
  <1>2. /\ SaverInv' /\ FreshInv' /\ pc'["main"] = "load"
        /\ pc' \in [Threads -> {"idle", "load", "fill", "set", "scan", "locking", "dumped",
                                "unlocked", "written"}]
    BY <1>1, StartThreads
  <1>3. TypeOK' /\ TextsOK'
    BY <1>0, <1>2 DEF TypeOK, TextsOK
  <1>4. \A d \in Paths : ~Filling(d) /\ ~Filling(d)'
    BY <1>1, <1>2 DEF Filling
  <1>5. FileInv'
    <2> SUFFICES ASSUME NEW d \in Paths PROVE FileInv!(d)'
      BY DEF FileInv
    <2> QED BY <1>0, <1>4 DEF FileInv
  <1>6. HeldInv'
    BY <1>0, <1>4 DEF HeldInv
  <1>7. StartInv'
    BY <1>0, <1>1, <1>2 DEF StartInv
  <1> QED BY <1>2, <1>3, <1>5, <1>6, <1>7

\* The database a start has come to is not loaded, and no other has its index.
LEMMA StartPlace ==
  ASSUME DbInv, pc["main"] \in {"load", "fill"}, at["main"] <= Len(Files)
  PROVE  /\ ~up /\ at["main"] \in 1 .. Len(Files) /\ at["main"] + 1 \in 1 .. Len(Files) + 1
         /\ Files[at["main"]] \in Paths /\ Files[at["main"]] \in Dbs
         /\ dict[Files[at["main"]]] = NULL
         /\ \A i \in 1 .. Len(Files) : Files[i] = Files[at["main"]] => i = at["main"]
  <1>1. ~up
    BY StartsAlone
  <1>2. /\ at["main"] \in 1 .. Len(Files) /\ at["main"] + 1 \in 1 .. Len(Files) + 1
        /\ Files[at["main"]] \in Paths /\ Files[at["main"]] \in Dbs
    BY AtPath, FileIndex DEF DbInv
  <1>3. dict[Files[at["main"]]] = NULL
    <2>1. PICK i \in 1 .. Len(Files) : i = at["main"]
      BY <1>2
    <2>2. i >= at["main"] /\ i \in Nat
      BY <2>1
    <2>3. dict[Files[i]] = NULL
      BY <1>1, <2>2 DEF DbInv, StartInv
    <2> QED BY <2>1, <2>3
  <1> QED BY <1>1, <1>2, <1>3, FileIndex

\* A step of a start that loads the database it has come to goes on to the next one.
LEMMA NextLoaded ==
  ASSUME DbInv, pc["main"] \in {"load", "fill"}, at["main"] <= Len(Files), ~up',
         NEW d, d = Files[at["main"]], NEW db, db # NULL, dict' = [dict EXCEPT ![d] = db],
         at' = [at EXCEPT !["main"] = @ + 1]
  PROVE  \A i \in 1 .. Len(Files) : dict'[Files[i]] = NULL <=> i >= at'["main"]
  <1>1. PICK n \in 1 .. Len(Files) : n = at["main"] /\ at'["main"] = n + 1
    BY StartPlace, FileIndex DEF DbInv, TypeOK
  <1>2. ASSUME NEW i \in 1 .. Len(Files) PROVE dict'[Files[i]] = NULL <=> i >= n + 1
    <2>1. Files[i] \in Dbs /\ d \in Dbs /\ n \in Nat /\ i \in Nat
      BY <1>1, FileIndex, StartPlace
    <2>2. dict'[Files[i]] = IF Files[i] = d THEN db ELSE dict[Files[i]]
      BY <2>1 DEF DbInv, TypeOK
    <2>3. Files[i] = d <=> i = n
      BY <1>1, StartPlace
    <2>4. dict[Files[i]] = NULL <=> i >= n
      BY <1>1, StartPlace DEF DbInv, StartInv
    <2>5. i >= n + 1 <=> i >= n /\ i # n
      BY <2>1
    <2> QED BY <2>2, <2>3, <2>4, <2>5
  <1> QED BY <1>1, <1>2

\* A database that is loaded holds what was last saved, but for the recorded damage.
LEMMA LoadReads ==
  ASSUME DbInv, InitLoad
  PROVE  DbInv'
  <1> USE DEF DbInv
  <1>0. UNCHANGED <<up, file, pc, sync_flag, call, lock, buf, saved, raced, overhang, emptied>>
    BY DEF InitLoad, InitStep, damage
  <1>1. pc["main"] = "load" /\ at["main"] <= Len(Files)
    BY DEF InitLoad
  <1>2. PICK d \in Paths : d = Files[at["main"]] /\ d \in Dbs /\ dict[d] = NULL
    BY <1>1, StartPlace
  <1>3. PICK db : /\ db = iniparser_load(file[d]) /\ db # NULL
                  /\ dict' = [dict EXCEPT ![d] = db]
    BY <1>2 DEF InitLoad, Found
  <1>4. ~up /\ ~up' /\ at' = [at EXCEPT !["main"] = @ + 1] /\ pc'["main"] = "load"
    BY <1>0, <1>1, StartPlace DEF InitLoad
  <1>5. \A e \in Paths : ~Filling(e) /\ ~Filling(e)'
    BY <1>1, <1>4 DEF Filling
  <1>6. \/ db \in Dictionaries /\ Good(file[d])
        \/ db = NoKeys /\ Bare(file[d]) /\ emptied[d]
    <2>1. file[d] # NULL
      BY <1>3 DEF iniparser_load
    <2>2. CASE Good(file[d])
      BY <1>3, <2>2, GoodLoads
    <2>3. CASE Bare(file[d])
      BY <1>3, <1>5, <2>3, BareLoads DEF FileInv
    <2> QED BY <2>1, <2>2, <2>3 DEF FileInv
  <1>7. \A e \in Dbs : dict'[e] = IF e = d THEN db ELSE dict[e]
    BY <1>3 DEF TypeOK
  <1>8. TypeOK'
    <2>1. dict' \in [Dbs -> Dictionaries \cup {NoKeys, NULL}]
      BY <1>3, <1>6 DEF TypeOK
    <2>2. \A e \in Dbs : dict'[e] = NULL => e \in Paths /\ ~up'
      BY <1>3, <1>4, <1>7 DEF TypeOK
    <2>3. at' \in [Threads -> 1 .. Len(Files) + 1]
      BY <1>1, <1>4, StartPlace DEF TypeOK
    <2> QED BY <1>0, <2>1, <2>2, <2>3 DEF TypeOK
  <1>9. TextsOK'
    BY <1>0 DEF TextsOK
  <1>10. FileInv'
    <2> SUFFICES ASSUME NEW e \in Paths PROVE FileInv!(e)'
      BY DEF FileInv
    <2> QED BY <1>0, <1>5 DEF FileInv
  <1>11. HeldInv'
    <2> SUFFICES ASSUME NEW e \in Paths PROVE HeldInv!(e)'
      BY DEF HeldInv
    <2>1. CASE e = d
      BY <1>0, <1>2, <1>5, <1>6, <1>7, <2>1, KindsDiffer
    <2>2. CASE e # d
      BY <1>0, <1>5, <1>7, <2>2, FileIndex DEF HeldInv
    <2> QED BY <2>1, <2>2
  <1>12. StartInv'
    <2>1. ASSUME NEW e \in Paths, dict'[e] \in Dictionaries
          PROVE  saved[e] = dict'[e] \/ overhang[e] \/ emptied[e]
      <3>1. CASE e = d
        <4>1. file[d] # NULL
          BY <1>3 DEF iniparser_load
        <4>2. ~overhang[d] /\ ~emptied[d] => iniparser_load(file[d]) = saved[d]
          BY <1>5, <4>1 DEF FileInv
        <4> QED BY <1>2, <1>3, <1>7, <3>1, <4>2
      <3>2. CASE e # d
        <4>1. dict'[e] = dict[e]
          BY <1>7, <3>2, FileIndex
        <4> QED BY <1>4, <2>1, <4>1 DEF StartInv
      <3> QED BY <3>1, <3>2
    <2>2. \A i \in 1 .. Len(Files) : dict'[Files[i]] = NULL <=> i >= at'["main"]
      BY <1>1, <1>2, <1>3, <1>4, NextLoaded
    <2> QED BY <1>0, <1>4, <2>1, <2>2 DEF StartInv
  <1>13. SaverInv'
    <2> SUFFICES ASSUME NEW t \in Threads PROVE SaverInv!(t)'
      BY DEF SaverInv
    <2>1. pc'[t] \in {"idle", "load"} /\ (pc'[t] = "load" => t = "main")
      BY <1>0, <1>1, StartsAlone
    <2> QED BY <1>4, <2>1
  <1>14. FreshInv'
    BY <1>4 DEF FreshInv
  <1> QED BY <1>8, <1>9, <1>10, <1>11, <1>12, <1>13, <1>14

\* A file is emptied only when it is missing or damaged.
LEMMA CreateEmpties ==
  ASSUME DbInv, InitCreate
  PROVE  DbInv'
  <1> USE DEF DbInv
  <1>0. UNCHANGED <<up, dict, at, sync_flag, call, lock, buf, saved, raced, overhang, emptied>>
    BY DEF InitCreate, InitStep, damage
  <1>1. pc["main"] = "load" /\ at["main"] <= Len(Files)
    BY DEF InitCreate
  <1>2. PICK d \in Paths : d = Files[at["main"]] /\ d \in Dbs /\ dict[d] = NULL
    BY <1>1, StartPlace
  <1>3. iniparser_load(file[d]) = NULL /\ file' = [file EXCEPT ![d] = <<>>]
    BY <1>2 DEF InitCreate, Found
  <1>4. ~up /\ ~up' /\ pc' = [pc EXCEPT !["main"] = "fill"]
    BY <1>0, <1>1, StartPlace DEF InitCreate
  <1>5. /\ SaverInv' /\ FreshInv' /\ pc'["main"] = "fill"
        /\ pc' \in [Threads -> {"idle", "load", "fill", "set", "scan", "locking", "dumped",
                                "unlocked", "written"}]
    BY <1>4, StartThreads
  <1>6. /\ \A e \in Paths : ~Filling(e)
        /\ \A e \in Paths : Filling(e)' <=> e = d
    BY <1>0, <1>1, <1>2, <1>5 DEF Filling
  <1>7. TypeOK'
    BY <1>0, <1>5 DEF TypeOK
  <1>8. Bare(<<>>)
    BY DEF Bare, Texts
  <1>9. \A e \in Paths : file'[e] = IF e = d THEN <<>> ELSE file[e]
    BY <1>3 DEF TextsOK
  <1>10. TextsOK'
    BY <1>0, <1>3, <1>8 DEF TextsOK, Bare
  <1>11. FileInv'
    <2> SUFFICES ASSUME NEW e \in Paths PROVE FileInv!(e)'
      BY DEF FileInv
    <2>1. CASE e = d
      <3>1. ~emptied[d] => saved[d] \in Dictionaries
        BY DEF FileInv
      <3>2. ~overhang[d] /\ ~emptied[d] => saved[d] = DefaultDict
        BY <1>3, <1>6, <3>1, KindsDiffer DEF FileInv
      <3>3. Filling(d)' /\ file'[d] = <<>>
        BY <1>6, <1>9
      <3> QED BY <1>0, <1>8, <2>1, <3>1, <3>2, <3>3
    <2>2. CASE e # d
      BY <1>0, <1>6, <1>9, <2>2 DEF FileInv
    <2> QED BY <2>1, <2>2
  <1>12. HeldInv'
    <2> SUFFICES ASSUME NEW e \in Paths PROVE HeldInv!(e)'
      BY DEF HeldInv
    <2>1. CASE e = d
      BY <1>0, <1>2, <2>1, KindsDiffer
    <2>2. CASE e # d
      BY <1>0, <1>6, <1>9, <2>2 DEF HeldInv
    <2> QED BY <2>1, <2>2
  <1>13. StartInv'
    BY <1>0, <1>1, <1>4, <1>5 DEF StartInv
  <1> QED BY <1>5, <1>7, <1>10, <1>11, <1>12, <1>13

\* The defaults are written and loaded.
LEMMA FillDefaults ==
  ASSUME DbInv, InitFill
  PROVE  DbInv'
  <1> USE DEF DbInv
  <1>0. UNCHANGED <<up, sync_flag, call, lock, buf, saved, raced, overhang, emptied>>
    BY DEF InitFill, InitStep, damage
  <1>1. pc["main"] = "fill" /\ at["main"] <= Len(Files)
    BY DEF InitFill, StartInv
  <1>2. PICK d \in Paths : d = Files[at["main"]] /\ d \in Dbs /\ dict[d] = NULL
    BY <1>1, StartPlace
  <1>3. /\ file' = [file EXCEPT ![d] = default_file]
        /\ dict' = [dict EXCEPT ![d] = DefaultDict]
    BY <1>2, DefaultLoads DEF InitFill
  <1>4. /\ ~up /\ ~up' /\ pc' = [pc EXCEPT !["main"] = "load"]
        /\ at' = [at EXCEPT !["main"] = @ + 1]
    BY <1>0, <1>1, StartPlace DEF InitFill
  <1>5. /\ SaverInv' /\ FreshInv' /\ pc'["main"] = "load"
        /\ pc' \in [Threads -> {"idle", "load", "fill", "set", "scan", "locking", "dumped",
                                "unlocked", "written"}]
    BY <1>4, StartThreads
  <1>6. /\ \A e \in Paths : Filling(e) <=> e = d
        /\ \A e \in Paths : ~Filling(e)'
    BY <1>1, <1>2, <1>5 DEF Filling
  <1>7. /\ \A e \in Paths : file'[e] = IF e = d THEN default_file ELSE file[e]
        /\ \A e \in Dbs : dict'[e] = IF e = d THEN DefaultDict ELSE dict[e]
    BY <1>3 DEF TextsOK, TypeOK
  <1>8. TypeOK'
    <2>1. dict' \in [Dbs -> Dictionaries \cup {NoKeys, NULL}]
      BY <1>3, DefaultLoads DEF TypeOK
    <2>2. \A e \in Dbs : dict'[e] = NULL => e \in Paths /\ ~up'
      BY <1>2, <1>4, <1>7 DEF TypeOK
    <2>3. at' \in [Threads -> 1 .. Len(Files) + 1]
      BY <1>1, <1>4, StartPlace DEF TypeOK
    <2> QED BY <1>0, <1>5, <2>1, <2>2, <2>3 DEF TypeOK
  <1>9. TextsOK'
    BY <1>0, <1>3, DefaultLoads DEF TextsOK, Good
  <1>a. ~Bare(default_file) /\ default_file # NULL
    <2>1. iniparser_load(default_file) \in Dictionaries
      BY DefaultLoads
    <2> QED BY <2>1, DefaultLoads, BareLoads, KindsDiffer
  <1>10. FileInv'
    <2> SUFFICES ASSUME NEW e \in Paths PROVE FileInv!(e)'
      BY DEF FileInv
    <2>1. CASE e = d
      <3>1. /\ ~emptied[d] => saved[d] \in Dictionaries
            /\ ~overhang[d] /\ ~emptied[d] => saved[d] = DefaultDict
        BY <1>6 DEF FileInv
      <3>2. file'[d] = default_file
        BY <1>7
      <3> QED BY <1>0, <1>6, <1>a, <2>1, <3>1, <3>2, DefaultLoads
    <2>2. CASE e # d
      BY <1>0, <1>6, <1>7, <2>2 DEF FileInv
    <2> QED BY <2>1, <2>2
  <1>11. HeldInv'
    <2> SUFFICES ASSUME NEW e \in Paths PROVE HeldInv!(e)'
      BY DEF HeldInv
    <2>1. CASE e = d
      <3>1. dict'[d] = DefaultDict /\ DefaultDict # NoKeys /\ file'[d] = default_file
        BY <1>2, <1>7, DefaultLoads, KindsDiffer
      <3> QED BY <1>6, <2>1, <3>1, DefaultLoads
    <2>2. CASE e # d
      BY <1>0, <1>6, <1>7, <2>2, FileIndex DEF HeldInv
    <2> QED BY <2>1, <2>2
  <1>12. StartInv'
    <2>1. ASSUME NEW e \in Paths, dict'[e] \in Dictionaries
          PROVE  saved[e] = dict'[e] \/ overhang[e] \/ emptied[e]
      <3>1. CASE e = d
        <4>1. ~overhang[d] /\ ~emptied[d] => saved[d] = DefaultDict
          BY <1>6 DEF FileInv
        <4>2. dict'[d] = DefaultDict
          BY <1>2, <1>7
        <4> QED BY <3>1, <4>1, <4>2
      <3>2. CASE e # d
        <4>1. dict'[e] = dict[e]
          BY <1>7, <3>2, FileIndex
        <4> QED BY <1>4, <2>1, <4>1 DEF StartInv
      <3> QED BY <3>1, <3>2
    <2>2. DefaultDict # NULL
      BY DefaultLoads, KindsDiffer
    <2>3. \A i \in 1 .. Len(Files) : dict'[Files[i]] = NULL <=> i >= at'["main"]
      BY <1>1, <1>2, <1>3, <1>4, <2>2, NextLoaded
    <2> QED BY <1>0, <1>4, <1>5, <2>1, <2>3 DEF StartInv
  <1> QED BY <1>5, <1>8, <1>9, <1>10, <1>11, <1>12

\* A file with a line for every key is not one without a key.
LEMMA GoodNotBare ==
  ASSUME NEW text, Good(text)
  PROVE  ~Bare(text)
  <1>1. PICK i \in 1 .. Len(Keys) : Keys[i] \in ToSet(Keys)
    BY KeyFacts
  <1>2. PICK q \in LinesOf(text, Keys[i]) : TRUE
    BY <1>1 DEF Good, HasKeys
  <1>3. q \in 1 .. Len(text) /\ text[q] = Keys[i]
    BY <1>2 DEF LinesOf, LineStarts
  <1> QED BY <1>1, <1>3 DEF Bare

\* What holds of the files and the dictionaries does not depend on the threads of a
\* process that runs.
LEMMA StillHeld ==
  ASSUME DbInv, up, up', pc'["main"] # "fill",
         UNCHANGED <<file, saved, overhang, emptied>>,
         \A d \in Paths : \/ dict'[d] = dict[d]
                          \/ dict[d] \in Dictionaries /\ dict'[d] \in Dictionaries
  PROVE  FileInv' /\ HeldInv' /\ StartInv'
  <1> USE DEF DbInv
  <1>1. \A d \in Paths : ~Filling(d) /\ ~Filling(d)'
    BY StartsAlone DEF Filling
  <1>2. FileInv'
    <2> SUFFICES ASSUME NEW d \in Paths PROVE FileInv!(d)'
      BY DEF FileInv
    <2> QED BY <1>1 DEF FileInv
  <1>3. HeldInv'
    <2> SUFFICES ASSUME NEW d \in Paths PROVE HeldInv!(d)'
      BY DEF HeldInv
    <2>1. CASE dict'[d] = dict[d]
      BY <1>1, <2>1 DEF HeldInv
    <2>2. CASE dict[d] \in Dictionaries /\ dict'[d] \in Dictionaries
      BY <1>1, <2>2, KindsDiffer DEF HeldInv
    <2> QED BY <2>1, <2>2
  <1>4. StartInv'
    BY DEF StartInv
  <1> QED BY <1>2, <1>3, <1>4

\* imi_db_mi_init returns with every database loaded: with what was last saved, but for
\* the recorded damage.
LEMMA DoneLoaded ==
  ASSUME DbInv, InitDone
  PROVE  /\ DbInv'
         /\ \A d \in Paths : dict'[d] = saved[d] \/ overhang[d] \/ emptied[d]
  <1> USE DEF DbInv
  <1>0. UNCHANGED <<dict, file, sync_flag, call, lock, buf, saved, raced, overhang, emptied>>
    BY DEF InitDone, InitStep, damage
  <1>1. /\ pc["main"] = "load" /\ at["main"] > Len(Files) /\ up'
        /\ pc' = [pc EXCEPT !["main"] = "idle"] /\ at' = [at EXCEPT !["main"] = 1]
    BY DEF InitDone
  <1>2. ~up /\ \A t \in Threads : t # "main" => pc[t] = "idle"
    BY <1>1, StartsAlone
  <1>3. \A t \in Threads : pc'[t] = "idle"
    BY <1>1, <1>2 DEF TypeOK
  <1>4. ASSUME NEW d \in Paths
        PROVE  /\ dict[d] # NULL
               /\ dict[d] \in Dictionaries => saved[d] = dict[d] \/ overhang[d] \/ emptied[d]
               /\ dict[d] = NoKeys => emptied[d]
               /\ dict[d] \in Dictionaries \cup {NoKeys}
    <2>1. PICK i \in 1 .. Len(Files) : Files[i] = d
      BY FileIndex
    <2>2. PICK n \in Nat : n = at["main"]
      BY FileIndex DEF TypeOK
    <2>3. ~(i >= n)
      BY <1>1, <2>2, FileIndex
    <2>4. dict[d] # NULL
      BY <1>2, <2>1, <2>2, <2>3 DEF StartInv
    <2>5. dict[d] \in Dictionaries \cup {NoKeys, NULL}
      BY FileIndex DEF TypeOK
    <2> QED BY <1>2, <2>4, <2>5 DEF StartInv, HeldInv
  <1>5. \A d \in Paths : dict'[d] = saved[d] \/ overhang[d] \/ emptied[d]
    BY <1>0, <1>4
  <1>6. \A d \in Paths : ~Filling(d) /\ ~Filling(d)'
    BY <1>1, <1>3, FileIndex DEF Filling
  <1>7. TypeOK'
    <2>1. \A d \in Dbs : dict'[d] # NULL
      BY <1>0, <1>4 DEF TypeOK
    <2>2. pc' \in [Threads -> {"idle", "load", "fill", "set", "scan", "locking", "dumped",
                               "unlocked", "written"}]
      BY <1>1 DEF TypeOK
    <2>3. at' \in [Threads -> 1 .. Len(Files) + 1]
      BY <1>1, FileIndex DEF TypeOK
    <2> QED BY <1>0, <1>1, <2>1, <2>2, <2>3 DEF TypeOK
  <1>8. TextsOK'
    BY <1>0 DEF TextsOK
  <1>9. FileInv'
    <2> SUFFICES ASSUME NEW d \in Paths PROVE FileInv!(d)'
      BY DEF FileInv
    <2> QED BY <1>0, <1>6 DEF FileInv
  <1>10. HeldInv'
    BY <1>0, <1>6 DEF HeldInv
  <1>11. StartInv'
    BY <1>1, <1>3, FileIndex DEF StartInv
  <1>12. SaverInv'
    BY <1>1, <1>3 DEF SaverInv
  <1>13. FreshInv'
    <2> SUFFICES ASSUME NEW d \in Paths, dict'[d] # NoKeys PROVE FreshInv!(d)'
      BY DEF FreshInv
    <2>1. ~SetsNow(d)' /\ \A t \in Threads : ~InSave(t, d)'
      BY <1>3, FileIndex DEF SetsNow, InSave
    <2>2. dict'[d] = saved'[d] \/ overhang'[d] \/ emptied'[d]
      BY <1>0, <1>5
    <2> QED BY <2>1, <2>2
  <1> QED BY <1>5, <1>7, <1>8, <1>9, <1>10, <1>11, <1>12, <1>13

\* imi_db_mi_set_value marks the database first: whatever overlapped before does not matter.
LEMMA SetFlagMarks ==
  ASSUME DbInv, NEW d \in Dbs, NEW k \in ToSet(Keys), NEW v \in Values, NEW save \in BOOLEAN,
         SetFlag(d, k, v, save)
  PROVE  DbInv'
  <1> USE DEF DbInv
  <1>0. UNCHANGED <<up, dict, file, lock, at, buf, saved, overhang, emptied>>
    BY DEF SetFlag, saving, damage
  <1>1. TypeOK'
    <2>1. sync_flag' \in [Dbs -> BOOLEAN]
      BY DEF TypeOK, SetFlag, Flagged
    <2>2. raced' \in [Paths -> BOOLEAN]
      BY DEF TypeOK, SetFlag
    <2>3. pc' \in [Threads -> {"idle", "load", "fill", "set", "scan", "locking", "dumped",
                               "unlocked", "written"}]
      BY DEF TypeOK, SetFlag
    <2> QED BY <1>0, <2>1, <2>2, <2>3 DEF TypeOK
  <1>3. pc' = [pc EXCEPT !["main"] = "set"] /\ pc["main"] = "idle" /\ up /\ up'
    BY DEF SetFlag
  <1>4. \A t \in Threads : pc'[t] = IF t = "main" THEN "set" ELSE pc[t]
    BY <1>3 DEF TypeOK
  <1>5. call' \in [db : Dbs, key : ToSet(Keys), value : Values, save : BOOLEAN] /\ call'.db = d
    BY DEF SetFlag
  <1>2. FileInv' /\ HeldInv' /\ StartInv'
    BY <1>0, <1>3, <1>4, StillHeld, FileIndex
  <1>7. SaverInv'
    <2> SUFFICES ASSUME NEW t \in Threads PROVE SaverInv!(t)'
      BY DEF SaverInv
    <2>1. CASE t = "main"
      BY <1>3, <1>4, <1>5, <2>1
    <2>2. CASE t # "main"
      <3>1. pc'[t] = pc[t]
        BY <1>4, <2>2
      <3>2. pc[t] \notin {"set", "load", "fill"}
        BY <2>2 DEF SaverInv
      <3> QED BY <1>0, <1>3, <3>1, <3>2 DEF SaverInv
    <2> QED BY <2>1, <2>2
  <1>8. FreshInv'
    <2> SUFFICES ASSUME NEW e \in Paths, ~raced'[e], dict[e] # NoKeys PROVE FreshInv!(e)'
      BY <1>0 DEF FreshInv
    <2>1. CASE e = d
      <3>1. SetsNow(e)'
        BY <1>4, <1>5, <2>1, FileIndex DEF SetsNow
      <3>2. sync_flag'[e]
        BY <2>1, FileIndex DEF TypeOK, SetFlag, Flagged
      <3> QED BY <3>1, <3>2
    <2>2. CASE e # d
      <3>1. ~SetsNow(e)' /\ ~SetsNow(e)
        BY <1>3, <1>5, <2>2 DEF SetsNow
      <3>2. sync_flag'[e] = sync_flag[e] /\ raced'[e] = raced[e]
        BY <2>2, FileIndex DEF TypeOK, SetFlag, Flagged
      <3>4. ASSUME NEW t \in Threads, InSave(t, e)'
            PROVE  InSave(t, e) /\ pc'[t] = pc[t]
        BY <1>0, <1>4, <3>4 DEF InSave
      <3> QED BY <1>0, <1>3, <3>1, <3>2, <3>4 DEF FreshInv
    <2> QED BY <2>1, <2>2
  <1>9. TextsOK'
    BY <1>0 DEF TextsOK
  <1> QED BY <1>1, <1>2, <1>7, <1>8, <1>9

\* imi_db_mi_set_value changes the dictionary behind a flag that is up, unless a save that
\* overlaps it is recorded.
LEMMA SetValueFresh ==
  ASSUME DbInv, SetValue
  PROVE  DbInv'
  <1> USE DEF DbInv
  <1>0. UNCHANGED <<up, sync_flag, file, lock, at, buf, saved, overhang, emptied>>
    BY DEF SetValue, saving, damage
  <1>1. /\ pc["main"] = "set" /\ up
        /\ call \in [db : Dbs, key : ToSet(Keys), value : Values, save : BOOLEAN]
    BY FileIndex DEF SetValue, SaverInv
  <1>2. PICK c \in Dbs : c = call.db
    BY <1>1
  <1>3. PICK next \in {"scan", "idle"} : pc' = [pc EXCEPT !["main"] = next]
    BY DEF SetValue
  <1>4. \A t \in Threads : pc'[t] = IF t = "main" THEN next ELSE pc[t]
    BY <1>3 DEF TypeOK
  <1>5. PICK db : db = Changed(dict[c], call.key, call.value) /\ dict' = [dict EXCEPT ![c] = db]
    BY <1>2 DEF SetValue, TypeOK
  <1>6. \/ dict[c] = NoKeys /\ db = NoKeys
        \/ dict[c] \in Dictionaries /\ db \in Dictionaries
    <2>1. dict[c] \in Dictionaries \cup {NoKeys}
      BY <1>1 DEF TypeOK
    <2>2. CASE dict[c] = NoKeys
      BY <1>5, <2>2 DEF Changed
    <2>3. CASE dict[c] \in Dictionaries
      <3>1. call.key \in ToSet(Keys) /\ call.value \in Values
        BY <1>1
      <3>2. [dict[c] EXCEPT ![call.key] = call.value] \in Dictionaries
        BY <2>3, <3>1 DEF Dictionaries
      <3> QED BY <1>5, <2>3, <3>2, KindsDiffer DEF Changed
    <2> QED BY <2>1, <2>2, <2>3
  <1>7. \A e \in Dbs : dict'[e] = IF e = c THEN db ELSE dict[e]
    BY <1>5 DEF TypeOK
  <1>8. TypeOK'
    <2>1. dict' \in [Dbs -> Dictionaries \cup {NoKeys, NULL}]
      BY <1>5, <1>6 DEF TypeOK
    <2>2. pc' \in [Threads -> {"idle", "load", "fill", "set", "scan", "locking", "dumped",
                               "unlocked", "written"}]
      BY <1>3 DEF TypeOK
    <2>3. raced' \in [Paths -> BOOLEAN]
      BY DEF SetValue, TypeOK
    <2>4. \A e \in Dbs : dict'[e] = NULL => e \in Paths /\ ~up'
      BY <1>0, <1>6, <1>7, KindsDiffer DEF TypeOK
    <2> QED BY <1>0, <2>1, <2>2, <2>3, <2>4 DEF TypeOK
  <1>9. FileInv' /\ HeldInv' /\ StartInv'
    <2>1. \A e \in Paths : \/ dict'[e] = dict[e]
                           \/ dict[e] \in Dictionaries /\ dict'[e] \in Dictionaries
      BY <1>6, <1>7, FileIndex, KindsDiffer
    <2>2. pc'["main"] # "fill"
      BY <1>4, FileIndex
    <2> QED BY <1>0, <1>1, <2>1, <2>2, StillHeld
  <1>10. SaverInv'
    <2> SUFFICES ASSUME NEW t \in Threads PROVE SaverInv!(t)'
      BY DEF SaverInv
    <2>1. CASE t = "main"
      <3>1. pc'[t] = next
        BY <1>4, <2>1
      <3> QED BY <1>0, <1>1, <3>1
    <2>2. CASE t # "main"
      <3>1. pc'[t] = pc[t] /\ pc[t] \notin {"set", "load", "fill"}
        BY <1>4, <2>2 DEF SaverInv
      <3>2. ASSUME pc[t] \in {"dumped", "unlocked"}
            PROVE  IF dict'[Files[at[t]]] = NoKeys THEN buf[t] \in bare_dumps
                   ELSE \E e \in Dictionaries : buf[t] = iniparser_dump_ini(e)
        <4>1. Files[at[t]] \in Dbs
          BY <3>2, AtPath DEF SaverInv
        <4>2. dict'[Files[at[t]]] = NoKeys <=> dict[Files[at[t]]] = NoKeys
          BY <1>6, <1>7, <4>1, KindsDiffer
        <4> QED BY <3>2, <4>2 DEF SaverInv
      <3> QED BY <1>0, <1>1, <3>1, <3>2 DEF SaverInv
    <2> QED BY <2>1, <2>2
  <1>11. FreshInv'
    <2> SUFFICES ASSUME NEW e \in Paths, ~raced'[e], dict'[e] # NoKeys PROVE FreshInv!(e)'
      BY DEF FreshInv
    <2>0. dict[e] # NoKeys
      BY <1>6, <1>7, FileIndex, KindsDiffer
    <2>1. ~SetsNow(e)'
      BY <1>4, FileIndex DEF SetsNow
    <2>2. ASSUME NEW t \in Threads, InSave(t, e)'
          PROVE  t # "main" /\ InSave(t, e) /\ pc'[t] = pc[t]
      <3>1. t # "main"
        BY <1>4, <2>2 DEF InSave
      <3> QED BY <1>0, <1>4, <2>2, <3>1 DEF InSave
    <2>3. CASE e = c
      <3>1. ~ \E t \in Timers : InSave(t, e) /\ pc[t] # "locking"
        <4>1. CASE \E t \in Timers : InSave(t, e) /\ pc[t] # "locking"
          <5>1. raced' = [raced EXCEPT ![e] = TRUE]
            BY <1>2, <2>3, <4>1 DEF SetValue
          <5> QED BY <5>1 DEF TypeOK
        <4> QED BY <4>1
      <3>2. raced'[e] = raced[e]
        BY <1>2, <2>3, <3>1 DEF SetValue
      <3>3. SetsNow(e)
        BY <1>1, <1>2, <2>3 DEF SetsNow
      <3>4. sync_flag'[e]
        BY <1>0, <1>1, <2>0, <3>2, <3>3 DEF FreshInv
      <3>5. ASSUME NEW t \in Threads, InSave(t, e)' PROVE pc'[t] = "locking"
        BY <2>2, <3>1, <3>5 DEF Threads
      <3> QED BY <2>1, <3>4, <3>5
    <2>4. CASE e # c
      <3>1. raced'[e] = raced[e]
        BY <1>2, <2>4 DEF SetValue, TypeOK
      <3>2. ~SetsNow(e)
        BY <1>2, <2>4 DEF SetsNow
      <3>3. dict'[e] = dict[e]
        BY <1>7, <2>4, FileIndex
      <3> QED BY <1>0, <1>1, <2>0, <2>1, <2>2, <3>1, <3>2, <3>3 DEF FreshInv
    <2> QED BY <2>3, <2>4
  <1>12. TextsOK'
    BY <1>0 DEF TextsOK
  <1> QED BY <1>8, <1>9, <1>10, <1>11, <1>12

\* A step of a thread between two databases or before a lock: only where it is changes.
Moves(t, to) ==
    /\ pc[t] \in {"idle", "scan"} /\ up
    /\ pc' = [pc EXCEPT ![t] = to] /\ to \in {"idle", "scan", "locking"}
    /\ \A u \in Threads : u # t => at'[u] = at[u]
    /\ at' \in [Threads -> 1 .. Len(Files) + 1]
    /\ to = "locking" => at'[t] <= Len(Files)
    /\ UNCHANGED <<up, dict, call, sync_flag, file, lock, buf, saved, raced, overhang, emptied>>

\* Such a step keeps the invariant.
LEMMA MoveKeeps ==
  ASSUME DbInv, NEW t \in Threads, NEW to, Moves(t, to)
  PROVE  DbInv'
  <1> USE DEF DbInv
  <1>1. \A u \in Threads : pc'[u] = IF u = t THEN to ELSE pc[u]
    BY DEF Moves, TypeOK
  <1>2. TypeOK'
    BY DEF Moves, TypeOK
  <1>3. FileInv' /\ HeldInv' /\ StartInv'
    <2>1. pc'["main"] # "fill"
      BY <1>1, StartsAlone, FileIndex DEF Moves
    <2> QED BY <2>1, StillHeld DEF Moves
  <1>4. SaverInv'
    <2> SUFFICES ASSUME NEW u \in Threads PROVE SaverInv!(u)'
      BY DEF SaverInv
    <2>1. CASE u = t
      BY <1>1, <2>1 DEF Moves
    <2>2. CASE u # t
      BY <1>1, <2>2 DEF Moves, SaverInv
    <2> QED BY <2>1, <2>2
  <1>5. FreshInv'
    <2> SUFFICES ASSUME NEW d \in Paths, up, ~raced[d], dict[d] # NoKeys PROVE FreshInv!(d)'
      BY DEF FreshInv, Moves
    <2>1. SetsNow(d)' <=> SetsNow(d)
      BY <1>1, FileIndex DEF SetsNow, Moves
    <2>2. ASSUME NEW u \in Threads, InSave(u, d)', pc'[u] # "locking"
          PROVE  InSave(u, d) /\ pc'[u] = pc[u]
      BY <1>1, <2>2 DEF InSave, Moves
    <2> QED BY <2>1, <2>2 DEF FreshInv, Moves
  <1>6. TextsOK'
    BY DEF TextsOK, Moves
  <1> QED BY <1>2, <1>3, <1>4, <1>5, <1>6

\* The timer's start and the steps of imi_db_mi_save_db_file around a save are such steps.
LEMMA SaveMoves ==
  ASSUME DbInv, NEW t \in Threads,
         \/ imi_db_timeout_sync_db(t) \/ SaveEnd(t) \/ SaveSkip(t) \/ SaveOpen(t)
         \/ SaveFails(t)
  PROVE  \E to : Moves(t, to)
  <1> USE DEF DbInv
  <1>1. CASE imi_db_timeout_sync_db(t)
    <2>1. Moves(t, "scan")
      BY <1>1 DEF imi_db_timeout_sync_db, Moves, SaveStep, saving, damage, TypeOK
    <2> QED BY <2>1
  <1>2. pc[t] = "scan" => up
    BY DEF SaverInv
  <1>3. ASSUME pc[t] = "scan", Returns(t) PROVE Moves(t, "idle")
    <2>1. at' \in [Threads -> 1 .. Len(Files) + 1] /\ \A u \in Threads : u # t => at'[u] = at[u]
      BY <1>3, FileIndex DEF Returns, TypeOK
    <2> QED BY <1>2, <1>3, <2>1 DEF Returns, Moves, SaveStep, damage
  <1>4. CASE SaveEnd(t) \/ SaveFails(t)
    BY <1>3, <1>4 DEF SaveEnd, SaveFails
  <1>5. CASE SaveSkip(t)
    <2>1. at[t] + 1 \in 1 .. Len(Files) + 1
      BY <1>5, AtPath DEF SaveSkip
    <2>2. at' \in [Threads -> 1 .. Len(Files) + 1] /\ \A u \in Threads : u # t => at'[u] = at[u]
      BY <1>5, <2>1 DEF SaveSkip, TypeOK
    <2>3. pc' = [pc EXCEPT ![t] = "scan"]
      BY <1>5 DEF SaveSkip, TypeOK
    <2>4. Moves(t, "scan")
      BY <1>2, <1>5, <2>2, <2>3 DEF SaveSkip, Moves, SaveStep, damage
    <2> QED BY <2>4
  <1>6. CASE SaveOpen(t)
    <2>1. Moves(t, "locking")
      BY <1>2, <1>6 DEF SaveOpen, Moves, SaveStep, saving, damage, TypeOK
    <2> QED BY <2>1
  <1> QED BY <1>1, <1>4, <1>5, <1>6

\* A thread formats the values the database has now.
LEMMA DumpIsFresh ==
  ASSUME DbInv, NEW t \in Threads, SaveDump(t)
  PROVE  DbInv'
  <1> USE DEF DbInv
  <1>1. pc[t] = "locking" /\ up /\ at[t] <= Len(Files)
    BY DEF SaveDump, SaverInv
  <1>2. PICK d \in Paths : d = Files[at[t]] /\ d \in Dbs
    BY <1>1, AtPath
  <1>3. \A u \in Threads : pc'[u] = IF u = t THEN "dumped" ELSE pc[u]
    BY DEF SaveDump, TypeOK
  <1>4. PICK text \in Dumps(dict[d]) : buf' = [buf EXCEPT ![t] = text]
    BY <1>2 DEF SaveDump
  <1>5. UNCHANGED <<up, dict, call, sync_flag, file, at, saved, raced, overhang, emptied>>
    BY DEF SaveDump, SaveStep, damage
  <1>6. \/ dict[d] = NoKeys /\ text \in bare_dumps
        \/ dict[d] \in Dictionaries /\ dict[d] # NoKeys /\ text = iniparser_dump_ini(dict[d])
    <2>1. dict[d] \in Dictionaries \cup {NoKeys}
      BY <1>1, <1>2 DEF TypeOK
    <2> QED BY <2>1, KindsDiffer DEF Dumps
  <1>7. \A u \in Threads : buf'[u] = IF u = t THEN text ELSE buf[u]
    BY <1>4 DEF TextsOK
  <1>8. TypeOK'
    <2>1. /\ pc' = [pc EXCEPT ![t] = "dumped"]
          /\ lock' = [lock EXCEPT ![d] = t]
      BY <1>2 DEF SaveDump
    <2>2. pc' \in [Threads -> {"idle", "load", "fill", "set", "scan", "locking", "dumped",
                               "unlocked", "written"}]
      BY <2>1 DEF TypeOK
    <2>3. lock' \in [Paths -> Threads \cup {NULL}]
      BY <2>1 DEF TypeOK
    <2> QED BY <1>5, <2>2, <2>3 DEF TypeOK
  <1>9. TextsOK'
    <2>1. text \in Texts
      BY <1>6, DumpGood, BareDumps DEF Good, Bare
    <2> QED BY <1>4, <1>5, <2>1 DEF TextsOK
  <1>10. FileInv' /\ HeldInv' /\ StartInv'
    <2>1. pc'["main"] # "fill"
      BY <1>1, <1>3, StartsAlone, FileIndex
    <2> QED BY <1>1, <1>5, <2>1, StillHeld
  <1>11. SaverInv'
    <2> SUFFICES ASSUME NEW u \in Threads PROVE SaverInv!(u)'
      BY DEF SaverInv
    <2>1. CASE u = t
      BY <1>1, <1>2, <1>3, <1>5, <1>6, <1>7, <2>1
    <2>2. CASE u # t
      <3>1. pc'[u] = pc[u] /\ buf'[u] = buf[u]
        BY <1>3, <1>7, <2>2
      <3> QED BY <1>5, <3>1 DEF SaverInv
    <2> QED BY <2>1, <2>2
  <1>12. FreshInv'
    <2> SUFFICES ASSUME NEW e \in Paths, up, ~raced[e], dict[e] # NoKeys PROVE FreshInv!(e)'
      BY <1>5 DEF FreshInv
    <2>1. SetsNow(e)' <=> SetsNow(e)
      BY <1>1, <1>3, <1>5, FileIndex DEF SetsNow
    <2>2. ASSUME NEW u \in Threads, InSave(u, e)', ~SetsNow(e)
          PROVE  /\ pc'[u] \in {"dumped", "unlocked"} => buf'[u] = iniparser_dump_ini(dict[e])
                 /\ pc'[u] = "written" => saved[e] = dict[e]
      <3>1. CASE u = t
        <4>1. e = d
          BY <1>2, <1>5, <2>2, <3>1 DEF InSave
        <4> QED BY <1>3, <1>6, <1>7, <3>1, <4>1
      <3>2. CASE u # t
        <4>1. pc'[u] = pc[u] /\ buf'[u] = buf[u] /\ InSave(u, e)
          BY <1>3, <1>5, <1>7, <2>2, <3>2 DEF InSave
        <4> QED BY <2>2, <4>1 DEF FreshInv
      <3> QED BY <3>1, <3>2
    <2> QED BY <1>5, <2>1, <2>2 DEF FreshInv
  <1> QED BY <1>8, <1>9, <1>10, <1>11, <1>12

\* Releasing the file changes only the lock.
LEMMA UnlockKeeps ==
  ASSUME DbInv, NEW t \in Threads, SaveUnlock(t)
  PROVE  DbInv'
  <1> USE DEF DbInv
  <1>1. pc[t] = "dumped" /\ up /\ at[t] <= Len(Files)
    BY DEF SaveUnlock, SaverInv
  <1>2. PICK d \in Paths : d = Files[at[t]] /\ d \in Dbs
    BY <1>1, AtPath
  <1>3. \A u \in Threads : pc'[u] = IF u = t THEN "unlocked" ELSE pc[u]
    BY DEF SaveUnlock, TypeOK
  <1>4. UNCHANGED <<up, dict, call, sync_flag, file, at, buf, saved, raced, overhang, emptied>>
    BY DEF SaveUnlock, SaveStep, damage
  <1>5. TypeOK'
    <2>1. /\ pc' = [pc EXCEPT ![t] = "unlocked"]
          /\ lock' = [lock EXCEPT ![d] = NULL]
      BY <1>2 DEF SaveUnlock
    <2>2. pc' \in [Threads -> {"idle", "load", "fill", "set", "scan", "locking", "dumped",
                               "unlocked", "written"}]
      BY <2>1 DEF TypeOK
    <2>3. lock' \in [Paths -> Threads \cup {NULL}]
      BY <2>1 DEF TypeOK
    <2> QED BY <1>4, <2>2, <2>3 DEF TypeOK
  <1>6. TextsOK'
    BY <1>4 DEF TextsOK
  <1>7. FileInv' /\ HeldInv' /\ StartInv'
    <2>1. pc'["main"] # "fill"
      BY <1>1, <1>3, StartsAlone, FileIndex
    <2> QED BY <1>1, <1>4, <2>1, StillHeld
  <1>8. SaverInv'
    <2> SUFFICES ASSUME NEW u \in Threads PROVE SaverInv!(u)'
      BY DEF SaverInv
    <2>1. CASE u = t
      BY <1>1, <1>3, <1>4, <2>1 DEF SaverInv
    <2>2. CASE u # t
      <3>1. pc'[u] = pc[u]
        BY <1>3, <2>2
      <3> QED BY <1>4, <3>1 DEF SaverInv
    <2> QED BY <2>1, <2>2
  <1>9. FreshInv'
    <2> SUFFICES ASSUME NEW e \in Paths, up, ~raced[e], dict[e] # NoKeys PROVE FreshInv!(e)'
      BY <1>4 DEF FreshInv
    <2>1. SetsNow(e)' <=> SetsNow(e)
      BY <1>1, <1>3, <1>4, FileIndex DEF SetsNow
    <2>2. ASSUME NEW u \in Threads, InSave(u, e)'
          PROVE  /\ InSave(u, e)
                 /\ pc'[u] \in {"dumped", "unlocked"} => pc[u] \in {"dumped", "unlocked"}
                 /\ pc'[u] = "written" => pc[u] = "written"
      BY <1>1, <1>3, <1>4, <2>2 DEF InSave
    <2> QED BY <1>4, <2>1, <2>2 DEF FreshInv
  <1> QED BY <1>5, <1>6, <1>7, <1>8, <1>9

\* fclose puts a dump over the file.  A whole dump leaves a file with a line for every key,
\* which loads as what was dumped unless old text shows behind it; the dump of a dictionary
\* without keys leaves a file without keys.
LEMMA WriteLeaves ==
  ASSUME DbInv, NEW t \in Threads, pc[t] = "unlocked", NEW d \in Paths, d = Files[at[t]],
         NEW text, text = Overwritten(file[d], buf[t])
  PROVE  \/ /\ dict[d] = NoKeys /\ Bare(text) /\ iniparser_load(buf[t]) \in {NoKeys, NULL}
         \/ /\ dict[d] \in Dictionaries /\ Good(text)
            /\ \E e \in Dictionaries :
                  /\ buf[t] = iniparser_dump_ini(e) /\ iniparser_load(buf[t]) = e
                  /\ ToSet(Behind(file[d], buf[t])) \subseteq {"nl"} => iniparser_load(text) = e
  <1> USE DEF DbInv
  <1>0. up
    BY DEF SaverInv
  <1>1. dict[d] \in Dictionaries \cup {NoKeys}
    BY <1>0, FileIndex DEF TypeOK
  <1>2. CASE dict[d] = NoKeys
    <2>1. Bare(buf[t])
      BY <1>2, BareDumps DEF SaverInv
    <2>2. Bare(file[d])
      BY <1>2 DEF HeldInv
    <2> QED BY <1>2, <2>1, <2>2, BareLoads, OverwrittenBare
  <1>3. CASE dict[d] \in Dictionaries
    <2>1. PICK e \in Dictionaries : buf[t] = iniparser_dump_ini(e)
      BY <1>3, KindsDiffer DEF SaverInv
    <2>2. Good(file[d])
      BY <1>3 DEF HeldInv
    <2>3. file[d] \in Texts /\ Whole(file[d])
      BY <2>2 DEF Good
    <2>4. Good(text)
      BY <2>1, <2>3, DumpGood, OverwrittenGood
    <2>5. iniparser_load(buf[t]) = e
      BY <2>1, DumpLoads
    <2>6. ToSet(Behind(file[d], buf[t])) \subseteq {"nl"} => iniparser_load(text) = e
      BY <2>1, <2>3, OverwrittenLoads
    <2> QED BY <1>3, <2>1, <2>4, <2>5, <2>6
  <1> QED BY <1>1, <1>2, <1>3

\* The write of a save keeps the invariant.
LEMMA WriteStores ==
  ASSUME DbInv, NEW t \in Threads, SaveWrite(t)
  PROVE  DbInv'
  <1> USE DEF DbInv
  <1>1. pc[t] = "unlocked" /\ up /\ at[t] <= Len(Files)
    BY DEF SaveWrite, SaverInv
  <1>2. PICK d \in Paths : d = Files[at[t]] /\ d \in Dbs
    BY <1>1, AtPath
  <1>3. PICK text : text = Overwritten(file[d], buf[t])
    OBVIOUS
  <1>4. PICK e : e = iniparser_load(buf[t])
    OBVIOUS
  <1>5. PICK tail \in BOOLEAN : tail = ~ ToSet(Behind(file[d], buf[t])) \subseteq {"nl"}
    OBVIOUS
  <1>6. PICK bare \in BOOLEAN : bare = (dict[d] = NoKeys)
    OBVIOUS
  <1>7. /\ file' = [file EXCEPT ![d] = text] /\ saved' = [saved EXCEPT ![d] = e]
        /\ overhang' = [overhang EXCEPT ![d] = tail] /\ emptied' = [emptied EXCEPT ![d] = bare]
        /\ buf' = [buf EXCEPT ![t] = <<>>] /\ pc' = [pc EXCEPT ![t] = "written"]
    BY <1>2, <1>3, <1>4, <1>5, <1>6 DEF SaveWrite
  <1>8. \/ bare /\ Bare(text) /\ e \in {NoKeys, NULL}
        \/ /\ ~bare /\ Good(text) /\ e \in Dictionaries /\ dict[d] \in Dictionaries
           /\ buf[t] = iniparser_dump_ini(e)
           /\ ~tail => iniparser_load(text) = e
    <2>1. CASE dict[d] = NoKeys /\ Bare(text) /\ iniparser_load(buf[t]) \in {NoKeys, NULL}
      BY <1>4, <1>6, <2>1
    <2>2. CASE /\ dict[d] \in Dictionaries /\ Good(text)
               /\ \E x \in Dictionaries :
                     /\ buf[t] = iniparser_dump_ini(x) /\ iniparser_load(buf[t]) = x
                     /\ ToSet(Behind(file[d], buf[t])) \subseteq {"nl"} => iniparser_load(text) = x
      <3>1. ~bare
        BY <1>6, <2>2, KindsDiffer
      <3>2. ~tail <=> ToSet(Behind(file[d], buf[t])) \subseteq {"nl"}
        BY <1>5
      <3> QED BY <1>4, <2>2, <3>1, <3>2
    <2> QED BY <1>1, <1>2, <1>3, <2>1, <2>2, WriteLeaves
  <1>9. UNCHANGED <<up, dict, call, sync_flag, lock, at, raced>>
    BY DEF SaveWrite, SaveStep
  <1>10. \A u \in Threads : /\ pc'[u] = IF u = t THEN "written" ELSE pc[u]
                            /\ u # t => buf'[u] = buf[u]
    BY <1>7 DEF TypeOK, TextsOK
  <1>11. \A f \in Paths : /\ file'[f] = IF f = d THEN text ELSE file[f]
                          /\ saved'[f] = IF f = d THEN e ELSE saved[f]
                          /\ overhang'[f] = IF f = d THEN tail ELSE overhang[f]
                          /\ emptied'[f] = IF f = d THEN bare ELSE emptied[f]
    BY <1>7 DEF TypeOK, TextsOK
  <1>12. TypeOK'
    <2>1. pc' \in [Threads -> {"idle", "load", "fill", "set", "scan", "locking", "dumped",
                               "unlocked", "written"}]
      BY <1>7 DEF TypeOK
    <2>2. saved' \in [Paths -> Dictionaries \cup {NoKeys, NULL}]
      BY <1>7, <1>8 DEF TypeOK
    <2>3. overhang' \in [Paths -> BOOLEAN] /\ emptied' \in [Paths -> BOOLEAN]
      BY <1>7 DEF TypeOK
    <2> QED BY <1>9, <2>1, <2>2, <2>3 DEF TypeOK
  <1>13. TextsOK'
    <2>1. text \in Texts
      BY <1>8 DEF Good, Bare
    <2>2. <<>> \in Texts
      BY DEF Texts
    <2> QED BY <1>7, <2>1, <2>2 DEF TextsOK
  <1>14. \A f \in Paths : ~Filling(f) /\ ~Filling(f)'
    BY <1>1, <1>10, StartsAlone, FileIndex DEF Filling
  <1>15. FileInv'
    <2> SUFFICES ASSUME NEW f \in Paths PROVE FileInv!(f)'
      BY DEF FileInv
    <2>1. CASE f = d
      <3>1. CASE bare
        BY <1>8, <1>11, <1>14, <2>1, <3>1
      <3>2. CASE ~bare
        <4>1. ~Bare(text) /\ text # NULL
          BY <1>8, <3>2, GoodNotBare, KindsDiffer
        <4> QED BY <1>8, <1>11, <1>14, <2>1, <3>2, <4>1
      <3> QED BY <3>1, <3>2
    <2>2. CASE f # d
      BY <1>11, <1>14, <2>2 DEF FileInv
    <2> QED BY <2>1, <2>2
  <1>16. HeldInv'
    <2> SUFFICES ASSUME NEW f \in Paths PROVE HeldInv!(f)'
      BY DEF HeldInv
    <2>1. CASE f = d
      BY <1>6, <1>8, <1>9, <1>11, <1>14, <2>1, KindsDiffer
    <2>2. CASE f # d
      BY <1>9, <1>11, <1>14, <2>2 DEF HeldInv
    <2> QED BY <2>1, <2>2
  <1>17. StartInv'
    BY <1>1, <1>9, <1>10, StartsAlone, FileIndex DEF StartInv
  <1>18. SaverInv'
    <2> SUFFICES ASSUME NEW u \in Threads PROVE SaverInv!(u)'
      BY DEF SaverInv
    <2>1. CASE u = t
      BY <1>1, <1>9, <1>10, <2>1
    <2>2. CASE u # t
      <3>1. pc'[u] = pc[u] /\ buf'[u] = buf[u]
        BY <1>10, <2>2
      <3> QED BY <1>9, <3>1 DEF SaverInv
    <2> QED BY <2>1, <2>2
  <1>19. FreshInv'
    <2> SUFFICES ASSUME NEW f \in Paths, up, ~raced[f], dict[f] # NoKeys PROVE FreshInv!(f)'
      BY <1>9 DEF FreshInv
    <2>1. SetsNow(f)' <=> SetsNow(f)
      BY <1>1, <1>9, <1>10, FileIndex DEF SetsNow
    <2>2. CASE SetsNow(f)
      BY <1>9, <2>1, <2>2 DEF FreshInv
    <2>3. CASE ~SetsNow(f) /\ f = d
      <3>1. saved'[f] = dict[f]
        <4>1. buf[t] = iniparser_dump_ini(dict[f]) /\ dict[f] \in Dictionaries
          BY <1>1, <1>2, <1>6, <1>8, <2>3 DEF FreshInv, InSave
        <4>2. e = dict[f]
          BY <1>4, <4>1, DumpLoads
        <4> QED BY <1>11, <2>3, <4>2
      <3>2. ASSUME NEW u \in Threads, InSave(u, f)', pc'[u] \in {"dumped", "unlocked"}
            PROVE  InSave(u, f) /\ pc[u] \in {"dumped", "unlocked"} /\ buf'[u] = buf[u]
        BY <1>9, <1>10, <3>2 DEF InSave
      <3> QED BY <1>9, <2>1, <2>3, <3>1, <3>2 DEF FreshInv
    <2>4. CASE ~SetsNow(f) /\ f # d
      <3>1. saved'[f] = saved[f] /\ overhang'[f] = overhang[f] /\ emptied'[f] = emptied[f]
        BY <1>11, <2>4
      <3>2. ASSUME NEW u \in Threads, InSave(u, f)'
            PROVE  InSave(u, f) /\ pc'[u] = pc[u] /\ buf'[u] = buf[u]
        <4>1. u # t
          BY <1>2, <1>9, <2>4, <3>2 DEF InSave
        <4> QED BY <1>9, <1>10, <3>2, <4>1 DEF InSave
      <3> QED BY <1>9, <2>1, <2>4, <3>1, <3>2 DEF FreshInv
    <2> QED BY <2>2, <2>3, <2>4
  <1> QED BY <1>12, <1>13, <1>15, <1>16, <1>17, <1>18, <1>19

\* The flag comes down only over values that are in the file, unless a set is between its
\* flag and its value, which is recorded.
LEMMA ClearIsRight ==
  ASSUME DbInv, NEW t \in Threads, SaveClear(t)
  PROVE  DbInv'
  <1> USE DEF DbInv
  <1>1. pc[t] = "written" /\ up /\ at[t] <= Len(Files)
    BY DEF SaveClear, SaverInv
  <1>2. PICK d \in Paths : d = Files[at[t]] /\ d \in Dbs
    BY <1>1, AtPath
  <1>3. \A u \in Threads : pc'[u] = IF u = t THEN "scan" ELSE pc[u]
    BY DEF SaveClear, TypeOK
  <1>4. \A u \in Threads : u # t => at'[u] = at[u]
    BY DEF SaveClear, TypeOK
  <1>5. UNCHANGED <<up, dict, call, file, lock, buf, saved, overhang, emptied>>
    BY DEF SaveClear, SaveStep, damage
  <1>6. sync_flag' = [sync_flag EXCEPT ![d] = FALSE]
    BY <1>2 DEF SaveClear, Cleared
  <1>7. raced' = IF SetsNow(d) THEN [raced EXCEPT ![d] = TRUE] ELSE raced
    BY <1>2 DEF SaveClear, SetsNow
  <1>8. TypeOK'
    <2>1. pc' = [pc EXCEPT ![t] = "scan"]
      BY DEF SaveClear
    <2>2. pc' \in [Threads -> {"idle", "load", "fill", "set", "scan", "locking", "dumped",
                               "unlocked", "written"}]
      BY <2>1 DEF TypeOK
    <2>3. at' \in [Threads -> 1 .. Len(Files) + 1]
      <3>1. at[t] + 1 \in 1 .. Len(Files) + 1
        BY <1>1, AtPath
      <3> QED BY <3>1 DEF SaveClear, TypeOK
    <2>4. sync_flag' \in [Dbs -> BOOLEAN] /\ raced' \in [Paths -> BOOLEAN]
      BY <1>6, <1>7 DEF TypeOK
    <2> QED BY <1>5, <2>2, <2>3, <2>4 DEF TypeOK
  <1>9. TextsOK'
    BY <1>5 DEF TextsOK
  <1>a. FileInv' /\ HeldInv' /\ StartInv'
    <2>1. pc'["main"] # "fill"
      BY <1>1, <1>3, StartsAlone, FileIndex
    <2> QED BY <1>1, <1>5, <2>1, StillHeld
  <1>10. SaverInv'
    <2> SUFFICES ASSUME NEW u \in Threads PROVE SaverInv!(u)'
      BY DEF SaverInv
    <2>1. CASE u = t
      BY <1>1, <1>3, <1>5, <2>1
    <2>2. CASE u # t
      <3>1. pc'[u] = pc[u] /\ at'[u] = at[u]
        BY <1>3, <1>4, <2>2
      <3> QED BY <1>5, <3>1 DEF SaverInv
    <2> QED BY <2>1, <2>2
  <1>11. FreshInv'
    <2> SUFFICES ASSUME NEW f \in Paths, up, ~raced'[f], dict[f] # NoKeys PROVE FreshInv!(f)'
      BY <1>5 DEF FreshInv
    <2>1. SetsNow(f)' <=> SetsNow(f)
      BY <1>1, <1>3, <1>5, FileIndex DEF SetsNow
    <2>2. raced'[f] = raced[f] /\ (f = d => ~SetsNow(f))
      BY <1>7 DEF TypeOK
    <2>3. ASSUME NEW u \in Threads, InSave(u, f)'
          PROVE  InSave(u, f) /\ pc'[u] = pc[u]
      <3>1. u # t
        BY <1>3, <2>3 DEF InSave
      <3> QED BY <1>3, <1>4, <2>3, <3>1 DEF InSave
    <2>4. CASE f = d
      <3>1. saved[f] = dict[f]
        BY <1>1, <1>2, <2>2, <2>4 DEF FreshInv, InSave
      <3> QED BY <1>5, <2>1, <2>2, <2>3, <2>4, <3>1 DEF FreshInv
    <2>5. CASE f # d
      <3>1. sync_flag'[f] = sync_flag[f]
        BY <1>6, <2>5, FileIndex DEF TypeOK
      <3> QED BY <1>5, <2>1, <2>2, <2>3, <3>1 DEF FreshInv
    <2> QED BY <2>4, <2>5
  <1> QED BY <1>8, <1>9, <1>a, <1>10, <1>11

\* Every step keeps the invariant.
LEMMA DbSteps ==
  ASSUME DbInv, [Next]_vars
  PROVE  DbInv'
  <1>1. CASE imi_db_mi_init
    BY <1>1, StartBegins, LoadReads, CreateEmpties, FillDefaults, DoneLoaded DEF imi_db_mi_init
  <1>2. CASE Crash
    BY <1>2, CrashKeeps
  <1>3. CASE \E d \in Dbs, k \in ToSet(Keys), v \in Values, save \in BOOLEAN :
                SetFlag(d, k, v, save)
    BY <1>3, SetFlagMarks
  <1>4. CASE SetValue
    BY <1>4, SetValueFresh
  <1>5. ASSUME NEW t \in Threads, imi_db_timeout_sync_db(t) \/ imi_db_mi_save_db_file(t)
        PROVE  DbInv'
    <2>1. CASE \/ imi_db_timeout_sync_db(t) \/ SaveEnd(t) \/ SaveSkip(t) \/ SaveOpen(t)
               \/ SaveFails(t)
      BY <2>1, SaveMoves, MoveKeeps
    <2>2. CASE SaveDump(t)
      BY <2>2, DumpIsFresh
    <2>3. CASE SaveUnlock(t)
      BY <2>3, UnlockKeeps
    <2>4. CASE SaveWrite(t)
      BY <2>4, WriteStores
    <2>5. CASE SaveClear(t)
      BY <2>5, ClearIsRight
    <2> QED BY <1>5, <2>1, <2>2, <2>3, <2>4, <2>5 DEF imi_db_mi_save_db_file
  <1>6. CASE UNCHANGED vars
    <2> USE <1>6 DEF vars, memory, saving, damage
    <2>1. TypeOK' /\ TextsOK'
      BY DEF DbInv, TypeOK, TextsOK
    <2>2. FileInv' /\ HeldInv' /\ StartInv'
      BY DEF DbInv, FileInv, HeldInv, StartInv, Filling
    <2>3. SaverInv'
      BY DEF DbInv, SaverInv
    <2>4. FreshInv'
      BY DEF DbInv, FreshInv, SetsNow, InSave
    <2> QED BY <2>1, <2>2, <2>3, <2>4 DEF DbInv
  <1> QED BY <1>1, <1>2, <1>3, <1>4, <1>5, <1>6 DEF Next

\* The invariant holds in every reachable state.
LEMMA DbInvHolds == Spec => []DbInv
  <1>1. Init => DbInv
    BY DbStarts
  <1>2. DbInv /\ [Next]_vars => DbInv'
    BY DbSteps
  <1> QED BY <1>1, <1>2, PTL DEF Spec

-------------------------------------------------------------------------------

\* When the flag of a database is down and nobody is at work on it, its file loads as its
\* values, unless the last imi_db_mi_set_value overlapped a save, old text shows behind the
\* last save or a start was stopped over the empty file: for every number of timer threads,
\* files, keys and values.
THEOREM FlagDownMeansSaved == Spec => []LostOnlyByOverlap
  <1>1. DbInv => LostOnlyByOverlap
    <2> SUFFICES ASSUME DbInv, NEW d \in Paths, up, ~sync_flag[d], ~raced[d], ~overhang[d],
                        ~emptied[d], ~SetsNow(d)
                 PROVE  iniparser_load(file[d]) = dict[d]
      BY DEF LostOnlyByOverlap, DbInv, SetsNow
    <2> USE DEF DbInv
    <2>1. dict[d] \in Dictionaries
      BY FileIndex DEF TypeOK, HeldInv
    <2>2. file[d] # NULL /\ ~Filling(d)
      BY <2>1, KindsDiffer DEF HeldInv
    <2>3. iniparser_load(file[d]) = saved[d]
      BY <2>2 DEF FileInv
    <2>4. saved[d] = dict[d]
      BY <2>1, KindsDiffer DEF FreshInv
    <2> QED BY <2>3, <2>4
  <1>2. Spec => []DbInv
    BY DbInvHolds
  <1> QED BY <1>1, <1>2, PTL

\* imi_db_mi_init finds what was last saved to each file, or the defaults when nothing
\* was, wherever the process was stopped, unless the last save left old text behind it or a
\* start was stopped over the empty file.
THEOREM RestartReads == Spec => RestartRestoresSaved
  <1>1. DbInv /\ [Next]_vars =>
          [~up /\ up' => \A d \in Paths : dict'[d] = saved[d] \/ overhang[d] \/ emptied[d]]_vars
    <2> SUFFICES ASSUME DbInv, Next, ~up, up'
                 PROVE  \A d \in Paths : dict'[d] = saved[d] \/ overhang[d] \/ emptied[d]
      OBVIOUS
    <2>1. CASE imi_db_mi_init
      <3>1. CASE InitDone
        BY <3>1, DoneLoaded
      <3> QED BY <2>1, <3>1 DEF imi_db_mi_init, InitStart, InitLoad, InitCreate, InitFill
    <2>2. CASE Crash
      BY <2>2 DEF Crash
    <2>3. CASE \E d \in Dbs, k \in ToSet(Keys), v \in Values, save \in BOOLEAN :
                  SetFlag(d, k, v, save)
      BY <2>3 DEF SetFlag
    <2>4. CASE SetValue
      BY <2>4 DEF SetValue
    <2>5. ASSUME NEW t \in Threads, imi_db_timeout_sync_db(t) \/ imi_db_mi_save_db_file(t)
          PROVE  FALSE
      BY <2>5 DEF imi_db_timeout_sync_db, imi_db_mi_save_db_file, SaveEnd, SaveSkip, SaveOpen,
         SaveFails, SaveDump, SaveUnlock, SaveWrite, SaveClear, SaveStep, Returns
    <2> QED BY <2>1, <2>2, <2>3, <2>4, <2>5 DEF Next
  <1>2. Spec => []DbInv
    BY DbInvHolds
  <1> QED BY <1>1, <1>2, PTL DEF Spec, RestartRestoresSaved

===============================================================================
