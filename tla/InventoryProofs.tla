-------------------------- MODULE InventoryProofs --------------------------
(***************************************************************************)
(* The mappers and collectors show each place of each object, whatever the *)
(* objects are, and the slices they build behave as the views of Store.    *)
(***************************************************************************)
EXTENDS Inventory, FiniteSetTheorems, WellFoundedInduction, TLAPS

-----------------------------------------------------------------------------
(* Induction, and what a recursive definition defines. *)

LEMMA Least ==
    ASSUME NEW S, S \subseteq Nat, S # {}
    PROVE  \E x \in S : \A y \in S : x <= y
<1>1. \E x \in S : \A y \in S : ~(<<y, x>> \in OpToRel(<, Nat))
  BY WFMin, NatLessThanWellFounded
<1>2. \A x, y \in S : ~(<<y, x>> \in OpToRel(<, Nat)) => x <= y
  BY DEF OpToRel
<1> QED
  BY <1>1, <1>2

\* What holds of 0 and passes on from each number to the next holds of all.
LEMMA Induct ==
    ASSUME NEW S, 0 \in S, \A n \in Nat : n \in S => n + 1 \in S
    PROVE  Nat \subseteq S
<1>1. SUFFICES ASSUME Nat \ S # {} PROVE FALSE
  OBVIOUS
<1>2. PICK x \in Nat \ S : \A y \in Nat \ S : x <= y
  BY <1>1, Least
<1>3. x # 0 /\ x - 1 \in Nat
  BY <1>2
<1>4. x - 1 \in S
  BY <1>2, <1>3
<1> QED
  BY <1>2, <1>3, <1>4

LEMMA FlattenRec ==
    ASSUME NEW ss, NEW n \in Nat
    PROVE  \E g : g = [i \in 1 .. n |-> IF i = 1 THEN ss[i] ELSE g[i - 1] \o ss[i]]
<1> DEFINE Is(g, m) == g = [i \in 1 .. m |-> IF i = 1 THEN ss[i] ELSE g[i - 1] \o ss[i]]
           S == {m \in Nat : \E g : Is(g, m)}
<1>1. 0 \in S
  <2>1. Is(<<>>, 0)
    OBVIOUS
  <2> QED
   BY <2>1
<1>2. ASSUME NEW m \in Nat, m \in S PROVE m + 1 \in S
  <2>1. PICK g : Is(g, m)
    BY <1>2
  <2> DEFINE h == [i \in 1 .. m + 1 |->
                      IF i <= m THEN g[i] ELSE IF i = 1 THEN ss[i] ELSE g[i - 1] \o ss[i]]
  <2>2. ASSUME NEW i \in 1 .. m + 1
        PROVE  h[i] = IF i = 1 THEN ss[i] ELSE h[i - 1] \o ss[i]
    <3>1. CASE i <= m
      <4>1. i \in 1 .. m /\ (i # 1 => i - 1 \in 1 .. m + 1 /\ i - 1 <= m)
        BY <3>1
      <4>2. h[i] = g[i] /\ (i # 1 => h[i - 1] = g[i - 1])
        BY <3>1, <4>1
      <4>3. g[i] = IF i = 1 THEN ss[i] ELSE g[i - 1] \o ss[i]
        BY <2>1, <4>1
      <4> QED
        BY <4>2, <4>3
    <3>2. CASE i = m + 1
      <4>1. i # 1 => i - 1 \in 1 .. m + 1 /\ i - 1 <= m
        BY <3>2
      <4>2. h[i] = (IF i = 1 THEN ss[i] ELSE g[i - 1] \o ss[i]) /\ (i # 1 => h[i - 1] = g[i - 1])
        BY <3>2, <4>1
      <4> QED
        BY <4>2
    <3> QED
      BY <3>1, <3>2
  <2>3. Is(h, m + 1)
    BY <2>2, Zenon
  <2> HIDE DEF h, Is
  <2> QED
    BY <2>3
<1>3. Nat \subseteq S
  <2> HIDE DEF S
  <2> QED
    BY <1>1, <1>2, Induct
<1> QED
  BY <1>3

LEMMA FlattenIs ==
    ASSUME NEW T, NEW ss \in Seq(Seq(T)), ss # <<>>
    PROVE  \E g : /\ g = [i \in 1 .. Len(ss) |-> IF i = 1 THEN ss[i] ELSE g[i - 1] \o ss[i]]
                  /\ FlattenSeq(ss) = g[Len(ss)]
<1> DEFINE g == CHOOSE h : h = [i \in 1 .. Len(ss) |-> IF i = 1 THEN ss[i] ELSE h[i - 1] \o ss[i]]
<1>1. g = [i \in 1 .. Len(ss) |-> IF i = 1 THEN ss[i] ELSE g[i - 1] \o ss[i]]
  BY FlattenRec, Len(ss) \in Nat, Zenon
<1>2. FlattenSeq(ss) = g[Len(ss)]
  BY DEF FlattenSeq
<1> QED
  BY <1>1, <1>2

(***************************************************************************)
(* The sequence has each member of the family g, at an index of its own,   *)
(* and nothing else.                                                       *)
(***************************************************************************)
Enumerates(seq, g) ==
    \E f \in [DOMAIN g -> DOMAIN seq] :
        /\ \A s, t \in DOMAIN g : f[s] = f[t] => s = t
        /\ \A i \in DOMAIN seq : \E s \in DOMAIN g : f[s] = i
        /\ \A s \in DOMAIN g : seq[f[s]] = g[s]

LEMMA SelfEnumerates ==
    ASSUME NEW seq PROVE Enumerates(seq, seq)
<1> DEFINE f == [i \in DOMAIN seq |-> i]
<1>1. f \in [DOMAIN seq -> DOMAIN seq]
  OBVIOUS
<1> QED
  BY <1>1 DEF Enumerates

\* A family under other names.
Renames(h, other, g) ==
    /\ h \in [DOMAIN other -> DOMAIN g]
    /\ \A s, t \in DOMAIN other : h[s] = h[t] => s = t
    /\ \A s \in DOMAIN g : \E t \in DOMAIN other : h[t] = s
    /\ \A t \in DOMAIN other : other[t] = g[h[t]]

LEMMA RenamedEnumerates ==
    ASSUME NEW seq, NEW g, NEW other, NEW h, Enumerates(seq, g), Renames(h, other, g)
    PROVE  Enumerates(seq, other)
<1> USE DEF Renames
<1>1. PICK f \in [DOMAIN g -> DOMAIN seq] :
        /\ \A s, t \in DOMAIN g : f[s] = f[t] => s = t
        /\ \A i \in DOMAIN seq : \E s \in DOMAIN g : f[s] = i
        /\ \A s \in DOMAIN g : seq[f[s]] = g[s]
  BY DEF Enumerates
<1> DEFINE fh == [t \in DOMAIN other |-> f[h[t]]]
<1>2. fh \in [DOMAIN other -> DOMAIN seq]
  BY <1>1
<1>3. \A s, t \in DOMAIN other : fh[s] = fh[t] => s = t
  BY <1>1
<1>4. \A i \in DOMAIN seq : \E t \in DOMAIN other : fh[t] = i
  BY <1>1
<1>5. \A t \in DOMAIN other : seq[fh[t]] = other[t]
  BY <1>1
<1> HIDE DEF fh
<1> QED
  BY <1>2, <1>3, <1>4, <1>5 DEF Enumerates

\* Two families one after the other.
Joins(g, ga, gb) ==
    /\ DOMAIN ga \cap DOMAIN gb = {}
    /\ DOMAIN g = DOMAIN ga \cup DOMAIN gb
    /\ \A s \in DOMAIN ga : g[s] = ga[s]
    /\ \A s \in DOMAIN gb : g[s] = gb[s]

LEMMA ConcatEnumerates ==
    ASSUME NEW T, NEW a \in Seq(T), NEW b \in Seq(T), NEW ga, NEW gb, NEW g,
           Enumerates(a, ga), Enumerates(b, gb), Joins(g, ga, gb)
    PROVE  Enumerates(a \o b, g)
<1> USE DEF Joins
<1>1. PICK fa \in [DOMAIN ga -> DOMAIN a] :
        /\ \A s, t \in DOMAIN ga : fa[s] = fa[t] => s = t
        /\ \A i \in DOMAIN a : \E s \in DOMAIN ga : fa[s] = i
        /\ \A s \in DOMAIN ga : a[fa[s]] = ga[s]
  BY DEF Enumerates
<1>2. PICK fb \in [DOMAIN gb -> DOMAIN b] :
        /\ \A s, t \in DOMAIN gb : fb[s] = fb[t] => s = t
        /\ \A i \in DOMAIN b : \E s \in DOMAIN gb : fb[s] = i
        /\ \A s \in DOMAIN gb : b[fb[s]] = gb[s]
  BY DEF Enumerates
<1> DEFINE f == [s \in DOMAIN g |-> IF s \in DOMAIN ga THEN fa[s] ELSE Len(a) + fb[s]]
<1>3. /\ DOMAIN a = 1 .. Len(a) /\ DOMAIN b = 1 .. Len(b)
      /\ Len(a) \in Nat /\ Len(b) \in Nat
      /\ DOMAIN (a \o b) = 1 .. Len(a) + Len(b)
      /\ \A i \in 1 .. Len(a) : (a \o b)[i] = a[i]
      /\ \A i \in 1 .. Len(b) : (a \o b)[Len(a) + i] = b[i]
  OBVIOUS
<1>4. \A s \in DOMAIN ga : f[s] = fa[s] /\ fa[s] \in 1 .. Len(a)
  BY <1>1, <1>3
<1>5. \A s \in DOMAIN gb : f[s] = Len(a) + fb[s] /\ fb[s] \in 1 .. Len(b)
  BY <1>2, <1>3
<1>6. DOMAIN f = DOMAIN ga \cup DOMAIN gb
  OBVIOUS
<1>7. f = [s \in DOMAIN g |-> f[s]]
  OBVIOUS
<1> HIDE DEF f
<1>8. f \in [DOMAIN g -> DOMAIN (a \o b)]
  <2>1. \A s \in DOMAIN g : f[s] \in 1 .. Len(a) + Len(b)
    BY <1>3, <1>4, <1>5
  <2> QED
    BY <2>1, <1>3, <1>7
<1>9. ASSUME NEW s \in DOMAIN g, NEW t \in DOMAIN g, f[s] = f[t] PROVE s = t
  <2>1. CASE s \in DOMAIN ga /\ t \in DOMAIN ga
    BY <2>1, <1>1, <1>4, <1>9
  <2>2. CASE s \in DOMAIN gb /\ t \in DOMAIN gb
    <3>1. fb[s] = fb[t]
      BY <2>2, <1>5, <1>9, <1>3
    <3> QED
      BY <2>2, <3>1, <1>2
  <2>3. CASE s \in DOMAIN ga /\ t \in DOMAIN gb
    BY <2>3, <1>3, <1>4, <1>5, <1>9
  <2>4. CASE s \in DOMAIN gb /\ t \in DOMAIN ga
    BY <2>4, <1>3, <1>4, <1>5, <1>9
  <2> QED
    BY <2>1, <2>2, <2>3, <2>4
<1>10. ASSUME NEW i \in DOMAIN (a \o b) PROVE \E s \in DOMAIN g : f[s] = i
  <2>1. CASE i \in 1 .. Len(a)
    BY <2>1, <1>1, <1>3, <1>4
  <2>2. CASE i \notin 1 .. Len(a)
    <3>1. i - Len(a) \in 1 .. Len(b) /\ i = Len(a) + (i - Len(a))
      BY <2>2, <1>3
    <3>2. PICK s \in DOMAIN gb : fb[s] = i - Len(a)
      BY <3>1, <1>2, <1>3
    <3> QED
      BY <3>1, <3>2, <1>5
  <2> QED
    BY <2>1, <2>2
<1>11. ASSUME NEW s \in DOMAIN g PROVE (a \o b)[f[s]] = g[s]
  <2>1. CASE s \in DOMAIN ga
    BY <2>1, <1>1, <1>3, <1>4
  <2>2. CASE s \in DOMAIN gb
    BY <2>2, <1>2, <1>3, <1>5
  <2> QED
    BY <2>1, <2>2
<1> QED
  BY <1>8, <1>9, <1>10, <1>11 DEF Enumerates

\* The pairs of an index and a name of the family of that index.
Pairs(G, n) == UNION {{i} \X DOMAIN G[i] : i \in 1 .. n}

Family(G, n) == [p \in Pairs(G, n) |-> G[p[1]][p[2]]]

LEMMA FlattenEnumerates ==
    ASSUME NEW T, NEW ss \in Seq(Seq(T)), NEW G,
           \A i \in DOMAIN ss : Enumerates(ss[i], G[i])
    PROVE  /\ FlattenSeq(ss) \in Seq(T)
           /\ Enumerates(FlattenSeq(ss), Family(G, Len(ss)))
<1>1. \A n : DOMAIN Family(G, n) = Pairs(G, n)
  BY DEF Family
<1>2. \A n, i, s : <<i, s>> \in Pairs(G, n) <=> i \in 1 .. n /\ s \in DOMAIN G[i]
  BY DEF Pairs
<1>3. \A n : \A p \in Pairs(G, n) : p = <<p[1], p[2]>>
  BY DEF Pairs
<1>4. \A n, i, s : i \in 1 .. n /\ s \in DOMAIN G[i] => Family(G, n)[<<i, s>>] = G[i][s]
  BY <1>2 DEF Family
<1>5. Enumerates(<<>>, Family(G, 0))
  <2>1. DOMAIN Family(G, 0) = {}
    <3>1. Pairs(G, 0) = {}
      BY DEF Pairs
    <3> QED
      BY <3>1, <1>1, Zenon
  <2>2. DOMAIN <<>> = {}
    OBVIOUS
  <2> DEFINE f == [s \in DOMAIN Family(G, 0) |-> s]
  <2>3. f \in [DOMAIN Family(G, 0) -> DOMAIN <<>>]
    BY <2>1, <2>2
  <2> QED
    BY <2>1, <2>2, <2>3 DEF Enumerates
<1>6. ASSUME NEW n \in Nat, NEW m \in DOMAIN ss, m = n + 1, NEW out \in Seq(T), Enumerates(out, Family(G, n))
      PROVE  out \o ss[m] \in Seq(T) /\ Enumerates(out \o ss[m], Family(G, m))
  <2> DEFINE last == [p \in {m} \X DOMAIN G[m] |-> G[m][p[2]]]
             h == [p \in {m} \X DOMAIN G[m] |-> p[2]]
  <2>1. ss[m] \in Seq(T)
    BY <1>6
  <2>2. Enumerates(ss[m], last)
    <3>1. h \in [DOMAIN last -> DOMAIN G[m]]
      OBVIOUS
    <3>2. \A s, t \in DOMAIN last : h[s] = h[t] => s = t
      OBVIOUS
    <3>3. \A s \in DOMAIN G[m] : \E t \in DOMAIN last : h[t] = s
      <4> TAKE s \in DOMAIN G[m]
      <4>1. <<m, s>> \in DOMAIN last /\ h[<<m, s>>] = s
        OBVIOUS
      <4> QED
        BY <4>1
    <3>4. \A t \in DOMAIN last : last[t] = G[m][h[t]]
      OBVIOUS
    <3>5. Enumerates(ss[m], G[m])
      BY <1>6
    <3>6. Renames(h, last, G[m])
      BY <3>1, <3>2, <3>3, <3>4, Zenon DEF Renames
    <3> HIDE DEF last, h
    <3> QED
      BY <3>5, <3>6, RenamedEnumerates
  <2>3. DOMAIN last = {m} \X DOMAIN G[m]
    OBVIOUS
  <2>4. DOMAIN Family(G, n) \cap DOMAIN last = {}
    BY <1>1, <1>2, <1>3, <2>3, <1>6
  <2>5. DOMAIN Family(G, m) = DOMAIN Family(G, n) \cup DOMAIN last
    <3>1. Pairs(G, m) = Pairs(G, n) \cup ({m} \X DOMAIN G[m])
      <4>1. 1 .. m = (1 .. n) \cup {m}
        BY <1>6
      <4> QED
        BY <4>1 DEF Pairs
    <3> QED
      BY <3>1, <1>1, <2>3
  <2>6. \A p \in DOMAIN Family(G, n) : Family(G, m)[p] = Family(G, n)[p]
    <3> TAKE p \in DOMAIN Family(G, n)
    <3>1. p = <<p[1], p[2]>> /\ p \in Pairs(G, n)
      BY <1>1, <1>3
    <3>2. p[1] \in 1 .. n /\ p[1] \in 1 .. m /\ p[2] \in DOMAIN G[p[1]]
      BY <3>1, <1>2, <1>6
    <3> QED
      BY <3>1, <3>2, <1>4
  <2>7. \A p \in DOMAIN last : Family(G, m)[p] = last[p]
    <3> TAKE p \in DOMAIN last
    <3>1. p = <<m, p[2]>> /\ p[2] \in DOMAIN G[m]
      BY <2>3
    <3>2. m \in 1 .. m
      BY <1>6
    <3>3. Family(G, m)[<<m, p[2]>>] = G[m][p[2]]
      BY <3>1, <3>2, <1>4
    <3>4. last[p] = G[m][p[2]]
      BY <2>3
    <3> QED
      BY <3>1, <3>3, <3>4
  <2> HIDE DEF last
  <2>8. Joins(Family(G, m), Family(G, n), last)
    BY <2>4, <2>5, <2>6, <2>7, Zenon DEF Joins
  <2>9. Enumerates(out \o ss[m], Family(G, m))
    BY <1>6, <2>1, <2>2, <2>8, ConcatEnumerates
  <2> QED
    BY <2>1, <2>9
<1>7. CASE ss = <<>>
  <2>1. FlattenSeq(ss) = <<>> /\ Len(ss) = 0
    BY <1>7 DEF FlattenSeq
  <2> QED
    BY <2>1, <1>5
<1>8. CASE ss # <<>>
  <2>1. PICK g : /\ g = [i \in 1 .. Len(ss) |-> IF i = 1 THEN ss[i] ELSE g[i - 1] \o ss[i]]
                 /\ FlattenSeq(ss) = g[Len(ss)]
    BY <1>8, FlattenIs
  <2> DEFINE S == {n \in Nat : n + 1 \in 1 .. Len(ss) =>
                                 g[n + 1] \in Seq(T) /\ Enumerates(g[n + 1], Family(G, n + 1))}
  <2>2. 0 \in S
    <3>1. CASE 1 \in 1 .. Len(ss)
      <4>1. g[1] = ss[1] /\ ss[1] = <<>> \o ss[1] /\ 1 \in DOMAIN ss /\ <<>> \in Seq(T)
        BY <2>1, <3>1
      <4> QED
        BY <4>1, <1>5, <1>6, 0 + 1 = 1
    <3> QED
      BY <3>1
  <2>3. ASSUME NEW n \in Nat, n \in S PROVE n + 1 \in S
    <3>1. CASE n + 1 + 1 \in 1 .. Len(ss)
      <4>1. n + 1 \in 1 .. Len(ss) /\ n + 1 + 1 \in DOMAIN ss /\ n + 1 + 1 # 1 /\ (n + 1 + 1) - 1 = n + 1
        BY <3>1
      <4>2. g[n + 1 + 1] = g[n + 1] \o ss[n + 1 + 1]
        BY <2>1, <3>1, <4>1
      <4>3. g[n + 1] \in Seq(T) /\ Enumerates(g[n + 1], Family(G, n + 1))
        BY <2>3, <4>1
      <4> QED
        BY <4>1, <4>2, <4>3, <1>6, n + 1 \in Nat
    <3> QED
      BY <3>1
  <2>4. Nat \subseteq S
    <3> HIDE DEF S
    <3> QED
      BY <2>2, <2>3, Induct
  <2>5. Len(ss) - 1 \in Nat /\ (Len(ss) - 1) + 1 = Len(ss) /\ Len(ss) \in 1 .. Len(ss)
    BY <1>8
  <2>6. g[Len(ss)] \in Seq(T) /\ Enumerates(g[Len(ss)], Family(G, Len(ss)))
    BY <2>4, <2>5
  <2> QED
    BY <2>1, <2>6
<1> QED
  BY <1>7, <1>8
-----------------------------------------------------------------------------
(* The text of a number. *)

LEMMA Decimal ==
    ASSUME NEW n \in Nat
    PROVE  /\ n \div 10 \in Nat /\ n % 10 \in 0 .. 9
           /\ n - 10 * (n \div 10) = n % 10
           /\ n # 0 => n \div 10 < n
<1>1. n \div 10 \in Nat
  OBVIOUS
<1>2. n % 10 \in 0 .. 9
  OBVIOUS
<1>3. n - 10 * (n \div 10) = n % 10
  OBVIOUS
<1>4. n # 0 => n \div 10 < n
  OBVIOUS
<1> QED
  BY <1>1, <1>2, <1>3, <1>4

LEMMA DigitChars ==
    /\ \A d, e \in 0 .. 9 : DigitChar[d + 1] = DigitChar[e + 1] => d = e
    /\ \A d \in 0 .. 9 : DigitChar[d + 1] = "0" => d = 0
    /\ \A d \in 0 .. 9 : DigitChar[d + 1] \in ToSet(DigitChar)
    /\ \A c \in ToSet(DigitChar) : \E d \in 0 .. 9 : DigitChar[d + 1] = c
    /\ ToSet(DigitChar) \subseteq String
<1>1. ASSUME NEW d \in 0 .. 9, NEW e \in 0 .. 9, DigitChar[d + 1] = DigitChar[e + 1]
      PROVE  d = e
  <2>1. d + 1 \in 1 .. 10 /\ e + 1 \in 1 .. 10
    OBVIOUS
  <2> QED
    BY <1>1, <2>1 DEF DigitChar
<1>2. ASSUME NEW d \in 0 .. 9, DigitChar[d + 1] = "0" PROVE d = 0
  <2>1. d + 1 \in 1 .. 10
    OBVIOUS
  <2> QED
    BY <1>2, <2>1 DEF DigitChar
<1>3. DOMAIN DigitChar = 1 .. 10
  BY DEF DigitChar
<1>4. \A d \in 0 .. 9 : DigitChar[d + 1] \in ToSet(DigitChar)
  BY <1>3 DEF ToSet
<1>5. ASSUME NEW c \in ToSet(DigitChar) PROVE \E d \in 0 .. 9 : DigitChar[d + 1] = c
  <2>1. PICK i \in 1 .. 10 : DigitChar[i] = c
    BY <1>3 DEF ToSet
  <2>2. i - 1 \in 0 .. 9 /\ (i - 1) + 1 = i
    OBVIOUS
  <2> QED
    BY <2>1, <2>2
<1> QED
  BY <1>1, <1>2, <1>4, <1>5, StringAssumption

LEMMA DigitOf ==
    ASSUME NEW c \in ToSet(DigitChar)
    PROVE  Digit(c) \in 0 .. 9 /\ DigitChar[Digit(c) + 1] = c
<1>1. \E d \in 0 .. 9 : DigitChar[d + 1] = c
  BY DigitChars
<1> QED
  BY <1>1 DEF Digit

\* g is the loop of intToStr up to N.
DigitsTo(g, N) ==
    g = [n \in 0 .. N |->
            IF n = 0 THEN <<>> ELSE Append(g[n \div 10], DigitChar[(n % 10) + 1])]

LEMMA DigitsExist ==
    ASSUME NEW N \in Nat PROVE \E g : DigitsTo(g, N)
<1> DEFINE S == {n \in Nat : \E g : DigitsTo(g, n)}
<1>1. 0 \in S
  <2> DEFINE g == [n \in 0 .. 0 |-> <<>>]
  <2>1. DigitsTo(g, 0)
    BY DEF DigitsTo
  <2> HIDE DEF g
  <2> QED
    BY <2>1
<1>2. ASSUME NEW m \in Nat, m \in S PROVE m + 1 \in S
  <2>1. PICK g : DigitsTo(g, m)
    BY <1>2
  <2> DEFINE h == [n \in 0 .. m + 1 |->
                     IF n <= m THEN g[n]
                     ELSE Append(g[n \div 10], DigitChar[(n % 10) + 1])]
  <2>2. ASSUME NEW n \in 0 .. m + 1
        PROVE  h[n] = IF n = 0 THEN <<>>
                      ELSE Append(h[n \div 10], DigitChar[(n % 10) + 1])
    <3>1. n # 0 => n \div 10 \in 0 .. m /\ h[n \div 10] = g[n \div 10]
      <4>1. n # 0 => n \div 10 \in Nat /\ n \div 10 < n
        BY Decimal
      <4>2. n # 0 => n \div 10 \in 0 .. m /\ n \div 10 \in 0 .. m + 1 /\ n \div 10 <= m
        BY <4>1
      <4> QED
        BY <4>2
    <3>2. CASE n <= m
      <4>1. n \in 0 .. m /\ h[n] = g[n]
        BY <3>2
      <4>2. g[n] = IF n = 0 THEN <<>> ELSE Append(g[n \div 10], DigitChar[(n % 10) + 1])
        BY <2>1, <4>1 DEF DigitsTo
      <4> HIDE DEF h
      <4> QED
        BY <3>1, <4>1, <4>2
    <3>3. CASE ~(n <= m)
      <4>1. n # 0 /\ h[n] = Append(g[n \div 10], DigitChar[(n % 10) + 1])
        BY <3>3
      <4> HIDE DEF h
      <4> QED
        BY <3>1, <4>1
    <3> QED
      BY <3>2, <3>3
  <2>3. DigitsTo(h, m + 1)
    BY <2>2, Zenon DEF DigitsTo
  <2> HIDE DEF h
  <2> QED
    BY <2>3
<1>3. Nat \subseteq S
  <2> HIDE DEF S
  <2> QED
    BY <1>1, <1>2, Induct
<1> QED
  BY <1>3

LEMMA DigitsAgree ==
    ASSUME NEW N \in Nat, NEW M \in Nat, NEW g, NEW h, DigitsTo(g, N), DigitsTo(h, M),
           NEW n \in Nat, n <= N, n <= M
    PROVE  g[n] = h[n]
<1> DEFINE S == {m \in Nat : m <= N /\ m <= M /\ g[m] # h[m]}
<1>1. SUFFICES ASSUME S # {} PROVE FALSE
  OBVIOUS
<1>2. PICK x \in S : \A y \in S : x <= y
  <2>1. S \subseteq Nat
    OBVIOUS
  <2> HIDE DEF S
  <2> QED
    BY <1>1, <2>1, Least
<1>3. x \in 0 .. N /\ x \in 0 .. M
  BY <1>2
<1>4. /\ g[x] = IF x = 0 THEN <<>> ELSE Append(g[x \div 10], DigitChar[(x % 10) + 1])
      /\ h[x] = IF x = 0 THEN <<>> ELSE Append(h[x \div 10], DigitChar[(x % 10) + 1])
  BY <1>3 DEF DigitsTo
<1>5. x # 0 /\ g[x \div 10] # h[x \div 10]
  BY <1>2, <1>4
<1>6. x \div 10 \in Nat /\ x \div 10 < x
  BY <1>2, <1>5, Decimal
<1>7. x \div 10 \in S
  BY <1>2, <1>5, <1>6
<1> QED
  BY <1>2, <1>6, <1>7

\* digits obeys the equation it is defined by.
LEMMA DigitsIs ==
    \A n \in Nat :
        digits[n] = IF n = 0 THEN <<>>
                    ELSE Append(digits[n \div 10], DigitChar[(n % 10) + 1])
<1> DEFINE upTo == [n \in Nat |-> CHOOSE g : DigitsTo(g, n)]
           f == [n \in Nat |-> upTo[n][n]]
<1>1. \A n \in Nat : DigitsTo(upTo[n], n)
  <2> TAKE n \in Nat
  <2>1. \E g : DigitsTo(g, n)
    BY DigitsExist
  <2>2. DigitsTo(CHOOSE g : DigitsTo(g, n), n)
    BY <2>1, Zenon
  <2> QED
    BY <2>2, Zenon
<1>2. \A n \in Nat : f[n] = upTo[n][n]
  OBVIOUS
<1> HIDE DEF upTo
<1>3. ASSUME NEW n \in Nat
      PROVE  f[n] = IF n = 0 THEN <<>> ELSE Append(f[n \div 10], DigitChar[(n % 10) + 1])
  <2>1. upTo[n][n] = IF n = 0 THEN <<>>
                     ELSE Append(upTo[n][n \div 10], DigitChar[(n % 10) + 1])
    <3>1. n \in 0 .. n
      OBVIOUS
    <3> QED
      BY <1>1, <3>1 DEF DigitsTo
  <2>2. CASE n = 0
    BY <2>1, <2>2, <1>2
  <2>3. CASE n # 0
    <3>1. n \div 10 \in Nat /\ n \div 10 <= n /\ n \div 10 <= n \div 10
      BY <2>3, Decimal
    <3>2. upTo[n][n \div 10] = upTo[n \div 10][n \div 10]
      BY <1>1, <3>1, DigitsAgree
    <3>3. f[n \div 10] = upTo[n \div 10][n \div 10]
      BY <1>2, <3>1
    <3> QED
      BY <2>1, <2>3, <3>2, <3>3, <1>2
  <2> QED
    BY <2>2, <2>3
<1>4. f = [n \in Nat |-> IF n = 0 THEN <<>>
                         ELSE Append(f[n \div 10], DigitChar[(n % 10) + 1])]
  <2>1. f = [n \in Nat |-> f[n]]
    OBVIOUS
  <2> HIDE DEF f
  <2> QED
    BY <1>3, <2>1, Zenon
<1>5. \E g : g = [n \in Nat |-> IF n = 0 THEN <<>>
                               ELSE Append(g[n \div 10], DigitChar[(n % 10) + 1])]
  <2> HIDE DEF f
  <2> QED
    BY <1>4
<1>6. digits = [n \in Nat |-> IF n = 0 THEN <<>>
                              ELSE Append(digits[n \div 10], DigitChar[(n % 10) + 1])]
  BY <1>5, Zenon DEF digits
<1> QED
  BY <1>6, Zenon

\* The text of a positive number has digits, the first of them not 0.
IsDecimal(text) ==
    /\ text \in Text /\ text # <<>>
    /\ ToSet(text) \subseteq ToSet(DigitChar)
    /\ text[1] # "0"

LEMMA DigitsDecimal ==
    ASSUME NEW n \in Nat, n # 0 PROVE IsDecimal(digits[n])
<1> DEFINE S == {m \in Nat : m # 0 /\ ~IsDecimal(digits[m])}
<1>1. SUFFICES ASSUME S # {} PROVE FALSE
  OBVIOUS
<1>2. PICK x \in S : \A y \in S : x <= y
  <2>1. S \subseteq Nat
    OBVIOUS
  <2> HIDE DEF S
  <2> QED
    BY <1>1, <2>1, Least
<1> DEFINE q == x \div 10
           c == DigitChar[(x % 10) + 1]
<1>3. x \in Nat /\ x # 0 /\ ~IsDecimal(digits[x])
  BY <1>2
<1>4. q \in Nat /\ q < x /\ x % 10 \in 0 .. 9 /\ x - 10 * q = x % 10
  BY <1>3, Decimal
<1>5. digits[x] = Append(digits[q], c)
  BY <1>3, DigitsIs
<1>6. c \in ToSet(DigitChar) /\ c \in String /\ (c = "0" => x % 10 = 0)
  BY <1>4, DigitChars
<1>7. q # 0 => IsDecimal(digits[q])
  BY <1>2, <1>4
<1>8. q = 0 => digits[q] = <<>>
  BY DigitsIs
<1> HIDE DEF q, c
<1>9. CASE q = 0
  <2>1. digits[x] = <<c>>
    <3>1. Append(<<>>, c) = <<c>>
      OBVIOUS
    <3> QED
      BY <3>1, <1>5, <1>8, <1>9
  <2>2. c # "0"
    BY <1>3, <1>4, <1>6, <1>9
  <2>3. <<c>> \in Seq(String) /\ <<c>> # <<>> /\ <<c>>[1] = c /\ ToSet(<<c>>) = {c}
    BY <1>6 DEF ToSet
  <2> QED
    BY <1>3, <1>6, <2>1, <2>2, <2>3 DEF IsDecimal, Text
<1>10. CASE q # 0
  <2> DEFINE t == digits[q]
  <2>1. t \in Seq(String) /\ t # <<>> /\ ToSet(t) \subseteq ToSet(DigitChar) /\ t[1] # "0"
    BY <1>7, <1>10 DEF IsDecimal, Text
  <2> HIDE DEF t
  <2>2. /\ Append(t, c) \in Seq(String) /\ Append(t, c) # <<>> /\ Append(t, c)[1] = t[1]
    BY <2>1, <1>6
  <2>3. ToSet(Append(t, c)) \subseteq ToSet(DigitChar)
    <3>1. ASSUME NEW i \in DOMAIN Append(t, c) PROVE Append(t, c)[i] \in ToSet(DigitChar)
      <4>1. CASE i \in DOMAIN t
        <5>1. Append(t, c)[i] = t[i]
          BY <4>1, <2>1
        <5>2. t[i] \in ToSet(t)
          BY <4>1 DEF ToSet
        <5> QED
          BY <5>1, <5>2, <2>1
      <4>2. CASE i \notin DOMAIN t
        BY <4>2, <2>1, <1>6
      <4> QED
        BY <4>1, <4>2
    <3> QED
      BY <3>1 DEF ToSet
  <2> QED
    BY <1>3, <1>5, <2>1, <2>2, <2>3 DEF IsDecimal, Text, t
<1> QED
  BY <1>9, <1>10

LEMMA AppendInjective ==
    ASSUME NEW T, NEW c \in T, NEW d \in T, NEW s \in Seq(T), NEW t \in Seq(T),
           Append(s, c) = Append(t, d)
    PROVE  s = t /\ c = d
<1>1. Len(s) = Len(t)
  OBVIOUS
<1>2. c = d
  BY <1>1
<1>3. \A i \in 1 .. Len(s) : s[i] = t[i]
  <2> TAKE i \in 1 .. Len(s)
  <2>1. Append(s, c)[i] = s[i] /\ Append(t, d)[i] = t[i]
    BY <1>1
  <2> QED
    BY <2>1
<1> QED
  BY <1>1, <1>2, <1>3

LEMMA DigitsInjective ==
    ASSUME NEW a \in Nat, NEW b \in Nat, digits[a] = digits[b] PROVE a = b
<1> DEFINE S == {m \in Nat : \E k \in Nat : k # m /\ digits[m] = digits[k]}
<1>1. SUFFICES ASSUME S # {} PROVE FALSE
  OBVIOUS
<1>2. PICK x \in S : \A y \in S : x <= y
  <2>1. S \subseteq Nat
    OBVIOUS
  <2> HIDE DEF S
  <2> QED
    BY <1>1, <2>1, Least
<1>3. PICK k \in Nat : k # x /\ digits[x] = digits[k]
  BY <1>2
<1>4. x # 0 /\ k # 0
  <2>1. digits[0] = <<>>
    BY DigitsIs
  <2> QED
    BY <1>2, <1>3, <2>1, DigitsDecimal DEF IsDecimal
<1>5. /\ x \div 10 \in Nat /\ k \div 10 \in Nat /\ x \div 10 < x
      /\ x % 10 \in 0 .. 9 /\ k % 10 \in 0 .. 9
  BY <1>2, <1>4, Decimal
<1>6. \A m \in Nat : digits[m] \in Seq(String)
  <2>1. digits[0] = <<>>
    BY DigitsIs
  <2>2. \A m \in Nat : m # 0 => digits[m] \in Seq(String)
    BY DigitsDecimal DEF IsDecimal, Text
  <2>3. <<>> \in Seq(String)
    OBVIOUS
  <2> QED
    BY <2>1, <2>2, <2>3, Zenon
<1>7. Append(digits[x \div 10], DigitChar[(x % 10) + 1])
         = Append(digits[k \div 10], DigitChar[(k % 10) + 1])
  BY <1>2, <1>3, <1>4, DigitsIs
<1>8. /\ digits[x \div 10] = digits[k \div 10]
      /\ DigitChar[(x % 10) + 1] = DigitChar[(k % 10) + 1]
  <2>1. digits[x \div 10] \in Seq(String) /\ digits[k \div 10] \in Seq(String)
    BY <1>5, <1>6
  <2>2. DigitChar[(x % 10) + 1] \in String /\ DigitChar[(k % 10) + 1] \in String
    BY <1>5, DigitChars
  <2> DEFINE xs == digits[x \div 10]
             ks == digits[k \div 10]
             xc == DigitChar[(x % 10) + 1]
             kc == DigitChar[(k % 10) + 1]
  <2>3. Append(xs, xc) = Append(ks, kc)
    BY <1>7
  <2> SUFFICES xs = ks /\ xc = kc
    OBVIOUS
  <2>4. xs \in Seq(String) /\ ks \in Seq(String) /\ xc \in String /\ kc \in String
    BY <2>1, <2>2
  <2> HIDE DEF xs, ks, xc, kc
  <2> QED
    BY <2>3, <2>4, AppendInjective
<1>9. x % 10 = k % 10
  BY <1>5, <1>8, DigitChars
<1>10. x \div 10 # k \div 10
  BY <1>2, <1>3, <1>9
<1>11. x \div 10 \in S
  BY <1>5, <1>8, <1>10
<1> QED
  BY <1>2, <1>5, <1>11

\* v is what Value has read after each token.
ReadTo(v, text, m) ==
    v = [i \in 0 .. m |-> IF i = 0 THEN 0 ELSE 10 * v[i - 1] + Digit(text[i])]

LEMMA ReadExists ==
    ASSUME NEW text, NEW m \in Nat PROVE \E v : ReadTo(v, text, m)
<1> DEFINE S == {n \in Nat : \E v : ReadTo(v, text, n)}
<1>1. 0 \in S
  <2> DEFINE v == [i \in 0 .. 0 |-> 0]
  <2>1. ReadTo(v, text, 0)
    BY DEF ReadTo
  <2> HIDE DEF v
  <2> QED
    BY <2>1
<1>2. ASSUME NEW n \in Nat, n \in S PROVE n + 1 \in S
  <2>1. PICK v : ReadTo(v, text, n)
    BY <1>2
  <2> DEFINE w == [i \in 0 .. n + 1 |->
                     IF i <= n THEN v[i] ELSE 10 * v[i - 1] + Digit(text[i])]
  <2>2. ASSUME NEW i \in 0 .. n + 1
        PROVE  w[i] = IF i = 0 THEN 0 ELSE 10 * w[i - 1] + Digit(text[i])
    <3>1. i # 0 => i - 1 \in 0 .. n + 1 /\ i - 1 <= n
      OBVIOUS
    <3>2. i # 0 => w[i - 1] = v[i - 1]
      BY <3>1
    <3>3. CASE i <= n
      <4>1. i \in 0 .. n /\ w[i] = v[i]
        BY <3>3
      <4>2. v[i] = IF i = 0 THEN 0 ELSE 10 * v[i - 1] + Digit(text[i])
        BY <2>1, <4>1 DEF ReadTo
      <4> HIDE DEF w
      <4> QED
        BY <3>2, <4>1, <4>2
    <3>4. CASE ~(i <= n)
      <4>1. i # 0 /\ w[i] = 10 * v[i - 1] + Digit(text[i])
        BY <3>4
      <4> HIDE DEF w
      <4> QED
        BY <3>2, <4>1
    <3> QED
      BY <3>3, <3>4
  <2>3. ReadTo(w, text, n + 1)
    BY <2>2, Zenon DEF ReadTo
  <2> HIDE DEF w
  <2> QED
    BY <2>3
<1>3. Nat \subseteq S
  <2> HIDE DEF S
  <2> QED
    BY <1>1, <1>2, Induct
<1> QED
  BY <1>3

LEMMA ValueIs ==
    ASSUME NEW text \in Text
    PROVE  \E v : ReadTo(v, text, Len(text)) /\ Value(text) = v[Len(text)]
<1> DEFINE v == CHOOSE w : w = [i \in 0 .. Len(text) |->
                                  IF i = 0 THEN 0 ELSE 10 * w[i - 1] + Digit(text[i])]
<1>1. Len(text) \in Nat
  BY DEF Text
<1>2. \E w : w = [i \in 0 .. Len(text) |->
                     IF i = 0 THEN 0 ELSE 10 * w[i - 1] + Digit(text[i])]
  BY <1>1, ReadExists DEF ReadTo
<1>3. v = [i \in 0 .. Len(text) |->
              IF i = 0 THEN 0 ELSE 10 * v[i - 1] + Digit(text[i])]
  BY <1>2, Zenon
<1>4. Value(text) = v[Len(text)]
  BY DEF Value
<1> QED
  BY <1>3, <1>4 DEF ReadTo

First(text, n) == [j \in 1 .. n |-> text[j]]

\* A decimal text is the one that is made of its value.
LEMMA ReadBack ==
    ASSUME NEW text, IsDecimal(text)
    PROVE  Value(text) \in Nat \ {0} /\ digits[Value(text)] = text
<1>1. /\ text \in Seq(String) /\ Len(text) \in Nat /\ Len(text) > 0 /\ text[1] # "0"
      /\ \A i \in 1 .. Len(text) : text[i] \in ToSet(DigitChar) /\ text[i] \in String
  BY DEF IsDecimal, Text, ToSet
<1>2. PICK v : ReadTo(v, text, Len(text)) /\ Value(text) = v[Len(text)]
  BY <1>1, ValueIs DEF Text
<1> DEFINE S == {n \in Nat : n + 1 <= Len(text) =>
                               v[n + 1] \in Nat \ {0} /\ digits[v[n + 1]] = First(text, n + 1)}
<1>3. \A i \in 1 .. Len(text) : v[i] = 10 * v[i - 1] + Digit(text[i])
  <2> TAKE i \in 1 .. Len(text)
  <2>1. i \in 0 .. Len(text) /\ i # 0
    OBVIOUS
  <2> QED
    BY <1>2, <2>1 DEF ReadTo
<1>4. v[0] = 0
  <2>1. 0 \in 0 .. Len(text)
    BY <1>1
  <2> QED
    BY <1>2, <2>1 DEF ReadTo
<1>5. \A i \in 1 .. Len(text) :
         Digit(text[i]) \in 0 .. 9 /\ DigitChar[Digit(text[i]) + 1] = text[i]
  BY <1>1, DigitOf
<1>6. ASSUME NEW i \in 1 .. Len(text), NEW q \in Nat, v[i - 1] = q, v[i] # 0
      PROVE  v[i] \in Nat \ {0} /\ digits[v[i]] = Append(digits[q], text[i])
  <2> DEFINE d == Digit(text[i])
  <2>1. d \in 0 .. 9 /\ DigitChar[d + 1] = text[i]
    BY <1>5
  <2>2. v[i] = 10 * q + d
    BY <1>3, <1>6
  <2> HIDE DEF d
  <2>3. v[i] \in Nat \ {0}
    BY <1>6, <2>1, <2>2
  <2>4. v[i] \div 10 = q /\ v[i] % 10 = d
    BY <2>1, <2>2
  <2> QED
    BY <2>1, <2>3, <2>4, DigitsIs
<1>7. 0 \in S
  <2>1. 1 \in 1 .. Len(text) /\ 1 - 1 = 0
    BY <1>1
  <2>2. v[1] = Digit(text[1]) /\ Digit(text[1]) \in 0 .. 9
    BY <2>1, <1>3, <1>4, <1>5
  <2>3. v[1] # 0
    <3>1. DigitChar[0 + 1] = "0"
      BY DEF DigitChar
    <3> QED
      BY <2>1, <2>2, <3>1, <1>1, <1>5
  <2>4. v[1] \in Nat \ {0} /\ digits[v[1]] = Append(digits[0], text[1])
    BY <2>1, <2>3, <1>4, <1>6
  <2>5. digits[0] = <<>>
    BY DigitsIs
  <2>6. Append(<<>>, text[1]) = First(text, 1)
    BY <1>1, <2>1 DEF First
  <2> QED
    BY <2>4, <2>5, <2>6
<1>8. ASSUME NEW n \in Nat, n \in S PROVE n + 1 \in S
  <2>1. CASE n + 1 + 1 <= Len(text)
    <3> DEFINE i == n + 1 + 1
    <3>1. i \in 1 .. Len(text) /\ i - 1 = n + 1 /\ n + 1 <= Len(text)
      BY <2>1, <1>1
    <3>2. v[n + 1] \in Nat \ {0} /\ digits[v[n + 1]] = First(text, n + 1)
      BY <1>8, <3>1
    <3>3. v[i] # 0
      <4>1. v[i] = 10 * v[n + 1] + Digit(text[i]) /\ Digit(text[i]) \in 0 .. 9
        BY <3>1, <1>3, <1>5
      <4> HIDE DEF i
      <4> QED
        BY <4>1, <3>2
    <3>4. v[i] \in Nat \ {0} /\ digits[v[i]] = Append(digits[v[n + 1]], text[i])
      BY <3>1, <3>2, <3>3, <1>6
    <3>5. Append(First(text, n + 1), text[i]) = First(text, i)
      <4>1. First(text, n + 1) \in Seq(String) /\ Len(First(text, n + 1)) = n + 1
        BY <1>1, <3>1 DEF First
      <4>2. \A j \in 1 .. i : Append(First(text, n + 1), text[i])[j] = text[j]
        BY <4>1, <1>1, <3>1 DEF First
      <4>3. Append(First(text, n + 1), text[i]) \in Seq(String) /\ Len(Append(First(text, n + 1), text[i])) = i
        BY <4>1, <1>1, <3>1 DEF First
      <4>4. First(text, i) \in Seq(String) /\ Len(First(text, i)) = i
        BY <1>1, <3>1 DEF First
      <4> QED
        BY <4>2, <4>3, <4>4 DEF First
    <3> QED
      BY <3>2, <3>4, <3>5
  <2> QED
    BY <2>1
<1>9. Nat \subseteq S
  <2> HIDE DEF S
  <2> QED
    BY <1>7, <1>8, Induct
<1>10. /\ v[Len(text)] \in Nat \ {0}
       /\ digits[v[Len(text)]] = First(text, Len(text))
  <2>1. Len(text) - 1 \in S /\ (Len(text) - 1) + 1 = Len(text)
    BY <1>1, <1>9
  <2> QED
    BY <2>1
<1>11. First(text, Len(text)) = text
  BY <1>1 DEF First
<1> QED
  BY <1>2, <1>10, <1>11

(***************************************************************************)
(* A text shows a number just if it is the one intToStr makes of it: what  *)
(* the dashboard shows as a port is read back as that port, for every      *)
(* number.                                                                 *)
(***************************************************************************)
THEOREM NumbersShown ==
    ASSUME NEW n \in Nat \ {0}
    PROVE  /\ intToStr(n) \in Text
           /\ \A text \in Text : ShowsNumber(text, n) <=> text = intToStr(n)
<1>1. intToStr(n) = digits[n]
  BY DEF intToStr
<1>2. IsDecimal(digits[n])
  BY DigitsDecimal
<1>3. Value(digits[n]) = n
  <2>1. Value(digits[n]) \in Nat /\ digits[Value(digits[n])] = digits[n]
    BY <1>2, ReadBack
  <2> QED
    BY <2>1, DigitsInjective
<1>4. ASSUME NEW text \in Text, ShowsNumber(text, n) PROVE text = digits[n]
  <2>1. IsDecimal(text) /\ Value(text) = n
    BY <1>4 DEF ShowsNumber, IsDecimal
  <2> QED
    BY <2>1, ReadBack
<1>5. ShowsNumber(digits[n], n)
  BY <1>2, <1>3 DEF ShowsNumber, IsDecimal
<1> QED
  BY <1>1, <1>2, <1>4, <1>5 DEF IsDecimal

-----------------------------------------------------------------------------
(* The mappers. *)

\* The endpoint a mapper makes of a place.
IngressAt(ing, annotationKey, at) ==
    LET rule == ing.rules[at[1]]
        p    == rule.paths[at[2]]
    IN  NewEndpoint("Ingress", ing, annotationKey, rule.host, p.path,
                    pathTypeString(p.pathType), rule.host \in buildTLSHostSet(ing),
                    IF p.service = Nil THEN Nil
                    ELSE [service |-> p.service.name,
                          port    |-> portString(p.service.port)])

RouteAt(route, annotationKey, at) ==
    LET rule  == route.rules[at[1]]
        match == IF at[2][1] = 0 THEN Nil ELSE rule.matches[at[2][1]]
    IN  NewEndpoint("HTTPRoute", route, annotationKey, route.hostnames[at[2][2]],
                    matchPath(match)[1], matchPath(match)[2], FALSE,
                    backendFromRule(rule))

IngressFamily(ing, annotationKey) ==
    [at \in IngressPlaces(ing) |-> IngressAt(ing, annotationKey, at)]

RouteFamily(route, annotationKey) ==
    [at \in RoutePlaces(route) |-> RouteAt(route, annotationKey, at)]

LEMMA PortText ==
    ASSUME NEW port \in ServicePort
    PROVE  /\ portString(port) \in Text
           /\ \A text \in Text : ShowsPort(text, port) <=> text = portString(port)
<1>1. port.name \in Text /\ port.number \in Nat
  BY DEF ServicePort
<1>2. CASE port.name # <<>>
  BY <1>1, <1>2 DEF portString, ShowsPort
<1>3. CASE port.name = <<>> /\ port.number # 0
  BY <1>1, <1>3, NumbersShown DEF portString, ShowsPort
<1>4. CASE port.name = <<>> /\ port.number = 0
  BY <1>1, <1>4 DEF portString, ShowsPort
<1> QED
  BY <1>2, <1>3, <1>4

\* The backend of a path is the one the reference asks for.
LEMMA PathBackend ==
    ASSUME NEW service \in IngressService
    PROVE  /\ [service |-> service.name, port |-> portString(service.port)] \in Backend
           /\ \A b \in Backend \cup {Nil} :
                 (b # Nil /\ b.service = service.name /\ ShowsPort(b.port, service.port))
                 <=> b = [service |-> service.name, port |-> portString(service.port)]
<1> DEFINE made == [service |-> service.name, port |-> portString(service.port)]
<1>1. service.name \in String /\ service.port \in ServicePort
  BY DEF IngressService
<1>2. made \in Backend /\ made # Nil
  BY <1>1, PortText, NilAssumption DEF Backend
<1>3. ASSUME NEW b \in Backend
      PROVE  (b.service = service.name /\ ShowsPort(b.port, service.port)) <=> b = made
  <2>1. b.port \in Text /\ b = [service |-> b.service, port |-> b.port]
    BY DEF Backend
  <2>2. ShowsPort(b.port, service.port) <=> b.port = portString(service.port)
    BY <1>1, <2>1, PortText
  <2> QED
    BY <2>1, <2>2
<1> HIDE DEF made
<1> QED
  BY <1>2, <1>3, NilAssumption DEF made

\* Two ids with the same fields are the same.
LEMMA SameId ==
    ASSUME NEW a \in EndpointId, NEW b \in EndpointId
    PROVE  (/\ a.source = b.source /\ a.host = b.host /\ a.path = b.path
            /\ a.pathType = b.pathType /\ (a.tls <=> b.tls) /\ a.backend = b.backend)
           <=> a = b
<1>1. /\ a = [source |-> a.source, host |-> a.host, path |-> a.path,
              pathType |-> a.pathType, tls |-> a.tls, backend |-> a.backend]
      /\ b = [source |-> b.source, host |-> b.host, path |-> b.path,
              pathType |-> b.pathType, tls |-> b.tls, backend |-> b.backend]
      /\ a.tls \in BOOLEAN /\ b.tls \in BOOLEAN
  BY DEF EndpointId
<1>2. (a.tls <=> b.tls) <=> a.tls = b.tls
  BY <1>1
<1> QED
  BY <1>1, <1>2

LEMMA NewEndpointIs ==
    ASSUME NEW kind, NEW obj, NEW annotationKey, NEW host, NEW path, NEW pathType,
           NEW tls, NEW backend, NEW e,
           kind \in {"Ingress", "HTTPRoute"},
           obj.ns \in Namespace, obj.name \in String,
           host \in String, path \in String, pathType \in String,
           tls \in BOOLEAN, backend \in Backend \cup {Nil},
           e = NewEndpoint(kind, obj, annotationKey, host, path, pathType,
                                  tls, backend)
    PROVE  /\ e \in SliceEndpoint /\ e.id \in EndpointId
           /\ e.id.source = [kind |-> kind, ns |-> obj.ns, name |-> obj.name]
           /\ e.id.host = host /\ e.id.path = path /\ e.id.pathType = pathType
           /\ e.id.tls = tls /\ e.id.backend = backend
           /\ e.path = (annotationKey \in obj.annotations) /\ e.health = "Unknown"
<1> DEFINE source == [kind |-> kind, ns |-> obj.ns, name |-> obj.name]
           id == [source |-> source, host |-> host, path |-> path,
                  pathType |-> pathType, tls |-> tls, backend |-> backend]
<1>1. e = [id |-> id, path |-> annotationKey \in obj.annotations, health |-> "Unknown"]
  BY DEF NewEndpoint
<1>2. id \in EndpointId
  BY DEF EndpointId
<1>3. e.id = id
  BY <1>1
<1>4. /\ e.id.source = source /\ e.id.host = host /\ e.id.path = path
      /\ e.id.pathType = pathType /\ e.id.tls = tls /\ e.id.backend = backend
  BY <1>3
<1> HIDE DEF id
<1>5. e \in SliceEndpoint
  BY <1>1, <1>2 DEF SliceEndpoint, HealthState
<1> QED
  BY <1>1, <1>2, <1>3, <1>4, <1>5

LEMMA IngressPlace ==
    ASSUME NEW ing \in Ingress, NEW at \in IngressPlaces(ing)
    PROVE  /\ at = <<at[1], at[2]>>
           /\ at[1] \in DOMAIN ing.rules
           /\ ing.rules[at[1]] \in IngressRule
           /\ ing.rules[at[1]].paths \in Seq(IngressPath)
           /\ at[2] \in DOMAIN ing.rules[at[1]].paths
           /\ ing.rules[at[1]].paths[at[2]] \in IngressPath
<1>1. PICK r \in DOMAIN ing.rules :
        ing.rules[r].paths # Nil /\ at \in {r} \X DOMAIN ing.rules[r].paths
  BY DEF IngressPlaces
<1>2. at = <<r, at[2]>> /\ at[1] = r /\ at[2] \in DOMAIN ing.rules[r].paths
  BY <1>1
<1>3. ing.rules \in Seq(IngressRule)
  BY DEF Ingress
<1>4. ing.rules[r] \in IngressRule
  BY <1>1, <1>3
<1>5. ing.rules[r].paths \in Seq(IngressPath)
  BY <1>1, <1>4 DEF IngressRule
<1>6. ing.rules[r].paths[at[2]] \in IngressPath
  BY <1>2, <1>5
<1> QED
  BY <1>1, <1>2, <1>4, <1>5, <1>6

LEMMA IngressAtShows ==
    ASSUME NEW ing \in Ingress, NEW annotationKey, NEW at \in IngressPlaces(ing),
           NEW e, e = IngressAt(ing, annotationKey, at)
    PROVE  /\ e \in SliceEndpoint /\ e.id \in EndpointId
           /\ e.path = (annotationKey \in ing.annotations) /\ e.health = "Unknown"
           /\ \A id \in EndpointId :
                 (id.source = [kind |-> "Ingress", ns |-> ing.ns, name |-> ing.name]
                    /\ ShowsPath(id, ing, at))
                 <=> id = e.id
<1> DEFINE rule == ing.rules[at[1]]
           p == rule.paths[at[2]]
           backend == IF p.service = Nil THEN Nil
                      ELSE [service |-> p.service.name, port |-> portString(p.service.port)]
           tls == rule.host \in buildTLSHostSet(ing)
           pathType == pathTypeString(p.pathType)
<1>1. rule \in IngressRule /\ p \in IngressPath
  BY IngressPlace
<1>2. tls \in BOOLEAN /\ (tls <=> \E t \in DOMAIN ing.tls : rule.host \in ToSet(ing.tls[t]))
  BY DEF buildTLSHostSet
<1>3. pathType = IF p.pathType = Nil THEN "" ELSE p.pathType
  BY DEF pathTypeString
<1>4. e = NewEndpoint("Ingress", ing, annotationKey, rule.host, p.path, pathType, tls, backend)
  BY DEF IngressAt
<1>5. \A id : ShowsPath(id, ing, at) <=>
         /\ id.host = rule.host /\ id.path = p.path
         /\ id.pathType = IF p.pathType = Nil THEN "" ELSE p.pathType
         /\ id.tls <=> \E t \in DOMAIN ing.tls : rule.host \in ToSet(ing.tls[t])
         /\ IF p.service = Nil THEN id.backend = Nil
            ELSE /\ id.backend # Nil
                 /\ id.backend.service = p.service.name
                 /\ ShowsPort(id.backend.port, p.service.port)
  BY DEF ShowsPath
<1>6. backend = IF p.service = Nil THEN Nil
                ELSE [service |-> p.service.name, port |-> portString(p.service.port)]
  OBVIOUS
<1>7. ing.ns \in Namespace /\ ing.name \in String
  BY DEF Ingress
<1> HIDE DEF rule, p, backend, tls, pathType
<1>8. /\ rule.host \in String /\ p.path \in String
      /\ p.pathType \in String \cup {Nil} /\ p.service \in IngressService \cup {Nil}
  BY <1>1 DEF IngressRule, IngressPath
<1>9. pathType \in String
  BY <1>3, <1>8, StringAssumption
<1>10. backend \in Backend \cup {Nil}
  BY <1>6, <1>8, PathBackend
<1>11. tls \in BOOLEAN /\ "Ingress" \in {"Ingress", "HTTPRoute"}
  BY <1>2
<1>12. /\ e \in SliceEndpoint /\ e.id \in EndpointId
       /\ e.id.source = [kind |-> "Ingress", ns |-> ing.ns, name |-> ing.name]
       /\ e.id.host = rule.host /\ e.id.path = p.path /\ e.id.pathType = pathType
       /\ e.id.tls = tls /\ e.id.backend = backend
       /\ e.path = (annotationKey \in ing.annotations) /\ e.health = "Unknown"
  BY <1>11, <1>4, <1>7, <1>8, <1>9, <1>10, NewEndpointIs
<1>13. ASSUME NEW id \in EndpointId
       PROVE  (id.source = e.id.source /\ ShowsPath(id, ing, at)) <=> id = e.id
  <2>1. id.backend \in Backend \cup {Nil}
    BY DEF EndpointId
  <2>2. (IF p.service = Nil THEN id.backend = Nil
         ELSE /\ id.backend # Nil
              /\ id.backend.service = p.service.name
              /\ ShowsPort(id.backend.port, p.service.port))
        <=> id.backend = backend
    BY <1>6, <1>8, <2>1, PathBackend
  <2>3. ShowsPath(id, ing, at) <=>
          /\ id.host = e.id.host /\ id.path = e.id.path /\ id.pathType = e.id.pathType
          /\ (id.tls <=> e.id.tls) /\ id.backend = e.id.backend
    BY <1>2, <1>3, <1>5, <1>12, <2>2
  <2> QED
    BY <2>3, <1>12, SameId
<1> QED
  BY <1>12, <1>13

LEMMA RoutePlace ==
    ASSUME NEW route \in HTTPRoute, NEW at \in RoutePlaces(route)
    PROVE  /\ at = <<at[1], at[2]>> /\ at[2] = <<at[2][1], at[2][2]>>
           /\ at[1] \in DOMAIN route.rules
           /\ route.rules[at[1]] \in HTTPRouteRule
           /\ at[2][1] = 0 <=> route.rules[at[1]].matches = <<>>
           /\ at[2][1] # 0 => /\ at[2][1] \in DOMAIN route.rules[at[1]].matches
                              /\ route.rules[at[1]].matches[at[2][1]] \in PathMatch \cup {Nil}
           /\ at[2][2] \in DOMAIN route.hostnames
           /\ route.hostnames[at[2][2]] \in String
<1> DEFINE M(r) == IF route.rules[r].matches = <<>> THEN {0} ELSE DOMAIN route.rules[r].matches
<1>1. PICK r \in DOMAIN route.rules : at \in {r} \X (M(r) \X DOMAIN route.hostnames)
  BY DEF RoutePlaces
<1>2. at = <<at[1], at[2]>> /\ at[1] = r /\ at[2] \in M(r) \X DOMAIN route.hostnames
  BY <1>1
<1>3. at[2] = <<at[2][1], at[2][2]>> /\ at[2][1] \in M(r) /\ at[2][2] \in DOMAIN route.hostnames
  BY <1>2
<1>4. route.rules \in Seq(HTTPRouteRule) /\ route.hostnames \in Seq(String)
  BY DEF HTTPRoute
<1>5. route.rules[r] \in HTTPRouteRule /\ route.hostnames[at[2][2]] \in String
  BY <1>1, <1>3, <1>4
<1>6. route.rules[r].matches \in Seq(PathMatch \cup {Nil})
  BY <1>5 DEF HTTPRouteRule
<1>7. CASE route.rules[r].matches = <<>>
  BY <1>1, <1>2, <1>3, <1>5, <1>7
<1>8. CASE route.rules[r].matches # <<>>
  <2>1. at[2][1] \in DOMAIN route.rules[r].matches
    BY <1>3, <1>8
  <2>2. at[2][1] # 0 /\ route.rules[r].matches[at[2][1]] \in PathMatch \cup {Nil}
    BY <2>1, <1>6
  <2> QED
    BY <1>1, <1>2, <1>3, <1>5, <1>8, <2>1, <2>2
<1> QED
  BY <1>7, <1>8

\* The backend of a rule is the one the reference asks for.
LEMMA RuleBackend ==
    ASSUME NEW rule \in HTTPRouteRule
    PROVE  /\ backendFromRule(rule) \in Backend \cup {Nil}
           /\ \A b \in Backend \cup {Nil} :
                 (IF rule.backendRefs = <<>> THEN b = Nil
                  ELSE /\ b # Nil
                       /\ b.service = rule.backendRefs[1].name
                       /\ IF rule.backendRefs[1].port = Nil THEN b.port = <<>>
                          ELSE ShowsNumber(b.port, rule.backendRefs[1].port))
                 <=> b = backendFromRule(rule)
<1> DEFINE ref == rule.backendRefs[1]
           text == IF ref.port = Nil THEN <<>> ELSE intToStr(ref.port)
           made == [service |-> ref.name, port |-> text]
<1>1. CASE rule.backendRefs = <<>>
  BY <1>1 DEF backendFromRule
<1>2. CASE rule.backendRefs # <<>>
  <2>1. rule.backendRefs \in Seq(BackendRef) /\ 1 \in DOMAIN rule.backendRefs
    BY <1>2 DEF HTTPRouteRule
  <2>2. ref \in BackendRef
    BY <2>1
  <2>3. backendFromRule(rule) = made
    BY <1>2 DEF backendFromRule
  <2>4. text = IF ref.port = Nil THEN <<>> ELSE intToStr(ref.port)
    OBVIOUS
  <2> HIDE DEF ref, text
  <2>5. ref.name \in String /\ ref.port \in (Nat \ {0}) \cup {Nil}
    BY <2>2 DEF BackendRef
  <2>6. text \in Text
    <3>1. <<>> \in Text
      BY DEF Text
    <3> QED
      BY <3>1, <2>4, <2>5, NumbersShown
  <2>7. \A t \in Text : (IF ref.port = Nil THEN t = <<>> ELSE ShowsNumber(t, ref.port))
                        <=> t = text
    BY <2>4, <2>5, NumbersShown
  <2>8. made \in Backend /\ made # Nil
    BY <2>5, <2>6, NilAssumption DEF Backend
  <2>9. ASSUME NEW b \in Backend
        PROVE  (/\ b.service = ref.name
                /\ IF ref.port = Nil THEN b.port = <<>> ELSE ShowsNumber(b.port, ref.port))
               <=> b = made
    <3>1. b.port \in Text /\ b = [service |-> b.service, port |-> b.port]
      BY DEF Backend
    <3>2. (IF ref.port = Nil THEN b.port = <<>> ELSE ShowsNumber(b.port, ref.port))
          <=> b.port = text
      BY <2>7, <3>1
    <3> QED
      BY <3>1, <3>2
  <2> HIDE DEF made
  <2>10. \A b \in Backend \cup {Nil} :
            (/\ b # Nil /\ b.service = ref.name
             /\ IF ref.port = Nil THEN b.port = <<>> ELSE ShowsNumber(b.port, ref.port))
            <=> b = made
    BY <2>8, <2>9, NilAssumption
  <2> QED
    BY <1>2, <2>3, <2>8, <2>10 DEF ref
<1> QED
  BY <1>1, <1>2

LEMMA MatchPath ==
    ASSUME NEW match \in PathMatch \cup {Nil}
    PROVE  /\ matchPath(match)[1] = IF match # Nil /\ match.value # Nil THEN match.value ELSE "/"
           /\ matchPath(match)[2] = IF match # Nil /\ match.type # Nil THEN match.type ELSE "Prefix"
           /\ matchPath(match)[1] \in String /\ matchPath(match)[2] \in String
<1>1. "/" \in String /\ "Prefix" \in String
  BY StringAssumption
<1>2. CASE match = Nil
  BY <1>1, <1>2 DEF matchPath
<1>3. CASE match # Nil
  <2>1. match.value \in String \cup {Nil} /\ match.type \in String \cup {Nil}
    BY <1>3 DEF PathMatch
  <2> QED
    BY <1>1, <1>3, <2>1 DEF matchPath
<1> QED
  BY <1>2, <1>3

LEMMA RouteAtShows ==
    ASSUME NEW route \in HTTPRoute, NEW annotationKey, NEW at \in RoutePlaces(route),
           NEW e, e = RouteAt(route, annotationKey, at)
    PROVE  /\ e \in SliceEndpoint /\ e.id \in EndpointId
           /\ e.path = (annotationKey \in route.annotations) /\ e.health = "Unknown"
           /\ \A id \in EndpointId :
                 (id.source = [kind |-> "HTTPRoute", ns |-> route.ns, name |-> route.name]
                    /\ ShowsMatch(id, route, at))
                 <=> id = e.id
<1> DEFINE rule == route.rules[at[1]]
           match == IF at[2][1] = 0 THEN Nil ELSE rule.matches[at[2][1]]
           host == route.hostnames[at[2][2]]
           path == matchPath(match)[1]
           pathType == matchPath(match)[2]
           backend == backendFromRule(rule)
           tls == FALSE
<1>1. rule \in HTTPRouteRule /\ match \in PathMatch \cup {Nil} /\ host \in String
  BY RoutePlace
<1>2. e = NewEndpoint("HTTPRoute", route, annotationKey, host, path, pathType, tls, backend)
  BY DEF RouteAt
<1>3. \A id : ShowsMatch(id, route, at) <=>
         /\ id.host = host /\ ~id.tls
         /\ id.path = IF match # Nil /\ match.value # Nil THEN match.value ELSE "/"
         /\ id.pathType = IF match # Nil /\ match.type # Nil THEN match.type ELSE "Prefix"
         /\ IF rule.backendRefs = <<>> THEN id.backend = Nil
            ELSE /\ id.backend # Nil
                 /\ id.backend.service = rule.backendRefs[1].name
                 /\ IF rule.backendRefs[1].port = Nil THEN id.backend.port = <<>>
                    ELSE ShowsNumber(id.backend.port, rule.backendRefs[1].port)
  <2>1. CASE at[2][1] = 0
    BY <2>1 DEF ShowsMatch
  <2>2. CASE at[2][1] # 0
    BY <2>2 DEF ShowsMatch
  <2> QED
    BY <2>1, <2>2
<1>4. route.ns \in Namespace /\ route.name \in String
  BY DEF HTTPRoute
<1>5. tls \in BOOLEAN /\ ~tls /\ "HTTPRoute" \in {"Ingress", "HTTPRoute"}
  OBVIOUS
<1>6. backend = backendFromRule(rule)
  OBVIOUS
<1>7. path = matchPath(match)[1] /\ pathType = matchPath(match)[2]
  OBVIOUS
<1> HIDE DEF rule, match, host, path, pathType, backend, tls
<1>8. path \in String /\ pathType \in String
  BY <1>1, <1>7, MatchPath
<1>9. backend \in Backend \cup {Nil}
  BY <1>1, <1>6, RuleBackend
<1>10. /\ e \in SliceEndpoint /\ e.id \in EndpointId
       /\ e.id.source = [kind |-> "HTTPRoute", ns |-> route.ns, name |-> route.name]
       /\ e.id.host = host /\ e.id.path = path /\ e.id.pathType = pathType
       /\ e.id.tls = tls /\ e.id.backend = backend
       /\ e.path = (annotationKey \in route.annotations) /\ e.health = "Unknown"
  BY <1>1, <1>2, <1>4, <1>5, <1>8, <1>9, NewEndpointIs
<1>11. ASSUME NEW id \in EndpointId
       PROVE  (id.source = e.id.source /\ ShowsMatch(id, route, at)) <=> id = e.id
  <2>1. id.backend \in Backend \cup {Nil}
    BY DEF EndpointId
  <2>2. (IF rule.backendRefs = <<>> THEN id.backend = Nil
         ELSE /\ id.backend # Nil
              /\ id.backend.service = rule.backendRefs[1].name
              /\ IF rule.backendRefs[1].port = Nil THEN id.backend.port = <<>>
                 ELSE ShowsNumber(id.backend.port, rule.backendRefs[1].port))
        <=> id.backend = backend
    BY <1>1, <1>6, <2>1, RuleBackend
  <2>3. /\ path = IF match # Nil /\ match.value # Nil THEN match.value ELSE "/"
        /\ pathType = IF match # Nil /\ match.type # Nil THEN match.type ELSE "Prefix"
    BY <1>1, <1>7, MatchPath
  <2>4. ShowsMatch(id, route, at) <=>
          /\ id.host = host /\ ~id.tls /\ id.path = path /\ id.pathType = pathType
          /\ id.backend = backend
    BY <1>3, <2>2, <2>3
  <2>5. ~id.tls <=> (id.tls <=> e.id.tls)
    BY <1>5, <1>10
  <2> QED
    BY <2>4, <2>5, <1>10, SameId
<1> QED
  BY <1>10, <1>11

LEMMA IsSequence ==
    ASSUME NEW T, NEW n \in Nat, NEW f, f = [i \in 1 .. n |-> f[i]],
           \A i \in 1 .. n : f[i] \in T
    PROVE  f \in Seq(T) /\ Len(f) = n /\ DOMAIN f = 1 .. n
<1>1. f \in [1 .. n -> T]
  OBVIOUS
<1> QED
  BY <1>1

LEMMA SameEnumerates ==
    ASSUME NEW seq, NEW g, NEW other, Enumerates(seq, g), DOMAIN other = DOMAIN g,
           \A s \in DOMAIN g : other[s] = g[s]
    PROVE  Enumerates(seq, other)
<1>1. PICK f \in [DOMAIN g -> DOMAIN seq] :
        /\ \A s, t \in DOMAIN g : f[s] = f[t] => s = t
        /\ \A i \in DOMAIN seq : \E s \in DOMAIN g : f[s] = i
        /\ \A s \in DOMAIN g : seq[f[s]] = g[s]
  BY DEF Enumerates
<1>2. f \in [DOMAIN other -> DOMAIN seq]
  BY <1>1
<1> QED
  BY <1>1, <1>2 DEF Enumerates

LEMMA PairsAre ==
    ASSUME NEW G, NEW n
    PROVE  /\ DOMAIN Family(G, n) = Pairs(G, n)
           /\ \A p : p \in Pairs(G, n) <=>
                        p = <<p[1], p[2]>> /\ p[1] \in 1 .. n /\ p[2] \in DOMAIN G[p[1]]
           /\ \A p \in Pairs(G, n) : Family(G, n)[p] = G[p[1]][p[2]]
<1>1. ASSUME NEW p
      PROVE  p \in Pairs(G, n) <=>
                p = <<p[1], p[2]>> /\ p[1] \in 1 .. n /\ p[2] \in DOMAIN G[p[1]]
  <2>1. p \in Pairs(G, n) <=> \E i \in 1 .. n : p \in {i} \X DOMAIN G[i]
    BY DEF Pairs
  <2>2. \A i : p \in {i} \X DOMAIN G[i] <=> p = <<p[1], p[2]>> /\ p[1] = i /\ p[2] \in DOMAIN G[i]
    OBVIOUS
  <2> QED
    BY <2>1, <2>2
<1> QED
  BY <1>1 DEF Family

\* The endpoints of a rule of an Ingress.
IngressRow(ing, annotationKey, r) ==
    IF ing.rules[r].paths = Nil THEN <<>>
    ELSE [i \in DOMAIN ing.rules[r].paths |-> IngressAt(ing, annotationKey, <<r, i>>)]

\* The mapper of Ingresses makes one endpoint of each place.
LEMMA IngressEnumerates ==
    ASSUME NEW ing \in Ingress, NEW annotationKey
    PROVE  /\ IngressToEndpoints(ing, annotationKey) \in Seq(SliceEndpoint)
           /\ Enumerates(IngressToEndpoints(ing, annotationKey), IngressFamily(ing, annotationKey))
<1> DEFINE ss == [r \in DOMAIN ing.rules |-> IngressRow(ing, annotationKey, r)]
<1>1. IngressToEndpoints(ing, annotationKey) = FlattenSeq(ss)
  <2> DEFINE Endpoint_(rule, p) ==
            NewEndpoint("Ingress", ing, annotationKey, rule.host, p.path,
                        pathTypeString(p.pathType),
                        rule.host \in buildTLSHostSet(ing),
                        IF p.service = Nil THEN Nil
                        ELSE [service |-> p.service.name,
                              port    |-> portString(p.service.port)])
             OfRule(rule) ==
                IF rule.paths = Nil THEN <<>>
                ELSE [i \in DOMAIN rule.paths |-> Endpoint_(rule, rule.paths[i])]
  <2>1. IngressToEndpoints(ing, annotationKey)
          = FlattenSeq([r \in DOMAIN ing.rules |-> OfRule(ing.rules[r])])
    BY Zenon DEF IngressToEndpoints
  <2>2. \A r, i : Endpoint_(ing.rules[r], ing.rules[r].paths[i]) = IngressAt(ing, annotationKey, <<r, i>>)
    BY DEF IngressAt
  <2> HIDE DEF Endpoint_
  <2>3. ASSUME NEW r PROVE OfRule(ing.rules[r]) = IngressRow(ing, annotationKey, r)
    <3>1. [i \in DOMAIN ing.rules[r].paths |-> Endpoint_(ing.rules[r], ing.rules[r].paths[i])]
           = [i \in DOMAIN ing.rules[r].paths |-> IngressAt(ing, annotationKey, <<r, i>>)]
      BY <2>2
    <3> QED
      BY <3>1 DEF IngressRow
  <2> HIDE DEF OfRule
  <2>4. [r \in DOMAIN ing.rules |-> OfRule(ing.rules[r])] = ss
    BY <2>3
  <2> QED
    BY <2>1, <2>4
<1>2. ing.rules \in Seq(IngressRule)
  BY DEF Ingress
<1>3. DOMAIN ss = 1 .. Len(ing.rules) /\ Len(ing.rules) \in Nat /\ DOMAIN ing.rules = 1 .. Len(ing.rules)
  BY <1>2
<1>4. \A r, i : <<r, i>> \in IngressPlaces(ing) <=>
          r \in DOMAIN ing.rules /\ ing.rules[r].paths # Nil /\ i \in DOMAIN ing.rules[r].paths
  BY DEF IngressPlaces
<1>5. ASSUME NEW r \in DOMAIN ing.rules
      PROVE  /\ ss[r] = IngressRow(ing, annotationKey, r) /\ ss[r] \in Seq(SliceEndpoint)
             /\ DOMAIN ss[r] = IF ing.rules[r].paths = Nil THEN {} ELSE DOMAIN ing.rules[r].paths
             /\ \A i \in DOMAIN ss[r] : ss[r][i] = IngressAt(ing, annotationKey, <<r, i>>)
  <2>1. ss[r] = IngressRow(ing, annotationKey, r)
    OBVIOUS
  <2>2. CASE ing.rules[r].paths = Nil
    BY <2>1, <2>2 DEF IngressRow
  <2>3. CASE ing.rules[r].paths # Nil
    <3>1. ing.rules[r] \in IngressRule
      BY <1>2
    <3>2. ing.rules[r].paths \in Seq(IngressPath)
      BY <2>3, <3>1 DEF IngressRule
    <3>3. \A i \in DOMAIN ing.rules[r].paths : IngressAt(ing, annotationKey, <<r, i>>) \in SliceEndpoint
      BY <1>4, <2>3, IngressAtShows
    <3>4. IngressRow(ing, annotationKey, r) = [i \in DOMAIN ing.rules[r].paths |-> IngressAt(ing, annotationKey, <<r, i>>)]
      BY <2>3 DEF IngressRow
    <3>5. DOMAIN ing.rules[r].paths = 1 .. Len(ing.rules[r].paths) /\ Len(ing.rules[r].paths) \in Nat
      BY <3>2
    <3>6. IngressRow(ing, annotationKey, r) \in Seq(SliceEndpoint)
      BY <3>3, <3>4, <3>5
    <3> QED
      BY <2>1, <2>3, <3>4, <3>6
  <2> QED
    BY <2>2, <2>3
<1>6. ss \in Seq(Seq(SliceEndpoint)) /\ Len(ss) = Len(ing.rules)
  <2>1. ss = [r \in 1 .. Len(ing.rules) |-> ss[r]]
    BY <1>3
  <2> HIDE DEF ss
  <2> QED
    BY <2>1, <1>3, <1>5, IsSequence
<1>7. DOMAIN ss = DOMAIN ing.rules
  OBVIOUS
<1> HIDE DEF ss
<1>8. \A r \in DOMAIN ss : Enumerates(ss[r], ss[r])
  BY SelfEnumerates
<1>9. /\ FlattenSeq(ss) \in Seq(SliceEndpoint)
      /\ Enumerates(FlattenSeq(ss), Family(ss, Len(ss)))
  BY <1>6, <1>8, FlattenEnumerates
<1>10. \A p : p \in IngressPlaces(ing) <=>
          p = <<p[1], p[2]>> /\ p[1] \in DOMAIN ing.rules /\ p[2] \in DOMAIN ss[p[1]]
  <2>1. \A p \in IngressPlaces(ing) : p = <<p[1], p[2]>>
    BY IngressPlace
  <2> QED
    BY <2>1, <1>4, <1>5
<1>11. Pairs(ss, Len(ss)) = IngressPlaces(ing)
  BY <1>3, <1>6, <1>10, PairsAre
<1>12. DOMAIN IngressFamily(ing, annotationKey) = DOMAIN Family(ss, Len(ss))
  BY <1>11, PairsAre DEF IngressFamily
<1>13. \A p \in DOMAIN Family(ss, Len(ss)) : IngressFamily(ing, annotationKey)[p] = Family(ss, Len(ss))[p]
  <2> TAKE p \in DOMAIN Family(ss, Len(ss))
  <2>1. p \in Pairs(ss, Len(ss)) /\ p \in IngressPlaces(ing)
    BY <1>11, PairsAre
  <2>2. p = <<p[1], p[2]>> /\ p[1] \in DOMAIN ing.rules /\ p[2] \in DOMAIN ss[p[1]]
    BY <2>1, <1>10
  <2>3. Family(ss, Len(ss))[p] = ss[p[1]][p[2]]
    BY <2>1, PairsAre
  <2>4. IngressFamily(ing, annotationKey)[p] = IngressAt(ing, annotationKey, p)
    BY <2>1 DEF IngressFamily
  <2>5. ss[p[1]][p[2]] = IngressAt(ing, annotationKey, <<p[1], p[2]>>)
    BY <2>2, <1>5
  <2> QED
    BY <2>2, <2>3, <2>4, <2>5
<1> QED
  BY <1>1, <1>9, <1>12, <1>13, SameEnumerates

\* The endpoints of a match of a rule of an HTTPRoute, and those of a rule.
RouteCell(route, annotationKey, r, m) ==
    [h \in DOMAIN route.hostnames |-> RouteAt(route, annotationKey, <<r, <<m, h>>>>)]

RouteRow(route, annotationKey, r) ==
    IF route.rules[r].matches = <<>> THEN RouteCell(route, annotationKey, r, 0)
    ELSE FlattenSeq([m \in DOMAIN route.rules[r].matches |->
                        RouteCell(route, annotationKey, r, m)])

RowMatches(route, r) ==
    IF route.rules[r].matches = <<>> THEN {0} ELSE DOMAIN route.rules[r].matches

RouteRowFamily(route, annotationKey, r) ==
    [q \in RowMatches(route, r) \X DOMAIN route.hostnames |->
        RouteAt(route, annotationKey, <<r, q>>)]

LEMMA RouteMapper ==
    ASSUME NEW route \in HTTPRoute, NEW annotationKey
    PROVE  HTTPRouteToEndpoints(route, annotationKey)
             = FlattenSeq([r \in DOMAIN route.rules |-> RouteRow(route, annotationKey, r)])
<1> DEFINE Endpoint_(rule, host, at) ==
            NewEndpoint("HTTPRoute", route, annotationKey, host, at[1], at[2],
                        FALSE, backendFromRule(rule))
           OfMatch(rule, match) ==
            [h \in DOMAIN route.hostnames |->
                Endpoint_(rule, route.hostnames[h], matchPath(match))]
           OfRule(rule) ==
            IF rule.matches = <<>> THEN OfMatch(rule, Nil)
            ELSE FlattenSeq([m \in DOMAIN rule.matches |->
                                OfMatch(rule, rule.matches[m])])
<1>1. HTTPRouteToEndpoints(route, annotationKey)
        = FlattenSeq([r \in DOMAIN route.rules |-> OfRule(route.rules[r])])
  BY Zenon DEF HTTPRouteToEndpoints
<1>2. \A r, m, h : Endpoint_(route.rules[r], route.hostnames[h],
                             matchPath(IF m = 0 THEN Nil ELSE route.rules[r].matches[m]))
                    = RouteAt(route, annotationKey, <<r, <<m, h>>>>)
  BY DEF RouteAt
<1> HIDE DEF Endpoint_
<1>3. \A r, m : OfMatch(route.rules[r], IF m = 0 THEN Nil ELSE route.rules[r].matches[m])
                   = RouteCell(route, annotationKey, r, m)
  BY <1>2 DEF RouteCell
<1> HIDE DEF OfMatch
<1>4. \A r \in DOMAIN route.rules : route.rules[r].matches \in Seq(PathMatch \cup {Nil})
  <2>1. route.rules \in Seq(HTTPRouteRule)
    BY DEF HTTPRoute
  <2>2. \A r \in DOMAIN route.rules : route.rules[r] \in HTTPRouteRule
    BY <2>1
  <2> QED
    BY <2>2 DEF HTTPRouteRule
<1>5. ASSUME NEW r \in DOMAIN route.rules
      PROVE  OfRule(route.rules[r]) = RouteRow(route, annotationKey, r)
  <2>1. \A m \in DOMAIN route.rules[r].matches : m # 0
    BY <1>4
  <2>2. \A m \in DOMAIN route.rules[r].matches :
           OfMatch(route.rules[r], route.rules[r].matches[m]) = RouteCell(route, annotationKey, r, m)
    BY <1>3, <2>1
  <2>3. [m \in DOMAIN route.rules[r].matches |-> OfMatch(route.rules[r], route.rules[r].matches[m])]
         = [m \in DOMAIN route.rules[r].matches |-> RouteCell(route, annotationKey, r, m)]
    BY <2>2
  <2>4. OfMatch(route.rules[r], Nil) = RouteCell(route, annotationKey, r, 0)
    BY <1>3
  <2> QED
    BY <2>3, <2>4 DEF RouteRow
<1> HIDE DEF OfRule
<1>6. [r \in DOMAIN route.rules |-> OfRule(route.rules[r])]
        = [r \in DOMAIN route.rules |-> RouteRow(route, annotationKey, r)]
  BY <1>5
<1> QED
  BY <1>1, <1>6

LEMMA RowEnumerates ==
    ASSUME NEW route \in HTTPRoute, NEW annotationKey, NEW r \in DOMAIN route.rules
    PROVE  /\ RouteRow(route, annotationKey, r) \in Seq(SliceEndpoint)
           /\ Enumerates(RouteRow(route, annotationKey, r), RouteRowFamily(route, annotationKey, r))
<1> DEFINE row == RouteRow(route, annotationKey, r)
           family == RouteRowFamily(route, annotationKey, r)
           matches == route.rules[r].matches
           hosts == route.hostnames
           Cell(m) == RouteCell(route, annotationKey, r, m)
           At(m, h) == RouteAt(route, annotationKey, <<r, <<m, h>>>>)
<1>1. hosts \in Seq(String) /\ route.rules \in Seq(HTTPRouteRule)
  BY DEF HTTPRoute
<1>2. matches \in Seq(PathMatch \cup {Nil})
  <2>1. route.rules[r] \in HTTPRouteRule
    BY <1>1
  <2> QED
    BY <2>1 DEF HTTPRouteRule
<1>3. \A m \in RowMatches(route, r), h \in DOMAIN hosts : At(m, h) \in SliceEndpoint
  <2>1. \A m \in RowMatches(route, r), h \in DOMAIN hosts : <<r, <<m, h>>>> \in RoutePlaces(route)
    BY DEF RoutePlaces, RowMatches
  <2> QED
    BY <2>1, RouteAtShows
<1>4. \A m : Cell(m) = [h \in DOMAIN hosts |-> At(m, h)]
  BY DEF RouteCell
<1>5. /\ DOMAIN family = RowMatches(route, r) \X DOMAIN hosts
      /\ \A m \in RowMatches(route, r), h \in DOMAIN hosts : family[<<m, h>>] = At(m, h)
  BY DEF RouteRowFamily
<1>6. DOMAIN hosts = 1 .. Len(hosts) /\ Len(hosts) \in Nat
  BY <1>1
<1>7. \A m : DOMAIN Cell(m) = DOMAIN hosts /\ \A h \in DOMAIN hosts : Cell(m)[h] = At(m, h)
  BY <1>4
<1> HIDE DEF At
<1>8. \A m \in RowMatches(route, r) : Cell(m) \in Seq(SliceEndpoint)
  BY <1>3, <1>4, <1>6, <1>7
<1>9. row = IF matches = <<>> THEN Cell(0) ELSE FlattenSeq([m \in DOMAIN matches |-> Cell(m)])
  BY DEF RouteRow
<1>10. RowMatches(route, r) = IF matches = <<>> THEN {0} ELSE DOMAIN matches
  BY DEF RowMatches
<1> HIDE DEF row, family, matches, hosts, Cell
<1>11. CASE matches = <<>>
  <2> DEFINE cell == Cell(0)
             h == [q \in {0} \X DOMAIN hosts |-> q[2]]
  <2>1. row = cell /\ cell \in Seq(SliceEndpoint) /\ DOMAIN cell = DOMAIN hosts
    BY <1>7, <1>8, <1>9, <1>10, <1>11
  <2>2. DOMAIN family = {0} \X DOMAIN cell
    BY <1>5, <1>10, <1>11, <2>1
  <2>3. h \in [DOMAIN family -> DOMAIN cell]
    BY <2>1, <2>2
  <2>4. \A s, t \in DOMAIN family : h[s] = h[t] => s = t
    BY <2>1, <2>2
  <2>5. \A s \in DOMAIN cell : \E t \in DOMAIN family : h[t] = s
    <3> TAKE s \in DOMAIN cell
    <3>1. <<0, s>> \in DOMAIN family /\ h[<<0, s>>] = s
      BY <2>1, <2>2
    <3> QED
      BY <3>1
  <2>6. \A t \in DOMAIN family : family[t] = cell[h[t]]
    <3> TAKE t \in DOMAIN family
    <3>1. t = <<0, t[2]>> /\ t[2] \in DOMAIN hosts /\ h[t] = t[2]
      BY <2>1, <2>2
    <3>2. family[<<0, t[2]>>] = At(0, t[2])
      BY <3>1, <1>5, <1>10, <1>11
    <3> QED
      BY <3>1, <3>2, <1>7
  <2>7. Renames(h, family, cell)
    BY <2>3, <2>4, <2>5, <2>6, Zenon DEF Renames
  <2> HIDE DEF h, cell
  <2> QED
    BY <2>1, <2>7, SelfEnumerates, RenamedEnumerates DEF row, family
<1>12. CASE matches # <<>>
  <2> DEFINE tt == [m \in DOMAIN matches |-> Cell(m)]
  <2>1. DOMAIN matches = 1 .. Len(matches) /\ Len(matches) \in Nat
    BY <1>2
  <2>2. tt = [m \in 1 .. Len(matches) |-> tt[m]] /\ \A m \in DOMAIN matches : tt[m] = Cell(m)
    BY <2>1
  <2>3. row = FlattenSeq(tt)
    BY <1>9, <1>12
  <2> HIDE DEF tt
  <2>4. \A m \in 1 .. Len(matches) : tt[m] \in Seq(SliceEndpoint)
    BY <1>8, <1>10, <1>12, <2>1, <2>2
  <2>5. tt \in Seq(Seq(SliceEndpoint)) /\ Len(tt) = Len(matches) /\ DOMAIN tt = 1 .. Len(matches)
    BY <2>1, <2>2, <2>4, IsSequence
  <2>6. \A m \in DOMAIN tt : Enumerates(tt[m], tt[m])
    BY SelfEnumerates
  <2>7. /\ FlattenSeq(tt) \in Seq(SliceEndpoint)
        /\ Enumerates(FlattenSeq(tt), Family(tt, Len(tt)))
    BY <2>5, <2>6, FlattenEnumerates
  <2>8. \A q : q \in DOMAIN family <=>
                 q = <<q[1], q[2]>> /\ q[1] \in DOMAIN matches /\ q[2] \in DOMAIN hosts
    BY <1>5, <1>10, <1>12
  <2>9. \A m \in DOMAIN matches : DOMAIN tt[m] = DOMAIN hosts
    BY <1>7, <2>2
  <2>10. DOMAIN family = DOMAIN Family(tt, Len(tt))
    <3>1. DOMAIN Family(tt, Len(tt)) = Pairs(tt, Len(tt))
      BY PairsAre
    <3>2. DOMAIN family = Pairs(tt, Len(tt))
      BY <2>1, <2>5, <2>8, <2>9, <1>5, PairsAre
    <3> QED
      BY <3>1, <3>2
  <2>11. \A q \in DOMAIN Family(tt, Len(tt)) : family[q] = Family(tt, Len(tt))[q]
    <3> TAKE q \in DOMAIN Family(tt, Len(tt))
    <3>1. q = <<q[1], q[2]>> /\ q[1] \in DOMAIN matches /\ q[2] \in DOMAIN hosts
      BY <2>8, <2>10
    <3>2. Family(tt, Len(tt))[q] = tt[q[1]][q[2]]
      BY PairsAre
    <3>3. tt[q[1]][q[2]] = At(q[1], q[2])
      BY <3>1, <2>2, <1>7
    <3>4. family[<<q[1], q[2]>>] = At(q[1], q[2])
      BY <3>1, <1>5, <1>10, <1>12
    <3> QED
      BY <3>1, <3>2, <3>3, <3>4
  <2>12. Enumerates(row, family)
    BY <2>3, <2>7, <2>10, <2>11, SameEnumerates
  <2> QED
    BY <2>3, <2>7, <2>12 DEF row, family
<1> QED
  BY <1>11, <1>12

\* The mapper of HTTPRoutes makes one endpoint of each place.
LEMMA RouteEnumerates ==
    ASSUME NEW route \in HTTPRoute, NEW annotationKey
    PROVE  /\ HTTPRouteToEndpoints(route, annotationKey) \in Seq(SliceEndpoint)
           /\ Enumerates(HTTPRouteToEndpoints(route, annotationKey), RouteFamily(route, annotationKey))
<1> DEFINE ss == [r \in DOMAIN route.rules |-> RouteRow(route, annotationKey, r)]
           G == [r \in DOMAIN route.rules |-> RouteRowFamily(route, annotationKey, r)]
<1>1. HTTPRouteToEndpoints(route, annotationKey) = FlattenSeq(ss)
  BY RouteMapper
<1>2. route.rules \in Seq(HTTPRouteRule)
  BY DEF HTTPRoute
<1>3. Len(route.rules) \in Nat /\ DOMAIN route.rules = 1 .. Len(route.rules)
  BY <1>2
<1>4. /\ ss = [r \in 1 .. Len(route.rules) |-> ss[r]]
      /\ \A r \in DOMAIN route.rules : ss[r] = RouteRow(route, annotationKey, r)
                                    /\ G[r] = RouteRowFamily(route, annotationKey, r)
  BY <1>3
<1> HIDE DEF ss, G
<1>5. \A r \in DOMAIN route.rules : ss[r] \in Seq(SliceEndpoint) /\ Enumerates(ss[r], G[r])
  BY <1>4, RowEnumerates
<1>6. ss \in Seq(Seq(SliceEndpoint)) /\ Len(ss) = Len(route.rules) /\ DOMAIN ss = DOMAIN route.rules
  BY <1>3, <1>4, <1>5, IsSequence
<1>7. /\ FlattenSeq(ss) \in Seq(SliceEndpoint)
      /\ Enumerates(FlattenSeq(ss), Family(G, Len(ss)))
  BY <1>5, <1>6, FlattenEnumerates
<1>8. \A p : p \in RoutePlaces(route) <=>
         /\ p = <<p[1], p[2]>> /\ p[1] \in DOMAIN route.rules
         /\ p[2] \in RowMatches(route, p[1]) \X DOMAIN route.hostnames
  <2> DEFINE Q(r) == RowMatches(route, r) \X DOMAIN route.hostnames
  <2>1. RoutePlaces(route) = UNION {{r} \X Q(r) : r \in DOMAIN route.rules}
    BY Zenon DEF RoutePlaces, RowMatches
  <2> HIDE DEF Q
  <2>2. \A r, p : p \in {r} \X Q(r) <=> p = <<p[1], p[2]>> /\ p[1] = r /\ p[2] \in Q(r)
    OBVIOUS
  <2>3. \A p : p \in RoutePlaces(route) <=>
          p = <<p[1], p[2]>> /\ p[1] \in DOMAIN route.rules /\ p[2] \in Q(p[1])
    BY <2>1, <2>2
  <2> QED
    BY <2>3 DEF Q
<1>9. \A r \in DOMAIN route.rules :
         /\ DOMAIN G[r] = RowMatches(route, r) \X DOMAIN route.hostnames
         /\ \A q \in DOMAIN G[r] : G[r][q] = RouteAt(route, annotationKey, <<r, q>>)
  BY <1>4 DEF RouteRowFamily
<1>10. Pairs(G, Len(ss)) = RoutePlaces(route)
  <2>1. \A p : p \in Pairs(G, Len(ss)) <=> p \in RoutePlaces(route)
    BY <1>3, <1>6, <1>8, <1>9, PairsAre
  <2> QED
    BY <2>1
<1>11. DOMAIN RouteFamily(route, annotationKey) = DOMAIN Family(G, Len(ss))
  BY <1>10, PairsAre DEF RouteFamily
<1>12. \A p \in DOMAIN Family(G, Len(ss)) : RouteFamily(route, annotationKey)[p] = Family(G, Len(ss))[p]
  <2> TAKE p \in DOMAIN Family(G, Len(ss))
  <2>1. p \in Pairs(G, Len(ss)) /\ p \in RoutePlaces(route)
    BY <1>10, PairsAre
  <2>2. p = <<p[1], p[2]>> /\ p[1] \in DOMAIN route.rules /\ p[2] \in DOMAIN G[p[1]]
    BY <2>1, <1>8, <1>9
  <2>3. Family(G, Len(ss))[p] = G[p[1]][p[2]]
    BY <2>1, PairsAre
  <2>4. RouteFamily(route, annotationKey)[p] = RouteAt(route, annotationKey, p)
    BY <2>1 DEF RouteFamily
  <2>5. G[p[1]][p[2]] = RouteAt(route, annotationKey, <<p[1], p[2]>>)
    BY <2>2, <1>9
  <2> QED
    BY <2>2, <2>3, <2>4, <2>5
<1> QED
  BY <1>1, <1>7, <1>11, <1>12, SameEnumerates

-----------------------------------------------------------------------------
(* The collectors. *)

NamespacesOK == namespaces \in Seq(Namespace) \cup {Nil}

\* The answers to the List calls, each with the objects of its namespace.
ListsAll(lists, objs) ==
    /\ lists = [n \in 1 .. Len(Calls) |-> lists[n]] /\ Len(Calls) \in Nat
    /\ \A n \in 1 .. Len(Calls) :
          /\ lists[n] = [i \in 1 .. Len(lists[n]) |-> lists[n][i]] /\ Len(lists[n]) \in Nat
          /\ \A i \in 1 .. Len(lists[n]) : lists[n][i] \in objs
          /\ \A i, j \in 1 .. Len(lists[n]) : lists[n][i] = lists[n][j] => i = j
          /\ \A x \in objs : (\E i \in 1 .. Len(lists[n]) : lists[n][i] = x) <=> n \in Listings(x)
    /\ \A x \in objs : Listings(x) \subseteq 1 .. Len(Calls)

LEMMA OrderLists ==
    ASSUME NEW S, IsFiniteSet(S), NEW f \in SetToSeqs(S)
    PROVE  /\ f = [i \in 1 .. Len(f) |-> f[i]] /\ Len(f) \in Nat
           /\ \A i \in 1 .. Len(f) : f[i] \in S
           /\ \A i, j \in 1 .. Len(f) : f[i] = f[j] => i = j
           /\ \A x \in S : \E i \in 1 .. Len(f) : f[i] = x
<1> DEFINE n == Cardinality(S)
<1>1. n \in Nat
  BY FS_CardinalityType
<1>2. f \in [1 .. n -> S] /\ \A i, j \in 1 .. n : i # j => f[i] # f[j]
  BY DEF SetToSeqs
<1> HIDE DEF n
<1>3. f \in Injection(1 .. n, S)
  BY <1>2 DEF Injection, IsInjective
<1>4. Cardinality(1 .. n) = n
  BY <1>1, FS_Interval
<1>5. f \in Surjection(1 .. n, S)
  BY <1>3, <1>4, FS_Injection DEF n
<1>6. Len(f) = n
  BY <1>1, <1>2
<1> QED
  BY <1>1, <1>2, <1>5, <1>6 DEF Surjection

LEMMA AnswersList ==
    ASSUME NamespacesOK, NEW objs, IsFiniteSet(objs), \A x \in objs : x.ns \in Namespace,
           NEW lists \in Answers(objs)
    PROVE  ListsAll(lists, objs)
<1>1. /\ Calls = [n \in 1 .. Len(Calls) |-> Calls[n]] /\ Len(Calls) \in Nat
      /\ DOMAIN Calls = 1 .. Len(Calls)
  BY DEF NamespacesOK, Calls
<1>2. \A x \in objs, n \in 1 .. Len(Calls) : x \in InNamespace(objs, Calls[n]) <=> n \in Listings(x)
  <2>1. CASE namespaces = Nil
    BY <2>1 DEF Calls, InNamespace, Listings
  <2>2. CASE namespaces # Nil
    <3>1. Calls = namespaces /\ \A n \in DOMAIN namespaces : namespaces[n] \in Namespace
      BY <2>2 DEF Calls, NamespacesOK
    <3>2. \A n \in DOMAIN namespaces : namespaces[n] # Nil
      BY <3>1, NilAssumption
    <3> QED
      BY <1>1, <2>2, <3>1, <3>2 DEF InNamespace, Listings
  <2> QED
    BY <2>1, <2>2
<1>3. \A x \in objs : Listings(x) \subseteq 1 .. Len(Calls)
  BY <1>1 DEF Calls, Listings
<1>4. \A n : InNamespace(objs, n) \subseteq objs
  BY DEF InNamespace
<1>5. /\ lists = [n \in 1 .. Len(Calls) |-> lists[n]]
      /\ \A n \in 1 .. Len(Calls) : lists[n] \in SetToSeqs(InNamespace(objs, Calls[n]))
  BY <1>1 DEF Answers
<1>6. ASSUME NEW n \in 1 .. Len(Calls)
      PROVE  /\ lists[n] = [i \in 1 .. Len(lists[n]) |-> lists[n][i]] /\ Len(lists[n]) \in Nat
             /\ \A i \in 1 .. Len(lists[n]) : lists[n][i] \in objs
             /\ \A i, j \in 1 .. Len(lists[n]) : lists[n][i] = lists[n][j] => i = j
             /\ \A x \in objs : (\E i \in 1 .. Len(lists[n]) : lists[n][i] = x) <=> n \in Listings(x)
  <2> DEFINE S == InNamespace(objs, Calls[n])
             f == lists[n]
  <2>1. IsFiniteSet(S)
    BY <1>4, FS_Subset
  <2>2. f \in SetToSeqs(S)
    BY <1>5
  <2>3. \A x \in objs : x \in S <=> n \in Listings(x)
    BY <1>2
  <2>4. S \subseteq objs
    BY <1>4
  <2> HIDE DEF S, f
  <2>5. /\ f = [i \in 1 .. Len(f) |-> f[i]] /\ Len(f) \in Nat
        /\ \A i \in 1 .. Len(f) : f[i] \in S
        /\ \A i, j \in 1 .. Len(f) : f[i] = f[j] => i = j
        /\ \A x \in S : \E i \in 1 .. Len(f) : f[i] = x
    BY <2>1, <2>2, OrderLists
  <2>6. \A x \in objs : (\E i \in 1 .. Len(f) : f[i] = x) <=> n \in Listings(x)
    BY <2>3, <2>4, <2>5
  <2>7. \A i \in 1 .. Len(f) : f[i] \in objs
    BY <2>4, <2>5
  <2> QED
    BY <2>5, <2>6, <2>7 DEF f
<1> QED
  BY <1>1, <1>3, <1>5, <1>6 DEF ListsAll

\* What a collector makes of the answers, with m[x] the endpoints of object x.
Rows(items, m) == [i \in DOMAIN items |-> m[items[i]]]
Collect(lists, m) == FlattenSeq([n \in DOMAIN lists |-> FlattenSeq(Rows(lists[n], m))])

\* The places to show of the objects of a kind, with fam[x] the family of x.
KindShowings(kind, objs, fam) ==
    UNION {[kind : {kind}, obj : {x}, call : Listings(x), at : DOMAIN fam[x]] : x \in objs}
KindFamily(kind, objs, fam) ==
    [s \in KindShowings(kind, objs, fam) |-> fam[s.obj][s.at]]

LEMMA KindShowing ==
    ASSUME NEW kind, NEW objs, NEW fam, NEW s
    PROVE  s \in KindShowings(kind, objs, fam) <=>
             /\ s = [kind |-> kind, obj |-> s.obj, call |-> s.call, at |-> s.at]
             /\ s.obj \in objs /\ s.call \in Listings(s.obj) /\ s.at \in DOMAIN fam[s.obj]
<1>1. s \in KindShowings(kind, objs, fam) <=>
        \E x \in objs : s \in [kind : {kind}, obj : {x}, call : Listings(x), at : DOMAIN fam[x]]
  BY DEF KindShowings
<1>2. \A x : s \in [kind : {kind}, obj : {x}, call : Listings(x), at : DOMAIN fam[x]] <=>
        /\ s = [kind |-> kind, obj |-> s.obj, call |-> s.call, at |-> s.at]
        /\ s.obj = x /\ s.call \in Listings(x) /\ s.at \in DOMAIN fam[x]
  OBVIOUS
<1> QED
  BY <1>1, <1>2

LEMMA CollectEnumerates ==
    ASSUME NEW lists, NEW objs, NEW m, NEW fam, NEW kind, ListsAll(lists, objs),
           \A x \in objs : m[x] \in Seq(SliceEndpoint) /\ Enumerates(m[x], fam[x])
    PROVE  /\ Collect(lists, m) \in Seq(SliceEndpoint)
           /\ Enumerates(Collect(lists, m), KindFamily(kind, objs, fam))
<1> DEFINE N == Len(Calls)
           ss == [n \in DOMAIN lists |-> FlattenSeq(Rows(lists[n], m))]
           G == [n \in DOMAIN lists |-> Family(Rows(lists[n], fam), Len(lists[n]))]
<1>1. N \in Nat /\ DOMAIN lists = 1 .. N
  BY DEF ListsAll
<1>2. ASSUME NEW n \in 1 .. N
      PROVE  /\ FlattenSeq(Rows(lists[n], m)) \in Seq(SliceEndpoint)
             /\ Enumerates(FlattenSeq(Rows(lists[n], m)), Family(Rows(lists[n], fam), Len(lists[n])))
  <2> DEFINE items == lists[n]
             tt == Rows(items, m)
             H == Rows(items, fam)
  <2>1. /\ DOMAIN items = 1 .. Len(items) /\ Len(items) \in Nat
        /\ \A i \in 1 .. Len(items) : items[i] \in objs
    BY DEF ListsAll
  <2> HIDE DEF items
  <2>2. /\ tt = [i \in 1 .. Len(items) |-> tt[i]]
        /\ \A i \in 1 .. Len(items) : tt[i] = m[items[i]] /\ H[i] = fam[items[i]]
    BY <2>1 DEF Rows
  <2> HIDE DEF tt, H
  <2>3. \A i \in 1 .. Len(items) : tt[i] \in Seq(SliceEndpoint) /\ Enumerates(tt[i], H[i])
    BY <2>1, <2>2
  <2>4. tt \in Seq(Seq(SliceEndpoint)) /\ Len(tt) = Len(items) /\ DOMAIN tt = 1 .. Len(items)
    BY <2>1, <2>2, <2>3, IsSequence
  <2>5. FlattenSeq(tt) \in Seq(SliceEndpoint) /\ Enumerates(FlattenSeq(tt), Family(H, Len(tt)))
    BY <2>3, <2>4, FlattenEnumerates
  <2> QED
    BY <2>4, <2>5 DEF tt, H, items
<1>3. /\ ss = [n \in 1 .. N |-> ss[n]]
      /\ \A n \in 1 .. N : /\ ss[n] = FlattenSeq(Rows(lists[n], m))
                           /\ G[n] = Family(Rows(lists[n], fam), Len(lists[n]))
  BY <1>1
<1>4. Collect(lists, m) = FlattenSeq(ss)
  BY DEF Collect
<1> HIDE DEF ss, G, N
<1>5. \A n \in 1 .. N : ss[n] \in Seq(SliceEndpoint) /\ Enumerates(ss[n], G[n])
  BY <1>2, <1>3
<1>6. ss \in Seq(Seq(SliceEndpoint)) /\ Len(ss) = N /\ DOMAIN ss = 1 .. N
  BY <1>1, <1>3, <1>5, IsSequence
<1>7. FlattenSeq(ss) \in Seq(SliceEndpoint) /\ Enumerates(FlattenSeq(ss), Family(G, N))
  BY <1>5, <1>6, FlattenEnumerates
<1> DEFINE g == Family(G, N)
           other == KindFamily(kind, objs, fam)
           Index(n, x) == CHOOSE i \in 1 .. Len(lists[n]) : lists[n][i] = x
           h == [s \in DOMAIN other |-> <<s.call, <<Index(s.call, s.obj), s.at>>>>]
<1>8. /\ \A x \in objs : Listings(x) \subseteq 1 .. N
      /\ \A n \in 1 .. N : \A x \in objs :
            n \in Listings(x) => /\ Index(n, x) \in 1 .. Len(lists[n])
                                 /\ lists[n][Index(n, x)] = x
      /\ \A n \in 1 .. N : \A i \in 1 .. Len(lists[n]) :
            /\ lists[n][i] \in objs /\ n \in Listings(lists[n][i])
            /\ Index(n, lists[n][i]) = i
  BY DEF ListsAll, N
<1> HIDE DEF Index
<1>9. \A n \in 1 .. N : \A q : q \in DOMAIN G[n] <=>
         q = <<q[1], q[2]>> /\ q[1] \in 1 .. Len(lists[n]) /\ q[2] \in DOMAIN fam[lists[n][q[1]]]
  <2> TAKE n \in 1 .. N
  <2> DEFINE H == Rows(lists[n], fam)
  <2>1. DOMAIN lists[n] = 1 .. Len(lists[n])
    BY DEF ListsAll, N
  <2>2. \A i \in 1 .. Len(lists[n]) : H[i] = fam[lists[n][i]]
    BY <2>1 DEF Rows
  <2>3. G[n] = Family(H, Len(lists[n]))
    BY <1>3
  <2> HIDE DEF H
  <2> QED
    BY <2>2, <2>3, PairsAre
<1>10. \A n \in 1 .. N : \A q \in DOMAIN G[n] : G[n][q] = fam[lists[n][q[1]]][q[2]]
  <2> TAKE n \in 1 .. N
  <2> DEFINE H == Rows(lists[n], fam)
  <2>1. DOMAIN lists[n] = 1 .. Len(lists[n])
    BY DEF ListsAll, N
  <2>2. \A i \in 1 .. Len(lists[n]) : H[i] = fam[lists[n][i]]
    BY <2>1 DEF Rows
  <2>3. G[n] = Family(H, Len(lists[n]))
    BY <1>3
  <2> HIDE DEF H
  <2> QED
    BY <2>2, <2>3, PairsAre
<1>11. \A p : p \in DOMAIN g <=> p = <<p[1], p[2]>> /\ p[1] \in 1 .. N /\ p[2] \in DOMAIN G[p[1]]
  BY PairsAre
<1>12. \A p \in DOMAIN g : g[p] = G[p[1]][p[2]]
  BY PairsAre
<1>13. \A s : s \in DOMAIN other <=>
             /\ s = [kind |-> kind, obj |-> s.obj, call |-> s.call, at |-> s.at]
             /\ s.obj \in objs /\ s.call \in Listings(s.obj) /\ s.at \in DOMAIN fam[s.obj]
  BY KindShowing DEF KindFamily
<1>14. \A s \in DOMAIN other : other[s] = fam[s.obj][s.at]
  BY DEF KindFamily
<1>15. Collect(lists, m) = FlattenSeq(ss)
  BY <1>4
<1> HIDE DEF g, other
<1>16. /\ DOMAIN h = DOMAIN other /\ h = [s \in DOMAIN other |-> h[s]]
       /\ \A s \in DOMAIN other : h[s] = <<s.call, <<Index(s.call, s.obj), s.at>>>>
  OBVIOUS
<1> HIDE DEF h
<1>17. ASSUME NEW s \in DOMAIN other
       PROVE  /\ h[s] \in DOMAIN g
              /\ lists[h[s][1]][h[s][2][1]] = s.obj /\ h[s][1] = s.call /\ h[s][2][2] = s.at
              /\ other[s] = g[h[s]]
  <2>1. s.obj \in objs /\ s.call \in Listings(s.obj) /\ s.at \in DOMAIN fam[s.obj]
    BY <1>13
  <2>2. /\ s.call \in 1 .. N /\ Index(s.call, s.obj) \in 1 .. Len(lists[s.call])
        /\ lists[s.call][Index(s.call, s.obj)] = s.obj
    BY <2>1, <1>8
  <2>3. <<Index(s.call, s.obj), s.at>> \in DOMAIN G[s.call]
    BY <2>1, <2>2, <1>9
  <2>4. h[s] = <<s.call, <<Index(s.call, s.obj), s.at>>>> /\ h[s] \in DOMAIN g
    BY <2>2, <2>3, <1>11, <1>16
  <2>5. g[h[s]] = G[s.call][<<Index(s.call, s.obj), s.at>>]
    BY <2>4, <1>12
  <2>6. G[s.call][<<Index(s.call, s.obj), s.at>>] = fam[s.obj][s.at]
    BY <2>2, <2>3, <1>10
  <2> QED
    BY <2>2, <2>4, <2>5, <2>6, <1>14
<1>18. h \in [DOMAIN other -> DOMAIN g]
  BY <1>16, <1>17
<1>19. ASSUME NEW s \in DOMAIN other, NEW t \in DOMAIN other, h[s] = h[t] PROVE s = t
  <2>1. s.obj = t.obj /\ s.call = t.call /\ s.at = t.at
    BY <1>17, <1>19
  <2> QED
    BY <2>1, <1>13
<1>20. ASSUME NEW p \in DOMAIN g PROVE \E s \in DOMAIN other : h[s] = p
  <2> DEFINE n == p[1]
             i == p[2][1]
             x == lists[n][i]
             s == [kind |-> kind, obj |-> x, call |-> n, at |-> p[2][2]]
  <2>1. p = <<n, p[2]>> /\ n \in 1 .. N /\ p[2] \in DOMAIN G[n]
    BY <1>11
  <2>2. p[2] = <<i, p[2][2]>> /\ i \in 1 .. Len(lists[n]) /\ p[2][2] \in DOMAIN fam[x]
    BY <2>1, <1>9
  <2>3. x \in objs /\ n \in Listings(x) /\ Index(n, x) = i
    BY <2>1, <2>2, <1>8
  <2>4. s.kind = kind /\ s.obj = x /\ s.call = n /\ s.at = p[2][2]
    OBVIOUS
  <2>5. s = [kind |-> kind, obj |-> s.obj, call |-> s.call, at |-> s.at]
    OBVIOUS
  <2> HIDE DEF s, x, i, n
  <2>6. s \in DOMAIN other
    BY <2>2, <2>3, <2>4, <2>5, <1>13
  <2>7. h[s] = <<n, <<i, p[2][2]>>>>
    BY <2>3, <2>4, <2>6, <1>16
  <2> QED
    BY <2>1, <2>2, <2>6, <2>7
<1>21. Renames(h, other, g)
  BY <1>17, <1>18, <1>19, <1>20 DEF Renames
<1> QED
  BY <1>7, <1>15, <1>21, RenamedEnumerates DEF g, other

-----------------------------------------------------------------------------
(* The collected slice. *)

StateOK == ingresses \in IngressChoice /\ routes \in HTTPRouteChoice /\ NamespacesOK

\* The endpoint that is built for a showing.
Shown(annotationKey) ==
    [s \in Showings |-> IF s.kind = "Ingress" THEN IngressAt(s.obj, annotationKey, s.at)
                        ELSE RouteAt(s.obj, annotationKey, s.at)]

LEMMA StateObjects ==
    ASSUME StateOK
    PROVE  /\ ingresses \subseteq Ingress /\ routes \subseteq HTTPRoute
           /\ Objects(ingresses) /\ Objects(routes)
           /\ \A x \in ingresses \cup routes : x.ns \in Namespace
<1>1. ingresses \subseteq Ingress /\ routes \subseteq HTTPRoute /\ Objects(ingresses) /\ Objects(routes)
  BY ObjectAssumption DEF StateOK
<1>2. \A x \in Ingress : x.ns \in Namespace
  BY DEF Ingress
<1>3. \A x \in HTTPRoute : x.ns \in Namespace
  BY DEF HTTPRoute
<1> QED
  BY <1>1, <1>2, <1>3

LEMMA ShowingIs ==
    ASSUME NEW s
    PROVE  s \in Showings <=>
             /\ s = [kind |-> s.kind, obj |-> s.obj, call |-> s.call, at |-> s.at]
             /\ s.call \in Listings(s.obj)
             /\ \/ s.kind = "Ingress" /\ s.obj \in ingresses /\ s.at \in IngressPlaces(s.obj)
                \/ s.kind = "HTTPRoute" /\ s.obj \in routes /\ s.at \in RoutePlaces(s.obj)
<1>1. s \in Showings <=>
        \/ \E x \in ingresses : s \in [kind : {"Ingress"}, obj : {x}, call : Listings(x), at : IngressPlaces(x)]
        \/ \E x \in routes : s \in [kind : {"HTTPRoute"}, obj : {x}, call : Listings(x), at : RoutePlaces(x)]
  <2> DEFINE P == {[kind : {"Ingress"}, obj : {x}, call : Listings(x), at : IngressPlaces(x)] : x \in ingresses}
             Q == {[kind : {"HTTPRoute"}, obj : {x}, call : Listings(x), at : RoutePlaces(x)] : x \in routes}
  <2>1. s \in UNION P <=> \E x \in ingresses :
           s \in [kind : {"Ingress"}, obj : {x}, call : Listings(x), at : IngressPlaces(x)]
    OBVIOUS
  <2>2. s \in UNION Q <=> \E x \in routes :
           s \in [kind : {"HTTPRoute"}, obj : {x}, call : Listings(x), at : RoutePlaces(x)]
    OBVIOUS
  <2>3. Showings = UNION (P \cup Q)
    BY DEF Showings
  <2> HIDE DEF P, Q
  <2>4. s \in Showings <=> s \in UNION P \/ s \in UNION Q
    BY <2>3
  <2> QED
    BY <2>1, <2>2, <2>4
<1>2. \A x, places, k : s \in [kind : {k}, obj : {x}, call : Listings(x), at : places] <=>
        /\ s = [kind |-> s.kind, obj |-> s.obj, call |-> s.call, at |-> s.at]
        /\ s.kind = k /\ s.obj = x /\ s.call \in Listings(x) /\ s.at \in places
  OBVIOUS
<1> QED
  BY <1>1, <1>2

\* The endpoint of a showing is the one that shows it.
LEMMA ShownShows ==
    ASSUME StateOK, NEW annotationKey, NEW s \in Showings, NEW e, e = Shown(annotationKey)[s]
    PROVE  /\ e \in SliceEndpoint /\ e.id \in EndpointId
           /\ e.path = (annotationKey \in s.obj.annotations) /\ e.health = "Unknown"
           /\ \A id \in EndpointId : Shows(id, s) <=> id = e.id
<1>1. e = IF s.kind = "Ingress" THEN IngressAt(s.obj, annotationKey, s.at)
          ELSE RouteAt(s.obj, annotationKey, s.at)
  BY DEF Shown
<1>2. CASE s.kind = "Ingress"
  <2>1. s.obj \in Ingress /\ s.at \in IngressPlaces(s.obj)
    BY <1>2, ShowingIs, StateObjects
  <2>2. e = IngressAt(s.obj, annotationKey, s.at)
    BY <1>1, <1>2
  <2>3. \A id : Shows(id, s) <=>
           id.source = [kind |-> "Ingress", ns |-> s.obj.ns, name |-> s.obj.name]
             /\ ShowsPath(id, s.obj, s.at)
    BY <1>2 DEF Shows
  <2> QED
    BY <2>1, <2>2, <2>3, IngressAtShows
<1>3. CASE s.kind # "Ingress"
  <2>1. s.kind = "HTTPRoute" /\ s.obj \in HTTPRoute /\ s.at \in RoutePlaces(s.obj)
    BY <1>3, ShowingIs, StateObjects
  <2>2. e = RouteAt(s.obj, annotationKey, s.at)
    BY <1>1, <1>3
  <2>3. \A id : Shows(id, s) <=>
           id.source = [kind |-> "HTTPRoute", ns |-> s.obj.ns, name |-> s.obj.name]
             /\ ShowsMatch(id, s.obj, s.at)
    BY <2>1 DEF Shows
  <2> QED
    BY <2>1, <2>2, <2>3, RouteAtShows
<1> QED
  BY <1>2, <1>3

LEMMA IngressesCollected ==
    ASSUME StateOK, NEW annotationKey, NEW ings \in Answers(ingresses), NEW fam,
           fam = [x \in ingresses |-> IngressFamily(x, annotationKey)]
    PROVE  /\ collectIngresses(ings, annotationKey) \in Seq(SliceEndpoint)
           /\ Enumerates(collectIngresses(ings, annotationKey), KindFamily("Ingress", ingresses, fam))
<1> DEFINE m == [x \in ingresses |-> IngressToEndpoints(x, annotationKey)]
<1>1. ListsAll(ings, ingresses)
  BY StateObjects, AnswersList DEF StateOK, Objects
<1>2. \A x \in ingresses : m[x] \in Seq(SliceEndpoint) /\ Enumerates(m[x], fam[x])
  BY StateObjects, IngressEnumerates
<1>3. \A n \in DOMAIN ings : mapIngresses(ings[n], annotationKey) = FlattenSeq(Rows(ings[n], m))
  <2> TAKE n \in DOMAIN ings
  <2>1. \A i \in DOMAIN ings[n] : ings[n][i] \in ingresses
    BY <1>1 DEF ListsAll
  <2>2. [i \in DOMAIN ings[n] |-> IngressToEndpoints(ings[n][i], annotationKey)] = Rows(ings[n], m)
    BY <2>1 DEF Rows
  <2> QED
    BY <2>2 DEF mapIngresses
<1>4. collectIngresses(ings, annotationKey) = Collect(ings, m)
  <2>1. [n \in DOMAIN ings |-> mapIngresses(ings[n], annotationKey)]
          = [n \in DOMAIN ings |-> FlattenSeq(Rows(ings[n], m))]
    BY <1>3, Zenon
  <2> QED
    BY <2>1 DEF collectIngresses, Collect
<1> HIDE DEF m
<1> QED
  BY <1>1, <1>2, <1>4, CollectEnumerates

LEMMA RoutesCollected ==
    ASSUME StateOK, NEW annotationKey, NEW rts \in Answers(routes), NEW fam,
           fam = [x \in routes |-> RouteFamily(x, annotationKey)]
    PROVE  /\ collectHTTPRoutes(rts, annotationKey) \in Seq(SliceEndpoint)
           /\ Enumerates(collectHTTPRoutes(rts, annotationKey), KindFamily("HTTPRoute", routes, fam))
<1> DEFINE m == [x \in routes |-> HTTPRouteToEndpoints(x, annotationKey)]
<1>1. ListsAll(rts, routes)
  BY StateObjects, AnswersList DEF StateOK, Objects
<1>2. \A x \in routes : m[x] \in Seq(SliceEndpoint) /\ Enumerates(m[x], fam[x])
  BY StateObjects, RouteEnumerates
<1>3. \A n \in DOMAIN rts : mapHTTPRoutes(rts[n], annotationKey) = FlattenSeq(Rows(rts[n], m))
  <2> TAKE n \in DOMAIN rts
  <2>1. \A i \in DOMAIN rts[n] : rts[n][i] \in routes
    BY <1>1 DEF ListsAll
  <2>2. [i \in DOMAIN rts[n] |-> HTTPRouteToEndpoints(rts[n][i], annotationKey)] = Rows(rts[n], m)
    BY <2>1 DEF Rows
  <2> QED
    BY <2>2 DEF mapHTTPRoutes
<1>4. collectHTTPRoutes(rts, annotationKey) = Collect(rts, m)
  <2>1. [n \in DOMAIN rts |-> mapHTTPRoutes(rts[n], annotationKey)]
          = [n \in DOMAIN rts |-> FlattenSeq(Rows(rts[n], m))]
    BY <1>3, Zenon
  <2> QED
    BY <2>1 DEF collectHTTPRoutes, Collect
<1> HIDE DEF m
<1> QED
  BY <1>1, <1>2, <1>4, CollectEnumerates

\* A collected slice has one endpoint for each showing, and no other.
LEMMA BuiltEnumerates ==
    ASSUME StateOK, NEW annotationKey, NEW built \in Builds(annotationKey)
    PROVE  built \in Seq(SliceEndpoint) /\ Enumerates(built, Shown(annotationKey))
<1> DEFINE ifam == [x \in ingresses |-> IngressFamily(x, annotationKey)]
           rfam == [x \in routes |-> RouteFamily(x, annotationKey)]
           ga == KindFamily("Ingress", ingresses, ifam)
           gb == KindFamily("HTTPRoute", routes, rfam)
<1>1. PICK ings \in Answers(ingresses), rts \in Answers(routes) :
         built = collectIngresses(ings, annotationKey) \o collectHTTPRoutes(rts, annotationKey)
  BY DEF Builds
<1>2. \A s : s \in DOMAIN ga <=>
         /\ s = [kind |-> "Ingress", obj |-> s.obj, call |-> s.call, at |-> s.at]
         /\ s.obj \in ingresses /\ s.call \in Listings(s.obj) /\ s.at \in IngressPlaces(s.obj)
  <2>1. \A x \in ingresses : DOMAIN ifam[x] = IngressPlaces(x)
    BY DEF IngressFamily
  <2> HIDE DEF ifam
  <2> QED
    BY <2>1, KindShowing DEF KindFamily
<1>3. \A s : s \in DOMAIN gb <=>
         /\ s = [kind |-> "HTTPRoute", obj |-> s.obj, call |-> s.call, at |-> s.at]
         /\ s.obj \in routes /\ s.call \in Listings(s.obj) /\ s.at \in RoutePlaces(s.obj)
  <2>1. \A x \in routes : DOMAIN rfam[x] = RoutePlaces(x)
    BY DEF RouteFamily
  <2> HIDE DEF rfam
  <2> QED
    BY <2>1, KindShowing DEF KindFamily
<1>4. \A s \in DOMAIN ga : ga[s] = IngressAt(s.obj, annotationKey, s.at)
  BY <1>2 DEF KindFamily, IngressFamily
<1>5. \A s \in DOMAIN gb : gb[s] = RouteAt(s.obj, annotationKey, s.at)
  BY <1>3 DEF KindFamily, RouteFamily
<1>6. ASSUME NEW a, NEW b, a = collectIngresses(ings, annotationKey), b = collectHTTPRoutes(rts, annotationKey)
      PROVE  a \in Seq(SliceEndpoint) /\ b \in Seq(SliceEndpoint) /\ Enumerates(a, ga) /\ Enumerates(b, gb)
  BY <1>1, <1>6, IngressesCollected, RoutesCollected
<1> HIDE DEF ga, gb
<1>7. \A s \in DOMAIN ga : s.kind = "Ingress"
  BY <1>2
<1>8. \A s \in DOMAIN gb : s.kind = "HTTPRoute"
  BY <1>3
<1>9. \A s \in Showings : (s.kind = "Ingress" => s \in DOMAIN ga) /\ (s.kind # "Ingress" => s \in DOMAIN gb)
  BY <1>2, <1>3, ShowingIs
<1>10. \A s : (s \in DOMAIN ga => s \in Showings) /\ (s \in DOMAIN gb => s \in Showings)
  <2>1. \A s \in DOMAIN ga : s = [kind |-> s.kind, obj |-> s.obj, call |-> s.call, at |-> s.at]
    BY <1>2, <1>7
  <2>2. \A s \in DOMAIN gb : s = [kind |-> s.kind, obj |-> s.obj, call |-> s.call, at |-> s.at]
    BY <1>3, <1>8
  <2> QED
    BY <1>2, <1>3, <1>7, <1>8, <2>1, <2>2, ShowingIs
<1>11. DOMAIN Shown(annotationKey) = Showings
  BY DEF Shown
<1>12. Joins(Shown(annotationKey), ga, gb)
  <2>1. DOMAIN ga \cap DOMAIN gb = {}
    BY <1>7, <1>8
  <2>2. DOMAIN Shown(annotationKey) = DOMAIN ga \cup DOMAIN gb
    BY <1>9, <1>10, <1>11
  <2>3. \A s \in DOMAIN ga : Shown(annotationKey)[s] = ga[s]
    BY <1>4, <1>7, <1>10 DEF Shown
  <2>4. \A s \in DOMAIN gb : Shown(annotationKey)[s] = gb[s]
    BY <1>5, <1>8, <1>10 DEF Shown
  <2> QED
    BY <2>1, <2>2, <2>3, <2>4 DEF Joins
<1> QED
  BY <1>1, <1>6, <1>12, ConcatEnumerates

\* Where the values of a function are in a set.
Where(f, X) == {s \in DOMAIN f : f[s] \in X}

\* As many members of the family as of the sequence are in any one set.
LEMMA CountEnumerated ==
    ASSUME NEW seq, NEW g, IsFiniteSet(DOMAIN seq), Enumerates(seq, g), NEW X
    PROVE  Cardinality(Where(g, X)) = Cardinality(Where(seq, X))
<1> DEFINE S == Where(g, X)
           J == Where(seq, X)
<1> USE DEF Where
<1>1. PICK f \in [DOMAIN g -> DOMAIN seq] :
        /\ \A s, t \in DOMAIN g : f[s] = f[t] => s = t
        /\ \A i \in DOMAIN seq : \E s \in DOMAIN g : f[s] = i
        /\ \A s \in DOMAIN g : seq[f[s]] = g[s]
  BY DEF Enumerates
<1> DEFINE r == [s \in S |-> f[s]]
<1>2. r \in [S -> J] /\ \A s \in S : r[s] = f[s]
  BY <1>1
<1>3. \A j \in J : \E s \in S : r[s] = j
  BY <1>1
<1>4. \A s, t \in S : r[s] = r[t] => s = t
  BY <1>1
<1>5. IsFiniteSet(J)
  BY FS_Subset
<1> HIDE DEF r, S, J, Where
<1>6. r \in Injection(S, J) /\ r \in Surjection(S, J)
  BY <1>2, <1>3, <1>4 DEF Injection, IsInjective, Surjection
<1>7. IsFiniteSet(S) /\ Cardinality(S) = Cardinality(J)
  BY <1>5, <1>6, FS_Injection
<1> QED
  BY <1>7 DEF S, J

LEMMA PlacesCounted == StateOK => EachPlaceShown
<1> SUFFICES ASSUME StateOK, NEW annotationKey \in AnnotationKey, NEW built \in Builds(annotationKey)
             PROVE  /\ Len(built) = Cardinality(Showings)
                    /\ \A i \in DOMAIN built :
                          Cardinality({j \in DOMAIN built : built[j].id = built[i].id})
                             = Cardinality({s \in Showings : Shows(built[i].id, s)})
  BY DEF EachPlaceShown
<1> DEFINE g == Shown(annotationKey)
<1>1. built \in Seq(SliceEndpoint) /\ Enumerates(built, g)
  BY BuiltEnumerates
<1>2. DOMAIN g = Showings
  BY DEF Shown
<1>3. \A s \in Showings : /\ g[s] \in SliceEndpoint
                          /\ \A id \in EndpointId : Shows(id, s) <=> id = g[s].id
  BY ShownShows
<1> HIDE DEF g
<1>4. /\ DOMAIN built = 1 .. Len(built) /\ Len(built) \in Nat
      /\ \A j \in DOMAIN built : built[j] \in SliceEndpoint /\ built[j].id \in EndpointId
  <2>1. \A j \in DOMAIN built : built[j] \in SliceEndpoint
    BY <1>1
  <2> QED
    BY <1>1, <2>1 DEF SliceEndpoint
<1>5. IsFiniteSet(DOMAIN built) /\ Cardinality(DOMAIN built) = Len(built)
  BY <1>4, FS_Interval
<1>6. Len(built) = Cardinality(Showings)
  <2>1. Where(g, SliceEndpoint) = Showings
    BY <1>2, <1>3 DEF Where
  <2>2. Where(built, SliceEndpoint) = DOMAIN built
    BY <1>4 DEF Where
  <2>3. Cardinality(Where(g, SliceEndpoint))
           = Cardinality(Where(built, SliceEndpoint))
    BY <1>1, <1>5, CountEnumerated
  <2> QED
    BY <1>5, <2>1, <2>2, <2>3
<1>7. ASSUME NEW i \in DOMAIN built
      PROVE  Cardinality({j \in DOMAIN built : built[j].id = built[i].id})
                = Cardinality({s \in Showings : Shows(built[i].id, s)})
  <2> DEFINE X == {e \in SliceEndpoint : e.id = built[i].id}
  <2>1. Where(g, X) = {s \in Showings : Shows(built[i].id, s)}
    BY <1>2, <1>3, <1>4 DEF Where
  <2>2. Where(built, X) = {j \in DOMAIN built : built[j].id = built[i].id}
    BY <1>4 DEF Where
  <2> HIDE DEF X
  <2>3. Cardinality(Where(g, X)) = Cardinality(Where(built, X))
    BY <1>1, <1>5, CountEnumerated
  <2> QED
    BY <2>1, <2>2, <2>3
<1> QED
  BY <1>6, <1>7

\* The objects of the cluster and what the Routemap selects keep their types.
LEMMA StateOKAlways == Spec => []StateOK
<1>1. Init => StateOK
  BY InventoryAssumption DEF Init, StateOK, NamespacesOK
<1>2. StateOK /\ [Next]_vars => StateOK'
  <2> SUFFICES ASSUME StateOK, [Next]_vars PROVE StateOK'
    OBVIOUS
  <2>1. CASE Edit
    BY <2>1, InventoryAssumption DEF Edit, StateOK, NamespacesOK
  <2>2. CASE UNCHANGED <<ingresses, routes, namespaces>>
    BY <2>2 DEF StateOK, NamespacesOK
  <2> QED
    BY <2>1, <2>2 DEF Next, Reconcile, Withdraw, Probe, UpdateEndpointHealth, vars
<1> QED
  BY <1>1, <1>2, PTL DEF Spec

(***************************************************************************)
(* A reconcile builds one endpoint for each place of each object of the    *)
(* namespaces it lists, with the port read back from its text, and none    *)
(* besides, for all objects and all orders of the List answers             *)
(* (collectIngresses, collectHTTPRoutes, IngressToEndpoints,               *)
(* HTTPRouteToEndpoints).                                                  *)
(***************************************************************************)
THEOREM PlacesShown == Spec => []EachPlaceShown
  BY StateOKAlways, PlacesCounted, PTL

-----------------------------------------------------------------------------
(* The slices as views. *)

(***************************************************************************)
(* What the slice keeps: endpoints of the objects, one health for all the  *)
(* endpoints of a source ref, and one health path flag for equal ones.     *)
(***************************************************************************)
SliceOK ==
    /\ slice \in Seq(SliceEndpoint) \cup {Nil}
    /\ slice # Nil =>
          /\ \A i \in DOMAIN slice : slice[i].id \in Endpoint
          /\ \A i, j \in DOMAIN slice :
                /\ Ref(slice[i]) = Ref(slice[j]) => slice[i].health = slice[j].health
                /\ slice[i].id = slice[j].id => slice[i].path = slice[j].path

LEMMA MinIn ==
    ASSUME NEW S, S \subseteq Nat, S # {}
    PROVE  Min(S) \in S
  BY Least, Zenon DEF Min

LEMMA MaxIn ==
    ASSUME NEW S, NEW n \in Nat, S \subseteq 1 .. n, S # {}
    PROVE  Max(S) \in S
<1> DEFINE D == {n - x : x \in S}
<1>0. \A x \in S : x \in Nat /\ n - x \in Nat /\ n - x \in D
  OBVIOUS
<1>1. D \subseteq Nat /\ D # {}
  BY <1>0
<1>2. PICK d \in D : \A y \in D : d <= y
  BY <1>1, Least
<1>3. PICK x \in S : d = n - x
  BY <1>2
<1>4. \A y \in S : x >= y
  <2> TAKE y \in S
  <2>1. n - x <= n - y
    BY <1>0, <1>2, <1>3
  <2> QED
    BY <1>0, <2>1
<1> QED
  BY <1>3, <1>4 DEF Max

\* What identifies an endpoint does not depend on the annotation key.
LEMMA IdOfPlace ==
    ASSUME NEW annotationKey, NEW other
    PROVE  /\ \A ing, at : IngressAt(ing, annotationKey, at).id = IngressAt(ing, other, at).id
           /\ \A route, at : RouteAt(route, annotationKey, at).id = RouteAt(route, other, at).id
<1>1. \A k, x, h, p, t, tls, b : NewEndpoint(k, x, annotationKey, h, p, t, tls, b).id
                                   = NewEndpoint(k, x, other, h, p, t, tls, b).id
  BY DEF NewEndpoint
<1>2. \A ing, at : IngressAt(ing, annotationKey, at).id = IngressAt(ing, other, at).id
  BY <1>1 DEF IngressAt
<1>3. \A route, at : RouteAt(route, annotationKey, at).id = RouteAt(route, other, at).id
  BY DEF RouteAt, NewEndpoint
<1> QED
  BY <1>2, <1>3

LEMMA EndpointOfPlace ==
    ASSUME NEW annotationKey
    PROVE  /\ \A ing \in UNION IngressChoice : \A at \in IngressPlaces(ing) :
                 IngressAt(ing, annotationKey, at).id \in Endpoint
           /\ \A route \in UNION HTTPRouteChoice : \A at \in RoutePlaces(route) :
                 RouteAt(route, annotationKey, at).id \in Endpoint
<1>1. ASSUME NEW ing \in UNION IngressChoice, NEW at \in IngressPlaces(ing)
      PROVE  IngressAt(ing, annotationKey, at).id \in Endpoint
  <2>1. ing \in Ingress
    BY ObjectAssumption
  <2>2. Enumerates(IngressToEndpoints(ing, AnyKey), IngressFamily(ing, AnyKey))
    BY <2>1, IngressEnumerates
  <2>3. /\ DOMAIN IngressFamily(ing, AnyKey) = IngressPlaces(ing)
        /\ IngressFamily(ing, AnyKey)[at] = IngressAt(ing, AnyKey, at)
    BY DEF IngressFamily
  <2>4. IngressAt(ing, AnyKey, at) \in ToSet(IngressToEndpoints(ing, AnyKey))
    BY <2>2, <2>3 DEF Enumerates, ToSet
  <2>5. IngressAt(ing, AnyKey, at).id \in Endpoint
    BY <2>4 DEF Endpoint
  <2> QED
    BY <2>5, IdOfPlace
<1>2. ASSUME NEW route \in UNION HTTPRouteChoice, NEW at \in RoutePlaces(route)
      PROVE  RouteAt(route, annotationKey, at).id \in Endpoint
  <2>1. route \in HTTPRoute
    BY ObjectAssumption
  <2>2. Enumerates(HTTPRouteToEndpoints(route, AnyKey), RouteFamily(route, AnyKey))
    BY <2>1, RouteEnumerates
  <2>3. /\ DOMAIN RouteFamily(route, AnyKey) = RoutePlaces(route)
        /\ RouteFamily(route, AnyKey)[at] = RouteAt(route, AnyKey, at)
    BY DEF RouteFamily
  <2>4. RouteAt(route, AnyKey, at) \in ToSet(HTTPRouteToEndpoints(route, AnyKey))
    BY <2>2, <2>3 DEF Enumerates, ToSet
  <2>5. RouteAt(route, AnyKey, at).id \in Endpoint
    BY <2>4 DEF Endpoint
  <2> QED
    BY <2>5, IdOfPlace
<1> QED
  BY <1>1, <1>2

LEMMA EndpointIds == Endpoint \subseteq EndpointId
<1>1. \A ep \in SliceEndpoint : ep.id \in EndpointId
  BY DEF SliceEndpoint
<1>2. \A x \in UNION IngressChoice : ToSet(IngressToEndpoints(x, AnyKey)) \subseteq SliceEndpoint
  <2> TAKE x \in UNION IngressChoice
  <2>1. IngressToEndpoints(x, AnyKey) \in Seq(SliceEndpoint)
    BY ObjectAssumption, IngressEnumerates
  <2> QED
    BY <2>1 DEF ToSet
<1>3. \A x \in UNION HTTPRouteChoice : ToSet(HTTPRouteToEndpoints(x, AnyKey)) \subseteq SliceEndpoint
  <2> TAKE x \in UNION HTTPRouteChoice
  <2>1. HTTPRouteToEndpoints(x, AnyKey) \in Seq(SliceEndpoint)
    BY ObjectAssumption, RouteEnumerates
  <2> QED
    BY <2>1 DEF ToSet
<1> QED
  BY <1>1, <1>2, <1>3 DEF Endpoint

\* What is built: its endpoints, and the showings behind each.
BuiltIs(built, annotationKey) ==
    /\ built \in Seq(SliceEndpoint)
    /\ \A i \in DOMAIN built : \E s \in Showings : built[i] = Shown(annotationKey)[s]
    /\ \A s \in Showings : \E i \in DOMAIN built : built[i] = Shown(annotationKey)[s]

\* The showings of one endpoint are places of one object.
LEMMA ShowingsOfId ==
    ASSUME StateOK, NEW annotationKey
    PROVE  /\ \A s \in Showings : /\ Shown(annotationKey)[s].id \in Endpoint
                                  /\ Shown(annotationKey)[s] \in SliceEndpoint
                                  /\ Shown(annotationKey)[s].health = "Unknown"
                                  /\ Shown(annotationKey)[s].path = (annotationKey \in s.obj.annotations)
                                  /\ \A e \in Endpoint : Shows(e, s) <=> e = Shown(annotationKey)[s].id
           /\ \A s, t \in Showings :
                 Shown(annotationKey)[s].id = Shown(annotationKey)[t].id => s.obj = t.obj
<1>1. ASSUME NEW s \in Showings PROVE Shown(annotationKey)[s].id \in Endpoint
  <2>1. CASE s.kind = "Ingress"
    <3>1. s.obj \in UNION IngressChoice /\ s.at \in IngressPlaces(s.obj)
      BY <2>1, ShowingIs DEF StateOK
    <3>2. Shown(annotationKey)[s] = IngressAt(s.obj, annotationKey, s.at)
      BY <2>1 DEF Shown
    <3> QED
      BY <3>1, <3>2, EndpointOfPlace
  <2>2. CASE s.kind # "Ingress"
    <3>1. s.obj \in UNION HTTPRouteChoice /\ s.at \in RoutePlaces(s.obj)
      BY <2>2, ShowingIs DEF StateOK
    <3>2. Shown(annotationKey)[s] = RouteAt(s.obj, annotationKey, s.at)
      BY <2>2 DEF Shown
    <3> QED
      BY <3>1, <3>2, EndpointOfPlace
  <2> QED
    BY <2>1, <2>2
<1>2. ASSUME NEW s \in Showings, NEW e, e = Shown(annotationKey)[s]
      PROVE  /\ e \in SliceEndpoint /\ e.health = "Unknown"
             /\ e.path = (annotationKey \in s.obj.annotations)
             /\ \A id \in Endpoint : Shows(id, s) <=> id = e.id
             /\ e.id.source = [kind |-> s.kind, ns |-> s.obj.ns, name |-> s.obj.name]
  <2>1. /\ e \in SliceEndpoint /\ e.id \in EndpointId /\ e.health = "Unknown"
        /\ e.path = (annotationKey \in s.obj.annotations)
        /\ \A id \in EndpointId : Shows(id, s) <=> id = e.id
    BY <1>2, ShownShows
  <2>2. Shows(e.id, s)
    BY <2>1
  <2> QED
    BY <2>1, <2>2, EndpointIds DEF Shows
<1>3. ASSUME NEW s \in Showings, NEW t \in Showings,
             Shown(annotationKey)[s].id = Shown(annotationKey)[t].id
      PROVE  s.obj = t.obj
  <2> DEFINE a == [kind |-> s.kind, ns |-> s.obj.ns, name |-> s.obj.name]
             b == [kind |-> t.kind, ns |-> t.obj.ns, name |-> t.obj.name]
  <2>0. a = Shown(annotationKey)[s].id.source /\ b = Shown(annotationKey)[t].id.source
    BY <1>2, Zenon
  <2>1. s.kind = t.kind /\ s.obj.ns = t.obj.ns /\ s.obj.name = t.obj.name
    <3>1. a = b
      BY <2>0, <1>3
    <3>2. a.kind = b.kind /\ a.ns = b.ns /\ a.name = b.name
      BY <3>1, Zenon
    <3> QED
      BY <3>2
  <2>2. (s.obj \in ingresses /\ t.obj \in ingresses) \/ (s.obj \in routes /\ t.obj \in routes)
    BY <2>1, ShowingIs
  <2> QED
    BY <2>1, <2>2, StateObjects DEF Objects
<1> QED
  BY <1>1, <1>2, <1>3

LEMMA BuiltShows ==
    ASSUME StateOK, NEW annotationKey, NEW built \in Builds(annotationKey)
    PROVE  BuiltIs(built, annotationKey)
<1>1. built \in Seq(SliceEndpoint) /\ Enumerates(built, Shown(annotationKey))
  BY BuiltEnumerates
<1>2. DOMAIN Shown(annotationKey) = Showings
  BY DEF Shown
<1> QED
  BY <1>1, <1>2 DEF Enumerates, BuiltIs

LEMMA HealthWritten ==
    ASSUME NEW ep \in SliceEndpoint, NEW state \in HealthState, NEW new,
           new = [ep EXCEPT !.health = state]
    PROVE  /\ new \in SliceEndpoint /\ new.id = ep.id /\ new.path = ep.path
           /\ new.health = state /\ Ref(new) = Ref(ep)
<1>1. ep = [id |-> ep.id, path |-> ep.path, health |-> ep.health]
      /\ ep.id \in EndpointId /\ ep.path \in BOOLEAN
  BY DEF SliceEndpoint
<1>2. new = [id |-> ep.id, path |-> ep.path, health |-> state]
  BY <1>1
<1>3. new \in SliceEndpoint
  BY <1>1, <1>2 DEF SliceEndpoint
<1>4. new.id = ep.id /\ new.path = ep.path /\ new.health = state
  BY <1>2
<1> QED
  BY <1>3, <1>4 DEF Ref

\* The entries of the published slice of a source ref.
RefAt(ref) == {i \in DOMAIN slice : Ref(slice[i]) = ref}

LEMMA SliceIs ==
    ASSUME SliceOK, slice # Nil
    PROVE  /\ DOMAIN slice = 1 .. Len(slice) /\ Len(slice) \in Nat
           /\ slice = [i \in 1 .. Len(slice) |-> slice[i]]
           /\ \A i \in DOMAIN slice : slice[i] \in SliceEndpoint /\ slice[i].health \in HealthState
           /\ \A ref : RefAt(ref) # {} => Max(RefAt(ref)) \in RefAt(ref)
<1>1. slice \in Seq(SliceEndpoint)
  BY DEF SliceOK
<1>2. \A i \in DOMAIN slice : slice[i] \in SliceEndpoint
  BY <1>1
<1>3. \A i \in DOMAIN slice : slice[i].health \in HealthState
  BY <1>2 DEF SliceEndpoint
<1>4. DOMAIN slice = 1 .. Len(slice) /\ Len(slice) \in Nat
  BY <1>1
<1>5. \A ref : RefAt(ref) \subseteq 1 .. Len(slice)
  BY <1>4 DEF RefAt
<1>6. \A ref : RefAt(ref) # {} => Max(RefAt(ref)) \in RefAt(ref)
  BY <1>4, <1>5, MaxIn
<1> QED
  BY <1>1, <1>2, <1>3, <1>4, <1>6

LEMMA MergeIs ==
    ASSUME SliceOK, NEW built \in Seq(SliceEndpoint), NEW new, new = mergeHealth(built)
    PROVE  /\ new \in Seq(SliceEndpoint) /\ DOMAIN new = DOMAIN built
           /\ \A i \in DOMAIN built :
                 /\ new[i].id = built[i].id /\ new[i].path = built[i].path
                 /\ Ref(new[i]) = Ref(built[i])
                 /\ new[i].health = IF slice = Nil \/ RefAt(Ref(built[i])) = {}
                                    THEN built[i].health
                                    ELSE slice[Max(RefAt(Ref(built[i])))].health
<1>1. CASE slice = Nil
  <2>1. new = built
    BY <1>1 DEF mergeHealth
  <2> QED
    BY <1>1, <2>1
<1>2. CASE slice # Nil
  <2>1. new = [i \in DOMAIN built |->
                 IF RefAt(Ref(built[i])) = {} THEN built[i]
                 ELSE [built[i] EXCEPT !.health = slice[Max(RefAt(Ref(built[i])))].health]]
    BY <1>2 DEF mergeHealth, RefAt
  <2>2. \A i \in DOMAIN built : built[i] \in SliceEndpoint
    OBVIOUS
  <2>3. \A ref : RefAt(ref) # {} => slice[Max(RefAt(ref))].health \in HealthState
    <3>1. \A ref : RefAt(ref) \subseteq DOMAIN slice
      BY DEF RefAt
    <3> QED
      BY <1>2, <3>1, SliceIs
  <2>4. ASSUME NEW i \in DOMAIN built
        PROVE  /\ new[i] \in SliceEndpoint
               /\ new[i].id = built[i].id /\ new[i].path = built[i].path
               /\ Ref(new[i]) = Ref(built[i])
               /\ new[i].health = IF RefAt(Ref(built[i])) = {} THEN built[i].health
                                  ELSE slice[Max(RefAt(Ref(built[i])))].health
    <3>1. CASE RefAt(Ref(built[i])) = {}
      <4>1. new[i] = built[i]
        BY <2>1, <3>1
      <4> QED
        BY <2>2, <3>1, <4>1
    <3>2. CASE RefAt(Ref(built[i])) # {}
      <4> DEFINE ep == built[i]
                 state == slice[Max(RefAt(Ref(built[i])))].health
                 n == new[i]
      <4>1. n = [ep EXCEPT !.health = state]
        BY <2>1, <3>2
      <4>2. ep \in SliceEndpoint /\ state \in HealthState
        BY <2>2, <2>3, <3>2
      <4> HIDE DEF ep, state, n
      <4>3. /\ n \in SliceEndpoint /\ n.id = ep.id /\ n.path = ep.path
            /\ n.health = state /\ Ref(n) = Ref(ep)
        BY <4>1, <4>2, HealthWritten
      <4> QED
        BY <3>2, <4>3 DEF ep, state, n
    <3> QED
      BY <3>1, <3>2
  <2>5. DOMAIN built = 1 .. Len(built) /\ Len(built) \in Nat
    OBVIOUS
  <2>6. new = [i \in 1 .. Len(built) |-> new[i]]
    BY <2>1, <2>5
  <2>7. new \in Seq(SliceEndpoint) /\ DOMAIN new = DOMAIN built
    BY <2>4, <2>5, <2>6, IsSequence
  <2> QED
    BY <1>2, <2>4, <2>7
<1> QED
  BY <1>1, <1>2

LEMMA UpdatedIs ==
    ASSUME SliceOK, slice # Nil, NEW ref, NEW state \in HealthState, NEW new,
           new = updated(ref, state)
    PROVE  /\ new \in Seq(SliceEndpoint) /\ DOMAIN new = DOMAIN slice
           /\ \A i \in DOMAIN slice :
                 /\ new[i].id = slice[i].id /\ new[i].path = slice[i].path
                 /\ Ref(new[i]) = Ref(slice[i])
                 /\ new[i].health = IF Ref(slice[i]) = ref THEN state ELSE slice[i].health
<1>1. new = [i \in DOMAIN slice |->
               IF Ref(slice[i]) = ref THEN [slice[i] EXCEPT !.health = state] ELSE slice[i]]
  BY DEF updated
<1>2. ASSUME NEW i \in DOMAIN slice
      PROVE  /\ new[i] \in SliceEndpoint
             /\ new[i].id = slice[i].id /\ new[i].path = slice[i].path
             /\ Ref(new[i]) = Ref(slice[i])
             /\ new[i].health = IF Ref(slice[i]) = ref THEN state ELSE slice[i].health
  <2>1. slice[i] \in SliceEndpoint
    BY SliceIs
  <2>2. CASE Ref(slice[i]) = ref
    <3> DEFINE ep == slice[i]
               n == new[i]
    <3>1. n = [ep EXCEPT !.health = state]
      BY <1>1, <2>2
    <3> HIDE DEF ep, n
    <3>2. ep \in SliceEndpoint
      BY <2>1 DEF ep
    <3>3. /\ n \in SliceEndpoint /\ n.id = ep.id /\ n.path = ep.path
          /\ n.health = state /\ Ref(n) = Ref(ep)
      BY <3>1, <3>2, HealthWritten
    <3> QED
      BY <2>2, <3>3 DEF ep, n
  <2>3. CASE Ref(slice[i]) # ref
    <3>1. new[i] = slice[i]
      BY <1>1, <2>3
    <3> QED
      BY <2>1, <2>3, <3>1
  <2> QED
    BY <2>2, <2>3
<1>3. new = [i \in 1 .. Len(slice) |-> new[i]] /\ DOMAIN slice = 1 .. Len(slice) /\ Len(slice) \in Nat
  BY <1>1, SliceIs
<1>4. new \in Seq(SliceEndpoint) /\ DOMAIN new = DOMAIN slice
  BY <1>2, <1>3, IsSequence
<1> QED
  BY <1>2, <1>4

LEMMA SliceOKStep == StateOK /\ SliceOK /\ [Next]_vars => SliceOK'
<1> SUFFICES ASSUME StateOK, SliceOK, [Next]_vars PROVE SliceOK'
  OBVIOUS
<1>1. ASSUME NEW annotationKey \in AnnotationKey, Reconcile(annotationKey)
      PROVE  SliceOK'
  <2>1. PICK built \in Builds(annotationKey) : slice' = mergeHealth(built)
    BY <1>1 DEF Reconcile
  <2>2. BuiltIs(built, annotationKey)
    BY BuiltShows
  <2>3. built \in Seq(SliceEndpoint)
    BY <2>2 DEF BuiltIs
  <2> DEFINE new == slice'
  <2>4. new = mergeHealth(built)
    BY <2>1
  <2> HIDE DEF new
  <2>5. /\ new \in Seq(SliceEndpoint) /\ DOMAIN new = DOMAIN built
        /\ \A i \in DOMAIN built :
              /\ new[i].id = built[i].id /\ new[i].path = built[i].path
              /\ Ref(new[i]) = Ref(built[i])
              /\ new[i].health = IF slice = Nil \/ RefAt(Ref(built[i])) = {}
                                 THEN built[i].health
                                 ELSE slice[Max(RefAt(Ref(built[i])))].health
    BY <2>3, <2>4, MergeIs
  <2>6. \A i \in DOMAIN built : built[i].id \in Endpoint /\ built[i].health = "Unknown"
    BY <2>2, ShowingsOfId DEF BuiltIs
  <2>7. \A i, j \in DOMAIN built : built[i].id = built[j].id => built[i].path = built[j].path
    <3> TAKE i, j \in DOMAIN built
    <3>1. PICK s \in Showings : built[i] = Shown(annotationKey)[s]
      BY <2>2 DEF BuiltIs
    <3>2. PICK t \in Showings : built[j] = Shown(annotationKey)[t]
      BY <2>2 DEF BuiltIs
    <3> QED
      BY <3>1, <3>2, ShowingsOfId
  <2>8. \A i \in DOMAIN new : new[i].id \in Endpoint
    BY <2>5, <2>6
  <2>9. \A i, j \in DOMAIN new :
           /\ Ref(new[i]) = Ref(new[j]) => new[i].health = new[j].health
           /\ new[i].id = new[j].id => new[i].path = new[j].path
    BY <2>5, <2>6, <2>7
  <2> QED
    BY <2>5, <2>8, <2>9 DEF SliceOK, new, Ref
<1>2. CASE Withdraw
  BY <1>2 DEF Withdraw, SliceOK
<1>3. ASSUME NEW state \in HealthState, Probe(state) PROVE SliceOK'
  <2>1. PICK k \in DOMAIN slice : slice' = updated(Ref(slice[k]), state)
    BY <1>3 DEF Probe, UpdateEndpointHealth
  <2>2. slice # Nil
    BY <1>3 DEF Probe
  <2> DEFINE new == slice'
             ref == Ref(slice[k])
  <2>3. new = updated(ref, state)
    BY <2>1
  <2> HIDE DEF new, ref
  <2>4. /\ new \in Seq(SliceEndpoint) /\ DOMAIN new = DOMAIN slice
        /\ \A i \in DOMAIN slice :
              /\ new[i].id = slice[i].id /\ new[i].path = slice[i].path
              /\ Ref(new[i]) = Ref(slice[i])
              /\ new[i].health = IF Ref(slice[i]) = ref THEN state ELSE slice[i].health
    BY <2>2, <2>3, UpdatedIs
  <2>5. \A i \in DOMAIN new : new[i].id \in Endpoint
    BY <2>2, <2>4 DEF SliceOK
  <2>6. \A i, j \in DOMAIN new :
           /\ Ref(new[i]) = Ref(new[j]) => new[i].health = new[j].health
           /\ new[i].id = new[j].id => new[i].path = new[j].path
    BY <2>2, <2>4 DEF SliceOK
  <2> QED
    BY <2>4, <2>5, <2>6 DEF SliceOK, new, Ref
<1>4. CASE UNCHANGED slice
  BY <1>4 DEF SliceOK, Ref
<1> QED
  BY <1>1, <1>2, <1>3, <1>4 DEF Next, Edit, vars

LEMMA SliceOKAlways == Spec => []SliceOK
<1>1. Init => SliceOK
  BY DEF Init, SliceOK
<1> QED
  BY <1>1, StateOKAlways, SliceOKStep, PTL DEF Spec

\* The entries of an endpoint in a slice, and its state in the view.
IdAt(eps, e) == {i \in DOMAIN eps : eps[i].id = e}
StateIn(eps, e) ==
    [path |-> eps[Min(IdAt(eps, e))].path, health |-> eps[Min(IdAt(eps, e))].health]
EndpointsIn(eps) == [e \in Endpoint |-> IF IdAt(eps, e) = {} THEN Nil ELSE StateIn(eps, e)]

LEMMA ViewOf ==
    ASSUME NEW eps \in Seq(SliceEndpoint)
    PROVE  /\ AsView(eps) = [spec |-> Nil, endpoints |-> EndpointsIn(eps)]
           /\ AsView(eps) # Nil
           /\ AsView(eps).spec = Nil /\ AsView(eps).endpoints = EndpointsIn(eps)
           /\ \A e \in Endpoint : IdAt(eps, e) # {} =>
                 /\ Min(IdAt(eps, e)) \in DOMAIN eps /\ eps[Min(IdAt(eps, e))].id = e
                 /\ EndpointsIn(eps)[e] = StateIn(eps, e) /\ StateIn(eps, e) # Nil
                 /\ \E i \in DOMAIN eps : /\ eps[i].id = e
                                          /\ StateIn(eps, e).path = eps[i].path
                                          /\ StateIn(eps, e).health = eps[i].health
           /\ \A e \in Endpoint : IdAt(eps, e) = {} => EndpointsIn(eps)[e] = Nil
<1>1. eps # Nil
  BY NilAssumption
<1>2. AsView(eps) = [spec |-> Nil, endpoints |-> EndpointsIn(eps)]
  BY <1>1 DEF AsView, EndpointsIn, StateIn, IdAt
<1>3. ASSUME NEW e \in Endpoint, IdAt(eps, e) # {}
      PROVE  /\ Min(IdAt(eps, e)) \in DOMAIN eps /\ eps[Min(IdAt(eps, e))].id = e
             /\ EndpointsIn(eps)[e] = StateIn(eps, e)
             /\ StateIn(eps, e) \in View!EndpointState
             /\ \E i \in DOMAIN eps : /\ eps[i].id = e
                                      /\ StateIn(eps, e).path = eps[i].path
                                      /\ StateIn(eps, e).health = eps[i].health
  <2> DEFINE m == Min(IdAt(eps, e))
  <2>1. IdAt(eps, e) \subseteq Nat
    BY DEF IdAt
  <2>2. m \in IdAt(eps, e)
    BY <1>3, <2>1, MinIn
  <2>3. m \in DOMAIN eps /\ eps[m].id = e
    BY <2>2 DEF IdAt
  <2>4. eps[m] \in SliceEndpoint
    BY <2>3
  <2>5. StateIn(eps, e) = [path |-> eps[m].path, health |-> eps[m].health]
    BY DEF StateIn
  <2> HIDE DEF m
  <2>6. StateIn(eps, e) \in View!EndpointState
    BY <2>4, <2>5 DEF SliceEndpoint, HealthState, View!EndpointState, View!HealthState
  <2>7. StateIn(eps, e).path = eps[m].path /\ StateIn(eps, e).health = eps[m].health
    BY <2>5
  <2>8. EndpointsIn(eps)[e] = StateIn(eps, e)
    BY <1>3 DEF EndpointsIn
  <2> QED
    BY <2>3, <2>6, <2>7, <2>8 DEF m
<1>4. \A e \in Endpoint : IdAt(eps, e) = {} => EndpointsIn(eps)[e] = Nil
  BY DEF EndpointsIn
<1>5. EndpointsIn(eps) \in View!Endpoints
  <2>1. \A e \in Endpoint : EndpointsIn(eps)[e] \in View!EndpointState \cup {Nil}
    BY <1>3, <1>4
  <2>2. EndpointsIn(eps) = [e \in Endpoint |-> EndpointsIn(eps)[e]]
    BY DEF EndpointsIn
  <2> QED
    BY <2>1, <2>2 DEF View!Endpoints
<1>6. AsView(eps) # Nil
  BY <1>2, <1>5, ViewAssumption
<1>7. AsView(eps).spec = Nil /\ AsView(eps).endpoints = EndpointsIn(eps)
  BY <1>2
<1>8. \A e \in Endpoint : IdAt(eps, e) # {} => StateIn(eps, e) # Nil
  BY <1>3, ViewAssumption
<1> QED
  BY <1>2, <1>3, <1>4, <1>6, <1>7, <1>8

LEMMA NilView == AsView(Nil) = Nil
  BY DEF AsView

LEMMA RefOfId ==
    ASSUME NEW ep, NEW e, ep.id = e
    PROVE  Ref(ep) = View!SourceRef(e)
  BY DEF Ref, View!SourceRef

\* A write to the slice is a write to the view.
LEMMA UpdateImplements ==
    ASSUME SliceOK, slice # Nil, NEW ref, NEW state \in HealthState, NEW new,
           new = updated(ref, state)
    PROVE  EndpointsIn(new) = View!WithHealth(EndpointsIn(slice), ref, state)
<1>1. slice \in Seq(SliceEndpoint)
  BY DEF SliceOK
<1>2. /\ new \in Seq(SliceEndpoint) /\ DOMAIN new = DOMAIN slice
      /\ \A i \in DOMAIN slice :
            /\ new[i].id = slice[i].id /\ new[i].path = slice[i].path
            /\ Ref(new[i]) = Ref(slice[i])
            /\ new[i].health = IF Ref(slice[i]) = ref THEN state ELSE slice[i].health
  BY UpdatedIs
<1>3. \A e : IdAt(new, e) = IdAt(slice, e)
  BY <1>2 DEF IdAt
<1>4. ASSUME NEW e \in Endpoint
      PROVE  EndpointsIn(new)[e] =
               IF EndpointsIn(slice)[e] # Nil /\ View!SourceRef(e) = ref
               THEN [EndpointsIn(slice)[e] EXCEPT !.health = state]
               ELSE EndpointsIn(slice)[e]
  <2>1. CASE IdAt(slice, e) = {}
    BY <2>1, <1>1, <1>2, <1>3, ViewOf
  <2>2. CASE IdAt(slice, e) # {}
    <3> DEFINE m == Min(IdAt(slice, e))
    <3>1. /\ m \in DOMAIN slice /\ slice[m].id = e
          /\ EndpointsIn(slice)[e] = StateIn(slice, e) /\ StateIn(slice, e) # Nil
      BY <2>2, <1>1, ViewOf
    <3>2. EndpointsIn(new)[e] = StateIn(new, e)
      BY <2>2, <1>2, <1>3, ViewOf
    <3>3. /\ StateIn(slice, e) = [path |-> slice[m].path, health |-> slice[m].health]
          /\ StateIn(new, e) = [path |-> new[m].path, health |-> new[m].health]
      BY <1>3 DEF StateIn
    <3>4. Ref(slice[m]) = View!SourceRef(e)
      BY <3>1, RefOfId
    <3> HIDE DEF m
    <3>5. /\ new[m].path = slice[m].path
          /\ new[m].health = IF View!SourceRef(e) = ref THEN state ELSE slice[m].health
      BY <1>2, <3>1, <3>4
    <3>6. [StateIn(slice, e) EXCEPT !.health = state] = [path |-> slice[m].path, health |-> state]
      BY <3>3
    <3> QED
      BY <3>1, <3>2, <3>3, <3>5, <3>6
  <2> QED
    BY <2>1, <2>2
<1>5. EndpointsIn(new) = [e \in Endpoint |-> EndpointsIn(new)[e]]
  BY DEF EndpointsIn
<1> QED
  BY <1>4, <1>5, Zenon DEF View!WithHealth

\* A collected slice is the collected view.
LEMMA CollectImplements ==
    ASSUME StateOK, NEW annotationKey, NEW built, BuiltIs(built, annotationKey)
    PROVE  /\ EndpointsIn(built) = Collected(annotationKey)
           /\ \A e \in Endpoint : Collected(annotationKey)[e] # Nil <=> IdAt(built, e) # {}
<1>1. built \in Seq(SliceEndpoint)
  BY DEF BuiltIs
<1> DEFINE Of(e) == {s \in Showings : Shows(e, s)}
           C == Collected(annotationKey)
<1>2. C = [e \in Endpoint |->
             IF Of(e) = {} THEN Nil
             ELSE [path |-> \E s \in Of(e) : annotationKey \in s.obj.annotations,
                   health |-> "Unknown"]]
  BY DEF Collected
<1>3. ASSUME NEW e \in Endpoint PROVE EndpointsIn(built)[e] = C[e]
  <2>1. \A s \in Showings : Shows(e, s) <=> Shown(annotationKey)[s].id = e
    BY ShowingsOfId
  <2>2. CASE IdAt(built, e) = {}
    <3>1. Of(e) = {}
      BY <2>1, <2>2 DEF IdAt, BuiltIs
    <3>2. EndpointsIn(built)[e] = Nil
      BY <2>2, <1>1, ViewOf
    <3> QED
      BY <1>2, <3>1, <3>2
  <2>3. CASE IdAt(built, e) # {}
    <3> DEFINE m == Min(IdAt(built, e))
               path == \E s \in Of(e) : annotationKey \in s.obj.annotations
    <3>1. /\ m \in DOMAIN built /\ built[m].id = e
          /\ EndpointsIn(built)[e] = StateIn(built, e)
      BY <2>3, <1>1, ViewOf
    <3>2. StateIn(built, e) = [path |-> built[m].path, health |-> built[m].health]
      BY DEF StateIn
    <3> HIDE DEF m
    <3>3. PICK t \in Showings : built[m] = Shown(annotationKey)[t]
      BY <3>1 DEF BuiltIs
    <3>4. t \in Of(e)
      BY <2>1, <3>1, <3>3
    <3>5. built[m].path = (annotationKey \in t.obj.annotations) /\ built[m].health = "Unknown"
      BY <3>3, ShowingsOfId
    <3>6. \A s \in Of(e) : s.obj = t.obj
      BY <2>1, <3>1, <3>3, ShowingsOfId
    <3>7. path <=> annotationKey \in t.obj.annotations
      BY <3>4, <3>6
    <3>8. path = built[m].path
      <4>1. built[m].path \in BOOLEAN
        <5>1. built[m] \in SliceEndpoint
          BY <1>1, <3>1
        <5> QED
          BY <5>1 DEF SliceEndpoint
      <4>2. built[m].path <=> annotationKey \in t.obj.annotations
        BY <3>5
      <4>3. built[m].path <=> path
        BY <4>2, <3>7
      <4> HIDE DEF path
      <4>4. path \in BOOLEAN
        BY DEF path
      <4> QED
        BY <4>1, <4>3, <4>4
    <3>9. C[e] = [path |-> path, health |-> "Unknown"]
      BY <1>2, <3>4
    <3> QED
      BY <3>1, <3>2, <3>5, <3>8, <3>9
  <2> QED
    BY <2>2, <2>3
<1>4. EndpointsIn(built) = [e \in Endpoint |-> EndpointsIn(built)[e]] /\ C = [e \in Endpoint |-> C[e]]
  BY <1>2 DEF EndpointsIn
<1>5. EndpointsIn(built) = C
  BY <1>3, <1>4, Zenon
<1> QED
  BY <1>5, <1>1, ViewOf

\* Carrying the health over in the slice carries it over in the view.
LEMMA MergeImplements ==
    ASSUME StateOK, SliceOK, slice # Nil, NEW annotationKey, NEW built,
           BuiltIs(built, annotationKey), NEW new, new = mergeHealth(built)
    PROVE  EndpointsIn(new) = View!Merged(EndpointsIn(slice), EndpointsIn(built))
<1> DEFINE prev == EndpointsIn(slice)
<1>1. built \in Seq(SliceEndpoint) /\ slice \in Seq(SliceEndpoint)
  BY DEF BuiltIs, SliceOK
<1>2. /\ new \in Seq(SliceEndpoint) /\ DOMAIN new = DOMAIN built
      /\ \A i \in DOMAIN built :
            /\ new[i].id = built[i].id /\ new[i].path = built[i].path
            /\ Ref(new[i]) = Ref(built[i])
            /\ new[i].health = IF RefAt(Ref(built[i])) = {} THEN built[i].health
                               ELSE slice[Max(RefAt(Ref(built[i])))].health
  BY <1>1, MergeIs
<1>3. \A e : IdAt(new, e) = IdAt(built, e)
  BY <1>2 DEF IdAt
<1>4. \A ref, e : e \in View!OfRef(prev, ref) <=>
         e \in Endpoint /\ prev[e] # Nil /\ View!SourceRef(e) = ref
  BY DEF View!OfRef
<1>5. \A e \in Endpoint : prev[e] # Nil <=> IdAt(slice, e) # {}
  BY <1>1, ViewOf
<1>6. \A ref : View!OfRef(prev, ref) = {} <=> RefAt(ref) = {}
  <2> TAKE ref
  <2>1. ASSUME NEW i \in RefAt(ref) PROVE slice[i].id \in View!OfRef(prev, ref)
    <3>1. i \in DOMAIN slice /\ Ref(slice[i]) = ref
      BY DEF RefAt
    <3>2. slice[i].id \in Endpoint /\ i \in IdAt(slice, slice[i].id)
      BY <3>1 DEF SliceOK, IdAt
    <3>3. View!SourceRef(slice[i].id) = ref
      BY <3>1, RefOfId
    <3> QED
      BY <3>2, <3>3, <1>4, <1>5
  <2>2. ASSUME NEW e \in View!OfRef(prev, ref) PROVE RefAt(ref) # {}
    <3>1. e \in Endpoint /\ IdAt(slice, e) # {} /\ View!SourceRef(e) = ref
      BY <1>4, <1>5
    <3>2. PICK i \in DOMAIN slice : slice[i].id = e
      BY <3>1 DEF IdAt
    <3>3. Ref(slice[i]) = ref
      BY <3>1, <3>2, RefOfId
    <3> QED
      BY <3>2, <3>3 DEF RefAt
  <2> QED
    BY <2>1, <2>2
<1>7. \A ref : View!OfRef(prev, ref) # {} =>
         prev[View!LastOfRef(prev, ref)].health = slice[Max(RefAt(ref))].health
  <2> SUFFICES ASSUME NEW ref, View!OfRef(prev, ref) # {}
               PROVE  prev[View!LastOfRef(prev, ref)].health = slice[Max(RefAt(ref))].health
    OBVIOUS
  <2> DEFINE l == View!LastOfRef(prev, ref)
             k == Max(RefAt(ref))
  <2>1. l \in View!OfRef(prev, ref)
    BY DEF View!LastOfRef
  <2>2. k \in RefAt(ref)
    BY <1>6, SliceIs
  <2> HIDE DEF l, k
  <2>3. l \in Endpoint /\ IdAt(slice, l) # {} /\ View!SourceRef(l) = ref
    BY <2>1, <1>4, <1>5
  <2>4. PICK i \in DOMAIN slice : slice[i].id = l /\ prev[l].health = slice[i].health
    BY <2>3, <1>1, ViewOf
  <2>5. Ref(slice[i]) = ref
    BY <2>3, <2>4, RefOfId
  <2>6. k \in DOMAIN slice /\ Ref(slice[k]) = ref
    BY <2>2 DEF RefAt
  <2>7. slice[i].health = slice[k].health
    BY <2>4, <2>5, <2>6 DEF SliceOK
  <2> QED
    BY <2>4, <2>7 DEF l, k
<1> DEFINE B == EndpointsIn(built)
<1>8. ASSUME NEW e \in Endpoint
      PROVE  EndpointsIn(new)[e] =
               IF B[e] # Nil /\ View!OfRef(prev, View!SourceRef(e)) # {}
               THEN [B[e] EXCEPT !.health = prev[View!LastOfRef(prev, View!SourceRef(e))].health]
               ELSE B[e]
  <2>1. CASE IdAt(built, e) = {}
    BY <2>1, <1>1, <1>2, <1>3, ViewOf
  <2>2. CASE IdAt(built, e) # {}
    <3> DEFINE m == Min(IdAt(built, e))
               ref == View!SourceRef(e)
               h == prev[View!LastOfRef(prev, ref)].health
    <3>1. /\ m \in DOMAIN built /\ built[m].id = e
          /\ B[e] = StateIn(built, e) /\ StateIn(built, e) # Nil
      BY <2>2, <1>1, ViewOf
    <3>2. EndpointsIn(new)[e] = StateIn(new, e)
      BY <2>2, <1>2, <1>3, ViewOf
    <3>3. /\ StateIn(built, e) = [path |-> built[m].path, health |-> built[m].health]
          /\ StateIn(new, e) = [path |-> new[m].path, health |-> new[m].health]
      BY <1>3 DEF StateIn
    <3>4. Ref(built[m]) = ref
      BY <3>1, RefOfId
    <3> HIDE DEF m
    <3>5. /\ new[m].path = built[m].path
          /\ new[m].health = IF RefAt(ref) = {} THEN built[m].health
                             ELSE slice[Max(RefAt(ref))].health
      BY <1>2, <3>1, <3>4
    <3>6. new[m].health = IF View!OfRef(prev, ref) = {} THEN built[m].health ELSE h
      BY <3>5, <1>6, <1>7
    <3>7. B[e] # Nil
      BY <3>1
    <3> HIDE DEF h, ref, B, prev
    <3>8. [B[e] EXCEPT !.health = h] = [path |-> built[m].path, health |-> h]
      BY <3>1, <3>3
    <3>9. EndpointsIn(new)[e] = IF B[e] # Nil /\ View!OfRef(prev, ref) # {}
                                THEN [B[e] EXCEPT !.health = h] ELSE B[e]
      BY <3>1, <3>2, <3>3, <3>5, <3>6, <3>7, <3>8
    <3> QED
      BY <3>9 DEF h, ref
  <2> QED
    BY <2>1, <2>2
<1>9. EndpointsIn(new) = [e \in Endpoint |-> EndpointsIn(new)[e]]
  BY DEF EndpointsIn
<1> QED
  BY <1>8, <1>9, Zenon DEF View!Merged

(***************************************************************************)
(* Every step on the slice is a step of Store on the view, for all objects *)
(* and all orders of the List answers: a reconcile publishes what the      *)
(* places call for with the health of the source refs carried over, a      *)
(* probe writes to every endpoint of its ref (mergeHealth,                 *)
(* UpdateEndpointHealth).                                                  *)
(***************************************************************************)
THEOREM SlicesAreViews == Spec => SlicesImplementViews
<1> DEFINE Step ==
      \/ \E annotationKey \in AnnotationKey :
             View!Set("rm", [spec |-> Nil,
                             endpoints |-> View!mergeHealth("rm", Collected(annotationKey))])
      \/ View!Delete("rm")
      \/ \E ref \in {View!SourceRef(e) : e \in Endpoint}, state \in View!HealthState :
             View!UpdateEndpointHealth("rm", ref, state)
<1>1. StateOK /\ SliceOK /\ SliceOK' /\ [Next]_vars => [Step]_slice
  <2> SUFFICES ASSUME StateOK, SliceOK, SliceOK', Next, slice' # slice PROVE Step
    BY DEF vars
  <2>0. \A v : ([k \in {"rm"} |-> AsView(slice)])' = [[k \in {"rm"} |-> AsView(slice)] EXCEPT !["rm"] = v]
               <=> AsView(slice') = v
    OBVIOUS
  <2>1. ASSUME NEW annotationKey \in AnnotationKey, Reconcile(annotationKey) PROVE Step
    <3>1. PICK built \in Builds(annotationKey) : slice' = mergeHealth(built)
      BY <2>1 DEF Reconcile
    <3>2. BuiltIs(built, annotationKey)
      BY BuiltShows
    <3> DEFINE C == Collected(annotationKey)
               new == slice'
    <3>3. EndpointsIn(built) = C /\ built \in Seq(SliceEndpoint)
      BY <3>2, CollectImplements DEF BuiltIs
    <3>4. new = mergeHealth(built)
      BY <3>1
    <3> HIDE DEF new
    <3>5. new \in Seq(SliceEndpoint)
      BY <3>3, <3>4, MergeIs
    <3>6. AsView(new) = [spec |-> Nil, endpoints |-> EndpointsIn(new)]
      BY <3>5, ViewOf
    <3>7. EndpointsIn(new) = IF slice = Nil THEN C ELSE View!Merged(EndpointsIn(slice), C)
      <4>1. CASE slice = Nil
        <5>1. new = built
          BY <4>1, <3>4 DEF mergeHealth
        <5> QED
          BY <4>1, <5>1, <3>3
      <4>2. CASE slice # Nil
        BY <4>2, <3>2, <3>3, <3>4, MergeImplements
      <4> QED
        BY <4>1, <4>2
    <3> HIDE DEF C
    <3>8. View!mergeHealth("rm", C) = IF slice = Nil THEN C ELSE View!Merged(EndpointsIn(slice), C)
      <4>1. View!mergeHealth("rm", C) =
              IF AsView(slice) = Nil THEN C ELSE View!Merged(AsView(slice).endpoints, C)
        BY DEF View!mergeHealth
      <4>2. CASE slice = Nil
        BY <4>1, <4>2, NilView
      <4>3. CASE slice # Nil
        <5>1. slice \in Seq(SliceEndpoint)
          BY <4>3 DEF SliceOK
        <5> QED
          BY <4>1, <4>3, <5>1, ViewOf
      <4> QED
        BY <4>2, <4>3
    <3>9. AsView(slice') = [spec |-> Nil, endpoints |-> View!mergeHealth("rm", C)]
      BY <3>6, <3>7, <3>8 DEF new
    <3>10. View!Set("rm", [spec |-> Nil, endpoints |-> View!mergeHealth("rm", C)])
      BY <3>9, <2>0 DEF View!Set
    <3> QED
      BY <3>10 DEF C
  <2>2. CASE Withdraw
    <3>1. AsView(slice') = Nil
      BY <2>2, NilView DEF Withdraw
    <3>2. View!Delete("rm")
      BY <3>1, <2>0 DEF View!Delete
    <3> QED
      BY <3>2
  <2>3. ASSUME NEW state \in HealthState, Probe(state) PROVE Step
    <3>1. PICK i \in DOMAIN slice : slice' = updated(Ref(slice[i]), state)
      BY <2>3 DEF Probe, UpdateEndpointHealth
    <3>2. slice # Nil /\ slice \in Seq(SliceEndpoint) /\ slice[i].id \in Endpoint
      BY <2>3, <3>1 DEF Probe, SliceOK
    <3> DEFINE new == slice'
               ref == View!SourceRef(slice[i].id)
    <3>3. ref = Ref(slice[i])
      BY RefOfId
    <3>4. ref \in {View!SourceRef(e) : e \in Endpoint}
      BY <3>2
    <3>5. state \in View!HealthState
      BY DEF HealthState, View!HealthState
    <3> HIDE DEF new, ref
    <3>6. new = updated(ref, state)
      BY <3>1, <3>3 DEF new
    <3>7. new \in Seq(SliceEndpoint)
      BY <3>2, <3>6, UpdatedIs
    <3>8. EndpointsIn(new) = View!WithHealth(EndpointsIn(slice), ref, state)
      BY <3>2, <3>6, UpdateImplements
    <3>9. /\ AsView(new) = [spec |-> Nil, endpoints |-> EndpointsIn(new)]
          /\ AsView(slice) # Nil /\ AsView(slice).spec = Nil
          /\ AsView(slice).endpoints = EndpointsIn(slice)
      BY <3>2, <3>7, ViewOf
    <3>10. AsView(slice') = [spec |-> AsView(slice).spec,
                             endpoints |-> View!WithHealth(AsView(slice).endpoints, ref, state)]
      BY <3>8, <3>9 DEF new
    <3>11. View!UpdateEndpointHealth("rm", ref, state)
      BY <3>9, <3>10, <2>0 DEF View!UpdateEndpointHealth
    <3> QED
      BY <3>4, <3>5, <3>11
  <2>4. ~Edit
    BY DEF Edit
  <2> QED
    BY <2>1, <2>2, <2>3, <2>4 DEF Next
<1> QED
  BY <1>1, StateOKAlways, SliceOKAlways, PTL DEF Spec, SlicesImplementViews
=============================================================================
