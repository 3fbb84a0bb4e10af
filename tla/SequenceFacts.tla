---------------------------- MODULE SequenceFacts ----------------------------
(***************************************************************************)
(* Facts about sequences, and about what is computed one position after    *)
(* the other, that the proofs about the window's lists and queues share.   *)
(*                                                                         *)
(* Over the positions of a sequence induction needs no theorem with an     *)
(* operator for a parameter: UpTo takes the set of the positions for which *)
(* a claim holds, and Recursion says that the recursive function which     *)
(* folds a sequence exists.                                                *)
(***************************************************************************)
EXTENDS Selection, WellFoundedInduction, SequenceTheorems, TLAPS

\* A set of numbers that is not empty has a least one.
LEMMA Least ==
    ASSUME NEW S, S \subseteq Nat, S # {}
    PROVE  \E n \in S : \A m \in S : n <= m
<1> DEFINE R == {ss \in Nat \X Nat : ss[1] < ss[2]}
<1>1. IsWellFoundedOn(R, Nat)
  BY NatLessThanWellFounded DEF OpToRel
<1>2. PICK n \in S : \A m \in S : <<m, n>> \notin R
  <2> HIDE DEF R
  <2> QED
    BY <1>1, WFMin
<1>3. \A m \in S : ~(m < n)
  BY <1>2
<1>4. QED
  BY <1>3

\* Induction, for the members of a set: what holds of 0, and of the next position with
\* each, holds of all.
LEMMA UpTo ==
    ASSUME NEW N \in Nat, NEW S, 0 \in S, \A i \in 0 .. N - 1 : i \in S => i + 1 \in S
    PROVE  \A i \in 0 .. N : i \in S
<1> SUFFICES ASSUME NEW k \in 0 .. N, k \notin S PROVE FALSE
  OBVIOUS
<1> DEFINE bad == {i \in 0 .. N : i \notin S}
<1>1. PICK n \in bad : \A m \in bad : n <= m
  <2>1. bad \subseteq Nat /\ bad # {}
    OBVIOUS
  <2> HIDE DEF bad
  <2>2. QED
    BY <2>1, Least
<1>2. n # 0 /\ n - 1 \in 0 .. N - 1 /\ n - 1 \notin bad
  BY <1>1
<1>3. QED
  BY <1>1, <1>2

\* A step for each position, and a function that follows them from a first value.
Steps(T, N) == [1 .. N -> [T -> T]]
Follows(f, T, N, base, step) ==
    f \in [0 .. N -> T] /\ f[0] = base /\ \A i \in 1 .. N : f[i] = step[i][f[i - 1]]

\* Recursion along the positions: from a first value, and a step that stays in a set,
\* there is a function that follows them.
LEMMA Recursion ==
    ASSUME NEW T, NEW N \in Nat, NEW base \in T, NEW step \in Steps(T, N)
    PROVE  \E f : Follows(f, T, N, base, step)
<1> DEFINE Upto(f, n) == /\ f \in [0 .. n -> T] /\ f[0] = base
                         /\ \A i \in 1 .. n : f[i] = step[i][f[i - 1]]
           S == {n \in 0 .. N : \E f \in [0 .. n -> T] : Upto(f, n)}
<1>1. 0 \in S
  <2> DEFINE g == [i \in 0 .. 0 |-> base]
  <2>1. g \in [0 .. 0 -> T]
    OBVIOUS
  <2>2. Upto(g, 0)
    BY <2>1
  <2> HIDE DEF g, Upto
  <2>3. QED
    BY <2>1, <2>2
<1>2. ASSUME NEW i \in 0 .. N - 1, i \in S PROVE i + 1 \in S
  <2>1. PICK f \in [0 .. i -> T] : Upto(f, i)
    BY <1>2
  <2> DEFINE g == [j \in 0 .. i + 1 |-> IF j = i + 1 THEN step[j][f[i]] ELSE f[j]]
  <2>2. i + 1 \in 1 .. N /\ f[i] \in T
    OBVIOUS
  <2>3. g \in [0 .. i + 1 -> T]
    BY <2>2 DEF Steps
  <2>4. g[0] = base
    BY <2>1
  <2>5. \A j \in 1 .. i + 1 : g[j] = step[j][g[j - 1]]
    BY <2>1, <2>2
  <2> HIDE DEF g
  <2>6. Upto(g, i + 1) /\ i + 1 \in 0 .. N
    BY <2>2, <2>3, <2>4, <2>5
  <2> HIDE DEF Upto
  <2>7. QED
    BY <2>3, <2>6
<1>3. N \in S
  <2> HIDE DEF S
  <2>1. \A i \in 0 .. N : i \in S
    BY <1>1, <1>2, UpTo
  <2>2. QED
    BY <2>1
<1>4. QED
  BY <1>3 DEF Follows

\* Induction from the end: what holds of a position when it holds of all behind it, holds of all.
Inherits(S, a, b) == \A i \in a .. b : (\A j \in i + 1 .. b : j \in S) => i \in S
LEMMA Backwards ==
    ASSUME NEW a \in Int, NEW b \in Int, NEW S, Inherits(S, a, b)
    PROVE  \A i \in a .. b : i \in S
<1> SUFFICES ASSUME NEW i \in a .. b, i \notin S PROVE FALSE
  OBVIOUS
<1> DEFINE bad == {k \in 0 .. b - a : b - k \notin S}
<1>1. PICK k \in bad : \A m \in bad : k <= m
  <2>1. b - i \in bad /\ bad \subseteq Nat
    OBVIOUS
  <2> HIDE DEF bad
  <2>2. QED
    BY <2>1, Least
<1>2. PICK n \in a .. b : n = b - k
  BY <1>1
<1>3. ASSUME NEW j \in n + 1 .. b PROVE j \in S
  <2>1. b - j \in 0 .. b - a /\ ~(k <= b - j) /\ b - (b - j) = j
    BY <1>1, <1>2
  <2>2. QED
    BY <1>1, <2>1
<1>4. n \in S
  BY <1>3 DEF Inherits
<1>5. QED
  BY <1>1, <1>2, <1>4

\* What f says of a position, when those of go ask it of one further on.
Jumping(f, T, a, b, go, base, jump, op) ==
    /\ f \in [a .. b -> T]
    /\ \A i \in a .. b : f[i] = IF i \in go THEN op[i][f[jump[i]]] ELSE base[i]

\* Recursion that jumps ahead: there is a function that does, when every jump goes forward
\* and none out of the range.
LEMMA JumpRecursion ==
    ASSUME NEW T, NEW a \in Int, NEW b \in Int, a <= b, NEW go \in SUBSET (a .. b),
           NEW base \in [a .. b -> T], NEW jump, \A i \in go : jump[i] \in a .. b /\ i < jump[i],
           NEW op \in [go -> [T -> T]]
    PROVE  \E f : Jumping(f, T, a, b, go, base, jump, op)
<1> DEFINE Value(f, i) == IF i \in go THEN op[i][f[jump[i]]] ELSE base[i]
           Down(f, n) == f \in [b - n .. b -> T] /\ \A i \in b - n .. b : f[i] = Value(f, i)
           S == {n \in 0 .. b - a : \E f \in [b - n .. b -> T] : Down(f, n)}
<1>1. b - a \in Nat
  OBVIOUS
<1>2. 0 \in S
  <2>1. b \in a .. b /\ base[b] \in T /\ b - 0 = b /\ b .. b = {b}
    OBVIOUS
  <2>2. b \notin go
    OBVIOUS
  <2>3. PICK f : f = [i \in b .. b |-> base[b]]
    OBVIOUS
  <2>4. f \in [b .. b -> T] /\ f[b] = base[b]
    BY <2>1, <2>3
  <2>5. Down(f, 0)
    BY <2>1, <2>2, <2>4
  <2>6. QED
    BY <1>1, <2>1, <2>4, <2>5
<1>3. ASSUME NEW n \in 0 .. (b - a) - 1, n \in S PROVE n + 1 \in S
  <2>1. PICK f \in [b - n .. b -> T] : Down(f, n)
    BY <1>3
  <2>2. PICK lo \in a .. b : lo = b - (n + 1) /\ lo + 1 = b - n
    OBVIOUS
  <2>3. PICK g : g = [i \in lo .. b |-> IF i = lo THEN Value(f, lo) ELSE f[i]]
    OBVIOUS
  <2>4. Value(f, lo) \in T
    <3>1. CASE lo \in go
      <4>1. jump[lo] \in b - n .. b
        BY <2>2, <3>1
      <4>2. QED
        BY <2>1, <3>1, <4>1
    <3>2. CASE lo \notin go
      BY <2>2, <3>2
    <3>3. QED
      BY <3>1, <3>2
  <2>5. \A i \in lo .. b : i = lo \/ i \in b - n .. b
    BY <2>2
  <2>6. g \in [lo .. b -> T]
    BY <2>1, <2>3, <2>4, <2>5
  <2>7. \A i \in b - n .. b : g[i] = f[i]
    BY <2>2, <2>3
  <2>8. ASSUME NEW i \in lo .. b PROVE g[i] = Value(g, i)
    <3>1. Value(g, i) = Value(f, i)
      <4>1. CASE i \in go
        <5>1. jump[i] \in b - n .. b
          BY <2>2, <4>1
        <5>2. QED
          BY <2>7, <4>1, <5>1
      <4>2. CASE i \notin go
        BY <4>2
      <4>3. QED
        BY <4>1, <4>2
    <3>2. g[i] = Value(f, i)
      <4>1. CASE i = lo
        BY <2>2, <2>3, <4>1
      <4>2. CASE i # lo
        BY <2>1, <2>5, <2>7, <4>2
      <4>3. QED
        BY <4>1, <4>2
    <3>3. QED
      BY <3>1, <3>2
  <2>9. n + 1 \in 0 .. b - a /\ b - (n + 1) = lo
    BY <2>2
  <2> HIDE DEF Value
  <2>10. Down(g, n + 1)
    BY <2>6, <2>8, <2>9
  <2>11. QED
    BY <2>6, <2>9, <2>10
<1>4. b - a \in S
  <2>1. PICK m \in Nat : m = b - a
    BY <1>1
  <2>2. 0 \in S /\ \A n \in 0 .. m - 1 : n \in S => n + 1 \in S
    BY <1>2, <1>3, <2>1
  <2> HIDE DEF S
  <2>3. \A n \in 0 .. m : n \in S
    BY <2>1, <2>2, UpTo
  <2>4. m \in 0 .. m
    BY <2>1
  <2>5. QED
    BY <2>1, <2>3, <2>4
<1>5. b - (b - a) = a
  OBVIOUS
<1>6. PICK f : Down(f, b - a)
  BY <1>4
<1>7. QED
  BY <1>5, <1>6 DEF Jumping

\* What Append returns: the sequence, one longer, with the element last.
LEMMA Appended ==
    ASSUME NEW S, NEW s \in Seq(S), NEW e \in S
    PROVE  /\ Append(s, e) \in Seq(S) /\ DOMAIN Append(s, e) = 1 .. Len(s) + 1
           /\ DOMAIN s = 1 .. Len(s) /\ Len(s) \in Nat
           /\ Append(s, e)[Len(s) + 1] = e
           /\ \A i \in DOMAIN s : Append(s, e)[i] = s[i]
  OBVIOUS

\* A sequence rebuilt point by point keeps its length and its type.
LEMMA Mapped ==
    ASSUME NEW S, NEW s \in Seq(S), NEW f, DOMAIN f = DOMAIN s, f = [i \in DOMAIN s |-> f[i]],
           \A i \in DOMAIN s : f[i] \in S
    PROVE  f \in Seq(S) /\ Len(f) = Len(s)
<1>1. DOMAIN s = 1 .. Len(s) /\ Len(s) \in Nat
  OBVIOUS
<1>2. f \in [1 .. Len(s) -> S]
  BY <1>1
<1>3. QED
  BY <1>1, <1>2

\* The empty sequence is of every type and has no position.
LEMMA Nothing == \A S : <<>> \in Seq(S) /\ \A i \in DOMAIN <<>> : FALSE
  OBVIOUS

\* With nothing before it, a sequence is itself.
LEMMA NothingBefore == ASSUME NEW S, NEW s \in Seq(S) PROVE <<>> \o s = s
<1>1. <<>> \in Seq(S)
  OBVIOUS
<1>2. QED
  BY <1>1, ConcatEmptySeq

\* What is appended to the second part is appended to the whole.
LEMMA JoinedAppend ==
    ASSUME NEW S, NEW p \in Seq(S), NEW t \in Seq(S), NEW e \in S
    PROVE  p \o Append(t, e) = Append(p \o t, e)
<1>1. Append(t, e) \in Seq(S) /\ p \o t \in Seq(S) /\ Len(p) \in Nat /\ Len(t) \in Nat
  OBVIOUS
<1> DEFINE a == p \o Append(t, e)
           b == Append(p \o t, e)
<1>2. a \in Seq(S) /\ b \in Seq(S) /\ Len(a) = Len(p) + (Len(t) + 1) /\ Len(b) = (Len(p) + Len(t)) + 1
  BY <1>1
<1>3. \A i \in 1 .. Len(a) : a[i] = b[i]
  BY <1>1, <1>2
<1> HIDE DEF a, b
<1>4. a = b
  BY <1>1, <1>2, <1>3, SeqEqual, SMTT(30)
<1>5. QED
  BY <1>4 DEF a, b

\* A sequence is its head and then its tail.
LEMMA HeadThenTail ==
    ASSUME NEW S, NEW t \in Seq(S), t # <<>>
    PROVE  /\ Head(t) \in S /\ Tail(t) \in Seq(S) /\ Head(t) = t[1] /\ t = <<Head(t)>> \o Tail(t)
           /\ \A i \in DOMAIN t : i = 1 \/ (i - 1 \in DOMAIN Tail(t) /\ Tail(t)[i - 1] = t[i])
           /\ \A i \in DOMAIN Tail(t) : i + 1 \in DOMAIN t /\ Tail(t)[i] = t[i + 1]
<1>1. /\ Head(t) \in S /\ Tail(t) \in Seq(S) /\ Len(Tail(t)) = Len(t) - 1 /\ Head(t) = t[1]
      /\ Len(t) \in Nat /\ Len(t) > 0 /\ DOMAIN t = 1 .. Len(t)
      /\ DOMAIN Tail(t) = 1 .. Len(t) - 1
      /\ \A i \in 1 .. Len(t) - 1 : Tail(t)[i] = t[i + 1]
  OBVIOUS
<1>2. \A i \in DOMAIN t : i = 1 \/ (i - 1 \in DOMAIN Tail(t) /\ Tail(t)[i - 1] = t[i])
  BY <1>1
<1>3. t = <<Head(t)>> \o Tail(t)
  <2>1. PICK u \in Seq(S) : u = Tail(t)
    BY <1>1
  <2>2. PICK h \in Seq(S) : h = <<Head(t)>>
    <3>1. <<Head(t)>> \in Seq(S)
      BY <1>1
    <3>2. QED
      BY <3>1
  <2>3. Len(h) = 1 /\ h[1] = t[1] /\ Len(u) = Len(t) - 1 /\ \A i \in 1 .. Len(t) - 1 : u[i] = t[i + 1]
    BY <1>1, <2>1, <2>2
  <2>4. /\ h \o u \in Seq(S) /\ Len(h \o u) = Len(h) + Len(u)
        /\ \A i \in 1 .. Len(h) + Len(u) : (h \o u)[i] = IF i <= Len(h) THEN h[i] ELSE u[i - Len(h)]
    BY ConcatProperties
  <2>5. Len(h \o u) = Len(t)
    BY <1>1, <2>3, <2>4
  <2>6. ASSUME NEW i \in 1 .. Len(t) PROVE (h \o u)[i] = t[i]
    <3>1. CASE i = 1
      BY <1>1, <2>3, <2>4, <3>1
    <3>2. CASE i # 1
      <4>1. i - 1 \in 1 .. Len(t) - 1 /\ (i - 1) + 1 = i /\ ~(i <= Len(h))
        BY <1>1, <2>3, <3>2
      <4>2. (h \o u)[i] = u[i - 1]
        BY <1>1, <2>3, <2>4, <4>1
      <4>3. u[i - 1] = t[i]
        BY <2>3, <4>1
      <4>4. QED
        BY <4>2, <4>3
    <3>3. QED
      BY <3>1, <3>2
  <2>7. h \o u = t
    BY <2>4, <2>5, <2>6, SeqEqual
  <2>8. QED
    BY <2>1, <2>2, <2>7
<1>4. QED
  BY <1>1, <1>2, <1>3

\* The first element of the second part can go to the end of the first.
LEMMA HeadMoved ==
    ASSUME NEW S, NEW p \in Seq(S), NEW t \in Seq(S), t # <<>>
    PROVE  Append(p, Head(t)) \o Tail(t) = p \o t
<1>1. Head(t) \in S /\ Tail(t) \in Seq(S) /\ t = <<Head(t)>> \o Tail(t) /\ <<Head(t)>> \in Seq(S)
  BY HeadThenTail
<1>2. Append(p, Head(t)) = p \o <<Head(t)>>
  BY <1>1, AppendIsConcat
<1>3. (p \o <<Head(t)>>) \o Tail(t) = p \o (<<Head(t)>> \o Tail(t))
  BY <1>1, ConcatAssociative
<1>4. QED
  BY <1>1, <1>2, <1>3

\* A sequence is its first part and then its second.
LEMMA TwoParts ==
    ASSUME NEW S, NEW r \in Seq(S), NEW a \in Seq(S), NEW b \in Seq(S), Len(r) = Len(a) + Len(b),
           \A i \in 1 .. Len(a) : a[i] = r[i], \A i \in 1 .. Len(b) : b[i] = r[Len(a) + i]
    PROVE  a \o b = r
<1> PICK k \in Nat, left \in Nat : k = Len(a) /\ left = Len(b)
  OBVIOUS
<1>1. /\ a \o b \in Seq(S) /\ Len(a \o b) = k + left
      /\ \A i \in 1 .. k + left : (a \o b)[i] = IF i <= k THEN a[i] ELSE b[i - k]
  BY ConcatProperties
<1>2. ASSUME NEW i \in 1 .. k + left PROVE (a \o b)[i] = r[i]
  <2>1. i \in 1 .. k \/ (~(i <= k) /\ i - k \in 1 .. left /\ k + (i - k) = i)
    OBVIOUS
  <2>2. CASE i \in 1 .. k
    BY <1>1, <2>2
  <2>3. CASE ~(i <= k) /\ i - k \in 1 .. left /\ k + (i - k) = i
    <3>1. b[i - k] = r[k + (i - k)]
      BY <2>3
    <3>2. QED
      BY <1>1, <2>3, <3>1
  <2>4. QED
    BY <2>1, <2>2, <2>3
<1>3. QED
  BY <1>1, <1>2, SeqEqual

\* What is left of s behind its m-th element, r, as n elements and what is left behind them.
SplitsAt(S, s, m, r, n) ==
    /\ SubSeq(s, m + n + 1, Len(s)) \in Seq(S) /\ SubSeq(r, 1, n) \in Seq(S)
    /\ SubSeq(r, 1, n) \o SubSeq(s, m + n + 1, Len(s)) = r

\* What is left of a sequence from a place on is its first part and what is left of it.
LEMMA RestOfRest ==
    ASSUME NEW S, NEW s \in Seq(S), NEW m \in Nat, NEW r, r = SubSeq(s, m + 1, Len(s)),
           NEW n \in 0 .. Len(r)
    PROVE  SplitsAt(S, s, m, r, n)
<1> PICK len \in Nat : len = Len(s)
  OBVIOUS
<1>1. \A i \in 1 .. len : s[i] \in S
  OBVIOUS
<1>2. /\ r \in Seq(S) /\ Len(r) = IF m + 1 <= len THEN len - (m + 1) + 1 ELSE 0
      /\ \A i \in 1 .. len - (m + 1) + 1 : r[i] = s[m + 1 + i - 1]
  <2>1. m + 1 \in Int /\ len \in Int /\ \A i \in m + 1 .. len : s[i] \in S
    BY <1>1
  <2>2. QED
    BY <2>1, SubSeqProperties
<1> PICK k \in Nat, left \in Nat : k = n /\ Len(r) = k + left
  <2>1. Len(r) \in Nat /\ n \in Nat /\ Len(r) - n \in Nat /\ Len(r) = n + (Len(r) - n)
    BY <1>2
  <2>2. QED
    BY <2>1
<1>3. k + left = 0 \/ m + k + left = len
  BY <1>2
<1>4. \A i \in 1 .. k + left : m + i \in 1 .. len /\ r[i] = s[m + i] /\ r[i] \in S
  <2> TAKE i \in 1 .. k + left
  <2>1. m + i \in 1 .. len /\ i \in 1 .. len - (m + 1) + 1 /\ m + 1 + i - 1 = m + i
    BY <1>3
  <2>2. QED
    BY <1>1, <1>2, <2>1
<1> PICK a : a = SubSeq(r, 1, k)
  OBVIOUS
<1>5. a \in Seq(S) /\ Len(a) = k /\ \A i \in 1 .. k : a[i] = r[i]
  <2>1. 1 \in Int /\ k \in Int /\ \A i \in 1 .. k : r[i] \in S
    BY <1>4
  <2>2. /\ a \in Seq(S) /\ Len(a) = IF 1 <= k THEN k - 1 + 1 ELSE 0
        /\ \A i \in 1 .. k - 1 + 1 : a[i] = r[1 + i - 1]
    BY <2>1, SubSeqProperties
  <2>3. Len(a) = k /\ \A i \in 1 .. k : i \in 1 .. k - 1 + 1 /\ 1 + i - 1 = i
    BY <2>2
  <2>4. QED
    BY <2>2, <2>3
<1> PICK b : b = SubSeq(s, m + k + 1, len)
  OBVIOUS
<1>6. b \in Seq(S) /\ Len(b) = left /\ \A i \in 1 .. left : b[i] = r[k + i]
  <2>1. m + k + 1 \in Int /\ len \in Int /\ \A i \in m + k + 1 .. len : s[i] \in S
    BY <1>1
  <2>2. /\ b \in Seq(S) /\ Len(b) = IF m + k + 1 <= len THEN len - (m + k + 1) + 1 ELSE 0
        /\ \A i \in 1 .. len - (m + k + 1) + 1 : b[i] = s[m + k + 1 + i - 1]
    BY <2>1, SubSeqProperties
  <2>3. Len(b) = left
    BY <1>2, <1>3, <2>2
  <2>4. \A i \in 1 .. left : /\ i \in 1 .. len - (m + k + 1) + 1 /\ m + k + 1 + i - 1 = m + (k + i)
                             /\ k + i \in 1 .. k + left
    BY <1>3
  <2>5. QED
    BY <1>4, <2>2, <2>3, <2>4, SMTT(30)
<1>7. /\ Len(r) = Len(a) + Len(b) /\ \A i \in 1 .. Len(a) : a[i] = r[i]
      /\ \A i \in 1 .. Len(b) : b[i] = r[Len(a) + i]
  BY <1>5, <1>6, ZenonT(60)
<1>8. a \o b = r
  <2>1. PICK c \in Seq(S), d \in Seq(S), q \in Seq(S) : c = a /\ d = b /\ q = r
    BY <1>2, <1>5, <1>6
  <2>2. /\ Len(q) = Len(c) + Len(d) /\ \A i \in 1 .. Len(c) : c[i] = q[i]
        /\ \A i \in 1 .. Len(d) : d[i] = q[Len(c) + i]
    BY <1>7, <2>1
  <2>3. c \o d = q
    BY <2>2, TwoParts
  <2>4. QED
    BY <2>1, <2>3
<1>9. QED
  BY <1>5, <1>6, <1>8 DEF SplitsAt

-----------------------------------------------------------------------------
(* Picked.                                                                  *)

\* What has been picked up to each position.
PicksUpTo(g, T, s, P) ==
    /\ g \in [0 .. Len(s) -> Seq(T)] /\ g[0] = <<>>
    /\ \A i \in 1 .. Len(s) : g[i] = IF i \in P THEN Append(g[i - 1], s[i]) ELSE g[i - 1]

\* A filter picks one position after the other.
LEMMA PickedStepwise ==
    ASSUME NEW T, NEW s \in Seq(T), NEW P
    PROVE  \E g : PicksUpTo(g, T, s, P) /\ Picked(s, P) = g[Len(s)]
<1> DEFINE n == Len(s)
           Runs(f) == f = [i \in 0 .. n |->
                              IF i = 0 THEN <<>>
                              ELSE IF i \in P THEN Append(f[i - 1], s[i]) ELSE f[i - 1]]
           step == [i \in 1 .. n |-> [x \in Seq(T) |-> IF i \in P THEN Append(x, s[i]) ELSE x]]
<1>1. n \in Nat /\ DOMAIN s = 1 .. n /\ \A i \in 1 .. n : s[i] \in T
  OBVIOUS
<1>2. \E f : Runs(f) /\ f \in [0 .. n -> Seq(T)]
  <2>1. step \in Steps(Seq(T), n)
    <3>1. ASSUME NEW i \in 1 .. n, NEW x \in Seq(T)
          PROVE  (IF i \in P THEN Append(x, s[i]) ELSE x) \in Seq(T)
      BY <1>1
    <3>2. QED
      BY <3>1 DEF Steps
  <2>2. <<>> \in Seq(T)
    OBVIOUS
  <2>3. PICK st : st = step
    OBVIOUS
  <2>4. PICK f : Follows(f, Seq(T), n, <<>>, st)
    BY <1>1, <2>1, <2>2, <2>3, Recursion
  <2>5. f \in [0 .. n -> Seq(T)] /\ f[0] = <<>> /\ \A i \in 1 .. n : f[i] = st[i][f[i - 1]]
    BY <2>4 DEF Follows
  <2>6. ASSUME NEW i \in 0 .. n
        PROVE  f[i] = IF i = 0 THEN <<>>
                      ELSE IF i \in P THEN Append(f[i - 1], s[i]) ELSE f[i - 1]
    <3>1. CASE i = 0
      BY <2>5, <3>1
    <3>2. CASE i # 0
      <4>1. i \in 1 .. n /\ i - 1 \in 0 .. n
        BY <1>1, <3>2
      <4>2. f[i - 1] \in Seq(T)
        BY <2>5, <4>1
      <4>3. f[i] = st[i][f[i - 1]]
        BY <2>5, <4>1
      <4>4. QED
        BY <2>3, <3>2, <4>1, <4>2, <4>3
    <3>3. QED
      BY <3>1, <3>2
  <2>7. f = [i \in 0 .. n |-> f[i]]
    BY <2>5
  <2>8. QED
    BY <2>5, <2>6, <2>7
<1> DEFINE g == CHOOSE f : Runs(f)
<1>3. Runs(g)
  <2> HIDE DEF Runs
  <2>1. QED
    BY <1>2
<1>4. Picked(s, P) = g[n]
  BY SMTT(30) DEF Picked
<1>5. g = [i \in 0 .. n |-> IF i = 0 THEN <<>>
                            ELSE IF i \in P THEN Append(g[i - 1], s[i]) ELSE g[i - 1]]
  BY <1>3
<1> HIDE DEF g, step
<1>6. g[0] = <<>> /\ \A i \in 1 .. n : g[i] = IF i \in P THEN Append(g[i - 1], s[i]) ELSE g[i - 1]
  <2>1. 0 \in 0 .. n /\ \A i \in 1 .. n : i \in 0 .. n /\ i # 0
    BY <1>1
  <2>2. QED
    BY <1>5, <2>1
<1>7. \A i \in 0 .. n : g[i] \in Seq(T)
  <2> DEFINE S == {i \in 0 .. n : g[i] \in Seq(T)}
  <2>1. 0 \in S
    <3>1. g[0] = <<>> /\ <<>> \in Seq(T) /\ 0 \in 0 .. n
      BY <1>1, <1>6, Nothing
    <3>2. QED
      BY <3>1
  <2>2. ASSUME NEW i \in 0 .. n - 1, i \in S PROVE i + 1 \in S
    <3>1. i + 1 \in 1 .. n /\ i + 1 \in 0 .. n /\ (i + 1) - 1 = i
      BY <1>1
    <3>2. g[i + 1] = IF i + 1 \in P THEN Append(g[i], s[i + 1]) ELSE g[i]
      BY <1>6, <3>1
    <3>3. Append(g[i], s[i + 1]) \in Seq(T) /\ g[i] \in Seq(T)
      BY <1>1, <2>2, <3>1, Appended
    <3>4. QED
      BY <3>1, <3>2, <3>3
  <2> HIDE DEF S
  <2>3. \A i \in 0 .. n : i \in S
    BY <1>1, <2>1, <2>2, UpTo
  <2>4. QED
    BY <2>3 DEF S
<1>8. PicksUpTo(g, T, s, P)
  <2>1. g = [i \in 0 .. n |-> g[i]]
    BY <1>5
  <2>2. QED
    BY <1>6, <1>7, <2>1 DEF PicksUpTo
<1>9. QED
  BY <1>4, <1>8

\* What a filter returns: elements of the sequence at the positions, and each of them.
LEMMA PickedFrom ==
    ASSUME NEW T, NEW s \in Seq(T), NEW P
    PROVE  /\ Picked(s, P) \in Seq(T)
           /\ \A j \in DOMAIN Picked(s, P) : \E i \in DOMAIN s : i \in P /\ Picked(s, P)[j] = s[i]
<1> PICK n \in Nat : n = Len(s)
  OBVIOUS
<1>1. DOMAIN s = 1 .. n /\ \A i \in 1 .. n : s[i] \in T
  OBVIOUS
<1>2. PICK g : PicksUpTo(g, T, s, P) /\ Picked(s, P) = g[n]
  BY PickedStepwise
<1>3. /\ g[0] = <<>>
      /\ \A i \in 1 .. n : g[i] = IF i \in P THEN Append(g[i - 1], s[i]) ELSE g[i - 1]
      /\ \A i \in 0 .. n : g[i] \in Seq(T)
  BY <1>2 DEF PicksUpTo
<1> DEFINE Of(q) == \A j \in DOMAIN q : \E i \in 1 .. n : i \in P /\ q[j] = s[i]
           S == {i \in 0 .. n : Of(g[i])}
<1>4. 0 \in S
  <2>1. Of(<<>>)
    BY Nothing
  <2> HIDE DEF Of
  <2>2. QED
    BY <1>3, <2>1
<1>5. ASSUME NEW m \in 0 .. n - 1, m \in S PROVE m + 1 \in S
  <2>1. m + 1 \in 1 .. n /\ m + 1 \in 0 .. n /\ (m + 1) - 1 = m /\ m \in 0 .. n
    OBVIOUS
  <2>2. Of(g[m]) /\ g[m] \in Seq(T) /\ s[m + 1] \in T
    BY <1>1, <1>3, <1>5, <2>1
  <2>3. g[m + 1] = IF m + 1 \in P THEN Append(g[m], s[m + 1]) ELSE g[m]
    BY <1>3, <2>1
  <2>4. ASSUME m + 1 \in P PROVE Of(Append(g[m], s[m + 1]))
    <3>1. PICK q : q = Append(g[m], s[m + 1])
      OBVIOUS
    <3>2. /\ DOMAIN q = 1 .. Len(g[m]) + 1 /\ DOMAIN g[m] = 1 .. Len(g[m]) /\ Len(g[m]) \in Nat
          /\ q[Len(g[m]) + 1] = s[m + 1] /\ \A j \in DOMAIN g[m] : q[j] = g[m][j]
      BY <2>2, <3>1, Appended, SMTT(30)
    <3>3. \A j \in DOMAIN q : j \in DOMAIN g[m] \/ j = Len(g[m]) + 1
      BY <3>2
    <3>4. Of(q)
      BY <2>1, <2>2, <2>4, <3>2, <3>3
    <3>5. QED
      BY <3>1, <3>4
  <2> HIDE DEF Of
  <2>5. QED
    BY <2>1, <2>2, <2>3, <2>4
<1>6. Of(g[n])
  <2> HIDE DEF S
  <2>1. \A i \in 0 .. n : i \in S
    BY <1>4, <1>5, UpTo
  <2>2. QED
    BY <2>1 DEF S
<1>7. g[n] \in Seq(T) /\ DOMAIN s = 1 .. n
  <2>1. n \in 0 .. n
    OBVIOUS
  <2>2. QED
    BY <1>1, <1>3, <2>1
<1>8. QED
  BY <1>2, <1>6, <1>7

\* A sequence is as long as what is picked from it and what is not.
LEMMA PickedLengths ==
    ASSUME NEW T, NEW s \in Seq(T), NEW P, NEW Q,
           \A i \in DOMAIN s : i \in P <=> i \notin Q
    PROVE  Len(Picked(s, P)) + Len(Picked(s, Q)) = Len(s)
<1> PICK n \in Nat : n = Len(s)
  OBVIOUS
<1>1. DOMAIN s = 1 .. n /\ \A i \in 1 .. n : s[i] \in T
  OBVIOUS
<1>2. PICK g : PicksUpTo(g, T, s, P) /\ Picked(s, P) = g[n]
  BY PickedStepwise
<1>3. PICK h : PicksUpTo(h, T, s, Q) /\ Picked(s, Q) = h[n]
  BY PickedStepwise
<1>4. /\ g[0] = <<>>
      /\ \A i \in 1 .. n : g[i] = IF i \in P THEN Append(g[i - 1], s[i]) ELSE g[i - 1]
      /\ \A i \in 0 .. n : g[i] \in Seq(T)
  BY <1>2 DEF PicksUpTo
<1>5. /\ h[0] = <<>>
      /\ \A i \in 1 .. n : h[i] = IF i \in Q THEN Append(h[i - 1], s[i]) ELSE h[i - 1]
      /\ \A i \in 0 .. n : h[i] \in Seq(T)
  BY <1>3 DEF PicksUpTo
<1> DEFINE Parts(i, a, b) == a = Len(g[i]) /\ b = Len(h[i]) /\ a + b = i
           S == {i \in 0 .. n : \E a \in Nat, b \in Nat : Parts(i, a, b)}
<1>6. 0 \in S
  <2>1. Len(g[0]) = 0 /\ Len(h[0]) = 0 /\ 0 \in 0 .. n
    BY <1>4, <1>5
  <2>2. 0 + 0 = 0 /\ 0 \in Nat
    OBVIOUS
  <2>3. QED
    BY <2>1, <2>2
<1>7. ASSUME NEW m \in 0 .. n - 1, m \in S PROVE m + 1 \in S
  <2>1. m + 1 \in 1 .. n /\ m + 1 \in 0 .. n /\ (m + 1) - 1 = m /\ m \in 0 .. n
    OBVIOUS
  <2> PICK a \in Nat, b \in Nat : Parts(m, a, b)
    BY <1>7
  <2>2. /\ g[m] \in Seq(T) /\ h[m] \in Seq(T) /\ s[m + 1] \in T
        /\ a + b = m /\ Len(g[m]) = a /\ Len(h[m]) = b
    BY <1>1, <1>4, <1>5, <2>1
  <2>3. /\ g[m + 1] = IF m + 1 \in P THEN Append(g[m], s[m + 1]) ELSE g[m]
        /\ h[m + 1] = IF m + 1 \in Q THEN Append(h[m], s[m + 1]) ELSE h[m]
    BY <1>4, <1>5, <2>1
  <2>4. /\ Len(Append(g[m], s[m + 1])) = a + 1
        /\ Len(Append(h[m], s[m + 1])) = b + 1
    BY <2>2
  <2>5. m + 1 \in P <=> m + 1 \notin Q
    BY <1>1, <2>1
  <2>6. \/ Len(g[m + 1]) = a + 1 /\ Len(h[m + 1]) = b
        \/ Len(g[m + 1]) = a /\ Len(h[m + 1]) = b + 1
    BY <2>3, <2>4, <2>5
  <2>7. a + 1 \in Nat /\ b + 1 \in Nat /\ (a + 1) + b = m + 1 /\ a + (b + 1) = m + 1
    <3>1. a + b = m
      OBVIOUS
    <3> HIDE DEF Parts
    <3>2. QED
      BY <3>1
  <2>8. Parts(m + 1, a + 1, b) \/ Parts(m + 1, a, b + 1)
    BY <2>6, <2>7
  <2>9. QED
    BY <2>1, <2>7, <2>8
<1>8. n \in S
  <2> HIDE DEF S
  <2>1. \A i \in 0 .. n : i \in S
    BY <1>6, <1>7, UpTo
  <2>2. QED
    BY <2>1
<1>9. QED
  BY <1>2, <1>3, <1>8

\* Behind a first part lies the second.
LEMMA BehindFirst ==
    ASSUME NEW S, NEW p \in Seq(S), NEW t \in Seq(S)
    PROVE  SubSeq(p \o t, Len(p) + 1, Len(p \o t)) = t
<1> PICK a \in Nat, b \in Nat : a = Len(p) /\ b = Len(t)
  OBVIOUS
<1> PICK q : q = p \o t
  OBVIOUS
<1>1. /\ q \in Seq(S) /\ Len(q) = a + b
      /\ \A i \in 1 .. a + b : q[i] = IF i <= a THEN p[i] ELSE t[i - a]
  BY ConcatProperties
<1>2. \A i \in a + 1 .. a + b : q[i] \in S
  BY <1>1
<1> PICK r : r = SubSeq(q, a + 1, a + b)
  OBVIOUS
<1>3. /\ r \in Seq(S) /\ Len(r) = IF a + 1 <= a + b THEN a + b - (a + 1) + 1 ELSE 0
      /\ \A i \in 1 .. a + b - (a + 1) + 1 : r[i] = q[a + 1 + i - 1]
  <2>1. a + 1 \in Int /\ a + b \in Int
    OBVIOUS
  <2>2. QED
    BY <1>2, <2>1, SubSeqProperties
<1>4. Len(r) = b
  BY <1>3
<1>5. \A i \in 1 .. b : r[i] = t[i]
  <2> TAKE i \in 1 .. b
  <2>1. a + 1 + i - 1 = a + i /\ a + i \in 1 .. a + b /\ ~(a + i <= a) /\ (a + i) - a = i
        /\ i \in 1 .. a + b - (a + 1) + 1
    OBVIOUS
  <2>2. r[i] = q[a + i] /\ q[a + i] = t[i]
    BY <1>1, <1>3, <2>1, ZenonT(60)
  <2>3. QED
    BY <2>2
<1>6. r = t
  BY <1>3, <1>4, <1>5, SeqEqual, ZenonT(60)
<1>7. QED
  BY <1>1, <1>6

\* The first n elements of what is left of s behind m are the n behind m.
FirstOfRest(s, m, r, n) ==
    /\ Len(SubSeq(r, 1, n)) = n
    /\ SubSeq(r, 1, n) = SubSeq(s, m + 1, m + n)
    /\ n > 0 => m + n \in 1 .. Len(s) /\ r[n] = s[m + n]

\* What is left of a sequence from a place on, and a first part of that.
LEMMA PartOfRest ==
    ASSUME NEW S, NEW s \in Seq(S), NEW m \in Nat, NEW r, r = SubSeq(s, m + 1, Len(s)),
           NEW n \in 0 .. Len(r)
    PROVE  FirstOfRest(s, m, r, n)
<1> PICK len \in Nat : len = Len(s)
  OBVIOUS
<1>1. \A i \in 1 .. len : s[i] \in S
  OBVIOUS
<1>2. \A i \in m + 1 .. len : s[i] \in S
  BY <1>1
<1>3. /\ r \in Seq(S) /\ Len(r) = IF m + 1 <= len THEN len - (m + 1) + 1 ELSE 0
      /\ \A i \in 1 .. len - (m + 1) + 1 : r[i] = s[m + 1 + i - 1]
  <2>1. m + 1 \in Int /\ len \in Int
    OBVIOUS
  <2>2. QED
    BY <1>2, <2>1, SubSeqProperties
<1> PICK k \in Nat : k = n
  BY <1>3
<1>4. k = 0 \/ (m + 1 <= len /\ m + k <= len)
  BY <1>3
<1>5. \A i \in 1 .. k : m + i \in 1 .. len /\ r[i] = s[m + i] /\ r[i] \in S
  <2> TAKE i \in 1 .. k
  <2>1. m + i \in 1 .. len /\ i \in 1 .. len - (m + 1) + 1 /\ m + 1 + i - 1 = m + i
    BY <1>4
  <2>2. QED
    BY <1>1, <1>3, <2>1
<1> PICK a : a = SubSeq(r, 1, k)
  OBVIOUS
<1>6. a \in Seq(S) /\ Len(a) = k /\ \A i \in 1 .. k : a[i] = r[i]
  <2>1. 1 \in Int /\ k \in Int /\ \A i \in 1 .. k : r[i] \in S
    BY <1>5
  <2>2. /\ a \in Seq(S) /\ Len(a) = IF 1 <= k THEN k - 1 + 1 ELSE 0
        /\ \A i \in 1 .. k - 1 + 1 : a[i] = r[1 + i - 1]
    BY <2>1, SubSeqProperties
  <2>3. Len(a) = k /\ \A i \in 1 .. k : i \in 1 .. k - 1 + 1 /\ 1 + i - 1 = i
    BY <2>2
  <2>4. QED
    BY <2>2, <2>3
<1> PICK b : b = SubSeq(s, m + 1, m + k)
  OBVIOUS
<1>7. b \in Seq(S) /\ Len(b) = k /\ \A i \in 1 .. k : b[i] = s[m + i]
  <2>1. m + 1 \in Int /\ m + k \in Int /\ \A i \in m + 1 .. m + k : s[i] \in S
    BY <1>1, <1>4
  <2>2. /\ b \in Seq(S) /\ Len(b) = IF m + 1 <= m + k THEN m + k - (m + 1) + 1 ELSE 0
        /\ \A i \in 1 .. m + k - (m + 1) + 1 : b[i] = s[m + 1 + i - 1]
    BY <2>1, SubSeqProperties
  <2>3. Len(b) = k /\ \A i \in 1 .. k : i \in 1 .. m + k - (m + 1) + 1 /\ m + 1 + i - 1 = m + i
    BY <2>2
  <2>4. QED
    BY <2>2, <2>3
<1>8. a = b
  BY <1>5, <1>6, <1>7, SeqEqual
<1>9. QED
  BY <1>3, <1>5, <1>6, <1>8 DEF FirstOfRest

\* The elements picked behind one of them are those picked from behind its position.
PicksBehind(s, P, j) ==
    \E m \in DOMAIN s :
       /\ m \in P /\ Picked(s, P)[j] = s[m]
       /\ \A Q : (\A i \in DOMAIN s : i \in Q <=> i \in P /\ i > m) =>
             Picked(s, Q) = SubSeq(Picked(s, P), j + 1, Len(Picked(s, P)))

LEMMA PickedAfter ==
    ASSUME NEW T, NEW s \in Seq(T), NEW P, NEW j \in 1 .. Len(Picked(s, P))
    PROVE  PicksBehind(s, P, j)
<1> PICK n \in Nat : n = Len(s)
  OBVIOUS
<1>1. DOMAIN s = 1 .. n /\ \A i \in 1 .. n : s[i] \in T
  OBVIOUS
<1>2. PICK g : PicksUpTo(g, T, s, P) /\ Picked(s, P) = g[n]
  BY PickedStepwise
<1>3. /\ g[0] = <<>>
      /\ \A i \in 1 .. n : g[i] = IF i \in P THEN Append(g[i - 1], s[i]) ELSE g[i - 1]
      /\ \A i \in 0 .. n : g[i] \in Seq(T)
  BY <1>2 DEF PicksUpTo
<1> DEFINE Comes(i, x) == \E m \in 1 .. i : m \in P /\ Len(g[m]) = x /\ s[m] = g[i][x]
           S == {i \in 0 .. n : \A x \in 1 .. Len(g[i]) : Comes(i, x)}
<1>4. 0 \in S
  BY <1>3
<1>5. ASSUME NEW k \in 0 .. n - 1, k \in S PROVE k + 1 \in S
  <2>1. k + 1 \in 1 .. n /\ k + 1 \in 0 .. n /\ (k + 1) - 1 = k /\ k \in 0 .. n
    OBVIOUS
  <2>2. g[k + 1] = IF k + 1 \in P THEN Append(g[k], s[k + 1]) ELSE g[k]
    BY <1>3, <2>1
  <2>3. g[k] \in Seq(T) /\ s[k + 1] \in T
    BY <1>1, <1>3, <2>1
  <2>4. \A x \in 1 .. Len(g[k]) : Comes(k, x)
    BY <1>5
  <2>5. CASE k + 1 \in P
    <3> PICK q : q = g[k + 1]
      OBVIOUS
    <3> PICK len \in Nat : len = Len(g[k])
      BY <2>3
    <3>1. /\ DOMAIN q = 1 .. len + 1 /\ q \in Seq(T) /\ q[len + 1] = s[k + 1]
          /\ \A i \in 1 .. len : q[i] = g[k][i]
      BY <2>2, <2>3, <2>5, Appended
    <3>2. Len(q) = len + 1
      BY <3>1
    <3>3. Comes(k + 1, len + 1)
      BY <2>1, <2>5, <3>1, <3>2
    <3>4. ASSUME NEW x \in 1 .. len PROVE Comes(k + 1, x)
      <4>1. PICK m \in 1 .. k : m \in P /\ Len(g[m]) = x /\ s[m] = g[k][x]
        BY <2>4
      <4>2. m \in 1 .. k + 1 /\ q[x] = g[k][x]
        BY <3>1
      <4>3. QED
        BY <4>1, <4>2
    <3> HIDE DEF Comes
    <3>5. \A x \in 1 .. len + 1 : x = len + 1 \/ x \in 1 .. len
      OBVIOUS
    <3>6. QED
      BY <2>1, <3>2, <3>3, <3>4, <3>5
  <2>6. CASE k + 1 \notin P
    <3>1. g[k + 1] = g[k]
      BY <2>2, <2>6
    <3>2. ASSUME NEW x \in 1 .. Len(g[k]) PROVE Comes(k + 1, x)
      <4>1. PICK m \in 1 .. k : m \in P /\ Len(g[m]) = x /\ s[m] = g[k][x]
        BY <2>4
      <4>2. m \in 1 .. k + 1
        OBVIOUS
      <4>3. QED
        BY <3>1, <4>1, <4>2
    <3> HIDE DEF Comes
    <3>3. QED
      BY <2>1, <3>1, <3>2
  <2>7. QED
    BY <2>5, <2>6
<1>6. n \in S
  <2> HIDE DEF S
  <2>1. \A i \in 0 .. n : i \in S
    BY <1>4, <1>5, UpTo
  <2>2. QED
    BY <2>1
<1>7. PICK m \in 1 .. n : m \in P /\ Len(g[m]) = j /\ s[m] = g[n][j]
  BY <1>2, <1>6
<1> HIDE DEF S
<1> SUFFICES ASSUME NEW Q, \A i \in DOMAIN s : i \in Q <=> i \in P /\ i > m
             PROVE  Picked(s, Q) = SubSeq(g[n], j + 1, Len(g[n]))
  BY <1>1, <1>2, <1>7 DEF PicksBehind
<1>8. PICK h : PicksUpTo(h, T, s, Q) /\ Picked(s, Q) = h[n]
  BY PickedStepwise
<1>9. /\ h[0] = <<>>
      /\ \A i \in 1 .. n : h[i] = IF i \in Q THEN Append(h[i - 1], s[i]) ELSE h[i - 1]
      /\ \A i \in 0 .. n : h[i] \in Seq(T)
  BY <1>8 DEF PicksUpTo
<1>10. g[m] \in Seq(T) /\ g[n] \in Seq(T) /\ h[n] \in Seq(T)
  <2>1. m \in 0 .. n /\ n \in 0 .. n
    OBVIOUS
  <2>2. QED
    BY <1>3, <1>9, <2>1
<1> DEFINE R == {i \in 0 .. n : (i <= m => h[i] = <<>>) /\ (i >= m => g[i] = g[m] \o h[i])}
<1>11. g[m] \o <<>> = g[m]
  BY <1>10, ConcatEmptySeq
<1>12. 0 \in R
  <2>1. 0 \in 0 .. n /\ ~(0 >= m) /\ h[0] = <<>>
    BY <1>9
  <2>2. QED
    BY <2>1
<1>13. ASSUME NEW k \in 0 .. n - 1, k \in R PROVE k + 1 \in R
  <2>1. k + 1 \in 1 .. n /\ k + 1 \in 0 .. n /\ (k + 1) - 1 = k /\ k \in 0 .. n
    OBVIOUS
  <2>2. /\ g[k + 1] = IF k + 1 \in P THEN Append(g[k], s[k + 1]) ELSE g[k]
        /\ h[k + 1] = IF k + 1 \in Q THEN Append(h[k], s[k + 1]) ELSE h[k]
    BY <1>3, <1>9, <2>1
  <2>3. k + 1 \in Q <=> k + 1 \in P /\ k + 1 > m
    BY <1>1, <2>1
  <2>4. CASE k + 1 <= m
    <3>1. h[k + 1] = <<>>
      BY <1>13, <2>2, <2>3, <2>4
    <3>2. k + 1 >= m => k + 1 = m
      BY <2>4
    <3>3. QED
      BY <1>11, <2>1, <2>4, <3>1, <3>2
  <2>5. CASE k >= m
    <3>1. g[k] = g[m] \o h[k] /\ h[k] \in Seq(T) /\ s[k + 1] \in T
      BY <1>1, <1>9, <1>13, <2>1, <2>5
    <3>2. g[m] \o Append(h[k], s[k + 1]) = Append(g[m] \o h[k], s[k + 1])
      <4>1. PICK a \in Seq(T) : a = g[m]
        BY <1>10
      <4>2. PICK b \in Seq(T) : b = h[k]
        BY <3>1
      <4>3. PICK e \in T : e = s[k + 1]
        BY <3>1
      <4>4. a \o Append(b, e) = Append(a \o b, e)
        BY JoinedAppend, SMTT(30)
      <4>5. QED
        BY <4>1, <4>2, <4>3, <4>4
    <3>3. k + 1 \in Q <=> k + 1 \in P
      BY <2>3, <2>5
    <3>4. g[k + 1] = g[m] \o h[k + 1]
      BY <2>2, <3>1, <3>2, <3>3
    <3>5. ~(k + 1 <= m)
      BY <2>5
    <3>6. QED
      BY <2>1, <3>4, <3>5
  <2>6. k + 1 <= m \/ k >= m
    OBVIOUS
  <2> HIDE DEF R
  <2>7. QED
    BY <2>4, <2>5, <2>6
<1>14. g[n] = g[m] \o h[n]
  <2> HIDE DEF R
  <2>1. \A i \in 0 .. n : i \in R
    BY <1>12, <1>13, UpTo
  <2>2. n \in R /\ n >= m
    BY <2>1
  <2>3. QED
    BY <2>2 DEF R
<1>15. SubSeq(g[m] \o h[n], Len(g[m]) + 1, Len(g[m] \o h[n])) = h[n]
  BY <1>10, BehindFirst
<1>16. QED
  BY <1>7, <1>8, <1>14, <1>15

\* Three sequences in a row, whichever are joined first.
Groups(a, b, c) == (a \o b) \o c = a \o (b \o c)
LEMMA Regroup ==
    ASSUME NEW T, NEW a, NEW b, NEW c, a \in Seq(T), b \in Seq(T), c \in Seq(T)
    PROVE  Groups(a, b, c)
BY ConcatAssociative DEF Groups

\* What is left of a sequence behind a place.
LEMMA RestTyped ==
    ASSUME NEW S, NEW s \in Seq(S), NEW m \in Nat
    PROVE  SubSeq(s, m + 1, Len(s)) \in Seq(S)
<1> PICK r : r = SubSeq(s, m + 1, Len(s))
  OBVIOUS
<1> PICK len \in Nat : len = Len(s)
  OBVIOUS
<1>1. m + 1 \in Int /\ len \in Int /\ \A i \in m + 1 .. len : s[i] \in S
  OBVIOUS
<1>2. QED
  BY <1>1, SubSeqProperties

\* From its first element to its last, a sequence is all of itself.
IsWhole(s) == SubSeq(s, 1, Len(s)) = s
LEMMA AllOfIt == ASSUME NEW S, NEW s \in Seq(S) PROVE IsWhole(s)
<1>1. <<>> \in Seq(S) /\ <<>> \o s = s /\ Len(<<>>) + 1 = 1
  BY NothingBefore
<1>2. SubSeq(<<>> \o s, Len(<<>>) + 1, Len(<<>> \o s)) = s
  BY <1>1, BehindFirst
<1>3. QED
  BY <1>1, <1>2 DEF IsWhole

\* A sequence cut in two behind its n-th element.
Splits(S, s, n) ==
    /\ SubSeq(s, 1, n) \in Seq(S) /\ SubSeq(s, n + 1, Len(s)) \in Seq(S)
    /\ SubSeq(s, 1, n) \o SubSeq(s, n + 1, Len(s)) = s
LEMMA CutInTwo ==
    ASSUME NEW S, NEW s \in Seq(S), NEW n \in 0 .. Len(s)
    PROVE  Splits(S, s, n)
<1>1. 0 \in Nat /\ 0 + 1 = 1 /\ 0 + n + 1 = n + 1
  OBVIOUS
<1>2. s = SubSeq(s, 0 + 1, Len(s))
  BY <1>1, AllOfIt DEF IsWhole
<1>3. SplitsAt(S, s, 0, s, n)
  BY <1>1, <1>2, RestOfRest
<1>4. QED
  BY <1>1, <1>3 DEF Splits, SplitsAt
=============================================================================
