----------------------------- MODULE MidiProofs -----------------------------
(* Proofs about Midi, for any set of legal packets, any buffer sizes and    *)
(* any number of plugs.  The codings of Midi take sequences element by      *)
(* element, so they distribute over concatenation (FlatFacts); a turn of    *)
(* encode_bytes on a legal stream says what its first piece says            *)
(* (TurnSays).  So what is owed is at any time what is on the way, then     *)
(* what gSyx keeps, then what the pieces still to be encoded tell (Agrees). *)
(* Types, Transport and Closed are what this needs of the rest: what is     *)
(* read or on the wire belongs to the interface that is open, and the       *)
(* encoder is inside a system exclusive only if a client is, or if the      *)
(* bytes that end it are still to be encoded.  Paid keeps the count of      *)
(* clocks from running out also for a daemon that has lost the device.      *)
EXTENDS Midi, Induction, SequenceTheorems

----------------------------------------------------------------------------
(* Concatenation may be grouped either way.                                 *)
Grouped(s, t, u) == (s \o t) \o u = s \o (t \o u)
LEMMA Regroup ==
  \A T : \A s, t, u \in Seq(T) : Grouped(s, t, u)
<1> SUFFICES ASSUME NEW T, NEW s \in Seq(T), NEW t \in Seq(T), NEW u \in Seq(T)
             PROVE  (s \o t) \o u = s \o (t \o u)
  BY DEF Grouped
<1> QED BY ConcatAssociative

(* FlattenSeq, by its recursive function.                                   *)
LEMMA FlattenExists ==
  ASSUME NEW n \in Nat, NEW q
  PROVE  \E f : f = [i \in 1 .. n |-> IF i = 1 THEN q[i] ELSE f[i-1] \o q[i]]
<1> DEFINE Upto(m) == \E f : f = [i \in 1 .. m |-> IF i = 1 THEN q[i] ELSE f[i-1] \o q[i]]
           T == {m \in Nat : ~Upto(m)}
<1> SUFFICES ASSUME T # {} PROVE FALSE
  OBVIOUS
<1>0. T \subseteq Nat
  OBVIOUS
<1>1. PICK m \in T : \A k \in T : m <= k
  <2> HIDE DEF T
  <2> QED BY <1>0, Least
<1>2. m \in Nat /\ ~Upto(m)
  BY <1>1
<1>3. m # 0
  <2>1. [i \in 1 .. 0 |-> 0] = [i \in 1 .. 0 |->
           IF i = 1 THEN q[i] ELSE [j \in 1 .. 0 |-> 0][i-1] \o q[i]]
    OBVIOUS
  <2>2. Upto(0)
    BY <2>1
  <2> QED BY <1>2, <2>2
<1>4. m - 1 \in Nat /\ ~(m <= m - 1)
  BY <1>2, <1>3
<1>5. Upto(m - 1)
  BY <1>1, <1>4
<1>6. PICK f : f = [i \in 1 .. m - 1 |-> IF i = 1 THEN q[i] ELSE f[i-1] \o q[i]]
  BY <1>5
<1> DEFINE g == [i \in 1 .. m |-> IF i = m THEN (IF m = 1 THEN q[m] ELSE f[m-1] \o q[m])
                                            ELSE f[i]]
<1>7. ASSUME NEW i \in 1 .. m
      PROVE  g[i] = IF i = 1 THEN q[i] ELSE g[i-1] \o q[i]
  <2>1. i \in Int /\ m \in Int /\ 1 <= i /\ i <= m
    BY <1>2
  <2>2. CASE i = m
    <3>1. g[i] = IF i = 1 THEN q[i] ELSE f[i-1] \o q[i]
      BY <2>1, <2>2
    <3>2. i # 1 => i - 1 \in 1 .. m /\ i - 1 # m
      BY <2>1
    <3>3. i # 1 => g[i-1] = f[i-1]
      BY <3>2
    <3> HIDE DEF g
    <3> QED BY <3>1, <3>3
  <2>3. CASE i # m
    <3>1. i \in 1 .. m - 1 /\ g[i] = f[i]
      BY <2>1, <2>3
    <3>2. f[i] = IF i = 1 THEN q[i] ELSE f[i-1] \o q[i]
      BY <1>6, <3>1
    <3>3. i # 1 => i - 1 \in 1 .. m /\ i - 1 # m
      BY <2>1, <2>3
    <3>4. i # 1 => g[i-1] = f[i-1]
      BY <3>3
    <3> HIDE DEF g
    <3> QED BY <3>1, <3>2, <3>4
  <2> QED BY <2>2, <2>3
<1>8. g = [i \in 1 .. m |-> IF i = 1 THEN q[i] ELSE g[i-1] \o q[i]]
  <2>1. g = [i \in 1 .. m |-> g[i]]
    OBVIOUS
  <2> HIDE DEF g
  <2> QED BY <1>7, <2>1
<1> HIDE DEF g
<1>9. Upto(m)
  BY <1>8
<1> QED BY <1>2, <1>9

LEMMA FlattenRec ==
  ASSUME NEW S, NEW q \in Seq(S), q # <<>>
  PROVE  \E f : /\ FlattenSeq(q) = f[Len(q)] /\ f[1] = q[1]
                /\ \A i \in 2 .. Len(q) : f[i] = f[i-1] \o q[i]
<1>1. Len(q) \in Nat /\ Len(q) # 0
  BY EmptySeq
<1>2. \E f : f = [i \in 1 .. Len(q) |-> IF i = 1 THEN q[i] ELSE f[i-1] \o q[i]]
  BY <1>1, FlattenExists
<1> DEFINE F == CHOOSE f : f = [i \in 1 .. Len(q) |-> IF i = 1 THEN q[i] ELSE f[i-1] \o q[i]]
<1>3. F = [i \in 1 .. Len(q) |-> IF i = 1 THEN q[i] ELSE F[i-1] \o q[i]]
  BY <1>2, Zenon
<1>4. FlattenSeq(q) = F[Len(q)]
  BY <1>1, Zenon DEF FlattenSeq
<1> HIDE DEF F
<1>5. F[1] = q[1]
  BY <1>1, <1>3
<1>6. \A i \in 2 .. Len(q) : F[i] = F[i-1] \o q[i]
  <2> SUFFICES ASSUME NEW i \in 2 .. Len(q) PROVE F[i] = F[i-1] \o q[i]
    OBVIOUS
  <2>1. i \in 1 .. Len(q) /\ i # 1
    BY <1>1
  <2> QED BY <1>3, <2>1
<1> QED BY <1>4, <1>5, <1>6

LEMMA FlattenEmpty == FlattenSeq(<<>>) = <<>>
BY EmptySeq DEF FlattenSeq

LEMMA FlattenType ==
  ASSUME NEW S, NEW q \in Seq(Seq(S))
  PROVE  FlattenSeq(q) \in Seq(S)
<1>1. CASE q = <<>>
  BY <1>1, FlattenEmpty, EmptySeq
<1>2. CASE q # <<>>
  <2>1. PICK f : /\ FlattenSeq(q) = f[Len(q)] /\ f[1] = q[1]
                 /\ \A i \in 2 .. Len(q) : f[i] = f[i-1] \o q[i]
    BY <1>2, FlattenRec
  <2>2. Len(q) \in Nat /\ Len(q) # 0 /\ \A i \in 1 .. Len(q) : q[i] \in Seq(S)
    BY <1>2, EmptySeq, ElementOfSeq
  <2> DEFINE T == {i \in 1 .. Len(q) : f[i] \notin Seq(S)}
  <2>3. T = {}
    <3> SUFFICES ASSUME T # {} PROVE FALSE
      OBVIOUS
    <3>0. T \subseteq Nat
      BY <2>2
    <3>1. PICK m \in T : \A k \in T : m <= k
      <4> HIDE DEF T
      <4> QED BY <3>0, Least
    <3>2. m \in 1 .. Len(q) /\ f[m] \notin Seq(S) /\ m # 1 /\ m \in Nat
      BY <2>1, <2>2, <3>1
    <3>3. m \in 2 .. Len(q) /\ m - 1 \in 1 .. Len(q) /\ ~(m <= m - 1)
      BY <2>2, <3>2
    <3>4. f[m-1] \in Seq(S)
      BY <3>1, <3>3
    <3>5. f[m] = f[m-1] \o q[m] /\ q[m] \in Seq(S)
      BY <2>1, <2>2, <3>2, <3>3
    <3> QED BY <3>2, <3>4, <3>5, ConcatProperties, Zenon
  <2> QED BY <2>1, <2>2, <2>3
<1> QED BY <1>1, <1>2

LEMMA FlattenAppend ==
  ASSUME NEW S, NEW q \in Seq(Seq(S)), NEW e \in Seq(S)
  PROVE  FlattenSeq(Append(q, e)) = FlattenSeq(q) \o e
<1> DEFINE r == Append(q, e)
           n == Len(q)
<1>1. /\ r \in Seq(Seq(S)) /\ r # <<>> /\ Len(r) = n + 1 /\ r[n+1] = e
      /\ \A i \in 1 .. n : r[i] = q[i] /\ q[i] \in Seq(S)
      /\ n \in Nat
  BY AppendProperties, ElementOfSeq
<1> HIDE DEF r
<1>2. PICK f : /\ FlattenSeq(r) = f[Len(r)] /\ f[1] = r[1]
               /\ \A i \in 2 .. Len(r) : f[i] = f[i-1] \o r[i]
  BY <1>1, FlattenRec
<1>3. CASE q = <<>>
  <2>1. n = 0
    BY <1>3
  <2>2. FlattenSeq(r) = e
    BY <1>1, <1>2, <2>1
  <2>3. <<>> \o e = e
    BY ConcatEmptySeq
  <2> QED BY <1>3, <2>2, <2>3, FlattenEmpty DEF r
<1>4. CASE q # <<>>
  <2>1. PICK g : /\ FlattenSeq(q) = g[n] /\ g[1] = q[1]
                 /\ \A i \in 2 .. n : g[i] = g[i-1] \o q[i]
    BY <1>4, FlattenRec
  <2>2. n # 0
    BY <1>4, EmptySeq
  <2> DEFINE T == {i \in 1 .. n : f[i] # g[i]}
  <2>3. T = {}
    <3> SUFFICES ASSUME T # {} PROVE FALSE
      OBVIOUS
    <3>0. T \subseteq Nat
      BY <1>1
    <3>1. PICK m \in T : \A k \in T : m <= k
      <4> HIDE DEF T
      <4> QED BY <3>0, Least
    <3>2. m \in 1 .. n /\ f[m] # g[m] /\ m # 1 /\ m \in Nat
      BY <1>1, <1>2, <2>1, <2>2, <3>1
    <3>3. m \in 2 .. n /\ m \in 2 .. Len(r) /\ m - 1 \in 1 .. n /\ ~(m <= m - 1)
      BY <1>1, <3>2
    <3>4. f[m-1] = g[m-1]
      BY <3>1, <3>3
    <3> QED BY <1>1, <1>2, <2>1, <3>2, <3>3, <3>4
  <2>4. f[n] = g[n]
    BY <1>1, <2>2, <2>3
  <2>5. n + 1 \in 2 .. Len(r) /\ (n + 1) - 1 = n
    BY <1>1, <2>2
  <2>6. f[n+1] = f[n] \o r[n+1]
    BY <1>2, <2>5
  <2> QED BY <1>1, <1>2, <2>1, <2>4, <2>6 DEF r
<1> QED BY <1>3, <1>4

LEMMA FlattenConcat ==
  ASSUME NEW S, NEW q \in Seq(Seq(S)), NEW r \in Seq(Seq(S))
  PROVE  FlattenSeq(q \o r) = FlattenSeq(q) \o FlattenSeq(r)
<1> DEFINE Part(k) == SubSeq(r, 1, k)
           T == {k \in 0 .. Len(r) :
                   FlattenSeq(q \o Part(k)) # FlattenSeq(q) \o FlattenSeq(Part(k))}
<1>1. Len(r) \in Nat /\ \A i \in 1 .. Len(r) : r[i] \in Seq(S)
  BY ElementOfSeq, LenProperties
<1>2. \A k \in 0 .. Len(r) : Part(k) \in Seq(Seq(S))
  <2> SUFFICES ASSUME NEW k \in 0 .. Len(r) PROVE Part(k) \in Seq(Seq(S))
    OBVIOUS
  <2>1. \A i \in 1 .. k : r[i] \in Seq(S)
    BY <1>1
  <2> QED BY <2>1, <1>1, SubSeqProperties
<1>3. FlattenSeq(q) \in Seq(S)
  BY FlattenType
<1>4. T = {}
  <2> SUFFICES ASSUME T # {} PROVE FALSE
    OBVIOUS
  <2>0. T \subseteq Nat
    BY <1>1
  <2>1. PICK m \in T : \A k \in T : m <= k
    <3> HIDE DEF T
    <3> QED BY <2>0, Least
  <2>2. m \in 0 .. Len(r) /\ m \in Nat
        /\ FlattenSeq(q \o Part(m)) # FlattenSeq(q) \o FlattenSeq(Part(m))
    BY <2>1, <1>1
  <2>3. m # 0
    <3>1. SubSeq(r, 1, 0) = <<>>
      BY SubSeqEmpty
    <3>2. q \o <<>> = q /\ FlattenSeq(q) \o <<>> = FlattenSeq(q)
      BY <1>3, ConcatEmptySeq
    <3> QED BY <2>2, <3>1, <3>2, FlattenEmpty
  <2>4. m - 1 \in 0 .. Len(r) /\ ~(m <= m - 1) /\ m \in 1 .. Len(r)
    BY <1>1, <2>2, <2>3
  <2>5. FlattenSeq(q \o Part(m-1)) = FlattenSeq(q) \o FlattenSeq(Part(m-1))
    BY <2>1, <2>4
  <2> DEFINE u == Part(m-1)
             e == r[m]
  <2>6. u \in Seq(Seq(S)) /\ e \in Seq(S) /\ FlattenSeq(u) \in Seq(S)
    BY <1>1, <1>2, <2>4, FlattenType
  <2>7. Part(m) = Append(u, e)
    <3>1. 1 \in 1 .. Len(r) /\ m \in 1 .. Len(r)
      BY <2>4
    <3>2. SubSeq(r, 1, m) = SubSeq(r, 1, m-1) \o << r[m] >>
      BY <3>1, SubSeqRecursiveSecond, Zenon
    <3> HIDE DEF u, e
    <3>3. Append(u, e) = u \o <<e>>
      BY <2>6, AppendIsConcat
    <3> QED BY <3>2, <3>3 DEF u, e
  <2>8. FlattenSeq(u) \o e = FlattenSeq(Part(m))
    <3> HIDE DEF u, e, Part
    <3> QED BY <2>6, <2>7, FlattenAppend
  <2>9. q \o Part(m) = Append(q \o u, e) /\ q \o u \in Seq(Seq(S))
    <3> HIDE DEF u, e, Part
    <3>1. Append(u, e) = u \o <<e>> /\ <<e>> \in Seq(Seq(S))
      BY <2>6, AppendIsConcat
    <3>2. q \o u \in Seq(Seq(S)) /\ Append(q \o u, e) = (q \o u) \o <<e>>
      BY <2>6, AppendIsConcat, ConcatProperties
    <3>3. (q \o u) \o <<e>> = q \o (u \o <<e>>)
      <4> DEFINE v == <<e>>
      <4>1. q \in Seq(Seq(S)) /\ u \in Seq(Seq(S)) /\ v \in Seq(Seq(S))
        BY <2>6, <3>1
      <4> HIDE DEF v, T
      <4>2. (q \o u) \o v = q \o (u \o v)
        BY <4>1, Regroup DEF Grouped
      <4> QED BY <4>2 DEF v
    <3> QED BY <2>7, <3>1, <3>2, <3>3
  <2>10. FlattenSeq(q \o Part(m)) = FlattenSeq(q \o u) \o e
    <3> HIDE DEF u, e, Part
    <3> QED BY <2>6, <2>9, FlattenAppend
  <2>11. FlattenSeq(q \o u) \o e = FlattenSeq(q) \o (FlattenSeq(u) \o e)
    <3> HIDE DEF e, Part
    <3>1. FlattenSeq(q \o u) = FlattenSeq(q) \o FlattenSeq(u)
      BY <2>5
    <3> DEFINE a == FlattenSeq(q)
               b == FlattenSeq(u)
    <3>2. a \in Seq(S) /\ b \in Seq(S) /\ e \in Seq(S)
      BY <1>3, <2>6
    <3> HIDE DEF a, b, u, T
    <3>3. (a \o b) \o e = a \o (b \o e)
      BY <3>2, Regroup DEF Grouped
    <3> QED BY <3>1, <3>3 DEF a, b
  <2> QED BY <2>2, <2>8, <2>10, <2>11
<1>5. Part(Len(r)) = r
  BY SubSeqFull
<1>6. Len(r) \in 0 .. Len(r)
  BY <1>1
<1> HIDE DEF Part
<1> QED BY <1>4, <1>5, <1>6

LEMMA FlattenOne ==
  ASSUME NEW S, NEW e \in Seq(S)
  PROVE  FlattenSeq(<<e>>) = e
<1>1. <<e>> \in Seq(Seq(S)) /\ <<e>> # <<>> /\ Len(<<e>>) = 1 /\ <<e>>[1] = e
  OBVIOUS
<1> DEFINE q == <<e>>
<1> HIDE DEF q
<1>2. PICK f : FlattenSeq(q) = f[Len(q)] /\ f[1] = q[1]
  BY <1>1, FlattenRec DEF q
<1> QED BY <1>1, <1>2 DEF q

(* What a function to sequences makes of a sequence, put together.          *)
Image(g, b) == [i \in DOMAIN b |-> g[b[i]]]
Flat(g, b) == FlattenSeq(Image(g, b))

LEMMA FlatImage ==
  ASSUME NEW A, NEW S, NEW g \in [A -> Seq(S)], NEW b \in Seq(A)
  PROVE  Image(g, b) \in Seq(Seq(S)) /\ Len(Image(g, b)) = Len(b)
<1>1. Len(b) \in Nat /\ DOMAIN b = 1 .. Len(b)
  BY LenProperties
<1>2. \A i \in 1 .. Len(b) : g[b[i]] \in Seq(S)
  BY ElementOfSeq
<1> DEFINE c == [i \in DOMAIN b |-> g[b[i]]]
<1>3. c \in [1 .. Len(b) -> Seq(S)]
  BY <1>1, <1>2
<1> HIDE DEF c
<1>4. c \in Seq(Seq(S)) /\ Len(c) = Len(b)
  BY <1>1, <1>3, SeqDef
<1> QED BY <1>4 DEF c, Image

LEMMA FlatFacts ==
  ASSUME NEW A, NEW S, NEW g \in [A -> Seq(S)]
  PROVE  /\ Flat(g, <<>>) = <<>>
         /\ \A a \in Seq(A) : Flat(g, a) \in Seq(S)
         /\ \A x \in A : Flat(g, <<x>>) = g[x]
         /\ \A a, b \in Seq(A) : Flat(g, a \o b) = Flat(g, a) \o Flat(g, b)
<1> DEFINE Img(b) == Image(g, b)
<1>0. \A b \in Seq(A) : Img(b) \in Seq(Seq(S)) /\ Len(Img(b)) = Len(b)
  BY FlatImage
<1>1. Flat(g, <<>>) = <<>>
  <2>1. Img(<<>>) = <<>>
    BY DEF Image
  <2> QED BY <2>1, FlattenEmpty DEF Flat
<1>2. ASSUME NEW a \in Seq(A)
      PROVE  Flat(g, a) \in Seq(S)
  BY FlatImage, FlattenType DEF Flat
<1>3. ASSUME NEW x \in A
      PROVE  Flat(g, <<x>>) = g[x]
  <2>1. Img(<<x>>) = <<g[x]>>
    BY DEF Image
  <2>2. g[x] \in Seq(S)
    OBVIOUS
  <2> QED BY <2>1, <2>2, FlattenOne DEF Flat
<1>4. ASSUME NEW a \in Seq(A), NEW b \in Seq(A)
      PROVE  Flat(g, a \o b) = Flat(g, a) \o Flat(g, b)
  <2>1. Img(a) \in Seq(Seq(S)) /\ Len(Img(a)) = Len(a)
    <3> HIDE DEF Img
    <3> QED BY <1>0
  <2>2. Img(b) \in Seq(Seq(S)) /\ Len(Img(b)) = Len(b)
    <3> HIDE DEF Img
    <3> QED BY <1>0
  <2>3. a \o b \in Seq(A) /\ Len(a) \in Nat /\ Len(b) \in Nat
        /\ DOMAIN a = 1 .. Len(a) /\ DOMAIN b = 1 .. Len(b)
        /\ DOMAIN (a \o b) = 1 .. Len(a) + Len(b) /\ Len(a \o b) = Len(a) + Len(b)
        /\ \A i \in 1 .. Len(a) + Len(b) : (a \o b)[i] =
                     IF i <= Len(a) THEN a[i] ELSE b[i - Len(a)]
    BY ConcatProperties, LenProperties
  <2>4. Img(a \o b) \in Seq(Seq(S)) /\ Len(Img(a \o b)) = Len(a) + Len(b)
    <3> HIDE DEF Img
    <3> QED BY <1>0, <2>3
  <2> DEFINE c == Img(a) \o Img(b)
  <2>5. c \in Seq(Seq(S)) /\ Len(c) = Len(a) + Len(b)
        /\ \A i \in 1 .. Len(a) + Len(b) : c[i] =
                     IF i <= Len(a) THEN Img(a)[i] ELSE Img(b)[i - Len(a)]
    <3> DEFINE u == Img(a)
               v == Img(b)
    <3>1. u \in Seq(Seq(S)) /\ v \in Seq(Seq(S)) /\ Len(u) = Len(a) /\ Len(v) = Len(b)
      BY <2>1, <2>2
    <3> HIDE DEF u, v, Img
    <3>2. u \o v \in Seq(Seq(S)) /\ Len(u \o v) = Len(u) + Len(v)
          /\ \A i \in 1 .. Len(u) + Len(v) : (u \o v)[i] =
                     IF i <= Len(u) THEN u[i] ELSE v[i - Len(u)]
      BY <3>1, ConcatProperties
    <3> QED BY <3>1, <3>2 DEF u, v
  <2>6. ASSUME NEW i \in 1 .. Len(a) + Len(b)
        PROVE  Img(a \o b)[i] = c[i]
    <3>1. Img(a \o b)[i] = g[(a \o b)[i]]
      BY <2>3 DEF Image
    <3>2. CASE i <= Len(a)
      <4>1. i \in DOMAIN a
        BY <2>3, <3>2
      <4>2. Img(a)[i] = g[a[i]]
        BY <4>1 DEF Image
      <4> HIDE DEF c, Img
      <4> QED BY <2>3, <2>5, <3>1, <3>2, <4>2
    <3>3. CASE ~(i <= Len(a))
      <4>1. i - Len(a) \in DOMAIN b
        BY <2>3, <3>3
      <4>2. Img(b)[i - Len(a)] = g[b[i - Len(a)]]
        BY <4>1 DEF Image
      <4> HIDE DEF c, Img
      <4> QED BY <2>3, <2>5, <3>1, <3>3, <4>2
    <3> QED BY <3>2, <3>3
  <2>7. Img(a \o b) = c
    <3> HIDE DEF Img, c
    <3> QED BY <2>4, <2>5, <2>6, SeqEqual
  <2>8. FlattenSeq(Img(a \o b)) = FlattenSeq(Img(a)) \o FlattenSeq(Img(b))
    <3> HIDE DEF Img
    <3> QED BY <2>1, <2>2, <2>7, FlattenConcat DEF c
  <2> QED BY <2>8 DEF Flat
<1> QED BY <1>1, <1>2, <1>3, <1>4

----------------------------------------------------------------------------
Joins(g, A, S) ==
  /\ Flat(g, <<>>) = <<>>
  /\ \A a \in Seq(A) : Flat(g, a) \in Seq(S)
  /\ \A x \in A : Flat(g, <<x>>) = g[x]
  /\ \A a, b \in Seq(A) : Flat(g, a \o b) = Flat(g, a) \o Flat(g, b)
LEMMA FlatJoins == \A A, S : \A g \in [A -> Seq(S)] : Joins(g, A, S)
<1> SUFFICES ASSUME NEW A, NEW S, NEW g \in [A -> Seq(S)] PROVE Joins(g, A, S)
  OBVIOUS
<1> QED BY FlatFacts DEF Joins

(* Each coding of Midi takes a sequence element by element.                 *)
Events == [cin : 0 .. 15, b : [1 .. 3 -> Bytes]]

LEMMA PlainFacts ==
  /\ Plain(<<>>) = <<>>
  /\ \A a \in Seq(Bytes) : Plain(a) \in Seq(Bytes)
  /\ \A x \in Bytes : Plain(<<x>>) = IF Realtime(x) THEN <<>> ELSE <<x>>
  /\ \A a, b \in Seq(Bytes) : Plain(a \o b) = Plain(a) \o Plain(b)
<1> DEFINE g == [x \in Bytes |-> IF Realtime(x) THEN <<>> ELSE <<x>>]
<1>1. g \in [Bytes -> Seq(Bytes)]
  OBVIOUS
<1>2. \A a \in Seq(Bytes) : Plain(a) = Flat(g, a)
  <2> SUFFICES ASSUME NEW a \in Seq(Bytes) PROVE Plain(a) = Flat(g, a)
    OBVIOUS
  <2>1. DOMAIN a = 1 .. Len(a) /\ \A i \in 1 .. Len(a) : a[i] \in Bytes
    BY LenProperties, ElementOfSeq
  <2>2. \A i \in DOMAIN a : g[a[i]] = IF Realtime(a[i]) THEN <<>> ELSE <<a[i]>>
    BY <2>1
  <2>3. Image(g, a) = [i \in DOMAIN a |-> IF Realtime(a[i]) THEN <<>> ELSE <<a[i]>>]
    <3> HIDE DEF g
    <3> QED BY <2>2 DEF Image
  <2> QED BY <2>3 DEF Flat, Plain
<1>3. <<>> \in Seq(Bytes) /\ \A x \in Bytes : <<x>> \in Seq(Bytes)
  <2> HIDE DEF g
  <2> QED OBVIOUS
<1>4. \A x \in Bytes : g[x] = IF Realtime(x) THEN <<>> ELSE <<x>>
  OBVIOUS
<1>5. \A a, b \in Seq(Bytes) : a \o b \in Seq(Bytes)
  BY ConcatProperties
<1> HIDE DEF g
<1>6. Joins(g, Bytes, Bytes)
  BY <1>1, FlatJoins, Zenon
<1> QED BY <1>2, <1>3, <1>4, <1>5, <1>6 DEF Joins

LEMMA ClocksFacts ==
  /\ Clocks(<<>>) = <<>>
  /\ \A a \in Seq(Bytes) : Clocks(a) \in Seq(Bytes)
  /\ \A x \in Bytes : Clocks(<<x>>) = IF Realtime(x) THEN <<x>> ELSE <<>>
  /\ \A a, b \in Seq(Bytes) : Clocks(a \o b) = Clocks(a) \o Clocks(b)
<1> DEFINE g == [x \in Bytes |-> IF Realtime(x) THEN <<x>> ELSE <<>>]
<1>1. g \in [Bytes -> Seq(Bytes)]
  OBVIOUS
<1>2. \A a \in Seq(Bytes) : Clocks(a) = Flat(g, a)
  <2> SUFFICES ASSUME NEW a \in Seq(Bytes) PROVE Clocks(a) = Flat(g, a)
    OBVIOUS
  <2>1. DOMAIN a = 1 .. Len(a) /\ \A i \in 1 .. Len(a) : a[i] \in Bytes
    BY LenProperties, ElementOfSeq
  <2>2. \A i \in DOMAIN a : g[a[i]] = IF Realtime(a[i]) THEN <<a[i]>> ELSE <<>>
    BY <2>1
  <2>3. Image(g, a) = [i \in DOMAIN a |-> IF Realtime(a[i]) THEN <<a[i]>> ELSE <<>>]
    <3> HIDE DEF g
    <3> QED BY <2>2 DEF Image
  <2> QED BY <2>3 DEF Flat, Clocks
<1>3. <<>> \in Seq(Bytes) /\ \A x \in Bytes : <<x>> \in Seq(Bytes)
  <2> HIDE DEF g
  <2> QED OBVIOUS
<1>4. \A x \in Bytes : g[x] = IF Realtime(x) THEN <<x>> ELSE <<>>
  OBVIOUS
<1>5. \A a, b \in Seq(Bytes) : a \o b \in Seq(Bytes)
  BY ConcatProperties
<1> HIDE DEF g
<1>6. Joins(g, Bytes, Bytes)
  BY <1>1, FlatJoins, Zenon
<1> QED BY <1>2, <1>3, <1>4, <1>5, <1>6 DEF Joins

LEMMA DecodedFacts ==
  /\ Decoded(<<>>) = <<>>
  /\ \A a \in Seq(Events) : Decoded(a) \in Seq(Bytes)
  /\ \A x \in Events : Decoded(<<x>>) = SubSeq(x.b, 1, gCin[x.cin + 1])
  /\ \A a, b \in Seq(Events) : Decoded(a \o b) = Decoded(a) \o Decoded(b)
<1> DEFINE g == [x \in Events |-> SubSeq(x.b, 1, gCin[x.cin + 1])]
<1>1. g \in [Events -> Seq(Bytes)]
  <2> SUFFICES ASSUME NEW x \in Events
               PROVE  SubSeq(x.b, 1, gCin[x.cin + 1]) \in Seq(Bytes)
    OBVIOUS
  <2>1. x.cin \in 0 .. 15 /\ x.b \in [1 .. 3 -> Bytes]
    BY DEF Events
  <2>2. gCin[x.cin + 1] \in 0 .. 3
    BY <2>1 DEF gCin
  <2>3. gCin[x.cin + 1] \in Int /\ \A i \in 1 .. gCin[x.cin + 1] : x.b[i] \in Bytes
    BY <2>1, <2>2
  <2> QED BY <2>3, SubSeqProperties
<1>2. \A a \in Seq(Events) : Decoded(a) = Flat(g, a)
  <2> SUFFICES ASSUME NEW a \in Seq(Events) PROVE Decoded(a) = Flat(g, a)
    OBVIOUS
  <2>1. DOMAIN a = 1 .. Len(a) /\ \A i \in 1 .. Len(a) : a[i] \in Events
    BY LenProperties, ElementOfSeq
  <2>2. \A i \in DOMAIN a : g[a[i]] = SubSeq(a[i].b, 1, gCin[a[i].cin + 1])
    BY <2>1
  <2>3. Image(g, a) = [i \in DOMAIN a |-> SubSeq(a[i].b, 1, gCin[a[i].cin + 1])]
    <3> HIDE DEF g
    <3> QED BY <2>2 DEF Image
  <2> QED BY <2>3 DEF Flat, Decoded
<1>3. <<>> \in Seq(Events) /\ \A x \in Events : <<x>> \in Seq(Events)
  <2> HIDE DEF g
  <2> QED OBVIOUS
<1>4. \A x \in Events : g[x] = SubSeq(x.b, 1, gCin[x.cin + 1])
  OBVIOUS
<1>5. \A a, b \in Seq(Events) : a \o b \in Seq(Events)
  BY ConcatProperties
<1> HIDE DEF g
<1>6. Joins(g, Events, Bytes)
  BY <1>1, FlatJoins, Zenon
<1> QED BY <1>2, <1>3, <1>4, <1>5, <1>6 DEF Joins

LEMMA RawFacts ==
  /\ Raw(<<>>) = <<>>
  /\ \A a \in Seq(Piece) : Raw(a) \in Seq(Bytes)
  /\ \A x \in Piece : Raw(<<x>>) = x.bytes
  /\ \A a, b \in Seq(Piece) : Raw(a \o b) = Raw(a) \o Raw(b)
<1> DEFINE g == [x \in Piece |-> x.bytes]
<1>1. g \in [Piece -> Seq(Bytes)]
  BY DEF Piece
<1>2. \A a \in Seq(Piece) : Raw(a) = Flat(g, a)
  <2> SUFFICES ASSUME NEW a \in Seq(Piece) PROVE Raw(a) = Flat(g, a)
    OBVIOUS
  <2>1. DOMAIN a = 1 .. Len(a) /\ \A i \in 1 .. Len(a) : a[i] \in Piece
    BY LenProperties, ElementOfSeq
  <2>2. \A i \in DOMAIN a : g[a[i]] = a[i].bytes
    BY <2>1
  <2>3. Image(g, a) = [i \in DOMAIN a |-> a[i].bytes]
    <3> HIDE DEF g
    <3> QED BY <2>2 DEF Image
  <2> QED BY <2>3 DEF Flat, Raw
<1>3. <<>> \in Seq(Piece) /\ \A x \in Piece : <<x>> \in Seq(Piece)
  <2> HIDE DEF g
  <2> QED OBVIOUS
<1>4. \A x \in Piece : g[x] = x.bytes
  OBVIOUS
<1>5. \A a, b \in Seq(Piece) : a \o b \in Seq(Piece)
  BY ConcatProperties
<1> HIDE DEF g
<1>6. Joins(g, Piece, Bytes)
  BY <1>1, FlatJoins, Zenon
<1> QED BY <1>2, <1>3, <1>4, <1>5, <1>6 DEF Joins

LEMMA SaysFacts ==
  /\ Says(<<>>) = <<>>
  /\ \A a \in Seq(Piece) : Says(a) \in Seq(Bytes)
  /\ \A x \in Piece : Says(<<x>>) = x.says
  /\ \A a, b \in Seq(Piece) : Says(a \o b) = Says(a) \o Says(b)
<1> DEFINE g == [x \in Piece |-> x.says]
<1>1. g \in [Piece -> Seq(Bytes)]
  BY DEF Piece
<1>2. \A a \in Seq(Piece) : Says(a) = Flat(g, a)
  <2> SUFFICES ASSUME NEW a \in Seq(Piece) PROVE Says(a) = Flat(g, a)
    OBVIOUS
  <2>1. DOMAIN a = 1 .. Len(a) /\ \A i \in 1 .. Len(a) : a[i] \in Piece
    BY LenProperties, ElementOfSeq
  <2>2. \A i \in DOMAIN a : g[a[i]] = a[i].says
    BY <2>1
  <2>3. Image(g, a) = [i \in DOMAIN a |-> a[i].says]
    <3> HIDE DEF g
    <3> QED BY <2>2 DEF Image
  <2> QED BY <2>3 DEF Flat, Says
<1>3. <<>> \in Seq(Piece) /\ \A x \in Piece : <<x>> \in Seq(Piece)
  <2> HIDE DEF g
  <2> QED OBVIOUS
<1>4. \A x \in Piece : g[x] = x.says
  OBVIOUS
<1>5. \A a, b \in Seq(Piece) : a \o b \in Seq(Piece)
  BY ConcatProperties
<1> HIDE DEF g
<1>6. Joins(g, Piece, Bytes)
  BY <1>1, FlatJoins, Zenon
<1> QED BY <1>2, <1>3, <1>4, <1>5, <1>6 DEF Joins


(* What is heard of events, and what pieces tell; real-time bytes only      *)
(* counted.                                                                 *)
Heard(evs) == Plain(Decoded(evs))
Ticks(evs) == Len(Clocks(Decoded(evs)))
Told(r) == Plain(Says(r))
Beats(r) == Len(Clocks(Says(r)))

LEMMA HeardFacts ==
  /\ Heard(<<>>) = <<>> /\ Ticks(<<>>) = 0
  /\ \A a \in Seq(Events) : Heard(a) \in Seq(Bytes) /\ Ticks(a) \in Nat
  /\ \A a, b \in Seq(Events) : Heard(a \o b) = Heard(a) \o Heard(b)
  /\ \A a, b \in Seq(Events) : Ticks(a \o b) = Ticks(a) + Ticks(b)
<1>1. Heard(<<>>) = <<>> /\ Ticks(<<>>) = 0
  BY DecodedFacts, PlainFacts, ClocksFacts, EmptySeq DEF Heard, Ticks
<1>2. ASSUME NEW a \in Seq(Events)
      PROVE  Heard(a) \in Seq(Bytes) /\ Ticks(a) \in Nat
  BY DecodedFacts, PlainFacts, ClocksFacts, LenProperties DEF Heard, Ticks
<1>3. ASSUME NEW a \in Seq(Events), NEW b \in Seq(Events)
      PROVE  Heard(a \o b) = Heard(a) \o Heard(b) /\ Ticks(a \o b) = Ticks(a) + Ticks(b)
  <2>1. Decoded(a) \in Seq(Bytes) /\ Decoded(b) \in Seq(Bytes)
        /\ Decoded(a \o b) = Decoded(a) \o Decoded(b)
    BY DecodedFacts
  <2>2. Plain(Decoded(a) \o Decoded(b)) = Heard(a) \o Heard(b)
    BY <2>1, PlainFacts DEF Heard
  <2>3. Clocks(Decoded(a) \o Decoded(b)) = Clocks(Decoded(a)) \o Clocks(Decoded(b))
    BY <2>1, ClocksFacts
  <2>4. Clocks(Decoded(a)) \in Seq(Bytes) /\ Clocks(Decoded(b)) \in Seq(Bytes)
    BY <2>1, ClocksFacts
  <2>5. Len(Clocks(Decoded(a)) \o Clocks(Decoded(b))) = Ticks(a) + Ticks(b)
    BY <2>4, ConcatProperties DEF Ticks
  <2> QED BY <2>1, <2>2, <2>3, <2>5 DEF Heard, Ticks
<1> QED BY <1>1, <1>2, <1>3

LEMMA ToldFacts ==
  /\ Told(<<>>) = <<>> /\ Beats(<<>>) = 0
  /\ \A a \in Seq(Piece) : Told(a) \in Seq(Bytes) /\ Beats(a) \in Nat
  /\ \A a, b \in Seq(Piece) : Told(a \o b) = Told(a) \o Told(b)
  /\ \A a, b \in Seq(Piece) : Beats(a \o b) = Beats(a) + Beats(b)
<1>1. Told(<<>>) = <<>> /\ Beats(<<>>) = 0
  BY SaysFacts, PlainFacts, ClocksFacts, EmptySeq DEF Told, Beats
<1>2. ASSUME NEW a \in Seq(Piece)
      PROVE  Told(a) \in Seq(Bytes) /\ Beats(a) \in Nat
  BY SaysFacts, PlainFacts, ClocksFacts, LenProperties DEF Told, Beats
<1>3. ASSUME NEW a \in Seq(Piece), NEW b \in Seq(Piece)
      PROVE  Told(a \o b) = Told(a) \o Told(b) /\ Beats(a \o b) = Beats(a) + Beats(b)
  <2>1. Says(a) \in Seq(Bytes) /\ Says(b) \in Seq(Bytes)
        /\ Says(a \o b) = Says(a) \o Says(b)
    BY SaysFacts
  <2>2. Plain(Says(a) \o Says(b)) = Told(a) \o Told(b)
    BY <2>1, PlainFacts DEF Told
  <2>3. Clocks(Says(a) \o Says(b)) = Clocks(Says(a)) \o Clocks(Says(b))
    BY <2>1, ClocksFacts
  <2>4. Clocks(Says(a)) \in Seq(Bytes) /\ Clocks(Says(b)) \in Seq(Bytes)
    BY <2>1, ClocksFacts
  <2>5. Len(Clocks(Says(a)) \o Clocks(Says(b))) = Beats(a) + Beats(b)
    BY <2>4, ConcatProperties DEF Beats
  <2> QED BY <2>1, <2>2, <2>3, <2>5 DEF Told, Beats
<1> QED BY <1>1, <1>2, <1>3

(* Bytes that are not real-time are all heard, and none is counted.         *)
LEMMA PlainOnly ==
  ASSUME NEW b \in Seq(Bytes), \A i \in 1 .. Len(b) : ~Realtime(b[i])
  PROVE  Plain(b) = b /\ Clocks(b) = <<>>
<1> DEFINE Part(k) == SubSeq(b, 1, k)
           Good(k) == Plain(Part(k)) = Part(k) /\ Clocks(Part(k)) = <<>>
           T == {k \in 0 .. Len(b) : ~Good(k)}
<1>1. Len(b) \in Nat /\ \A i \in 1 .. Len(b) : b[i] \in Bytes
  BY ElementOfSeq, LenProperties
<1>2. \A k \in 0 .. Len(b) : Part(k) \in Seq(Bytes)
  <2> SUFFICES ASSUME NEW k \in 0 .. Len(b) PROVE Part(k) \in Seq(Bytes)
    OBVIOUS
  <2>1. \A i \in 1 .. k : b[i] \in Bytes
    BY <1>1
  <2> QED BY <2>1, <1>1, SubSeqProperties
<1>3. T = {}
  <2> SUFFICES ASSUME T # {} PROVE FALSE
    OBVIOUS
  <2>0. T \subseteq Nat
    BY <1>1
  <2>1. PICK m \in T : \A k \in T : m <= k
    <3> HIDE DEF T
    <3> QED BY <2>0, Least
  <2>2. m \in 0 .. Len(b) /\ m \in Nat /\ ~Good(m)
    BY <2>1, <1>1
  <2>3. m # 0
    <3>1. Part(0) = <<>>
      BY SubSeqEmpty
    <3> HIDE DEF Part
    <3> QED BY <2>2, <3>1, PlainFacts, ClocksFacts
  <2>4. m - 1 \in 0 .. Len(b) /\ ~(m <= m - 1) /\ m \in 1 .. Len(b) /\ 1 \in 1 .. Len(b)
    BY <1>1, <2>2, <2>3
  <2>5. Good(m - 1)
    BY <2>1, <2>4
  <2>6. Part(m) = Part(m-1) \o <<b[m]>>
    BY <2>4, SubSeqRecursiveSecond
  <2>7. b[m] \in Bytes /\ ~Realtime(b[m]) /\ Part(m-1) \in Seq(Bytes) /\ <<b[m]>> \in Seq(Bytes)
    BY <1>1, <1>2, <2>4
  <2> HIDE DEF Part
  <2>8. Plain(<<b[m]>>) = <<b[m]>> /\ Clocks(<<b[m]>>) = <<>>
    BY <2>7, PlainFacts, ClocksFacts
  <2>9. Plain(Part(m)) = Part(m)
    BY <2>5, <2>6, <2>7, <2>8, PlainFacts
  <2>10. Clocks(Part(m)) = <<>> \o <<>>
    BY <2>5, <2>6, <2>7, <2>8, ClocksFacts
  <2>11. <<>> \o <<>> = <<>>
    OBVIOUS
  <2> QED BY <2>2, <2>9, <2>10, <2>11
<1>4. Part(Len(b)) = b
  BY SubSeqFull
<1>5. Len(b) \in 0 .. Len(b)
  BY <1>1
<1> HIDE DEF Part
<1> QED BY <1>3, <1>4, <1>5

(* An event carries its bytes when its code index says how many.            *)
LEMMA EventSays ==
  ASSUME NEW cin \in 0 .. 15, NEW b \in Seq(Bytes), Len(b) = gCin[cin + 1]
  PROVE  Event(cin, b) \in Events /\ Decoded(<<Event(cin, b)>>) = b
<1>1. Len(b) \in 0 .. 3 /\ \A i \in 1 .. Len(b) : b[i] \in Bytes
  <2>1. gCin[cin + 1] \in 0 .. 3
    BY DEF gCin
  <2> QED BY <2>1, ElementOfSeq
<1> DEFINE e == Event(cin, b)
<1>2. 0 \in Bytes
  BY DEF Bytes
<1>3. e.cin = cin /\ e.b \in [1 .. 3 -> Bytes] /\ e \in Events
  BY <1>1, <1>2 DEF Event, Events
<1>4. \A i \in 1 .. Len(b) : e.b[i] = b[i]
  BY <1>1 DEF Event
<1> HIDE DEF e
<1>5. Decoded(<<e>>) = SubSeq(e.b, 1, Len(b))
  BY <1>3, DecodedFacts
<1> DEFINE c == SubSeq(e.b, 1, Len(b))
<1>6. c \in Seq(Bytes) /\ Len(c) = Len(b) /\ \A i \in 1 .. Len(b) : c[i] = e.b[i]
  <2>1. \A i \in 1 .. Len(b) : e.b[i] \in Bytes
    BY <1>1, <1>4
  <2>2. /\ SubSeq(e.b, 1, Len(b)) \in Seq(Bytes)
        /\ Len(SubSeq(e.b, 1, Len(b))) = IF 1 <= Len(b) THEN Len(b) - 1 + 1 ELSE 0
        /\ \A i \in 1 .. Len(b) - 1 + 1 : SubSeq(e.b, 1, Len(b))[i] = (e.b)[1 + i - 1]
    BY <1>1, <2>1, SubSeqProperties
  <2>3. Len(b) - 1 + 1 = Len(b) /\ \A i \in 1 .. Len(b) : 1 + i - 1 = i
    BY <1>1
  <2>4. ~(1 <= Len(b)) => Len(b) = 0
    BY <1>1
  <2> QED BY <2>2, <2>3, <2>4
<1> HIDE DEF c
<1>7. c = b
  BY <1>4, <1>6, SeqEqual
<1> QED BY <1>3, <1>5, <1>7 DEF c, e

----------------------------------------------------------------------------
(* The encoder.  A turn of its loop eats some bytes; of a legal stream it   *)
(* eats the first piece.                                                    *)
Encoders == [bytes : Seq(Bytes), out : Seq(Events), gRunning : {0} \cup Channel,
             gInSysex : BOOLEAN, gSyx : Seq(Bytes)]
Encoding == /\ enc \in Encoders /\ Len(enc.gSyx) < 3
            /\ \A i \in 1 .. Len(enc.gSyx) : ~Realtime(enc.gSyx[i])
Turn == \/ EncodeRealtime \/ EncodeSysex \/ BeginSysex
        \/ EncodeStatus \/ EncodeRunningStatus \/ SkipData
Eats(n) == enc'.bytes = SubSeq(enc.bytes, n + 1, Len(enc.bytes))

Legal(x) == x \in Piece /\ (Clock(x) \/ Message(x) \/ Running(x) \/ SysexByte(x))
Stream(r) == r \in Seq(Piece) /\ Follows(r) /\ \A k \in DOMAIN r : Legal(r[k])
Meets(at, e) == (at = \hF0 <=> e.gInSysex) /\ (at \in Channel => e.gRunning = at)
Syx(e) == IF e.gInSysex THEN e.gSyx ELSE <<>>

LEMMA EventType ==
  ASSUME NEW cin \in 0 .. 15, NEW b \in Seq(Bytes)
  PROVE  Event(cin, b) \in Events
<1>1. Len(b) \in Nat /\ \A i \in 1 .. Len(b) : b[i] \in Bytes
  BY ElementOfSeq, LenProperties
<1>2. 0 \in Bytes
  BY DEF Bytes
<1>3. \A i \in 1 .. 3 : (IF i <= Len(b) THEN b[i] ELSE 0) \in Bytes
  BY <1>1, <1>2
<1> QED BY <1>3 DEF Event, Events

(* A status byte knows how many data bytes it needs, and its code index.    *)
LEMMA NeedFacts ==
  /\ \A c \in Bytes : Need(c) \in 0 .. 2
  /\ \A c \in \h80 .. \hF7 \ {\hF0} : Cin(c) \in 0 .. 15
  /\ \A c \in Channel \cup (\hF1 .. \hF6) : gCin[Cin(c) + 1] = Need(c) + 1
  /\ \A c \in Channel : /\ c \div 16 \in 0 .. 15 /\ Need(c) \in 1 .. 2
                        /\ gCin[(c \div 16) + 1] = Need(c) + 1
<1>1. \A c \in Bytes : Need(c) \in 0 .. 2
  BY DEF Need
<1>2. ASSUME NEW c \in Channel
      PROVE  /\ c \div 16 \in 8 .. 14 /\ Need(c) \in 1 .. 2
             /\ gCin[(c \div 16) + 1] = Need(c) + 1 /\ Cin(c) = c \div 16
  <2>1. c \in Int /\ 128 <= c /\ c <= 239
    BY DEF Channel
  <2>2. c \div 16 \in 8 .. 14
    BY <2>1
  <2>3. Need(c) = IF c \div 16 \in {12, 13} THEN 1 ELSE 2
    BY <2>1 DEF Need
  <2>4. gCin[(c \div 16) + 1] = IF c \div 16 \in {12, 13} THEN 2 ELSE 3
    BY <2>2 DEF gCin
  <2>5. Cin(c) = c \div 16
    BY <2>1 DEF Cin
  <2> QED BY <2>2, <2>3, <2>4, <2>5
<1>3. ASSUME NEW c \in \hF1 .. \hF7
      PROVE  Cin(c) \in 0 .. 15 /\ (c # \hF7 => gCin[Cin(c) + 1] = Need(c) + 1)
  <2>1. c \in {241, 242, 243, 244, 245, 246, 247}
    OBVIOUS
  <2>2. Need(c) = IF c \in {244, 245, 246} THEN 0 ELSE IF c \in {241, 243} THEN 1 ELSE 2
    BY <2>1 DEF Need
  <2>3. Cin(c) = IF c \in {244, 245, 246} THEN 5 ELSE IF c \in {241, 243} THEN 2 ELSE 3
    BY <2>1, <2>2 DEF Cin
  <2> QED BY <2>1, <2>2, <2>3 DEF gCin
<1>4. ASSUME NEW c \in \h80 .. \hF7 \ {\hF0}
      PROVE  c \in Channel \/ c \in \hF1 .. \hF7
  BY DEF Channel
<1> QED BY <1>1, <1>2, <1>3, <1>4

LEMMA TailOfSeq ==
  ASSUME NEW S, NEW s \in Seq(S), NEW n \in Nat
  PROVE  SubSeq(s, n + 1, Len(s)) \in Seq(S)
<1>1. Len(s) \in Nat /\ n + 1 \in Int /\ 1 <= n + 1
  BY LenProperties
<1>2. \A i \in n + 1 .. Len(s) : s[i] \in S
  BY <1>1, ElementOfSeq
<1> QED BY <1>1, <1>2, SubSeqProperties

LEMMA HeadOfSeq ==
  ASSUME NEW S, NEW s \in Seq(S), NEW n \in 0 .. Len(s)
  PROVE  SubSeq(s, 1, n) \in Seq(S) /\ Len(SubSeq(s, 1, n)) = n
         /\ \A i \in 1 .. n : SubSeq(s, 1, n)[i] = s[i]
<1>1. Len(s) \in Nat
  BY LenProperties
<1>2. \A i \in 1 .. n : s[i] \in S
  BY <1>1, ElementOfSeq
<1>3. /\ SubSeq(s, 1, n) \in Seq(S)
      /\ Len(SubSeq(s, 1, n)) = IF 1 <= n THEN n - 1 + 1 ELSE 0
      /\ \A i \in 1 .. n - 1 + 1 : SubSeq(s, 1, n)[i] = s[1 + i - 1]
  BY <1>1, <1>2, SubSeqProperties
<1>4. n - 1 + 1 = n /\ (~(1 <= n) => n = 0) /\ \A i \in 1 .. n : 1 + i - 1 = i
  BY <1>1
<1> QED BY <1>3, <1>4

(* The two parts of a concatenation are got back.                           *)
LEMMA Parts ==
  ASSUME NEW S, NEW a \in Seq(S), NEW b \in Seq(S)
  PROVE  /\ SubSeq(a \o b, 1, Len(a)) = a
         /\ SubSeq(a \o b, Len(a) + 1, Len(a \o b)) = b
<1> DEFINE c == a \o b
<1>1. /\ c \in Seq(S) /\ Len(c) = Len(a) + Len(b) /\ Len(a) \in Nat /\ Len(b) \in Nat
      /\ \A i \in 1 .. Len(a) + Len(b) :
            c[i] = IF i <= Len(a) THEN a[i] ELSE b[i - Len(a)]
  BY ConcatProperties, LenProperties
<1> HIDE DEF c
<1>2. SubSeq(c, 1, Len(a)) = a
  <2> DEFINE d == SubSeq(c, 1, Len(a))
  <2>1. d \in Seq(S) /\ Len(d) = Len(a) /\ \A i \in 1 .. Len(a) : d[i] = c[i]
    <3>1. Len(a) \in 0 .. Len(c)
      BY <1>1
    <3> QED BY <1>1, <3>1, HeadOfSeq
  <2> HIDE DEF d
  <2>2. \A i \in 1 .. Len(a) : d[i] = a[i]
    BY <1>1, <2>1
  <2>3. d = a
    BY <2>1, <2>2, SeqEqual
  <2> QED BY <2>3 DEF d
<1>3. SubSeq(c, Len(a) + 1, Len(c)) = b
  <2> DEFINE d == SubSeq(c, Len(a) + 1, Len(c))
  <2>1. \A i \in Len(a) + 1 .. Len(c) : c[i] \in S
    BY <1>1, ElementOfSeq
  <2>2. /\ d \in Seq(S)
        /\ Len(d) = IF Len(a) + 1 <= Len(c) THEN Len(c) - (Len(a) + 1) + 1 ELSE 0
        /\ \A i \in 1 .. Len(c) - (Len(a) + 1) + 1 : d[i] = c[(Len(a) + 1) + i - 1]
    BY <1>1, <2>1, SubSeqProperties
  <2> HIDE DEF d
  <2>3. Len(d) = Len(b)
    BY <1>1, <2>2
  <2>4. \A i \in 1 .. Len(b) : d[i] = b[i]
    <3> SUFFICES ASSUME NEW i \in 1 .. Len(b) PROVE d[i] = b[i]
      OBVIOUS
    <3>1. i \in 1 .. Len(c) - (Len(a) + 1) + 1 /\ (Len(a) + 1) + i - 1 = Len(a) + i
          /\ Len(a) + i \in 1 .. Len(a) + Len(b) /\ ~(Len(a) + i <= Len(a))
          /\ Len(a) + i - Len(a) = i
      BY <1>1
    <3> QED BY <1>1, <2>2, <3>1
  <2>5. d = b
    BY <2>2, <2>3, <2>4, SeqEqual
  <2> QED BY <2>5 DEF d
<1> QED BY <1>2, <1>3 DEF c

LEMMA EatFacts ==
  ASSUME enc \in Encoders, NEW n \in Nat
  PROVE  /\ Eat(n) \in Encoders /\ Eat(n).bytes = SubSeq(enc.bytes, n + 1, Len(enc.bytes))
         /\ Eat(n).out = enc.out /\ Eat(n).gRunning = enc.gRunning
         /\ Eat(n).gInSysex = enc.gInSysex /\ Eat(n).gSyx = enc.gSyx
<1> DEFINE b == SubSeq(enc.bytes, n + 1, Len(enc.bytes))
<1>1. enc.bytes \in Seq(Bytes)
  BY DEF Encoders
<1>2. b \in Seq(Bytes)
  BY <1>1, TailOfSeq
<1>3. Eat(n) = [enc EXCEPT !.bytes = b]
  BY DEF Eat
<1> HIDE DEF b
<1>4. /\ Eat(n) \in Encoders /\ Eat(n).bytes = b
      /\ Eat(n).out = enc.out /\ Eat(n).gRunning = enc.gRunning
      /\ Eat(n).gInSysex = enc.gInSysex /\ Eat(n).gSyx = enc.gSyx
  BY <1>2, <1>3 DEF Encoders
<1> QED BY <1>4 DEF b

LEMMA EmitFacts ==
  ASSUME NEW e \in Encoders, NEW ev \in Events
  PROVE  /\ Emit(e, ev) \in Encoders /\ Emit(e, ev).out = Append(e.out, ev)
         /\ Emit(e, ev).bytes = e.bytes /\ Emit(e, ev).gRunning = e.gRunning
         /\ Emit(e, ev).gInSysex = e.gInSysex /\ Emit(e, ev).gSyx = e.gSyx
<1> DEFINE o == Append(e.out, ev)
<1>1. e.out \in Seq(Events)
  BY DEF Encoders
<1>2. o \in Seq(Events)
  BY <1>1, AppendProperties
<1>3. Emit(e, ev) = [e EXCEPT !.out = o]
  BY DEF Emit
<1> HIDE DEF o
<1>4. /\ Emit(e, ev) \in Encoders /\ Emit(e, ev).out = o
      /\ Emit(e, ev).bytes = e.bytes /\ Emit(e, ev).gRunning = e.gRunning
      /\ Emit(e, ev).gInSysex = e.gInSysex /\ Emit(e, ev).gSyx = e.gSyx
  BY <1>2, <1>3 DEF Encoders
<1> QED BY <1>4 DEF o

LEMMA BreakFacts ==
  ASSUME enc \in Encoders
  PROVE  /\ Break \in Encoders /\ Break.bytes = <<>> /\ Break.out = enc.out
         /\ Break.gInSysex = enc.gInSysex /\ Break.gSyx = enc.gSyx
         /\ Break.bytes = SubSeq(enc.bytes, Len(enc.bytes) + 1, Len(enc.bytes))
<1>1. Break \in Encoders /\ Break.bytes = <<>> /\ Break.out = enc.out
      /\ Break.gInSysex = enc.gInSysex /\ Break.gSyx = enc.gSyx
  BY EmptySeq DEF Break, Encoders
<1>2. Len(enc.bytes) \in Nat
  BY LenProperties DEF Encoders
<1>3. SubSeq(enc.bytes, Len(enc.bytes) + 1, Len(enc.bytes)) = <<>>
  BY <1>2, SubSeqEmpty
<1> QED BY <1>1, <1>3

(* What the encoder's state is, field by field.                             *)
LEMMA EncoderFacts ==
  ASSUME Encoding, enc.bytes # <<>>
  PROVE  /\ enc \in Encoders /\ enc.bytes \in Seq(Bytes) /\ enc.out \in Seq(Events)
         /\ enc.gRunning \in {0} \cup Channel /\ enc.gInSysex \in BOOLEAN /\ enc.gSyx \in Seq(Bytes)
         /\ Len(enc.gSyx) \in 0 .. 2 /\ Len(enc.bytes) \in Nat /\ Len(enc.bytes) >= 1
         /\ First = enc.bytes[1] /\ First \in Bytes /\ First \in 0 .. 255
         /\ <<First>> \in Seq(Bytes)
<1>1. /\ enc \in Encoders /\ enc.bytes \in Seq(Bytes) /\ enc.out \in Seq(Events)
      /\ enc.gRunning \in {0} \cup Channel /\ enc.gInSysex \in BOOLEAN /\ enc.gSyx \in Seq(Bytes)
      /\ Len(enc.gSyx) < 3
  BY DEF Encoding, Encoders
<1>2. Len(enc.gSyx) \in Nat
  BY <1>1, LenProperties
<1>3. Len(enc.bytes) \in Nat \ {0}
  BY <1>1, EmptySeq
<1>4. First = enc.bytes[1]
  BY DEF First
<1>5. First \in Bytes
  BY <1>1, HeadTailProperties DEF First
<1>6. First \in 0 .. 255
  BY <1>5 DEF Bytes
<1>7. <<First>> \in Seq(Bytes)
  BY <1>5
<1>8. Len(enc.gSyx) \in 0 .. 2 /\ Len(enc.bytes) \in Nat /\ Len(enc.bytes) >= 1
  <2>1. Len(enc.gSyx) < 3
    BY <1>1
  <2> DEFINE k == Len(enc.gSyx)
             l == Len(enc.bytes)
  <2>2. k \in Nat /\ k < 3 /\ l \in Nat \ {0}
    BY <1>2, <1>3, <2>1
  <2> HIDE DEF k, l
  <2>3. k \in 0 .. 2 /\ l \in Nat /\ l >= 1
    BY <2>2
  <2> QED BY <2>3 DEF k, l
<1> QED BY <1>1, <1>4, <1>5, <1>6, <1>7, <1>8, Zenon

(* The bytes of a system exclusive with the next one.                       *)
LEMMA SyxFacts ==
  ASSUME Encoding, enc.bytes # <<>>, ~Realtime(First)
  PROVE  LET syx == Append(enc.gSyx, First)
         IN  /\ syx \in Seq(Bytes) /\ Len(syx) = Len(enc.gSyx) + 1 /\ Len(syx) \in 1 .. 3
             /\ syx = enc.gSyx \o <<First>>
             /\ \A i \in 1 .. Len(syx) : ~Realtime(syx[i])
<1> DEFINE syx == Append(enc.gSyx, First)
<1>1. /\ syx \in Seq(Bytes) /\ Len(syx) = Len(enc.gSyx) + 1
      /\ \A i \in 1 .. Len(enc.gSyx) : syx[i] = enc.gSyx[i]
      /\ syx[Len(enc.gSyx) + 1] = First
  BY EncoderFacts, AppendProperties
<1>2. syx = enc.gSyx \o <<First>>
  BY EncoderFacts, AppendIsConcat
<1>3. Len(enc.gSyx) \in 0 .. 2
  BY EncoderFacts
<1> HIDE DEF syx
<1>4. \A i \in 1 .. Len(syx) : i \in 1 .. Len(enc.gSyx) \/ i = Len(enc.gSyx) + 1
  BY <1>1, <1>3
<1>5. \A i \in 1 .. Len(syx) : ~Realtime(syx[i])
  BY <1>1, <1>4 DEF Encoding
<1>6. Len(syx) \in 1 .. 3
  BY <1>1, <1>3
<1> QED BY <1>1, <1>2, <1>5, <1>6 DEF syx

(* Any turn keeps the encoder's state in order and eats bytes from the      *)
(* front; inside a system exclusive it eats one, and \hF7 ends it.          *)
Ate == /\ Encoding'
       /\ \E n \in 1 .. Len(enc.bytes) : Eats(n) /\ (enc'.gInSysex => n = 1)
       /\ enc'.gInSysex => First = \hF0 \/ (enc.gInSysex /\ First # \hF7)
LEMMA TurnFacts ==
  ASSUME Encoding, enc.bytes # <<>>, Turn
  PROVE  Ate
<1>1. /\ enc \in Encoders /\ enc.bytes \in Seq(Bytes) /\ enc.out \in Seq(Events)
      /\ enc.gRunning \in {0} \cup Channel /\ enc.gInSysex \in BOOLEAN /\ enc.gSyx \in Seq(Bytes)
      /\ Len(enc.gSyx) \in 0 .. 2 /\ Len(enc.bytes) \in Nat /\ Len(enc.bytes) >= 1
      /\ First \in Bytes /\ First \in 0 .. 255 /\ <<First>> \in Seq(Bytes)
  BY EncoderFacts
<1>2. \A n \in Nat : /\ Eat(n) \in Encoders
                     /\ Eat(n).bytes = SubSeq(enc.bytes, n + 1, Len(enc.bytes))
                     /\ Eat(n).gInSysex = enc.gInSysex /\ Eat(n).gSyx = enc.gSyx
  BY <1>1, EatFacts
<1>3. 1 \in Nat /\ 1 \in 1 .. Len(enc.bytes)
  BY <1>1
<1>4. ASSUME enc' \in Encoders, enc'.gSyx = enc.gSyx, enc'.gInSysex = enc.gInSysex,
             NEW n \in 1 .. Len(enc.bytes), Eats(n),
             enc.gInSysex => n = 1 /\ First # \hF7
      PROVE  Ate
  BY <1>4 DEF Encoding, Ate
<1>5. CASE EncodeRealtime
  <2>1. Event(15, <<First>>) \in Events
    <3>1. 15 \in 0 .. 15
      OBVIOUS
    <3> QED BY <1>1, <3>1, EventType
  <2>2. enc' = Emit(Eat(1), Event(15, <<First>>))
    BY <1>5 DEF EncodeRealtime
  <2>3. enc' \in Encoders /\ enc'.gSyx = enc.gSyx /\ enc'.gInSysex = enc.gInSysex /\ Eats(1)
    BY <1>2, <1>3, <2>1, <2>2, EmitFacts DEF Eats
  <2>4. First # 247
    BY <1>1, <1>5 DEF EncodeRealtime, Realtime
  <2> QED BY <1>3, <1>4, <2>3, <2>4
<1>6. CASE EncodeSysex
  <2> DEFINE syx == Append(enc.gSyx, First)
  <2>1. syx \in Seq(Bytes) /\ Len(syx) = Len(enc.gSyx) + 1 /\ Len(syx) \in 1 .. 3
        /\ \A i \in 1 .. Len(syx) : ~Realtime(syx[i])
    BY <1>6, SyxFacts DEF EncodeSysex
  <2>2. enc' = IF SysexDone(syx)
               THEN [Emit(Eat(1), Event(SysexCin(syx), syx))
                       EXCEPT !.gSyx = <<>>, !.gInSysex = First # \hF7]
               ELSE [Eat(1) EXCEPT !.gSyx = syx]
    BY <1>6 DEF EncodeSysex
  <2>3. enc.gInSysex
    BY <1>6 DEF EncodeSysex
  <2> HIDE DEF syx
  <2>4. CASE SysexDone(syx)
    <3> DEFINE e == Emit(Eat(1), Event(SysexCin(syx), syx))
    <3>1. SysexCin(syx) \in 0 .. 15
      BY <2>1 DEF SysexCin
    <3>2. e \in Encoders /\ e.bytes = Eat(1).bytes
      BY <1>2, <1>3, <2>1, <3>1, EventType, EmitFacts
    <3>3. enc' = [e EXCEPT !.gSyx = <<>>, !.gInSysex = First # \hF7]
      BY <2>2, <2>4
    <3> HIDE DEF e
    <3>4. <<>> \in Seq(Bytes) /\ Len(<<>>) = 0
      BY EmptySeq
    <3>5. enc' \in Encoders /\ enc'.gSyx = <<>> /\ enc'.gInSysex = (First # \hF7)
          /\ enc'.bytes = e.bytes
      BY <3>2, <3>3, <3>4 DEF Encoders
    <3>6. Eats(1)
      BY <1>2, <1>3, <3>2, <3>5 DEF Eats
    <3>7. Encoding'
      BY <3>4, <3>5 DEF Encoding
    <3> QED BY <1>3, <2>3, <3>5, <3>6, <3>7 DEF Ate
  <2>5. CASE ~SysexDone(syx)
    <3>1. enc' = [Eat(1) EXCEPT !.gSyx = syx] /\ Eat(1) \in Encoders
      BY <1>2, <1>3, <2>2, <2>5
    <3>2. enc' \in Encoders /\ enc'.gSyx = syx /\ enc'.gInSysex = Eat(1).gInSysex
          /\ enc'.bytes = Eat(1).bytes
      BY <2>1, <3>1 DEF Encoders
    <3>3. First # 247 /\ Len(syx) < 3
      BY <2>1, <2>5 DEF SysexDone
    <3>4. Eats(1) /\ enc'.gInSysex = enc.gInSysex
      BY <1>2, <1>3, <3>2 DEF Eats
    <3>5. Encoding'
      BY <2>1, <3>2, <3>3 DEF Encoding
    <3> QED BY <1>3, <2>3, <3>3, <3>4, <3>5 DEF Ate
  <2> QED BY <2>4, <2>5
<1>7. CASE BeginSysex
  <2>1. enc' = [Eat(1) EXCEPT !.gInSysex = TRUE, !.gSyx = <<First>>] /\ Eat(1) \in Encoders
    BY <1>2, <1>3, <1>7 DEF BeginSysex
  <2>2. enc' \in Encoders /\ enc'.gSyx = <<First>> /\ enc'.bytes = Eat(1).bytes
    BY <1>1, <2>1 DEF Encoders
  <2>3. First = 240 /\ ~Realtime(First)
    BY <1>1, <1>7 DEF BeginSysex, Realtime
  <2>4. Len(<<First>>) = 1 /\ \A i \in 1 .. 1 : <<First>>[i] = First
    OBVIOUS
  <2>5. Eats(1)
    BY <1>2, <1>3, <2>2 DEF Eats
  <2>6. Encoding'
    BY <2>2, <2>3, <2>4 DEF Encoding
  <2> QED BY <1>3, <2>3, <2>5, <2>6 DEF Ate
<1>8. CASE enc' = Break /\ ~enc.gInSysex
  <2>1. Len(enc.bytes) \in 1 .. Len(enc.bytes)
    BY <1>1
  <2>2. Eats(Len(enc.bytes))
    <3>1. Break.bytes = SubSeq(enc.bytes, Len(enc.bytes) + 1, Len(enc.bytes))
      BY <1>1, BreakFacts
    <3> QED BY <1>8, <3>1 DEF Eats
  <2>3. enc' \in Encoders /\ enc'.gSyx = enc.gSyx /\ enc'.gInSysex = enc.gInSysex
    BY <1>1, <1>8, BreakFacts
  <2> QED BY <1>4, <1>8, <2>1, <2>2, <2>3
<1>9. CASE EncodeStatus
  <2> DEFINE n == Need(First) + 1
             ev == Event(Cin(First), SubSeq(enc.bytes, 1, n))
  <2>1. n \in 1 .. 3 /\ ~enc.gInSysex /\ First \in 128 .. 247 \ {240}
    BY <1>1, <1>9, NeedFacts DEF EncodeStatus
  <2>2. CASE Len(enc.bytes) < n
    BY <1>8, <1>9, <2>1, <2>2 DEF EncodeStatus
  <2>3. CASE ~(Len(enc.bytes) < n)
    <3>1. n \in 0 .. Len(enc.bytes) /\ n \in 1 .. Len(enc.bytes) /\ n \in Nat
      BY <1>1, <2>1, <2>3
    <3>2. ev \in Events
      <4>1. SubSeq(enc.bytes, 1, n) \in Seq(Bytes)
        BY <1>1, <3>1, HeadOfSeq
      <4> QED BY <2>1, <4>1, NeedFacts, EventType
    <3>3. enc' = [Emit(Eat(n), ev) EXCEPT !.gRunning = IF First < \hF0 THEN First ELSE @]
      BY <1>9, <2>3 DEF EncodeStatus
    <3> HIDE DEF n, ev
    <3> DEFINE e == Emit(Eat(n), ev)
    <3>4. e \in Encoders /\ e.bytes = Eat(n).bytes /\ e.gInSysex = Eat(n).gInSysex
          /\ e.gSyx = Eat(n).gSyx
      BY <1>2, <3>1, <3>2, EmitFacts
    <3> HIDE DEF e
    <3>5. enc' = [e EXCEPT !.gRunning = IF First < \hF0 THEN First ELSE @]
      BY <3>3 DEF e
    <3>10. (IF First < \hF0 THEN First ELSE e.gRunning) \in {0} \cup Channel
      BY <2>1, <3>4 DEF Encoders, Channel
    <3>6. enc' \in Encoders /\ enc'.gSyx = e.gSyx /\ enc'.gInSysex = e.gInSysex
          /\ enc'.bytes = e.bytes
      BY <3>4, <3>5, <3>10 DEF Encoders
    <3>7. Eats(n) /\ enc'.gSyx = enc.gSyx /\ enc'.gInSysex = enc.gInSysex
      BY <1>2, <3>1, <3>4, <3>6 DEF Eats
    <3> QED BY <1>4, <2>1, <3>1, <3>6, <3>7
  <2> QED BY <2>2, <2>3
<1>10. CASE EncodeRunningStatus
  <2> DEFINE n == Need(enc.gRunning)
             ev == Event(enc.gRunning \div 16, <<enc.gRunning>> \o SubSeq(enc.bytes, 1, n))
  <2>1. ~enc.gInSysex /\ enc.gRunning \in Channel /\ n \in 1 .. 2
    BY <1>1, <1>10, NeedFacts DEF EncodeRunningStatus
  <2>2. CASE Len(enc.bytes) < n
    BY <1>8, <1>10, <2>1, <2>2 DEF EncodeRunningStatus
  <2>3. CASE ~(Len(enc.bytes) < n)
    <3>1. n \in 0 .. Len(enc.bytes) /\ n \in 1 .. Len(enc.bytes) /\ n \in Nat
      BY <1>1, <2>1, <2>3
    <3>2. ev \in Events
      <4>1. SubSeq(enc.bytes, 1, n) \in Seq(Bytes)
        BY <1>1, <3>1, HeadOfSeq
      <4>2. \A x \in Bytes : <<x>> \in Seq(Bytes)
        OBVIOUS
      <4>3. <<enc.gRunning>> \o SubSeq(enc.bytes, 1, n) \in Seq(Bytes)
        <5> DEFINE h == SubSeq(enc.bytes, 1, n)
                   g == <<enc.gRunning>>
        <5>1. h \in Seq(Bytes) /\ g \in Seq(Bytes)
          BY <2>1, <4>1, <4>2 DEF Channel, Bytes
        <5> HIDE DEF h, g
        <5>2. g \o h \in Seq(Bytes)
          BY <5>1, ConcatProperties
        <5> QED BY <5>2 DEF h, g
      <4>4. enc.gRunning \div 16 \in 0 .. 15
        BY <2>1, NeedFacts
      <4> QED BY <4>3, <4>4, EventType
    <3>3. enc' = Emit(Eat(n), ev)
      BY <1>10, <2>3 DEF EncodeRunningStatus
    <3> HIDE DEF n, ev
    <3>4. enc' \in Encoders /\ enc'.bytes = Eat(n).bytes /\ enc'.gInSysex = enc.gInSysex
          /\ enc'.gSyx = enc.gSyx
      BY <1>2, <3>1, <3>2, <3>3, EmitFacts
    <3>5. Eats(n)
      BY <1>2, <3>1, <3>4 DEF Eats
    <3> QED BY <1>4, <2>1, <3>1, <3>4, <3>5
  <2> QED BY <2>2, <2>3
<1>11. CASE SkipData
  <2>1. enc' = Eat(1) /\ ~enc.gInSysex
    BY <1>11 DEF SkipData
  <2>2. enc' \in Encoders /\ enc'.gSyx = enc.gSyx /\ enc'.gInSysex = enc.gInSysex /\ Eats(1)
    BY <1>2, <1>3, <2>1 DEF Eats
  <2> QED BY <1>3, <1>4, <2>1, <2>2
<1> QED BY <1>5, <1>6, <1>7, <1>9, <1>10, <1>11 DEF Turn

----------------------------------------------------------------------------
(* A legal stream, by its first piece.                                      *)
LEMMA FirstPiece ==
  ASSUME NEW r, Stream(r), r # <<>>
  PROVE  /\ Legal(r[1]) /\ Stream(Tail(r))
         /\ Tail(r) # <<>> => Tail(r)[1].at = r[1].next /\ Tail(r)[Len(Tail(r))] = r[Len(r)]
         /\ Tail(r) = <<>> => r[1] = r[Len(r)]
         /\ Raw(r) = r[1].bytes \o Raw(Tail(r))
         /\ Told(r) = Plain(r[1].says) \o Told(Tail(r))
         /\ Beats(r) = Len(Clocks(r[1].says)) + Beats(Tail(r))
<1> DEFINE t == Tail(r)
           x == r[1]
<1>1. r \in Seq(Piece) /\ DOMAIN r = 1 .. Len(r) /\ Len(r) \in Nat /\ Len(r) >= 1
  <2>1. r \in Seq(Piece)
    BY DEF Stream
  <2>2. Len(r) \in Nat \ {0} /\ DOMAIN r = 1 .. Len(r)
    BY <2>1, EmptySeq, LenProperties
  <2> QED BY <2>1, <2>2
<1>2. t \in Seq(Piece) /\ Len(t) = Len(r) - 1 /\ DOMAIN t = 1 .. Len(t)
      /\ \A i \in 1 .. Len(t) : t[i] = r[i+1]
  BY <1>1, HeadTailProperties, LenProperties
<1>3. x \in Piece /\ Legal(x)
  BY <1>1, ElementOfSeq DEF Stream
<1> HIDE DEF t
<1>4. Follows(t) /\ \A k \in DOMAIN t : Legal(t[k])
  <2>1. \A k \in DOMAIN t : k + 1 \in DOMAIN r
    BY <1>1, <1>2
  <2>2. ASSUME NEW k \in DOMAIN t, k + 1 \in DOMAIN t
        PROVE  t[k+1].at = t[k].next
    <3>1. k + 1 \in DOMAIN r /\ (k + 1) + 1 \in DOMAIN r
      BY <2>1, <2>2
    <3>2. r[(k+1)+1].at = r[k+1].next
      BY <3>1 DEF Stream, Follows
    <3> QED BY <1>2, <2>2, <3>2
  <2> QED BY <1>2, <2>1, <2>2 DEF Stream, Follows
<1>5. t # <<>> => t[1].at = x.next /\ t[Len(t)] = r[Len(r)]
  <2> SUFFICES ASSUME t # <<>> PROVE t[1].at = x.next /\ t[Len(t)] = r[Len(r)]
    OBVIOUS
  <2>1. Len(t) \in Nat \ {0}
    BY <1>2, EmptySeq
  <2>2. 1 \in 1 .. Len(t) /\ Len(t) \in 1 .. Len(t) /\ Len(t) + 1 = Len(r)
        /\ 1 \in DOMAIN r /\ 1 + 1 \in DOMAIN r
    BY <1>1, <1>2, <2>1
  <2>3. r[1 + 1].at = r[1].next
    BY <2>2 DEF Stream, Follows
  <2> QED BY <1>2, <2>2, <2>3
<1>6. t = <<>> => r[1] = r[Len(r)]
  <2> SUFFICES ASSUME t = <<>> PROVE r[1] = r[Len(r)]
    OBVIOUS
  <2>1. Len(t) = 0
    BY EmptySeq
  <2>2. Len(t) = Len(r) - 1 /\ Len(r) \in Nat
    BY <1>1, <1>2
  <2> DEFINE n == Len(r)
  <2>3. n = 1
    <3> HIDE DEF n
    <3>1. 0 = n - 1 /\ n \in Nat
      BY <2>1, <2>2 DEF n
    <3> QED BY <3>1
  <2> QED BY <2>3
<1>7. r = <<x>> \o t
  <2> DEFINE c == <<x>> \o t
  <2>1. <<x>> \in Seq(Piece) /\ Len(<<x>>) = 1 /\ <<x>>[1] = x
    BY <1>3
  <2>2. c \in Seq(Piece) /\ Len(c) = 1 + Len(t)
        /\ \A i \in 1 .. 1 + Len(t) : c[i] = IF i <= 1 THEN <<x>>[i] ELSE t[i - 1]
    BY <1>2, <2>1, ConcatProperties
  <2> HIDE DEF c
  <2>3. \A i \in 1 .. Len(r) : r[i] = c[i]
    <3> SUFFICES ASSUME NEW i \in 1 .. Len(r) PROVE r[i] = c[i]
      OBVIOUS
    <3>1. CASE i = 1
      BY <1>1, <1>2, <2>1, <2>2, <3>1
    <3>2. CASE i # 1
      <4>1. i - 1 \in 1 .. Len(t) /\ (i - 1) + 1 = i /\ i \in 1 .. 1 + Len(t) /\ ~(i <= 1)
        BY <1>1, <1>2, <3>2
      <4>2. t[i-1] = r[(i-1)+1]
        BY <1>2, <4>1
      <4> QED BY <2>2, <4>1, <4>2
    <3> QED BY <3>1, <3>2
  <2>4. Len(r) = Len(c)
    BY <1>1, <1>2, <2>2
  <2>5. r = c
    BY <1>1, <2>2, <2>3, <2>4, SeqEqual
  <2> QED BY <2>5 DEF c
<1>8. <<x>> \in Seq(Piece)
  BY <1>3
<1>9. Raw(<<x>> \o t) = x.bytes \o Raw(t)
  BY <1>2, <1>3, <1>8, RawFacts
<1>10. Told(<<x>>) = Plain(x.says) /\ Beats(<<x>>) = Len(Clocks(x.says))
  BY <1>3, SaysFacts DEF Told, Beats
<1>11. Told(<<x>> \o t) = Plain(x.says) \o Told(t)
       /\ Beats(<<x>> \o t) = Len(Clocks(x.says)) + Beats(t)
  BY <1>2, <1>8, <1>10, ToldFacts
<1> QED BY <1>2, <1>3, <1>4, <1>5, <1>6, <1>7, <1>9, <1>11 DEF t, Stream

(* A piece has bytes, so only the empty stream has none.                    *)
LEMMA PieceFacts ==
  ASSUME NEW x, Legal(x)
  PROVE  /\ x \in Piece /\ x.bytes \in Seq(Bytes) /\ x.says \in Seq(Bytes)
         /\ x.at \in {0, \hF0} \cup Channel /\ x.next \in Bytes
         /\ Len(x.bytes) \in Nat /\ Len(x.bytes) >= 1
         /\ Head(x.bytes) = x.bytes[1] /\ x.bytes[1] \in Bytes
<1>1. x \in Piece /\ x.bytes \in Seq(Bytes) /\ x.says \in Seq(Bytes)
      /\ x.at \in {0, \hF0} \cup Channel /\ x.next \in Bytes
  BY DEF Legal, Piece
<1>2. Len(x.bytes) \in Nat
  BY <1>1, LenProperties
<1>3. Head(x.bytes) = x.bytes[1]
  OBVIOUS
<1>4. Len(x.bytes) >= 1
  <2>1. CASE Clock(x)
    BY <2>1 DEF Clock
  <2>2. CASE SysexByte(x)
    BY <2>2 DEF SysexByte
  <2>3. CASE Running(x)
    <3>1. Len(x.bytes) = Need(x.at) /\ x.at \in Channel
      BY <2>3 DEF Running
    <3> QED BY <3>1, NeedFacts
  <2>4. CASE Message(x)
    <3>1. Len(x.bytes) = Need(x.bytes[1]) + 1 /\ x.bytes[1] \in Channel \cup (\hF1 .. \hF6)
      BY <1>3, <2>4 DEF Message
    <3>2. x.bytes[1] \in Bytes
      BY <3>1 DEF Channel, Bytes
    <3>3. Need(x.bytes[1]) \in 0 .. 2
      BY <3>2, NeedFacts
    <3> QED BY <3>1, <3>3
  <2> QED BY <2>1, <2>2, <2>3, <2>4 DEF Legal
<1>5. x.bytes[1] \in Bytes
  <2>1. 1 \in 1 .. Len(x.bytes)
    BY <1>2, <1>4
  <2> QED BY <1>1, <2>1, ElementOfSeq
<1> QED BY <1>1, <1>2, <1>3, <1>4, <1>5

LEMMA EventHeard ==
  ASSUME NEW cin \in 0 .. 15, NEW b \in Seq(Bytes), Len(b) = gCin[cin + 1],
         \A i \in 1 .. Len(b) : ~Realtime(b[i])
  PROVE  /\ Event(cin, b) \in Events /\ <<Event(cin, b)>> \in Seq(Events)
         /\ Heard(<<Event(cin, b)>>) = b /\ Ticks(<<Event(cin, b)>>) = 0
<1> DEFINE e == Event(cin, b)
<1>1. e \in Events /\ Decoded(<<e>>) = b
  BY EventSays
<1>2. Plain(b) = b /\ Clocks(b) = <<>>
  BY PlainOnly
<1> HIDE DEF e
<1>3. <<e>> \in Seq(Events)
  BY <1>1
<1>4. Heard(<<e>>) = b /\ Ticks(<<e>>) = 0
  BY <1>1, <1>2, EmptySeq DEF Heard, Ticks
<1> QED BY <1>1, <1>3, <1>4 DEF e

LEMMA DataFacts ==
  ASSUME NEW c \in Data
  PROVE  c \in 0 .. 127 /\ c < 128 /\ c \in Bytes /\ ~Realtime(c) /\ c # 240 /\ c # 247
BY DEF Data, Realtime, Bytes

LEMMA ChannelFacts ==
  ASSUME NEW c \in Channel
  PROVE  c \in 128 .. 239 /\ c < 240 /\ c \in Bytes /\ ~Realtime(c) /\ c # 0 /\ c # 240
BY DEF Channel, Bytes, Realtime

(* Which turn it is, the first byte tells.                                  *)
LEMMA WhichTurn ==
  ASSUME Turn, First \in 0 .. 255, enc.gInSysex \in BOOLEAN
  PROVE  /\ Realtime(First) => EncodeRealtime
         /\ ~Realtime(First) /\ enc.gInSysex => EncodeSysex
         /\ ~enc.gInSysex /\ First = 240 => BeginSysex
         /\ ~enc.gInSysex /\ First \in 128 .. 247 /\ First # 240 => EncodeStatus
         /\ ~enc.gInSysex /\ First < 128 /\ enc.gRunning # 0 => EncodeRunningStatus
<1>1. EncodeRealtime => Realtime(First)
  BY DEF EncodeRealtime
<1>2. EncodeSysex => ~Realtime(First) /\ enc.gInSysex
  BY DEF EncodeSysex
<1>3. BeginSysex => ~enc.gInSysex /\ First = 240
  BY DEF BeginSysex
<1>4. EncodeStatus => ~enc.gInSysex /\ First \in 128 .. 247 /\ First # 240
  BY DEF EncodeStatus
<1>5. EncodeRunningStatus => ~enc.gInSysex /\ First < 128 /\ enc.gRunning # 0
  BY DEF EncodeRunningStatus
<1>6. SkipData => ~enc.gInSysex /\ First < 128 /\ enc.gRunning = 0
  BY DEF SkipData
<1>7. Realtime(First) <=> First >= 248
  BY DEF Realtime
<1>8. \/ EncodeRealtime \/ EncodeSysex \/ BeginSysex
      \/ EncodeStatus \/ EncodeRunningStatus \/ SkipData
  BY DEF Turn
<1> QED BY <1>1, <1>2, <1>3, <1>4, <1>5, <1>6, <1>7, <1>8

(* A turn on a legal stream says what the first piece says: in an event, or *)
(* in what is kept of a system exclusive.                                   *)
Says1(r, ev) == /\ ev \in Seq(Events) /\ enc'.out = enc.out \o ev
                /\ enc'.bytes = Raw(Tail(r)) /\ Meets(r[1].next, enc')
                /\ Heard(ev) \o Syx(enc') = Syx(enc) \o Plain(r[1].says)
                /\ Ticks(ev) = Len(Clocks(r[1].says))
LEMMA TurnSays ==
  ASSUME Encoding, NEW r, Stream(r), r # <<>>, enc.bytes = Raw(r), Meets(r[1].at, enc), Turn
  PROVE  \E ev : Says1(r, ev)
<1> DEFINE x == r[1]
           n == Len(x.bytes)
           R == Raw(Tail(r))
<1>1. /\ Legal(x) /\ Stream(Tail(r)) /\ enc.bytes = x.bytes \o R
  BY FirstPiece
<1>2. /\ x \in Piece /\ x.bytes \in Seq(Bytes) /\ x.says \in Seq(Bytes)
      /\ x.at \in {0, 240} \cup Channel /\ x.next \in Bytes /\ n \in Nat /\ n >= 1
      /\ Head(x.bytes) = x.bytes[1] /\ x.bytes[1] \in Bytes
  BY <1>1, PieceFacts
<1>3. R \in Seq(Bytes)
  BY <1>1, RawFacts DEF Stream
<1>4. /\ SubSeq(enc.bytes, 1, n) = x.bytes /\ SubSeq(enc.bytes, n + 1, Len(enc.bytes)) = R
  <2> DEFINE b == x.bytes
  <2>1. b \in Seq(Bytes) /\ n = Len(b)
    BY <1>2
  <2> HIDE DEF b, R
  <2>2. SubSeq(b \o R, 1, Len(b)) = b /\ SubSeq(b \o R, Len(b) + 1, Len(b \o R)) = R
    BY <1>3, <2>1, Parts
  <2> QED BY <1>1, <2>2 DEF b
<1>5. /\ enc.bytes \in Seq(Bytes) /\ Len(enc.bytes) = n + Len(R) /\ Len(R) \in Nat
      /\ enc.bytes[1] = x.bytes[1] /\ enc.bytes # <<>>
  <2> DEFINE b == x.bytes
  <2>1. b \in Seq(Bytes) /\ Len(b) = n /\ n \in Nat /\ n >= 1
    BY <1>2
  <2> HIDE DEF b, n, R
  <2>2. b \o R \in Seq(Bytes) /\ Len(b \o R) = Len(b) + Len(R)
        /\ \A i \in 1 .. Len(b) + Len(R) : (b \o R)[i] =
              IF i <= Len(b) THEN b[i] ELSE R[i - Len(b)]
    BY <1>3, <2>1, ConcatProperties
  <2>3. Len(R) \in Nat
    BY <1>3, LenProperties
  <2>4. (b \o R)[1] = b[1] /\ Len(b \o R) # 0
    BY <2>1, <2>2, <2>3
  <2>5. b \o R # <<>>
    BY <2>4, EmptySeq
  <2> QED BY <1>1, <2>1, <2>2, <2>3, <2>4, <2>5 DEF b
<1>6. /\ enc \in Encoders /\ enc.out \in Seq(Events)
      /\ enc.gRunning \in {0} \cup Channel /\ enc.gInSysex \in BOOLEAN /\ enc.gSyx \in Seq(Bytes)
      /\ Len(enc.gSyx) \in 0 .. 2 /\ First = x.bytes[1] /\ First \in 0 .. 255 /\ First \in Bytes
  BY <1>5, EncoderFacts
<1>7. /\ Eat(n) \in Encoders /\ Eat(n).bytes = R /\ Eat(n).out = enc.out
      /\ Eat(n).gRunning = enc.gRunning /\ Eat(n).gInSysex = enc.gInSysex
      /\ Eat(n).gSyx = enc.gSyx
  BY <1>2, <1>4, <1>6, EatFacts
<1>8. \A e \in Events : Append(enc.out, e) = enc.out \o <<e>>
  BY <1>6, AppendIsConcat
<1>9. Heard(<<>>) = <<>> /\ Ticks(<<>>) = 0 /\ <<>> \in Seq(Events) /\ <<>> \in Seq(Bytes)
      /\ enc.out \o <<>> = enc.out /\ Len(<<>>) = 0
  BY <1>6, HeardFacts, EmptySeq, ConcatEmptySeq
<1>10. \A s \in Seq(Bytes) : s \o <<>> = s /\ <<>> \o s = s
  BY ConcatEmptySeq
<1>11. Syx(enc) \in Seq(Bytes) /\ (~enc.gInSysex => Syx(enc) = <<>>)
  BY <1>6, <1>9 DEF Syx
<1>20. /\ x.at = 240 => enc.gInSysex
       /\ x.at # 240 => ~enc.gInSysex
       /\ x.at \in Channel => enc.gRunning = x.at
  BY <1>6 DEF Meets
<1>21. \A ev \in Events :
         /\ Emit(Eat(n), ev) \in Encoders /\ Emit(Eat(n), ev).out = enc.out \o <<ev>>
         /\ Emit(Eat(n), ev).bytes = R /\ Emit(Eat(n), ev).gRunning = enc.gRunning
         /\ Emit(Eat(n), ev).gInSysex = enc.gInSysex /\ Emit(Eat(n), ev).gSyx = enc.gSyx
  <2> SUFFICES ASSUME NEW ev \in Events
      PROVE  /\ Emit(Eat(n), ev) \in Encoders /\ Emit(Eat(n), ev).out = enc.out \o <<ev>>
             /\ Emit(Eat(n), ev).bytes = R /\ Emit(Eat(n), ev).gRunning = enc.gRunning
             /\ Emit(Eat(n), ev).gInSysex = enc.gInSysex /\ Emit(Eat(n), ev).gSyx = enc.gSyx
    OBVIOUS
  <2> DEFINE e == Eat(n)
  <2>1. /\ e \in Encoders /\ e.bytes = R /\ e.out = enc.out
        /\ e.gRunning = enc.gRunning /\ e.gInSysex = enc.gInSysex /\ e.gSyx = enc.gSyx
    BY <1>7
  <2> HIDE DEF n, R, e
  <2>2. /\ Emit(e, ev) \in Encoders /\ Emit(e, ev).out = Append(e.out, ev)
        /\ Emit(e, ev).bytes = e.bytes /\ Emit(e, ev).gRunning = e.gRunning
        /\ Emit(e, ev).gInSysex = e.gInSysex /\ Emit(e, ev).gSyx = e.gSyx
    BY <2>1, EmitFacts
  <2> QED BY <1>8, <2>1, <2>2 DEF e
<1> HIDE DEF R, n, x
<1>12. CASE Clock(x)
  <2>1. Realtime(First) /\ n = 1 /\ x.says = x.bytes /\ x.next = x.at
    BY <1>2, <1>6, <1>12 DEF Clock, n
  <2>2. EncodeRealtime
    BY <1>6, <2>1, WhichTurn
  <2> DEFINE ev == Event(15, <<First>>)
  <2>3. enc' = Emit(Eat(n), ev)
    BY <2>1, <2>2 DEF EncodeRealtime
  <2>4. <<First>> \in Seq(Bytes) /\ Len(<<First>>) = 1 /\ gCin[15 + 1] = 1 /\ 15 \in 0 .. 15
    BY <1>5, EncoderFacts DEF gCin
  <2>5. ev \in Events /\ Decoded(<<ev>>) = <<First>>
    BY <2>4, EventSays
  <2>6. Plain(<<First>>) = <<>> /\ Clocks(<<First>>) = <<First>>
    BY <1>6, <2>1, PlainFacts, ClocksFacts
  <2>7. x.says = <<First>>
    <3>1. x.bytes = <<First>>
      <4>1. x.bytes \in Seq(Bytes) /\ Len(x.bytes) = Len(<<First>>)
            /\ \A i \in 1 .. Len(x.bytes) : x.bytes[i] = <<First>>[i]
        BY <1>2, <1>6, <2>1, <2>4 DEF n
      <4> QED BY <2>4, <4>1, SeqEqual
    <3> QED BY <2>1, <3>1
  <2> HIDE DEF ev
  <2>8. <<ev>> \in Seq(Events) /\ Heard(<<ev>>) = <<>> /\ Ticks(<<ev>>) = Len(Clocks(x.says))
    BY <2>5, <2>6, <2>7 DEF Heard, Ticks
  <2>9. /\ enc'.out = enc.out \o <<ev>> /\ enc'.bytes = R /\ enc'.gRunning = enc.gRunning
        /\ enc'.gInSysex = enc.gInSysex /\ enc'.gSyx = enc.gSyx
    BY <1>21, <2>3, <2>5
  <2>10. Meets(x.next, enc') /\ Syx(enc') = Syx(enc)
    BY <1>20, <2>1, <2>9 DEF Meets, Syx
  <2>11. Heard(<<ev>>) \o Syx(enc') = Syx(enc) \o Plain(x.says)
    BY <1>10, <1>11, <2>6, <2>7, <2>8, <2>10
  <2>12. Says1(r, <<ev>>)
    BY <2>8, <2>9, <2>10, <2>11 DEF Says1, R, x
  <2> QED BY <2>12
<1>13. CASE Message(x)
  <2>1. /\ First \in Channel \cup (241 .. 246) /\ n = Need(First) + 1 /\ x.says = x.bytes
        /\ \A d \in 2 .. n : x.bytes[d] \in Data
        /\ x.next = (IF First \in Channel THEN First ELSE 0) /\ x.at # 240
    BY <1>2, <1>6, <1>13 DEF Message, n
  <2>2. ~enc.gInSysex
    BY <1>20, <2>1
  <2>3. First \in 128 .. 246 /\ First # 240 /\ First \in Int /\ ~Realtime(First)
    <3>1. CASE First \in Channel
      <4>1. First \in 128 .. 239 /\ ~Realtime(First)
        BY <3>1, ChannelFacts
      <4>2. \A c \in 128 .. 239 : c \in 128 .. 246 /\ c # 240 /\ c \in Int
        OBVIOUS
      <4> QED BY <4>1, <4>2
    <3>2. CASE First \in 241 .. 246
      BY <3>2 DEF Realtime
    <3> QED BY <2>1, <3>1, <3>2
  <2>4. EncodeStatus
    BY <1>6, <2>2, <2>3, WhichTurn
  <2> DEFINE ev == Event(Cin(First), x.bytes)
  <2>5. enc' = [Emit(Eat(n), ev) EXCEPT !.gRunning = IF First < \hF0 THEN First ELSE @]
    <3>1. ~(Len(enc.bytes) < Need(First) + 1)
      BY <1>2, <1>5, <2>1
    <3> QED BY <1>4, <2>1, <2>4, <3>1 DEF EncodeStatus
  <2>6. \A i \in 1 .. n : ~Realtime(x.bytes[i])
    <3> SUFFICES ASSUME NEW i \in 1 .. n PROVE ~Realtime(x.bytes[i])
      OBVIOUS
    <3>1. i = 1 \/ i \in 2 .. n
      BY <1>2
    <3> QED BY <1>6, <2>1, <2>3, <3>1, DataFacts
  <2>7. Cin(First) \in 0 .. 15 /\ n = gCin[Cin(First) + 1]
    BY <2>1, <2>3, NeedFacts
  <2>8. ev \in Events /\ <<ev>> \in Seq(Events) /\ Heard(<<ev>>) = x.bytes /\ Ticks(<<ev>>) = 0
    BY <1>2, <2>6, <2>7, EventHeard DEF n
  <2>9. Plain(x.says) = x.bytes /\ Len(Clocks(x.says)) = 0
    BY <1>2, <1>9, <2>1, <2>6, PlainOnly DEF n
  <2> HIDE DEF ev
  <2> DEFINE e == Emit(Eat(n), ev)
  <2>10. /\ e \in Encoders /\ e.out = enc.out \o <<ev>> /\ e.bytes = R
         /\ e.gRunning = enc.gRunning /\ e.gInSysex = enc.gInSysex
    BY <1>21, <2>8
  <2> HIDE DEF e
  <2>11. enc' = [e EXCEPT !.gRunning = IF First < \hF0 THEN First ELSE @]
    BY <2>5 DEF e
  <2>12. /\ enc'.out = enc.out \o <<ev>> /\ enc'.bytes = R /\ ~enc'.gInSysex
         /\ enc'.gRunning = IF First < 240 THEN First ELSE enc.gRunning
    BY <2>2, <2>10, <2>11 DEF Encoders
  <2>13. Meets(x.next, enc') /\ Syx(enc') = <<>>
    <3>1. First \in Channel => First < 240 /\ First # 240
      BY DEF Channel
    <3>2. 0 \notin Channel
      BY DEF Channel
    <3> QED BY <2>1, <2>12, <3>1, <3>2 DEF Meets, Syx
  <2>14. Heard(<<ev>>) \o Syx(enc') = Syx(enc) \o Plain(x.says)
    BY <1>2, <1>10, <1>11, <2>2, <2>8, <2>9, <2>13
  <2>15. Says1(r, <<ev>>)
    BY <2>8, <2>9, <2>12, <2>13, <2>14 DEF Says1, R, x
  <2> QED BY <2>15
<1>14. CASE Running(x)
  <2>1. /\ x.at \in Channel /\ x.next = x.at /\ x.says = <<x.at>> \o x.bytes
        /\ n = Need(x.at) /\ \A d \in DOMAIN x.bytes : x.bytes[d] \in Data
    BY <1>14 DEF Running, n
  <2>2. ~enc.gInSysex /\ enc.gRunning = x.at /\ x.at # 0
    BY <1>20, <2>1, ChannelFacts
  <2>3. First \in Data
    <3>1. 1 \in DOMAIN x.bytes
      <4>1. DOMAIN x.bytes = 1 .. n
        BY <1>2, LenProperties DEF n
      <4> QED BY <1>2, <4>1
    <3> QED BY <1>6, <2>1, <3>1
  <2>4. EncodeRunningStatus
    <3>1. First < 128
      BY <2>3, DataFacts
    <3> QED BY <1>6, <2>2, <3>1, WhichTurn
  <2> DEFINE b == <<x.at>> \o x.bytes
             ev == Event(x.at \div 16, b)
  <2>5. enc' = Emit(Eat(n), ev)
    <3>1. ~(Len(enc.bytes) < Need(enc.gRunning))
      BY <1>2, <1>5, <2>1, <2>2
    <3> QED BY <1>4, <2>1, <2>2, <2>4, <3>1 DEF EncodeRunningStatus
  <2>6. /\ b \in Seq(Bytes) /\ Len(b) = n + 1 /\ \A i \in 1 .. Len(b) : ~Realtime(b[i])
    <3>1. x.at \in Bytes /\ ~Realtime(x.at)
      BY <2>1, ChannelFacts
    <3>2. <<x.at>> \in Seq(Bytes) /\ Len(<<x.at>>) = 1 /\ <<x.at>>[1] = x.at
      BY <3>1
    <3> DEFINE h == <<x.at>>
               y == x.bytes
    <3>3. h \in Seq(Bytes) /\ Len(h) = 1 /\ h[1] = x.at /\ y \in Seq(Bytes) /\ Len(y) = n
          /\ \A i \in 1 .. n : y[i] \in Data
      <4>1. DOMAIN x.bytes = 1 .. n
        BY <1>2, LenProperties DEF n
      <4> QED BY <1>2, <2>1, <3>2, <4>1 DEF n
    <3> HIDE DEF h, y
    <3>4. /\ h \o y \in Seq(Bytes) /\ Len(h \o y) = n + 1
          /\ \A i \in 1 .. n + 1 : (h \o y)[i] = IF i <= 1 THEN h[i] ELSE y[i - 1]
      <4>1. h \o y \in Seq(Bytes) /\ Len(h \o y) = Len(h) + Len(y)
            /\ \A i \in 1 .. Len(h) + Len(y) : (h \o y)[i] =
                  IF i <= Len(h) THEN h[i] ELSE y[i - Len(h)]
        BY <3>3, ConcatProperties
      <4>2. Len(h) + Len(y) = n + 1
        BY <1>2, <3>3
      <4> QED BY <3>3, <4>1, <4>2
    <3>5. \A i \in 1 .. n + 1 : ~Realtime((h \o y)[i])
      <4> SUFFICES ASSUME NEW i \in 1 .. n + 1 PROVE ~Realtime((h \o y)[i])
        OBVIOUS
      <4>1. CASE i = 1
        BY <3>1, <3>3, <3>4, <4>1
      <4>2. CASE i # 1
        <5>1. i - 1 \in 1 .. n /\ ~(i <= 1)
          BY <1>2, <4>2
        <5>2. (h \o y)[i] \in Data
          BY <3>3, <3>4, <5>1
        <5> QED BY <5>2, DataFacts
      <4> QED BY <4>1, <4>2
    <3> QED BY <3>4, <3>5 DEF h, y
  <2>7. x.at \div 16 \in 0 .. 15 /\ Len(b) = gCin[(x.at \div 16) + 1]
    BY <2>1, <2>6, NeedFacts
  <2>8. ev \in Events /\ <<ev>> \in Seq(Events) /\ Heard(<<ev>>) = b /\ Ticks(<<ev>>) = 0
    <3> HIDE DEF b
    <3> QED BY <2>6, <2>7, EventHeard
  <2>9. Plain(x.says) = b /\ Len(Clocks(x.says)) = 0
    <3>1. x.says = b
      BY <2>1
    <3> HIDE DEF b
    <3> QED BY <1>9, <2>6, <3>1, PlainOnly
  <2> HIDE DEF ev, b
  <2>10. /\ enc'.out = enc.out \o <<ev>> /\ enc'.bytes = R
         /\ enc'.gRunning = x.at /\ ~enc'.gInSysex
    BY <1>20, <1>21, <2>1, <2>2, <2>5, <2>8
  <2>11. Meets(x.next, enc') /\ Syx(enc') = <<>>
    BY <2>1, <2>10, ChannelFacts DEF Meets, Syx
  <2>12. Heard(<<ev>>) \o Syx(enc') = Syx(enc) \o Plain(x.says)
    BY <1>10, <1>11, <2>2, <2>6, <2>8, <2>9, <2>11
  <2>13. Says1(r, <<ev>>)
    BY <2>8, <2>9, <2>10, <2>11, <2>12 DEF Says1, R, x
  <2> QED BY <2>13
<1>15. CASE SysexByte(x)
  <2>1. n = 1 /\ x.says = x.bytes /\ (x.at # 240 <=> First = 240)
        /\ (First = 240 \/ First \in Data \/ First = 247)
        /\ x.next = IF First = 247 THEN 0 ELSE 240
    <3>1. /\ n = 1 /\ x.says = x.bytes
          /\ \/ x.at # 240 /\ First = 240 /\ x.next = 240
             \/ x.at = 240 /\ First \in Data /\ x.next = 240
             \/ x.at = 240 /\ First = 247 /\ x.next = 0
      BY <1>2, <1>6, <1>15 DEF SysexByte, n
    <3> QED BY <3>1, DataFacts
  <2>2. ~Realtime(First) /\ (x.at = 240 => enc.gInSysex) /\ (x.at # 240 => ~enc.gInSysex)
    <3>1. First \in Data \/ First \in {240, 247}
      BY <2>1
    <3>2. ~Realtime(240) /\ ~Realtime(247)
      BY DEF Realtime
    <3> QED BY <1>20, <2>1, <3>1, <3>2, DataFacts
  <2>3. <<First>> \in Seq(Bytes) /\ Len(<<First>>) = 1
    BY <1>5, EncoderFacts
  <2>4. x.says = <<First>>
    <3>1. x.bytes \in Seq(Bytes) /\ Len(x.bytes) = Len(<<First>>)
          /\ \A i \in 1 .. Len(x.bytes) : x.bytes[i] = <<First>>[i]
      BY <1>2, <1>6, <2>1, <2>3 DEF n
    <3>2. x.bytes = <<First>>
      BY <2>3, <3>1, SeqEqual
    <3> QED BY <2>1, <3>2
  <2>5. Plain(x.says) = <<First>> /\ Len(Clocks(x.says)) = 0
    <3>1. Plain(<<First>>) = <<First>> /\ Clocks(<<First>>) = <<>>
      BY <1>6, <2>2, PlainFacts, ClocksFacts
    <3> QED BY <1>9, <2>4, <3>1
  <2>6. 240 \notin Channel /\ 0 \notin Channel /\ 0 # 240
    BY DEF Channel
  <2>7. CASE First = 240
    <3>1. ~enc.gInSysex
      BY <2>1, <2>2, <2>7
    <3>2. BeginSysex
      BY <1>6, <2>7, <3>1, WhichTurn
    <3>3. enc' = [Eat(n) EXCEPT !.gInSysex = TRUE, !.gSyx = <<First>>]
      BY <2>1, <3>2 DEF BeginSysex
    <3>4. enc'.bytes = R /\ enc'.out = enc.out /\ enc'.gInSysex /\ enc'.gSyx = <<First>>
      BY <1>7, <3>3 DEF Encoders
    <3>5. Meets(x.next, enc') /\ Syx(enc') = <<First>>
      BY <2>1, <2>6, <2>7, <3>4 DEF Meets, Syx
    <3>6. Heard(<<>>) \o Syx(enc') = Syx(enc) \o Plain(x.says)
      BY <1>9, <1>10, <1>11, <2>3, <2>5, <3>1, <3>5
    <3>7. Says1(r, <<>>)
      BY <1>9, <2>5, <3>4, <3>5, <3>6 DEF Says1, R, x
    <3> QED BY <3>7
  <2>8. CASE First # 240
    <3>1. enc.gInSysex
      BY <2>1, <2>2, <2>8
    <3>2. EncodeSysex
      BY <1>6, <2>2, <3>1, WhichTurn
    <3> DEFINE syx == Append(enc.gSyx, First)
    <3>3. /\ syx \in Seq(Bytes) /\ Len(syx) = Len(enc.gSyx) + 1 /\ Len(syx) \in 1 .. 3
          /\ syx = enc.gSyx \o <<First>> /\ \A i \in 1 .. Len(syx) : ~Realtime(syx[i])
      BY <1>5, <2>2, SyxFacts
    <3>4. enc' = IF SysexDone(syx)
                 THEN [Emit(Eat(n), Event(SysexCin(syx), syx))
                         EXCEPT !.gSyx = <<>>, !.gInSysex = First # \hF7]
                 ELSE [Eat(n) EXCEPT !.gSyx = syx]
      BY <2>1, <3>2 DEF EncodeSysex
    <3>5. Syx(enc) = enc.gSyx
      BY <3>1 DEF Syx
    <3> HIDE DEF syx
    <3>6. CASE SysexDone(syx)
      <4> DEFINE ev == Event(SysexCin(syx), syx)
                 e == Emit(Eat(n), ev)
      <4>1. SysexCin(syx) \in 0 .. 15 /\ Len(syx) = gCin[SysexCin(syx) + 1]
        <5>1. CASE First = 247
          <6>1. SysexCin(syx) = 4 + Len(syx)
            BY <5>1 DEF SysexCin
          <6>2. Len(syx) \in {1, 2, 3}
            BY <3>3
          <6>3. gCin[5 + 1] = 1 /\ gCin[6 + 1] = 2 /\ gCin[7 + 1] = 3
            BY DEF gCin
          <6> DEFINE k == Len(syx)
          <6>4. k \in {1, 2, 3} /\ SysexCin(syx) = 4 + k
            BY <6>1, <6>2
          <6> HIDE DEF k
          <6>5. 4 + k \in 0 .. 15 /\ k = gCin[(4 + k) + 1]
            BY <6>3, <6>4
          <6> QED BY <6>4, <6>5 DEF k
        <5>2. CASE First # 247
          <6>1. SysexCin(syx) = 4 /\ Len(syx) = 3
            BY <3>6, <5>2 DEF SysexCin, SysexDone
          <6> QED BY <6>1 DEF gCin
        <5> QED BY <5>1, <5>2
      <4>2. ev \in Events /\ <<ev>> \in Seq(Events) /\ Heard(<<ev>>) = syx /\ Ticks(<<ev>>) = 0
        BY <3>3, <4>1, EventHeard
      <4> HIDE DEF ev
      <4>3. e \in Encoders /\ e.out = enc.out \o <<ev>> /\ e.bytes = R
        BY <1>21, <4>2
      <4>4. enc' = [e EXCEPT !.gSyx = <<>>, !.gInSysex = First # \hF7]
        BY <3>4, <3>6 DEF ev
      <4> HIDE DEF e
      <4>5. enc'.out = enc.out \o <<ev>> /\ enc'.bytes = R /\ enc'.gSyx = <<>>
            /\ enc'.gInSysex = (First # 247)
        BY <4>3, <4>4 DEF Encoders
      <4>6. Meets(x.next, enc') /\ Syx(enc') = <<>>
        BY <2>1, <2>6, <4>5 DEF Meets, Syx
      <4>7. Heard(<<ev>>) \o Syx(enc') = Syx(enc) \o Plain(x.says)
        BY <1>10, <2>5, <3>3, <3>5, <4>2, <4>6
      <4>8. Says1(r, <<ev>>)
        BY <2>5, <4>2, <4>5, <4>6, <4>7 DEF Says1, R, x
      <4> QED BY <4>8
    <3>7. CASE ~SysexDone(syx)
      <4>1. enc' = [Eat(n) EXCEPT !.gSyx = syx]
        BY <3>4, <3>7
      <4>2. enc'.bytes = R /\ enc'.out = enc.out /\ enc'.gInSysex /\ enc'.gSyx = syx
        BY <1>7, <3>1, <4>1 DEF Encoders
      <4>3. First # 247
        BY <3>7 DEF SysexDone
      <4>4. Meets(x.next, enc') /\ Syx(enc') = syx
        BY <2>1, <2>6, <4>2, <4>3 DEF Meets, Syx
      <4>5. Heard(<<>>) \o Syx(enc') = Syx(enc) \o Plain(x.says)
        BY <1>9, <1>10, <2>5, <3>3, <3>5, <4>4
      <4>6. Says1(r, <<>>)
        BY <1>9, <2>5, <4>2, <4>4, <4>5 DEF Says1, R, x
      <4> QED BY <4>6
    <3> QED BY <3>6, <3>7
  <2> QED BY <2>7, <2>8
<1> QED BY <1>1, <1>12, <1>13, <1>14, <1>15 DEF Legal

LEMMA RawEmpty ==
  ASSUME NEW r, Stream(r), Raw(r) = <<>>
  PROVE  r = <<>>
<1> SUFFICES ASSUME r # <<>> PROVE FALSE
  OBVIOUS
<1>1. Legal(r[1]) /\ Stream(Tail(r)) /\ Raw(r) = r[1].bytes \o Raw(Tail(r))
  BY FirstPiece
<1> DEFINE a == r[1].bytes
           b == Raw(Tail(r))
<1>2. a \in Seq(Bytes) /\ Len(a) >= 1 /\ Len(a) \in Nat
  BY <1>1, PieceFacts
<1>3. b \in Seq(Bytes)
  BY <1>1, RawFacts DEF Stream
<1> HIDE DEF a, b
<1>4. Len(a \o b) = Len(a) + Len(b) /\ Len(b) \in Nat
  BY <1>2, <1>3, ConcatProperties, LenProperties
<1>5. Len(a \o b) = 0
  BY <1>1, EmptySeq DEF a, b
<1> QED BY <1>2, <1>4, <1>5

----------------------------------------------------------------------------
(* Every system exclusive that bytes begin, or are inside of, ends in them. *)
Ends(b, inside) ==
  /\ inside => \E i \in 1 .. Len(b) : b[i] = \hF7
  /\ \A i \in 1 .. Len(b) : b[i] = \hF0 => \E j \in i + 1 .. Len(b) : b[j] = \hF7

LEMMA EndsTurn ==
  ASSUME Encoding, enc.bytes # <<>>, Turn, Ends(enc.bytes, enc.gInSysex)
  PROVE  Ends(enc'.bytes, enc'.gInSysex)
<1> DEFINE b == enc.bytes
           c == enc'.bytes
<1>1. b \in Seq(Bytes) /\ Len(b) \in Nat /\ First = b[1]
  BY EncoderFacts
<1>2. PICK n \in 1 .. Len(b) : c = SubSeq(b, n + 1, Len(b)) /\ (enc'.gInSysex => n = 1)
  BY TurnFacts DEF Ate, Eats
<1>3. enc'.gInSysex => b[1] = 240 \/ (enc.gInSysex /\ b[1] # 247)
  BY <1>1, TurnFacts DEF Ate
<1>4. /\ enc.gInSysex => \E i \in 1 .. Len(b) : b[i] = 247
      /\ \A i \in 1 .. Len(b) : b[i] = 240 => \E j \in i + 1 .. Len(b) : b[j] = 247
  BY DEF Ends
<1> HIDE DEF b, c
<1>5. n \in Nat /\ n + 1 \in Int /\ Len(b) \in Int /\ n >= 1 /\ n <= Len(b)
  BY <1>1, <1>2
<1>6. \A i \in n + 1 .. Len(b) : b[i] \in Bytes
  BY <1>1, <1>5, ElementOfSeq
<1>7. /\ Len(c) = IF n + 1 <= Len(b) THEN Len(b) - (n + 1) + 1 ELSE 0
      /\ \A i \in 1 .. Len(b) - (n + 1) + 1 : c[i] = b[(n + 1) + i - 1]
  BY <1>2, <1>5, <1>6, SubSeqProperties
<1>8. Len(c) = Len(b) - n
  BY <1>5, <1>7
<1>9. \A i \in 1 .. Len(c) : c[i] = b[n + i]
  <2> SUFFICES ASSUME NEW i \in 1 .. Len(c) PROVE c[i] = b[n + i]
    OBVIOUS
  <2>1. i \in 1 .. Len(b) - (n + 1) + 1 /\ (n + 1) + i - 1 = n + i
    BY <1>5, <1>8
  <2> QED BY <1>7, <2>1
<1>10. \A j \in n + 1 .. Len(b) : j - n \in 1 .. Len(c) /\ c[j - n] = b[j]
  <2> SUFFICES ASSUME NEW j \in n + 1 .. Len(b) PROVE j - n \in 1 .. Len(c) /\ c[j - n] = b[j]
    OBVIOUS
  <2>1. j - n \in 1 .. Len(c) /\ n + (j - n) = j
    BY <1>5, <1>8
  <2> QED BY <1>9, <2>1
<1>11. ASSUME enc'.gInSysex
       PROVE  \E i \in 1 .. Len(c) : c[i] = 247
  <2>1. n = 1
    BY <1>2, <1>11
  <2>2. \E j \in n + 1 .. Len(b) : b[j] = 247
    <3>1. CASE b[1] = 240
      <4>1. 1 \in 1 .. Len(b)
        BY <1>5
      <4> QED BY <1>4, <2>1, <3>1, <4>1
    <3>2. CASE enc.gInSysex /\ b[1] # 247
      <4>1. PICK i \in 1 .. Len(b) : b[i] = 247
        BY <1>4, <3>2
      <4>2. i # 1
        BY <3>2, <4>1
      <4>3. i \in n + 1 .. Len(b)
        BY <1>5, <2>1, <4>2
      <4> QED BY <4>1, <4>3
    <3> QED BY <1>3, <1>11, <3>1, <3>2
  <2> QED BY <1>10, <2>2
<1>12. ASSUME NEW i \in 1 .. Len(c), c[i] = 240
       PROVE  \E j \in i + 1 .. Len(c) : c[j] = 247
  <2>1. n + i \in 1 .. Len(b) /\ b[n + i] = 240
    BY <1>5, <1>8, <1>9, <1>12
  <2>2. PICK j \in (n + i) + 1 .. Len(b) : b[j] = 247
    BY <1>4, <2>1
  <2>3. j \in n + 1 .. Len(b) /\ j - n \in i + 1 .. Len(c)
    BY <1>5, <1>8
  <2> QED BY <1>10, <2>2, <2>3
<1> QED BY <1>11, <1>12 DEF Ends, c

LEMMA EndsPiece ==
  ASSUME NEW x, Legal(x), NEW b \in Seq(Bytes), Ends(b, x.next = \hF0)
  PROVE  Ends(x.bytes \o b, x.at = \hF0)
<1> DEFINE a == x.bytes
           c == a \o b
           n == Len(a)
<1>1. /\ a \in Seq(Bytes) /\ n \in Nat /\ n >= 1 /\ Head(a) = a[1] /\ a[1] \in Bytes
      /\ x.at \in {0, 240} \cup Channel /\ Len(b) \in Nat
  BY PieceFacts, LenProperties
<1>2. /\ Len(c) = n + Len(b)
      /\ \A i \in 1 .. n + Len(b) : c[i] = IF i <= n THEN a[i] ELSE b[i - n]
  <2> HIDE DEF a
  <2> QED BY <1>1, ConcatProperties
<1>3. /\ x.next = 240 => \E i \in 1 .. Len(b) : b[i] = 247
      /\ \A i \in 1 .. Len(b) : b[i] = 240 => \E j \in i + 1 .. Len(b) : b[j] = 247
  BY DEF Ends
<1>4. (x.at = 240 => x.next = 240 \/ a[1] = 247)
      /\ \A i \in 1 .. n : a[i] = 240 => x.next = 240 /\ n = 1
  <2>1. CASE Clock(x)
    <3>1. n = 1 /\ Realtime(a[1]) /\ x.next = x.at
      BY <1>1, <2>1 DEF Clock
    <3>2. a[1] # 240
      BY <3>1 DEF Realtime
    <3>3. \A i \in 1 .. n : i = 1
      BY <3>1
    <3> HIDE DEF a, n
    <3> QED BY <3>1, <3>2, <3>3
  <2>2. CASE Message(x)
    <3>1. x.at # 240 /\ a[1] \in Channel \cup (241 .. 246) /\ \A i \in 2 .. n : a[i] \in Data
      BY <1>1, <2>2 DEF Message
    <3>2. a[1] # 240
      <4>1. CASE a[1] \in Channel
        BY <4>1, ChannelFacts
      <4>2. CASE a[1] \in 241 .. 246
        BY <4>2
      <4> QED BY <3>1, <4>1, <4>2
    <3>3. \A i \in 1 .. n : i = 1 \/ i \in 2 .. n
      BY <1>1
    <3> HIDE DEF a, n
    <3> QED BY <3>1, <3>2, <3>3, DataFacts
  <2>3. CASE Running(x)
    <3>1. x.at \in Channel /\ \A i \in DOMAIN a : a[i] \in Data
      BY <2>3 DEF Running
    <3>2. DOMAIN a = 1 .. n
      BY <1>1, LenProperties
    <3> HIDE DEF a, n
    <3> QED BY <3>1, <3>2, DataFacts, ChannelFacts
  <2>4. CASE SysexByte(x)
    <3>1. /\ n = 1
          /\ \/ x.at # 240 /\ a[1] = 240 /\ x.next = 240
             \/ x.at = 240 /\ a[1] \in Data /\ x.next = 240
             \/ x.at = 240 /\ a[1] = 247 /\ x.next = 0
      BY <1>1, <2>4 DEF SysexByte
    <3>2. \A i \in 1 .. n : i = 1
      BY <3>1
    <3> HIDE DEF a, n
    <3> QED BY <3>1, <3>2, DataFacts
  <2> QED BY <2>1, <2>2, <2>3, <2>4 DEF Legal
<1> HIDE DEF a, c, n
<1>5. \A j \in 1 .. Len(b) : n + j \in n + 1 .. Len(c) /\ n + j \in 1 .. Len(c) /\ c[n + j] = b[j]
  <2> SUFFICES ASSUME NEW j \in 1 .. Len(b)
               PROVE  n + j \in n + 1 .. Len(c) /\ n + j \in 1 .. Len(c) /\ c[n + j] = b[j]
    OBVIOUS
  <2>1. n + j \in 1 .. n + Len(b) /\ ~(n + j <= n) /\ (n + j) - n = j
    BY <1>1
  <2> QED BY <1>1, <1>2, <2>1
<1>6. ASSUME x.at = 240
      PROVE  \E i \in 1 .. Len(c) : c[i] = 247
  <2>1. CASE x.next = 240
    BY <1>3, <1>5, <2>1
  <2>2. CASE a[1] = 247
    <3>1. 1 \in 1 .. Len(c) /\ c[1] = a[1]
      BY <1>1, <1>2
    <3> QED BY <2>2, <3>1
  <2> QED BY <1>4, <1>6, <2>1, <2>2
<1>7. ASSUME NEW i \in 1 .. Len(c), c[i] = 240
      PROVE  \E j \in i + 1 .. Len(c) : c[j] = 247
  <2>1. CASE i <= n
    <3>1. i \in 1 .. n /\ a[i] = 240
      BY <1>1, <1>2, <1>7, <2>1
    <3>2. n = 1 /\ i = 1 /\ x.next = 240
      BY <1>4, <3>1
    <3>3. PICK j \in 1 .. Len(b) : b[j] = 247
      BY <1>3, <3>2
    <3> QED BY <1>5, <3>2, <3>3
  <2>2. CASE ~(i <= n)
    <3>1. i - n \in 1 .. Len(b) /\ b[i - n] = 240
      BY <1>1, <1>2, <1>7, <2>2
    <3>2. PICK j \in (i - n) + 1 .. Len(b) : b[j] = 247
      BY <1>3, <3>1
    <3>3. j \in 1 .. Len(b) /\ n + j \in i + 1 .. Len(c)
      BY <1>1, <1>2, <3>1
    <3> QED BY <1>5, <3>2, <3>3
  <2> QED BY <2>1, <2>2
<1> QED BY <1>6, <1>7 DEF Ends, c, a

LEMMA EndsStream ==
  ASSUME NEW p, Stream(p), p # <<>>, p[Len(p)].next # \hF0
  PROVE  Ends(Raw(p), p[1].at = \hF0)
<1> DEFINE Bad(r) == /\ Stream(r) /\ r # <<>> /\ r[Len(r)].next # 240
                     /\ ~Ends(Raw(r), r[1].at = 240)
           T == {k \in Nat : \E r : Bad(r) /\ Len(r) = k}
<1> SUFFICES ASSUME Bad(p) PROVE FALSE
  OBVIOUS
<1>1. \A r : Stream(r) => Len(r) \in Nat
  BY LenProperties DEF Stream
<1>2. T # {} /\ T \subseteq Nat
  <2>1. Len(p) \in Nat
    BY <1>1
  <2> HIDE DEF Bad
  <2> QED BY <2>1
<1>3. PICK m \in T : \A k \in T : m <= k
  <2> HIDE DEF T
  <2> QED BY <1>2, Least
<1>4. PICK r : Bad(r) /\ Len(r) = m
  <2> HIDE DEF Bad
  <2> QED BY <1>3
<1> DEFINE t == Tail(r)
           x == r[1]
<1>5. /\ Legal(x) /\ Stream(t)
      /\ t # <<>> => t[1].at = x.next /\ t[Len(t)] = r[Len(r)]
      /\ t = <<>> => x = r[Len(r)]
      /\ Raw(r) = x.bytes \o Raw(t)
  BY <1>4, FirstPiece
<1>6. Len(t) \in Nat /\ ~(m <= Len(t))
  <2>1. r \in Seq(Piece) /\ r # <<>>
    BY <1>4 DEF Stream
  <2>2. Len(t) = Len(r) - 1 /\ Len(t) \in Nat
    BY <1>1, <1>5, <2>1, HeadTailProperties
  <2> QED BY <1>4, <2>2
<1>7. Ends(Raw(t), x.next = 240)
  <2>1. CASE t = <<>>
    <3>1. Raw(t) = <<>> /\ x.next # 240 /\ Len(<<>>) = 0
      BY <1>4, <1>5, <2>1, RawFacts, EmptySeq
    <3> HIDE DEF t, x
    <3> QED BY <3>1 DEF Ends
  <2>2. CASE t # <<>>
    <3>1. Len(t) \notin T
      BY <1>3, <1>6
    <3>2. ~Bad(t)
      <4> HIDE DEF Bad, t
      <4> QED BY <1>6, <3>1
    <3>3. t[Len(t)].next # 240 /\ t[1].at = x.next
      BY <1>4, <1>5, <2>2
    <3> QED BY <1>5, <2>2, <3>2, <3>3
  <2> QED BY <2>1, <2>2
<1>8. Raw(t) \in Seq(Bytes)
  BY <1>5, RawFacts DEF Stream
<1>9. Ends(x.bytes \o Raw(t), x.at = 240)
  <2> HIDE DEF x, t
  <2> QED BY <1>5, <1>7, <1>8, EndsPiece
<1> QED BY <1>4, <1>5, <1>9

----------------------------------------------------------------------------
(* Type correctness.                                                        *)
Told1(n) == [kind : {"device", "interface", "terminated"}, service : 1 .. n]
Opened(n) == {Nothing} \cup [kind : {"device", "interface"}, service : 1 .. n]
Device == /\ plugs \in 0 .. MaxPlugs /\ plugged \in {0, plugs} /\ configured \in BOOLEAN
          /\ holder \in {"none", "plugin", "midid"}
          /\ plugin \in {"absent", "told", "opening", "has", "dropped", "failed"}
          /\ plugin = "opening" => plugged # 0
Loop == /\ evq \in Seq(Told1(plugs)) /\ opening \in Opened(plugs)
        /\ gIf \in 0 .. plugs /\ interest \in BOOLEAN
        /\ read \in {"none", "pending", "success", "error", "aborted"}
Streams == /\ rx \in Seq(Events) /\ wire \in Seq(Events)
           /\ {sending, open, cut} \subseteq BOOLEAN
           /\ owed \in [plain : Seq(Bytes), clocks : Int]
Types == Device /\ Loop /\ Streams /\ Encoding

LEMMA PacketFacts ==
  ASSUME NEW p \in Packets
  PROVE  /\ Stream(p) /\ p # <<>> /\ p[1].at \in {0, \hF0}
         /\ Raw(p) \in Seq(Bytes) /\ Says(p) \in Seq(Bytes)
         /\ Told(p) \in Seq(Bytes) /\ Beats(p) \in Nat
<1>1. p \in Seq(Piece) /\ p # <<>> /\ p[1].at \in {0, 240} /\ Follows(p)
      /\ \A k \in DOMAIN p : Clock(p[k]) \/ Message(p[k]) \/ Running(p[k]) \/ SysexByte(p[k])
  BY MidiAssumption
<1>2. \A k \in DOMAIN p : Legal(p[k])
  <2>1. DOMAIN p = 1 .. Len(p)
    BY <1>1, LenProperties
  <2>2. \A k \in DOMAIN p : p[k] \in Piece
    BY <1>1, <2>1, ElementOfSeq
  <2> QED BY <1>1, <2>2 DEF Legal
<1> QED BY <1>1, <1>2, RawFacts, SaysFacts, ToldFacts DEF Stream

LEMMA OwesFacts ==
  /\ Owes(<<>>) = [plain |-> <<>>, clocks |-> 0]
  /\ \A a \in Seq(Events) : Owes(Decoded(a)) = [plain |-> Heard(a), clocks |-> Ticks(a)]
  /\ \A r : Owes(Says(r)) = [plain |-> Told(r), clocks |-> Beats(r)]
BY PlainFacts, ClocksFacts, EmptySeq DEF Owes, Heard, Ticks, Told, Beats

LEMMA NothingOwed == Owes(<<>>) \in [plain : Seq(Bytes), clocks : Int]
<1> DEFINE s == <<>>
<1>1. s \in Seq(Bytes)
  BY EmptySeq
<1>2. Owes(<<>>) = [plain |-> s, clocks |-> 0]
  BY OwesFacts
<1> HIDE DEF s
<1>3. [plain |-> s, clocks |-> 0] \in [plain : Seq(Bytes), clocks : Int]
  BY <1>1
<1> QED BY <1>2, <1>3

LEMMA InitTypes == Init => Types
<1> SUFFICES ASSUME Init PROVE Types
  OBVIOUS
<1>1. MaxPlugs \in Nat
  BY MidiAssumption
<1>2. plugin \in {"absent", "told"}
  BY DEF Init
<1>0. /\ plugged = 0 /\ plugs = 0 /\ configured \in BOOLEAN /\ holder = "none"
      /\ evq = <<>> /\ opening = Nothing /\ gIf = 0 /\ interest \in BOOLEAN
      /\ read = "none" /\ rx = <<>> /\ wire = <<>>
      /\ {sending, open, cut} \subseteq BOOLEAN
      /\ owed \in [plain : Seq(Bytes), clocks : Int]
  BY NothingOwed DEF Init
<1>3. Device
  <2>1. 0 \in 0 .. MaxPlugs
    BY <1>1
  <2> QED BY <1>0, <1>2, <2>1 DEF Device
<1>4. Loop
  <2>1. evq \in Seq(Told1(plugs))
    BY <1>0, EmptySeq
  <2>2. gIf \in 0 .. plugs /\ opening \in Opened(plugs)
    BY <1>0 DEF Opened
  <2> QED BY <1>0, <2>1, <2>2 DEF Loop
<1>5. Streams
  <2>1. rx \in Seq(Events) /\ wire \in Seq(Events)
    BY <1>0, EmptySeq
  <2> QED BY <1>0, <2>1 DEF Streams
<1>6. enc \in Encoders /\ enc.gSyx = <<>> /\ Len(<<>>) = 0
  BY EmptySeq DEF Init, Encoder, Encoders
<1>7. Encoding
  BY <1>6 DEF Encoding
<1> QED BY <1>3, <1>4, <1>5, <1>7 DEF Types

LEMMA QueueFacts ==
  ASSUME Device, Loop
  PROVE  /\ \A k \in {"device", "interface", "terminated"}, n \in 1 .. plugs :
              Append(evq, Note(k, n)) \in Seq(Told1(plugs))
         /\ evq # <<>> => /\ Tail(evq) \in Seq(Told1(plugs)) /\ Head(evq) = evq[1]
                          /\ Head(evq) \in Told1(plugs)
         /\ plugs \in Nat /\ (plugged # 0 => plugged \in 1 .. plugs)
<1>1. evq \in Seq(Told1(plugs))
  BY DEF Loop
<1>2. ASSUME NEW k \in {"device", "interface", "terminated"}, NEW n \in 1 .. plugs
      PROVE  Append(evq, Note(k, n)) \in Seq(Told1(plugs))
  <2>1. Note(k, n) \in Told1(plugs)
    BY DEF Note, Told1
  <2> QED BY <1>1, <2>1, AppendProperties
<1>3. evq # <<>> => /\ Tail(evq) \in Seq(Told1(plugs)) /\ Head(evq) = evq[1]
                    /\ Head(evq) \in Told1(plugs)
  BY <1>1, HeadTailProperties
<1>4. plugs \in Nat
  BY MidiAssumption DEF Device
<1>5. plugged # 0 => plugged \in 1 .. plugs
  BY <1>4 DEF Device
<1> QED BY <1>2, <1>3, <1>4, <1>5

LEMMA NextTypes ==
  ASSUME Types, [Next]_vars
  PROVE  Types'
<1> USE DEF deviceVars, clientVars, loopVars
<1>0. Device /\ Loop /\ Streams /\ Encoding
  BY DEF Types
<1>1. /\ plugs \in Nat /\ plugs \in 0 .. MaxPlugs /\ MaxPlugs \in Nat
      /\ plugged # 0 => plugged \in 1 .. plugs
      /\ plugged \in {0, plugs}
  BY <1>0, QueueFacts, MidiAssumption DEF Device
<1>2. ASSUME UNCHANGED deviceVars PROVE Device'
  BY <1>0, <1>2 DEF Device
<1>3. ASSUME UNCHANGED <<evq, plugs, opening, gIf, interest, read>> PROVE Loop'
  BY <1>0, <1>3 DEF Loop
<1>4. ASSUME UNCHANGED <<rx, wire, sending, open, cut, owed>> PROVE Streams'
  BY <1>0, <1>4 DEF Streams
<1>5. ASSUME UNCHANGED enc PROVE Encoding'
  BY <1>0, <1>5 DEF Encoding
<1>6. CASE encode_bytes
  <2>1. enc.bytes # <<>> /\ Turn
    BY <1>6 DEF encode_bytes, Turn
  <2>2. Encoding'
    BY <1>0, <2>1, TurnFacts DEF Ate
  <2> QED BY <1>2, <1>3, <1>4, <1>6, <2>2 DEF encode_bytes, Types
<1>7. CASE usb_send
  <2>1. Encoding'
    <3>1. enc.gSyx = enc'.gSyx /\ enc' \in Encoders
      <4>1. <<>> \in Seq(Events)
        BY EmptySeq
      <4>2. CASE enc' = [enc EXCEPT !.out = <<>>]
        BY <1>0, <4>1, <4>2 DEF Encoding, Encoders
      <4>3. CASE enc' = enc
        BY <1>0, <4>3 DEF Encoding
      <4> QED BY <1>7, <4>2, <4>3 DEF usb_send
    <3> QED BY <1>0, <3>1 DEF Encoding
  <2>2. owed' \in [plain : Seq(Bytes), clocks : Int] /\ cut' \in BOOLEAN /\ sending' \in BOOLEAN
    BY <1>0, <1>7, NothingOwed DEF usb_send, Loses, Streams
  <2>3. Streams'
    BY <1>0, <1>7, <2>2 DEF usb_send, Streams
  <2> QED BY <1>2, <1>3, <1>7, <2>1, <2>3 DEF usb_send, Types
<1>8. CASE WritePipe
  <2>1. Encoding'
    <3>1. enc' = [enc EXCEPT !.out = <<>>] /\ <<>> \in Seq(Events)
      BY <1>8, EmptySeq DEF WritePipe
    <3>2. enc.gSyx = enc'.gSyx /\ enc' \in Encoders
      BY <1>0, <3>1 DEF Encoding, Encoders
    <3> QED BY <1>0, <3>2 DEF Encoding
  <2> DEFINE o == enc.out
             taken(n) == SubSeq(o, 1, n)
  <2>2. wire \in Seq(Events) /\ o \in Seq(Events) /\ Len(o) \in Nat
    BY <1>0, LenProperties DEF Streams, Encoding, Encoders
  <2>3. /\ sending' = FALSE
        /\ \/ wire' = wire \o o
           \/ \E n \in 0 .. Len(o) - 1 : wire' = wire \o taken(n)
           \/ wire' = wire
        /\ \/ owed' = owed /\ cut' = cut
           \/ owed' = Owes(<<>>) /\ cut' = TRUE
    BY <1>8 DEF WritePipe, Loses
  <2> HIDE DEF o
  <2>4. wire' \in Seq(Events)
    <3>1. ASSUME NEW n \in 0 .. Len(o) - 1 PROVE wire \o taken(n) \in Seq(Events)
      <4>1. n \in 0 .. Len(o)
        BY <2>2
      <4>2. taken(n) \in Seq(Events)
        BY <2>2, <4>1, HeadOfSeq
      <4> HIDE DEF taken
      <4> QED BY <2>2, <4>2, ConcatProperties
    <3>2. wire \o o \in Seq(Events)
      BY <2>2, ConcatProperties
    <3> HIDE DEF taken
    <3> QED BY <2>2, <2>3, <3>1, <3>2
  <2>5. owed' \in [plain : Seq(Bytes), clocks : Int] /\ cut' \in BOOLEAN
    BY <1>0, <2>3, NothingOwed DEF Streams
  <2>6. Streams'
    BY <1>0, <1>8, <2>3, <2>4, <2>5 DEF WritePipe, Streams
  <2> QED BY <1>2, <1>3, <1>8, <2>1, <2>6 DEF WritePipe, Types
<1>9. ASSUME NEW p \in Packets, dest_read(p)
      PROVE  Types'
  <2>1. Raw(p) \in Seq(Bytes) /\ Told(p) \in Seq(Bytes) /\ Beats(p) \in Nat
    BY PacketFacts
  <2>2. Encoding'
    <3>1. enc' = [enc EXCEPT !.bytes = Raw(p)]
      BY <1>9 DEF dest_read
    <3>2. enc.gSyx = enc'.gSyx /\ enc' \in Encoders
      BY <1>0, <2>1, <3>1 DEF Encoding, Encoders
    <3> QED BY <1>0, <3>2 DEF Encoding
  <2> DEFINE before == IF cut THEN Owes(InTransit) ELSE owed
  <2>3. before.plain \in Seq(Bytes) /\ before.clocks \in Int
    <3>1. CASE cut
      <4>1. rx \o wire \in Seq(Events)
        BY <1>0, ConcatProperties DEF Streams
      <4>2. Owes(InTransit) = [plain |-> Heard(rx \o wire), clocks |-> Ticks(rx \o wire)]
        BY <4>1, OwesFacts DEF InTransit
      <4>3. Heard(rx \o wire) \in Seq(Bytes) /\ Ticks(rx \o wire) \in Int
        <5> DEFINE c == rx \o wire
        <5>1. c \in Seq(Events)
          BY <4>1
        <5> HIDE DEF c
        <5>2. Heard(c) \in Seq(Bytes) /\ Ticks(c) \in Nat
          BY <5>1, HeardFacts
        <5> QED BY <5>2 DEF c
      <4> QED BY <3>1, <4>2, <4>3
    <3>2. CASE ~cut
      BY <1>0, <3>2 DEF Streams
    <3> QED BY <3>1, <3>2
  <2>4. \/ owed' = Owes(<<>>)
        \/ owed' = [plain |-> before.plain \o Told(p), clocks |-> before.clocks + Beats(p)]
    <3>1. \/ owed' = Owes(<<>>)
          \/ owed' = [plain |-> before.plain \o Plain(Says(p)),
                      clocks |-> before.clocks + Owes(Says(p)).clocks]
      BY <1>9 DEF dest_read
    <3>2. Plain(Says(p)) = Told(p) /\ Owes(Says(p)).clocks = Beats(p)
      BY OwesFacts DEF Told
    <3> HIDE DEF before
    <3> QED BY <3>1, <3>2
  <2> HIDE DEF before
  <2>5. before.plain \o Told(p) \in Seq(Bytes) /\ before.clocks + Beats(p) \in Int
    <3> DEFINE a == before.plain
    <3>1. a \in Seq(Bytes)
      BY <2>3
    <3> HIDE DEF a
    <3>2. a \o Told(p) \in Seq(Bytes)
      BY <2>1, <3>1, ConcatProperties
    <3>3. before.clocks + Beats(p) \in Int
      BY <2>1, <2>3
    <3> QED BY <3>2, <3>3 DEF a
  <2>6. owed' \in [plain : Seq(Bytes), clocks : Int]
    <3> DEFINE more == [plain |-> before.plain \o Told(p), clocks |-> before.clocks + Beats(p)]
    <3>1. more \in [plain : Seq(Bytes), clocks : Int]
      BY <2>5
    <3>2. owed' = more \/ owed' = Owes(<<>>)
      BY <2>4
    <3> QED BY <3>1, <3>2, NothingOwed
  <2>7. open' \in BOOLEAN /\ cut' \in BOOLEAN
    <3>1. open' = (p[Len(p)].next = \hF0) /\ cut' = (cut /\ open)
      BY <1>9 DEF dest_read
    <3> QED BY <3>1
  <2>8. Streams'
    BY <1>0, <1>9, <2>6, <2>7 DEF dest_read, Streams
  <2> QED BY <1>2, <1>3, <1>9, <2>2, <2>8 DEF dest_read, Types
<1>10. CASE Plug
  <2>1. plugs' = plugs + 1 /\ plugs' \in 1 .. MaxPlugs /\ plugged' = plugs'
    BY <1>1, <1>10 DEF Plug
  <2>2. Device'
    BY <1>0, <1>10, <2>1 DEF Plug, Device
  <2>3. evq' \in Seq(Told1(plugs'))
    <3>1. Told1(plugs) \subseteq Told1(plugs')
      BY <1>1, <2>1 DEF Told1
    <3>2. evq \in Seq(Told1(plugs'))
      BY <1>0, <3>1, SeqMonotonic DEF Loop
    <3>3. Note("device", plugs') \in Told1(plugs')
      BY <1>1, <2>1 DEF Note, Told1
    <3> QED BY <1>10, <3>2, <3>3, AppendProperties DEF Plug
  <2>4. opening \in Opened(plugs')
    <3>1. Opened(plugs) \subseteq Opened(plugs')
      BY <1>1, <2>1 DEF Opened
    <3> QED BY <1>0, <3>1 DEF Loop
  <2>5. gIf \in 0 .. plugs'
    BY <1>0, <1>1, <2>1 DEF Loop
  <2>6. Loop'
    BY <1>0, <1>10, <2>3, <2>4, <2>5 DEF Plug, Loop
  <2> QED BY <1>4, <1>5, <1>10, <2>2, <2>6 DEF Plug, Types
<1>11. CASE Unplug
  <2>1. Device'
    BY <1>0, <1>1, <1>11 DEF Unplug, Device
  <2>2. evq' \in Seq(Told1(plugs))
    BY <1>0, <1>1, <1>11, QueueFacts DEF Unplug, Loop
  <2>3. Loop'
    BY <1>0, <1>11, <2>2 DEF Unplug, Loop
  <2>4. Streams'
    BY <1>0, <1>11, EmptySeq DEF Unplug, Streams
  <2> QED BY <1>5, <1>11, <2>1, <2>3, <2>4 DEF Unplug, Types
<1>12. CASE device_attach
  <2>1. Device'
    BY <1>0, <1>12 DEF device_attach, Device
  <2> QED BY <1>3, <1>4, <1>5, <1>12, <2>1 DEF device_attach, Types
<1>23. CASE PlugInConfigures
  <2>1. plugged \in 1 .. plugs
    BY <1>0, <1>1, <1>23 DEF PlugInConfigures, Device
  <2>2. Device'
    BY <1>0, <1>23 DEF PlugInConfigures, Device, Configure
  <2>3. evq' \in Seq(Told1(plugs))
    BY <1>0, <1>1, <1>23, <2>1, QueueFacts DEF PlugInConfigures, Loop, Configure
  <2>4. Loop'
    BY <1>0, <1>23, <2>3 DEF PlugInConfigures, Loop
  <2> QED BY <1>4, <1>5, <1>23, <2>2, <2>4 DEF PlugInConfigures, Types
<1>13. CASE devices_added
  <2>1. Device'
    BY <1>0, <1>13 DEF devices_added, Device
  <2>2. evq' \in Seq(Told1(plugs)) /\ Head(evq) \in Told1(plugs)
    BY <1>0, <1>13, QueueFacts DEF devices_added, Dispatch
  <2>3. opening' \in Opened(plugs)
    <3>1. Head(evq).kind = "device"
      BY <1>13 DEF devices_added, Dispatch
    <3>2. Head(evq) \in Opened(plugs)
      BY <2>2, <3>1 DEF Told1, Opened
    <3> QED BY <1>0, <1>13, <3>2 DEF devices_added, Loop
  <2>4. Loop'
    BY <1>0, <1>13, <2>2, <2>3 DEF devices_added, Loop
  <2> QED BY <1>4, <1>5, <1>13, <2>1, <2>4 DEF devices_added, Types
<1>14. CASE SetConfiguration
  <2>1. opening' = Nothing /\ Nothing \in Opened(plugs)
    BY <1>14 DEF SetConfiguration, Opened
  <2>2. opening.service \in 1 .. plugs
    BY <1>0, <1>14 DEF SetConfiguration, Opened, Loop, Nothing, Note
  <2>3. Device'
    BY <1>0, <1>14 DEF SetConfiguration, Device, Configure
  <2>4. evq' \in Seq(Told1(plugs))
    BY <1>0, <1>1, <1>14, <2>2, QueueFacts DEF SetConfiguration, Loop, Configure
  <2>5. Loop'
    BY <1>0, <1>14, <2>1, <2>4 DEF SetConfiguration, Loop
  <2> QED BY <1>4, <1>5, <1>14, <2>3, <2>5 DEF SetConfiguration, Types
<1>15. CASE attach
  <2>1. evq' \in Seq(Told1(plugs)) /\ Head(evq) \in Told1(plugs)
    BY <1>0, <1>15, QueueFacts DEF attach, Dispatch
  <2>2. opening' \in Opened(plugs)
    <3>1. Head(evq).kind = "interface"
      BY <1>15 DEF attach, Dispatch
    <3>2. Head(evq) \in Opened(plugs) /\ Nothing \in Opened(plugs)
      BY <2>1, <3>1 DEF Told1, Opened
    <3> QED BY <1>15, <3>2 DEF attach, Dispatch
  <2>3. Loop'
    BY <1>0, <1>15, <2>1, <2>2 DEF attach, Loop
  <2> QED BY <1>2, <1>4, <1>5, <1>15, <2>3 DEF attach, Types
<1>16. CASE Attached
  <2>1. opening' = Nothing /\ Nothing \in Opened(plugs)
    BY <1>16 DEF Attached, Opened
  <2>2. opening.service \in 1 .. plugs
    BY <1>0, <1>16 DEF Attached, Opened, Loop, Nothing, Note
  <2>3. CASE NoPipes
    <3>1. Loop'
      BY <1>0, <1>16, <2>1, <2>3 DEF Attached, NoPipes, Loop
    <3> QED BY <1>2, <1>4, <1>5, <1>16, <2>3, <3>1 DEF Attached, NoPipes, Types
  <2>4. CASE Opens
    <3>1. gIf' \in 0 .. plugs /\ interest' \in BOOLEAN
          /\ read' \in {"none", "pending", "success", "error", "aborted"}
      <4>1. gIf' = opening.service
        BY <2>4 DEF Opens
      <4>2. interest' = FALSE \/ interest' = (gIf' = plugged)
        BY <2>4 DEF Opens
      <4>3. read' = "pending" \/ read' = "none"
        BY <2>4 DEF Opens
      <4>4. gIf' \in 0 .. plugs
        BY <1>1, <2>2, <4>1
      <4>5. interest' \in BOOLEAN
        BY <4>2
      <4>6. read' \in {"none", "pending", "success", "error", "aborted"}
        BY <4>3
      <4> QED BY <4>4, <4>5, <4>6
    <3>2. Loop'
      BY <1>0, <1>16, <2>1, <3>1 DEF Attached, Loop
    <3>3. enc' \in Encoders /\ enc'.gSyx = enc.gSyx
      BY <1>0, <2>4 DEF Opens, Encoding, Encoders
    <3>4. Encoding'
      BY <1>0, <3>3 DEF Encoding
    <3>5. owed' \in [plain : Seq(Bytes), clocks : Int] /\ cut' \in BOOLEAN
      BY <1>0, <2>4, NothingOwed DEF Opens, Streams, Busy
    <3>6. Streams'
      BY <1>0, <1>16, <3>5 DEF Attached, Streams
    <3> QED BY <1>2, <1>16, <3>2, <3>4, <3>6 DEF Attached, Types
  <2> QED BY <1>16, <2>3, <2>4 DEF Attached
<1>17. CASE detach
  <2>1. evq' \in Seq(Told1(plugs))
    BY <1>0, <1>17, QueueFacts DEF detach, Dispatch
  <2>2. Loop'
    <3>1. plugs' = plugs /\ opening' = opening /\ gIf' = 0 /\ read' = "none"
      BY <1>17 DEF detach
    <3>2. interest' \in BOOLEAN
      BY <1>17 DEF detach
    <3>3. gIf' \in 0 .. plugs
      BY <1>1, <3>1
    <3> QED BY <1>0, <2>1, <3>1, <3>2, <3>3 DEF Loop
  <2>3. Streams'
    BY <1>0, <1>17, EmptySeq DEF detach, Streams
  <2> QED BY <1>2, <1>5, <1>17, <2>2, <2>3 DEF detach, Types
<1>18. CASE ReadSucceeds
  <2> DEFINE n == IF Len(wire) < RxEvents THEN Len(wire) ELSE RxEvents
  <2>1. rx' = SubSeq(wire, 1, n) /\ wire' = SubSeq(wire, n + 1, Len(wire))
    BY <1>18 DEF ReadSucceeds
  <2>2. wire \in Seq(Events) /\ n \in 0 .. Len(wire) /\ n \in Nat
    <3>1. wire \in Seq(Events) /\ Len(wire) \in Nat /\ RxEvents \in Nat
      BY <1>0, MidiAssumption, LenProperties DEF Streams
    <3> QED BY <3>1
  <2> HIDE DEF n
  <2>3. rx' \in Seq(Events) /\ wire' \in Seq(Events)
    BY <2>1, <2>2, HeadOfSeq, TailOfSeq
  <2>4. Streams'
    BY <1>0, <1>18, <2>3 DEF ReadSucceeds, Streams
  <2>5. Loop'
    BY <1>0, <1>18 DEF ReadSucceeds, Loop
  <2> QED BY <1>2, <1>5, <1>18, <2>4, <2>5 DEF ReadSucceeds, Types
<1>19. CASE ReadFails
  <2>1. Loop'
    BY <1>0, <1>19 DEF ReadFails, Loop
  <2> QED BY <1>2, <1>4, <1>5, <1>19, <2>1 DEF ReadFails, Types
<1>20. CASE rx_complete
  <2>1. Loop'
    BY <1>0, <1>20 DEF rx_complete, submit_read, Loop
  <2>2. owed' \in [plain : Seq(Bytes), clocks : Int]
    <3>1. CASE cut
      BY <1>0, <1>20, <3>1 DEF rx_complete, Streams
    <3>2. CASE ~cut
      <4> DEFINE k == Len(Plain(Decoded(rx)))
                 s == owed.plain
      <4>1. s \in Seq(Bytes) /\ owed.clocks \in Int /\ rx \in Seq(Events)
        BY <1>0 DEF Streams
      <4>2. Heard(rx) \in Seq(Bytes) /\ Ticks(rx) \in Nat /\ k = Len(Heard(rx))
            /\ Owes(Decoded(rx)).clocks = Ticks(rx)
        BY <4>1, HeardFacts, OwesFacts DEF Heard
      <4>3. k \in Nat
        BY <4>2, LenProperties
      <4>4. owed' = [plain |-> SubSeq(s, k + 1, Len(s)), clocks |-> owed.clocks - Ticks(rx)]
        BY <1>20, <3>2, <4>2 DEF rx_complete
      <4> HIDE DEF s, k
      <4>5. SubSeq(s, k + 1, Len(s)) \in Seq(Bytes) /\ owed.clocks - Ticks(rx) \in Int
        BY <4>1, <4>2, <4>3, TailOfSeq
      <4> QED BY <4>4, <4>5
    <3> QED BY <3>1, <3>2
  <2>3. Streams'
    BY <1>0, <1>20, <2>2, EmptySeq DEF rx_complete, Streams
  <2> QED BY <1>2, <1>5, <1>20, <2>1, <2>3 DEF rx_complete, Types
<1>21. CASE Restart
  <2>1. evq' \in Seq(Told1(plugs))
    <3>1. CASE plugged = 0
      BY <1>21, <3>1, EmptySeq DEF Restart
    <3>2. CASE plugged # 0
      <4> DEFINE a == <<Note("device", plugged)>>
                 b == IF configured THEN <<Note("interface", plugged)>> ELSE <<>>
      <4>1. Note("device", plugged) \in Told1(plugs) /\ Note("interface", plugged) \in Told1(plugs)
        BY <1>1, <3>2 DEF Note, Told1
      <4>2. a \in Seq(Told1(plugs)) /\ b \in Seq(Told1(plugs))
        BY <4>1, EmptySeq
      <4>3. evq' = a \o b
        BY <1>21, <3>2 DEF Restart
      <4> HIDE DEF a, b
      <4> QED BY <4>2, <4>3, ConcatProperties
    <3> QED BY <3>1, <3>2
  <2>2. Device'
    BY <1>0, <1>21 DEF Restart, Device
  <2>3. Loop'
    BY <1>0, <1>21, <2>1 DEF Restart, Loop, Opened
  <2>4. Streams'
    BY <1>0, <1>21, EmptySeq DEF Restart, Streams
  <2>5. Encoding'
    <3>1. enc' \in Encoders /\ enc'.gSyx = <<>> /\ Len(<<>>) = 0
      BY <1>21, EmptySeq DEF Restart, Encoder, Encoders
    <3> QED BY <3>1 DEF Encoding
  <2> QED BY <2>2, <2>3, <2>4, <2>5 DEF Types
<1>22. CASE UNCHANGED vars
  BY <1>2, <1>3, <1>4, <1>5, <1>22 DEF vars, Types
<1> QED BY <1>6, <1>7, <1>8, <1>9, <1>10, <1>11, <1>12, <1>13, <1>14, <1>15, <1>16, <1>17, <1>18,
           <1>19, <1>20, <1>21, <1>22, <1>23 DEF Next, RunLoop, CoreMidi

----------------------------------------------------------------------------
(* The transport: what is on the way needs its interface, and a termination *)
(* is told once, while the dead interface is kept.                          *)
Pending(q) == {i \in 1 .. Len(q) : q[i].kind = "terminated"}
Transport ==
  /\ wire # <<>> => alive
  /\ gIf = 0 => rx = <<>> /\ read = "none"
  /\ rx # <<>> => read = "success"
  /\ opening.kind = "interface" => gIf = 0
  /\ Pending(evq) # {} => gIf # 0 /\ gIf # plugged
  /\ \A i, j \in Pending(evq) : i = j

LEMMA PendingFacts ==
  ASSUME NEW S, NEW q \in Seq(S)
  PROVE  /\ \A e \in S : /\ e.kind # "terminated" => Pending(Append(q, e)) = Pending(q)
                         /\ Pending(Append(q, e)) \subseteq Pending(q) \cup {Len(q) + 1}
         /\ q # <<>> => \A i \in Pending(Tail(q)) : i + 1 \in Pending(q) /\ i # 0
         /\ q # <<>> /\ Head(q).kind = "terminated" => 1 \in Pending(q)
         /\ Pending(<<>>) = {}
<1>1. Len(q) \in Nat
  BY LenProperties
<1>2. ASSUME NEW e \in S
      PROVE  /\ e.kind # "terminated" => Pending(Append(q, e)) = Pending(q)
             /\ Pending(Append(q, e)) \subseteq Pending(q) \cup {Len(q) + 1}
  <2> DEFINE a == Append(q, e)
  <2>1. /\ Len(a) = Len(q) + 1 /\ \A i \in 1 .. Len(q) : a[i] = q[i]
        /\ a[Len(q) + 1] = e
    BY AppendProperties
  <2> HIDE DEF a
  <2>2. \A i \in 1 .. Len(a) : i \in 1 .. Len(q) \/ i = Len(q) + 1
    BY <1>1, <2>1
  <2>3. \A i \in 1 .. Len(q) : i \in 1 .. Len(a)
    BY <1>1, <2>1
  <2>4. e.kind # "terminated" => Pending(a) = Pending(q)
    BY <2>1, <2>2, <2>3 DEF Pending
  <2>5. Pending(a) \subseteq Pending(q) \cup {Len(q) + 1}
    BY <2>1, <2>2 DEF Pending
  <2> QED BY <2>4, <2>5 DEF a
<1>3. ASSUME q # <<>>
      PROVE  /\ \A i \in Pending(Tail(q)) : i + 1 \in Pending(q) /\ i # 0
             /\ Head(q).kind = "terminated" => 1 \in Pending(q)
  <2> DEFINE t == Tail(q)
  <2>1. Len(t) = Len(q) - 1 /\ \A i \in 1 .. Len(t) : t[i] = q[i+1]
    BY <1>3, HeadTailProperties
  <2>2. Len(q) \in Nat \ {0} /\ Head(q) = q[1]
    BY <1>3, EmptySeq
  <2> HIDE DEF t
  <2>3. \A i \in 1 .. Len(t) : i + 1 \in 1 .. Len(q) /\ i # 0
    BY <1>1, <2>1
  <2>4. 1 \in 1 .. Len(q)
    BY <2>2
  <2>5. \A i \in Pending(t) : i + 1 \in Pending(q) /\ i # 0
    BY <2>1, <2>3 DEF Pending
  <2> QED BY <2>2, <2>4, <2>5 DEF t, Pending
<1>4. Pending(<<>>) = {}
  <2>1. Len(<<>>) = 0
    BY EmptySeq
  <2> QED BY <2>1 DEF Pending
<1> QED BY <1>2, <1>3, <1>4

LEMMA InitTransport == Init => Transport
BY EmptySeq, PendingFacts DEF Init, Transport, Nothing, Note

LEMMA NextTransport ==
  ASSUME Types, Transport, [Next]_vars
  PROVE  Transport'
<1> USE DEF deviceVars, clientVars, loopVars
<1>0. /\ Device /\ Loop /\ Streams /\ Encoding /\ evq \in Seq(Told1(plugs))
      /\ plugs \in Nat /\ plugged \in {0, plugs} /\ gIf \in 0 .. plugs
  BY MidiAssumption DEF Types, Device, Loop
<1>5. /\ wire # <<>> => gIf # 0 /\ gIf = plugged
      /\ gIf = 0 => rx = <<>> /\ read = "none"
      /\ rx # <<>> => read = "success"
      /\ opening.kind = "interface" => gIf = 0
      /\ Pending(evq) # {} => gIf # 0 /\ gIf # plugged
      /\ \A i, j \in Pending(evq) : i = j
  BY DEF Transport, alive
<1>1. ASSUME evq # <<>>, evq' = Tail(evq)
      PROVE  /\ Pending(evq') # {} => Pending(evq) # {}
             /\ \A i, j \in Pending(evq') : i = j
             /\ Head(evq).kind = "terminated" => Pending(evq') = {} /\ Pending(evq) # {}
  <2>1. \A i \in Pending(evq') : i + 1 \in Pending(evq) /\ i # 0
    BY <1>0, <1>1, PendingFacts
  <2>2. Pending(evq') \subseteq Int
    <3>1. Len(evq') \in Nat
      BY <1>0, <1>1, HeadTailProperties, LenProperties
    <3> QED BY <3>1 DEF Pending
  <2>3. ASSUME NEW i \in Pending(evq'), NEW j \in Pending(evq')
        PROVE  i = j
    <3>1. i + 1 = j + 1 /\ i \in Int /\ j \in Int
      BY <1>5, <2>1, <2>2
    <3> QED BY <3>1
  <2>4. Head(evq).kind = "terminated" => Pending(evq') = {} /\ Pending(evq) # {}
    <3> SUFFICES ASSUME Head(evq).kind = "terminated"
                 PROVE  Pending(evq') = {} /\ Pending(evq) # {}
      OBVIOUS
    <3>1. 1 \in Pending(evq)
      BY <1>0, <1>1, PendingFacts
    <3>2. ASSUME NEW i \in Pending(evq') PROVE FALSE
      <4>1. i + 1 = 1 /\ i # 0 /\ i \in Int
        BY <1>5, <2>1, <2>2, <3>1
      <4> QED BY <4>1
    <3> QED BY <3>1, <3>2
  <2> QED BY <2>1, <2>3, <2>4
<1>2. ASSUME NEW n \in 1 .. plugs, NEW k \in {"device", "interface"},
             evq' = Append(evq, Note(k, n))
      PROVE  Pending(evq') = Pending(evq)
  <2>1. Note(k, n) \in Told1(plugs) /\ Note(k, n).kind # "terminated"
    BY DEF Note, Told1
  <2> QED BY <1>0, <1>2, <2>1, PendingFacts
<1>3. plugged # 0 => plugged \in 1 .. plugs
  BY <1>0
<1>4. CASE UNCHANGED <<plugged, evq, loopVars, wire>>
  BY <1>4, <1>5 DEF Transport, alive
<1>6. CASE encode_bytes
  BY <1>4, <1>6 DEF encode_bytes
<1>7. CASE usb_send
  BY <1>4, <1>7 DEF usb_send
<1>8. CASE WritePipe
  <2>1. wire' # <<>> => gIf # 0 /\ gIf = plugged
    BY <1>5, <1>8 DEF WritePipe, alive
  <2> QED BY <1>8, <1>5, <2>1 DEF WritePipe, Transport, alive
<1>9. ASSUME NEW p \in Packets, dest_read(p)
      PROVE  Transport'
  BY <1>4, <1>9 DEF dest_read
<1>10. CASE Plug
  <2>1. plugs + 1 \in 1 .. plugs + 1 /\ Note("device", plugs + 1) \in Told1(plugs + 1)
        /\ evq \in Seq(Told1(plugs + 1)) /\ Note("device", plugs + 1).kind # "terminated"
    <3>1. plugs + 1 \in 1 .. plugs + 1 /\ 1 .. plugs \subseteq 1 .. plugs + 1
      BY <1>0
    <3>2. Told1(plugs) \subseteq Told1(plugs + 1)
      BY <3>1 DEF Told1
    <3> QED BY <1>0, <3>1, <3>2, SeqMonotonic DEF Note, Told1
  <2>2. evq' = Append(evq, Note("device", plugs + 1))
    BY <1>10 DEF Plug
  <2>3. Pending(evq') = Pending(evq)
    BY <2>1, <2>2, PendingFacts
  <2>4. plugged' = plugs + 1 /\ gIf # plugged' /\ plugged = 0
    BY <1>0, <1>10 DEF Plug
  <2>5. wire = <<>>
    BY <1>5, <2>4
  <2> QED BY <1>10, <1>5, <2>3, <2>4, <2>5 DEF Plug, Transport, alive
<1>11. CASE Unplug
  <2>1. plugged' = 0 /\ wire' = <<>> /\ plugged # 0
    BY <1>11 DEF Unplug
  <2>2. CASE interest /\ gIf = plugged
    <3>1. evq' = Append(evq, Note("terminated", plugged)) /\ Pending(evq) = {}
      BY <1>11, <1>5, <2>2 DEF Unplug
    <3>2. Note("terminated", plugged) \in Told1(plugs)
      BY <1>3, <2>1 DEF Note, Told1
    <3>3. Pending(evq') \subseteq {Len(evq) + 1}
      BY <1>0, <3>1, <3>2, PendingFacts
    <3>4. \A i, j \in Pending(evq') : i = j
      BY <3>3
    <3> QED BY <1>11, <1>5, <2>1, <2>2, <3>4 DEF Unplug, Transport
  <2>3. CASE ~(interest /\ gIf = plugged)
    <3>1. evq' = evq
      BY <1>11, <2>3 DEF Unplug
    <3> QED BY <1>11, <1>5, <2>1, <3>1 DEF Unplug, Transport
  <2> QED BY <2>2, <2>3
<1>12. CASE device_attach
  BY <1>4, <1>12 DEF device_attach
<1>23. CASE PlugInConfigures
  <2>1. Pending(evq') = Pending(evq)
    <3>1. evq' = evq \/ evq' = Append(evq, Note("interface", plugged))
      BY <1>23 DEF PlugInConfigures, Configure
    <3>2. plugged \in 1 .. plugs
      BY <1>0, <1>3, <1>23 DEF PlugInConfigures, Device
    <3> QED BY <1>2, <3>1, <3>2
  <2> QED BY <1>23, <1>5, <2>1 DEF PlugInConfigures, Transport, alive
<1>13. CASE devices_added
  <2>1. evq # <<>> /\ evq' = Tail(evq) /\ Head(evq).kind = "device"
    BY <1>13 DEF devices_added, Dispatch
  <2>2. opening' = opening \/ opening'.kind = "device"
    BY <1>13, <2>1 DEF devices_added
  <2> QED BY <1>1, <1>13, <1>5, <2>1, <2>2 DEF devices_added, Transport, alive
<1>14. CASE SetConfiguration
  <2>1. Pending(evq') = Pending(evq)
    <3>1. opening.service \in 1 .. plugs
      BY <1>0, <1>14 DEF SetConfiguration, Opened, Loop, Nothing, Note
    <3>2. evq' = evq \/ (evq' = Append(evq, Note("interface", plugged)) /\ plugged = opening.service)
      BY <1>14 DEF SetConfiguration, Configure
    <3> QED BY <1>2, <3>1, <3>2
  <2>2. opening'.kind # "interface"
    BY <1>14 DEF SetConfiguration, Nothing, Note
  <2> QED BY <1>14, <1>5, <2>1, <2>2 DEF SetConfiguration, Transport, alive
<1>15. CASE attach
  <2>1. evq # <<>> /\ evq' = Tail(evq)
    BY <1>15 DEF attach, Dispatch
  <2>2. opening'.kind = "interface" => gIf = 0
    BY <1>15 DEF attach, Dispatch, Nothing, Note
  <2> QED BY <1>1, <1>15, <1>5, <2>1, <2>2 DEF attach, Transport, alive
<1>16. CASE Attached
  <2>1. opening'.kind # "interface" /\ gIf = 0 /\ rx = <<>> /\ read = "none" /\ Pending(evq) = {}
        /\ wire = <<>>
    BY <1>16, <1>5 DEF Attached, Nothing, Note
  <2>2. opening.service \in 1 .. plugs /\ opening.service # 0
    BY <1>0, <1>16 DEF Attached, Opened, Loop, Nothing, Note
  <2>3. (gIf' = gIf /\ read' = read) \/ gIf' # 0
    BY <1>16, <2>2 DEF Attached, NoPipes, Opens
  <2>4. Pending(evq') = Pending(evq) /\ rx' = rx /\ wire' = wire
    BY <1>16 DEF Attached
  <2> QED BY <2>1, <2>3, <2>4 DEF Transport
<1>17. CASE detach
  <2>1. evq # <<>> /\ evq' = Tail(evq) /\ Head(evq).kind = "terminated" /\ opening = Nothing
    BY <1>17 DEF detach, Dispatch
  <2>2. Pending(evq') = {} /\ wire = <<>>
    BY <1>1, <1>5, <2>1
  <2>3. gIf' = 0 /\ read' = "none" /\ rx' = <<>> /\ wire' = <<>> /\ opening'.kind # "interface"
    BY <1>17, <2>1, <2>2 DEF detach, Nothing, Note
  <2> QED BY <2>2, <2>3 DEF Transport
<1>18. CASE ReadSucceeds
  <2>1. wire # <<>> /\ read' = "success" /\ gIf # 0 /\ gIf = plugged
    BY <1>18 DEF ReadSucceeds, alive
  <2>2. UNCHANGED <<plugged, evq, opening, gIf>>
    BY <1>18 DEF ReadSucceeds
  <2> QED BY <1>5, <2>1, <2>2 DEF Transport, alive
<1>19. CASE ReadFails
  <2>1. read = "pending"
    BY <1>19 DEF ReadFails
  <2> QED BY <1>19, <1>5, <2>1 DEF ReadFails, Transport, alive
<1>20. CASE rx_complete
  <2>1. rx' = <<>> /\ gIf # 0
    BY <1>20, <1>5 DEF rx_complete
  <2> QED BY <1>20, <1>5, <2>1 DEF rx_complete, Transport, alive
<1>21. CASE Restart
  <2>1. gIf = 0 /\ wire = <<>>
    BY <1>21, <1>5 DEF Restart
  <2>2. gIf' = 0 /\ wire' = <<>> /\ rx' = <<>> /\ read' = "none" /\ opening'.kind # "interface"
    BY <1>21, <2>1 DEF Restart, Nothing, Note
  <2>3. Pending(evq') = {}
    <3>1. CASE plugged = 0
      BY <1>0, <1>21, <3>1, PendingFacts DEF Restart
    <3>2. CASE plugged # 0
      <4> DEFINE S == {e \in Told1(plugs) : e.kind # "terminated"}
                 a == <<Note("device", plugged)>>
                 b == IF configured THEN <<Note("interface", plugged)>> ELSE <<>>
      <4>1. Note("device", plugged) \in S /\ Note("interface", plugged) \in S
        BY <1>3, <3>2 DEF Note, Told1
      <4>2. evq' = a \o b
        BY <1>21, <3>2 DEF Restart
      <4>3. a \in Seq(S) /\ b \in Seq(S)
        <5> HIDE DEF S
        <5> QED BY <4>1, EmptySeq
      <4> HIDE DEF a, b
      <4>4. evq' \in Seq(S)
        <5> HIDE DEF S
        <5> QED BY <4>2, <4>3, ConcatProperties
      <4>5. \A i \in 1 .. Len(evq') : evq'[i] \in S
        <5> HIDE DEF S
        <5> QED BY <4>4, ElementOfSeq
      <4> QED BY <4>5 DEF Pending
    <3> QED BY <3>1, <3>2
  <2> QED BY <2>2, <2>3 DEF Transport
<1>22. CASE UNCHANGED vars
  BY <1>4, <1>22 DEF vars
<1> QED BY <1>6, <1>7, <1>8, <1>9, <1>10, <1>11, <1>12, <1>13, <1>14, <1>15, <1>16, <1>17, <1>18,
           <1>19, <1>20, <1>21, <1>22, <1>23 DEF Next, RunLoop, CoreMidi

----------------------------------------------------------------------------
(* Outside of a system exclusive of theirs, what clients sent ends every    *)
(* one that the encoder may be in.                                          *)
Closed == ~open => Ends(enc.bytes, enc.gInSysex)

LEMMA EndsNothing ==
  ASSUME NEW s \in BOOLEAN
  PROVE  Ends(<<>>, s) <=> ~s
<1>1. Len(<<>>) = 0 /\ 1 .. 0 = {}
  BY EmptySeq
<1> QED BY <1>1 DEF Ends

LEMMA InitClosed == Init => Closed
<1> SUFFICES ASSUME Init PROVE Closed
  OBVIOUS
<1>1. enc.bytes = <<>> /\ enc.gInSysex = FALSE
  BY DEF Init, Encoder
<1> QED BY <1>1, EndsNothing DEF Closed

LEMMA NextClosed ==
  ASSUME Types, Closed, [Next]_vars
  PROVE  Closed'
<1> USE DEF deviceVars, clientVars, loopVars
<1>0. Encoding /\ enc \in Encoders /\ enc.gInSysex \in BOOLEAN /\ open \in BOOLEAN
  BY DEF Types, Encoding, Encoders, Streams
<1>1. ASSUME open' = open, enc'.bytes = enc.bytes,
             enc'.gInSysex = enc.gInSysex \/ enc'.gInSysex = FALSE
      PROVE  Closed'
  BY <1>0, <1>1 DEF Closed, Ends
<1>2. CASE UNCHANGED <<enc, open>>
  BY <1>1, <1>2
<1>3. CASE encode_bytes
  <2>1. enc.bytes # <<>> /\ Turn /\ open' = open
    BY <1>3 DEF encode_bytes, Turn
  <2> QED BY <1>0, <2>1, EndsTurn DEF Closed
<1>4. CASE usb_send
  <2>1. enc'.bytes = enc.bytes /\ enc'.gInSysex = enc.gInSysex /\ open' = open
    BY <1>0, <1>4 DEF usb_send, Encoders
  <2> QED BY <1>1, <2>1
<1>5. CASE WritePipe
  <2>1. enc'.bytes = enc.bytes /\ enc'.gInSysex = enc.gInSysex /\ open' = open
    BY <1>0, <1>5 DEF WritePipe, Encoders
  <2> QED BY <1>1, <2>1
<1>6. ASSUME NEW p \in Packets, dest_read(p)
      PROVE  Closed'
  <2> SUFFICES ASSUME ~open' PROVE Ends(enc'.bytes, enc'.gInSysex)
    BY DEF Closed
  <2>1. enc.bytes = <<>> /\ (p[1].at = 240) = open /\ enc' = [enc EXCEPT !.bytes = Raw(p)]
        /\ open' = (p[Len(p)].next = 240)
    BY <1>6 DEF dest_read
  <2>2. enc'.bytes = Raw(p) /\ enc'.gInSysex = enc.gInSysex
    BY <1>0, <2>1 DEF Encoders
  <2>3. Ends(Raw(p), p[1].at = 240)
    <3>1. Stream(p) /\ p # <<>>
      BY PacketFacts, Zenon
    <3>2. p[Len(p)].next # 240
      BY <2>1, Zenon
    <3> QED BY <3>1, <3>2, EndsStream, Zenon
  <2>4. enc.gInSysex => p[1].at = 240
    <3>1. enc.gInSysex => open
      BY <1>0, <2>1, EndsNothing DEF Closed
    <3> QED BY <1>0, <2>1, <3>1
  <2> QED BY <1>0, <2>2, <2>3, <2>4 DEF Ends
<1>7. CASE Attached
  <2>1. open' = open /\ enc'.bytes = enc.bytes
        /\ (enc'.gInSysex = enc.gInSysex \/ enc'.gInSysex = FALSE)
    BY <1>0, <1>7 DEF Attached, NoPipes, Opens, Encoders
  <2> QED BY <1>1, <2>1
<1>8. CASE Restart
  <2>1. enc'.bytes = <<>> /\ enc'.gInSysex = FALSE
    BY <1>8 DEF Restart, Encoder
  <2> QED BY <2>1, EndsNothing DEF Closed
<1>9. CASE Plug \/ Unplug \/ device_attach \/ PlugInConfigures \/ devices_added \/ SetConfiguration
           \/ attach \/ detach \/ ReadSucceeds \/ ReadFails \/ rx_complete \/ UNCHANGED vars
  BY <1>2, <1>9 DEF Plug, Unplug, device_attach, PlugInConfigures, devices_added,
                    SetConfiguration, attach, detach, ReadSucceeds, ReadFails, rx_complete, vars
<1> QED BY <1>3, <1>4, <1>5, <1>6, <1>7, <1>8, <1>9 DEF Next, RunLoop, CoreMidi

----------------------------------------------------------------------------
(* What is owed: what is on the way, what gSyx keeps, and what the pieces   *)
(* that are not encoded yet tell.                                           *)
Tells(r) ==
  /\ Stream(r) /\ enc.bytes = Raw(r)
  /\ r = <<>> => (enc.gInSysex <=> open)
  /\ r # <<>> => Meets(r[1].at, enc) /\ (r[Len(r)].next = \hF0 <=> open)
  /\ owed.plain = (Heard(rx \o wire \o enc.out) \o Syx(enc)) \o Told(r)
  /\ owed.clocks = Ticks(rx \o wire \o enc.out) + Beats(r)
Agrees == ~cut /\ alive => \E r : Tells(r)
Paid == owed.clocks >= IF cut THEN 0 ELSE Ticks(rx)

(* A turn moves what a piece tells from the pieces to the events.           *)
Moves(h, s, p, t, e, s1) ==
  e \o s1 = s \o p => (h \o s) \o (p \o t) = ((h \o e) \o s1) \o t
LEMMA Splice ==
  \A S : \A h, s, p, t, e, s1 \in Seq(S) : Moves(h, s, p, t, e, s1)
<1> SUFFICES ASSUME NEW S, NEW h \in Seq(S), NEW s \in Seq(S), NEW p \in Seq(S),
                    NEW t \in Seq(S), NEW e \in Seq(S), NEW s1 \in Seq(S), e \o s1 = s \o p
             PROVE  (h \o s) \o (p \o t) = ((h \o e) \o s1) \o t
  BY DEF Moves
<1> DEFINE x == h \o s
<1>1. x \in Seq(S) /\ Grouped(h, s, p) /\ Grouped(h, e, s1)
  BY ConcatProperties, Regroup
<1> HIDE DEF x
<1>2. Grouped(x, p, t)
  BY <1>1, Regroup, Zenon
<1> QED BY <1>1, <1>2 DEF x, Grouped

LEMMA InitAgrees == Init => Agrees /\ Paid
BY HeardFacts, OwesFacts DEF Init, Agrees, Paid, alive

(* What is on the way, and what of it is heard.                             *)
LEMMA OnTheWay ==
  ASSUME Types
  PROVE  /\ rx \in Seq(Events) /\ wire \in Seq(Events) /\ enc.out \in Seq(Events)
         /\ rx \o wire \in Seq(Events) /\ rx \o wire \o enc.out \in Seq(Events)
         /\ Heard(rx \o wire \o enc.out) \in Seq(Bytes) /\ Ticks(rx \o wire \o enc.out) \in Nat
         /\ Syx(enc) \in Seq(Bytes) /\ enc \in Encoders
<1>1. rx \in Seq(Events) /\ wire \in Seq(Events) /\ enc.out \in Seq(Events) /\ enc \in Encoders
  BY DEF Types, Streams, Encoding, Encoders
<1>2. rx \o wire \in Seq(Events)
  BY <1>1, ConcatProperties
<1> DEFINE w == rx \o wire
<1>3. w \o enc.out \in Seq(Events)
  <2> HIDE DEF w
  <2> QED BY <1>1, <1>2, ConcatProperties DEF w
<1>4. Heard(w \o enc.out) \in Seq(Bytes) /\ Ticks(w \o enc.out) \in Nat
  BY <1>3, HeardFacts
<1>5. Syx(enc) \in Seq(Bytes)
  BY <1>1 DEF Syx, Encoders
<1> QED BY <1>1, <1>2, <1>3, <1>4, <1>5

(* Both stand when nothing that they speak of changes.                      *)
Coder == <<enc.bytes, enc.gRunning, enc.gInSysex, enc.gSyx>>
LEMMA KeptAgrees ==
  ASSUME Agrees, UNCHANGED <<open, owed, cut>>,
         alive' => alive /\ UNCHANGED Coder /\ UNCHANGED (rx \o wire \o enc.out)
  PROVE  Agrees'
<1> SUFFICES ASSUME ~cut', alive' PROVE \E r : Tells(r)'
  BY DEF Agrees
<1>1. ~cut /\ alive
  OBVIOUS
<1>2. PICK r : Tells(r)
  BY <1>1 DEF Agrees
<1>3. Tells(r)'
  BY <1>2 DEF Tells, Meets, Syx, Coder
<1> QED BY <1>3

LEMMA KeptPaid == ASSUME Paid, UNCHANGED <<owed, cut, rx>> PROVE Paid'
BY DEF Paid

(* What is owed covers what was read, when it tells anything.               *)
LEMMA TellsPaid ==
  ASSUME Types, NEW r, Tells(r)
  PROVE  owed.clocks >= Ticks(rx) /\ owed.clocks >= Ticks(rx \o wire)
<1> DEFINE w == rx \o wire
           a == Ticks(rx)
           b == Ticks(wire)
           c == Ticks(enc.out)
           d == Beats(r)
<1>1. a \in Nat /\ b \in Nat /\ c \in Nat /\ d \in Nat
  BY OnTheWay, HeardFacts, ToldFacts DEF Tells, Stream
<1>2. Ticks(w) = a + b
  BY OnTheWay, HeardFacts
<1>3. Ticks(w \o enc.out) = Ticks(w) + c
  BY OnTheWay, HeardFacts
<1>4. owed.clocks = Ticks(w \o enc.out) + d
  BY DEF Tells
<1> HIDE DEF a, b, c, d, w
<1>5. owed.clocks >= a /\ owed.clocks >= Ticks(w)
  BY <1>1, <1>2, <1>3, <1>4
<1> QED BY <1>5 DEF a, w

(* A turn of encode_bytes.                                                  *)
LEMMA EncodeAgrees ==
  ASSUME Types, Agrees, encode_bytes
  PROVE  Agrees'
<1> SUFFICES ASSUME ~cut', alive' PROVE \E t : Tells(t)'
  BY DEF Agrees
<1>1. /\ enc.bytes # <<>> /\ Turn /\ ~cut /\ alive
      /\ rx' = rx /\ wire' = wire /\ open' = open /\ owed' = owed
  BY DEF encode_bytes, Turn, deviceVars, loopVars, clientVars, alive
<1>2. PICK r : Tells(r)
  BY <1>1 DEF Agrees
<1>3. Stream(r) /\ enc.bytes = Raw(r) /\ r # <<>>
  BY <1>1, <1>2, RawFacts DEF Tells
<1>4. Encoding /\ Meets(r[1].at, enc) /\ (r[Len(r)].next = 240 <=> open)
  BY <1>2, <1>3 DEF Tells, Types
<1>5. PICK ev : Says1(r, ev)
  BY <1>1, <1>3, <1>4, TurnSays
<1> DEFINE t == Tail(r)
           x == r[1]
<1>6. /\ Stream(t) /\ (t # <<>> => t[1].at = x.next /\ t[Len(t)] = r[Len(r)])
      /\ (t = <<>> => x = r[Len(r)])
      /\ Told(r) = Plain(x.says) \o Told(t) /\ Beats(r) = Len(Clocks(x.says)) + Beats(t)
      /\ Legal(x)
  BY <1>3, FirstPiece
<1>7. /\ ev \in Seq(Events) /\ enc'.out = enc.out \o ev /\ enc'.bytes = Raw(t)
      /\ Meets(x.next, enc') /\ Heard(ev) \o Syx(enc') = Syx(enc) \o Plain(x.says)
      /\ Ticks(ev) = Len(Clocks(x.says))
  BY <1>5 DEF Says1
<1>8. Encoding' /\ Syx(enc') \in Seq(Bytes)
  <2>1. Encoding'
    BY <1>1, <1>4, TurnFacts DEF Ate
  <2>2. enc'.gSyx \in Seq(Bytes)
    BY <2>1 DEF Encoding, Encoders
  <2> QED BY <2>1, <2>2 DEF Syx
<1>9. t = <<>> => (enc'.gInSysex <=> open)
  BY <1>4, <1>6, <1>7 DEF Meets
<1>10. t # <<>> => Meets(t[1].at, enc') /\ (t[Len(t)].next = 240 <=> open)
  BY <1>4, <1>6, <1>7
<1> DEFINE w == rx \o wire
           q == w \o enc.out
           p == Plain(x.says)
           h == Heard(q)
           s == Syx(enc)
           s1 == Syx(enc')
           e == Heard(ev)
           u == Told(t)
<1>11. /\ w \in Seq(Events) /\ q \in Seq(Events) /\ enc.out \in Seq(Events)
       /\ h \in Seq(Bytes) /\ s \in Seq(Bytes)
  BY OnTheWay
<1>12. p \in Seq(Bytes) /\ e \in Seq(Bytes) /\ u \in Seq(Bytes)
  BY <1>6, <1>7, PieceFacts, PlainFacts, HeardFacts, ToldFacts DEF Stream
<1>13. w \o enc'.out = q \o ev
  <2> HIDE DEF w
  <2>1. Grouped(w, enc.out, ev)
    BY <1>7, <1>11, Regroup, Zenon
  <2> QED BY <1>7, <2>1 DEF w, Grouped
<1>14. Heard(q \o ev) = h \o e /\ Ticks(q \o ev) = Ticks(q) + Ticks(ev)
  BY <1>7, <1>11, HeardFacts
<1>15. owed.plain = (h \o s) \o (p \o u)
  BY <1>2, <1>6 DEF Tells
<1>16. (h \o s) \o (p \o u) = ((h \o e) \o s1) \o u
  <2>1. s1 \in Seq(Bytes) /\ e \o s1 = s \o p
    BY <1>7, <1>8
  <2> HIDE DEF h, s, p, u, e, s1
  <2>2. Moves(h, s, p, u, e, s1)
    BY <1>11, <1>12, <2>1, Splice
  <2> QED BY <2>1, <2>2 DEF Moves
<1>17. owed.plain = (Heard(w \o enc'.out) \o s1) \o u
  BY <1>13, <1>14, <1>15, <1>16
<1>18. owed.clocks = Ticks(w \o enc'.out) + Beats(t)
  <2> DEFINE a == Ticks(q)
             b == Ticks(ev)
             c == Beats(t)
  <2>1. a \in Nat /\ b \in Nat /\ c \in Nat
    BY <1>6, <1>7, <1>11, HeardFacts, ToldFacts DEF Stream
  <2>2. owed.clocks = a + (b + c)
    BY <1>2, <1>6, <1>7 DEF Tells
  <2>3. Ticks(w \o enc'.out) = a + b
    BY <1>13, <1>14
  <2> HIDE DEF a, b, c, w
  <2>4. owed.clocks = Ticks(w \o enc'.out) + c
    BY <2>1, <2>2, <2>3
  <2> QED BY <2>4 DEF c, w
<1>19. Tells(t)'
  <2> HIDE DEF t
  <2> QED BY <1>1, <1>6, <1>7, <1>9, <1>10, <1>17, <1>18 DEF Tells
<1> QED BY <1>19

(* A write moves what was encoded onto the wire, or the message is cut.     *)
LEMMA LosesAgrees ==
  ASSUME Loses
  PROVE  Agrees' /\ Paid'
BY OwesFacts DEF Loses, Agrees, Paid

LEMMA SendAgrees ==
  ASSUME Types, Agrees, Paid, usb_send \/ WritePipe
  PROVE  Agrees' /\ Paid'
<1> USE DEF deviceVars, loopVars, clientVars
<1>1. CASE usb_send /\ gIf # 0
  <2>1. UNCHANGED <<open, owed, cut, rx, wire, enc, alive>>
    BY <1>1 DEF usb_send, alive
  <2> QED BY <2>1, KeptAgrees, KeptPaid DEF Coder
<1>2. CASE WritePipe /\ alive /\ wire' = wire \o enc.out /\ UNCHANGED <<cut, owed>>
  <2>1. enc' = [enc EXCEPT !.out = <<>>] /\ UNCHANGED <<open, owed, cut, rx, alive>>
    BY <1>2 DEF WritePipe, alive
  <2>2. enc'.out = <<>> /\ UNCHANGED Coder
    BY <2>1, OnTheWay DEF Encoders, Coder
  <2>3. (rx \o (wire \o enc.out)) \o <<>> = (rx \o wire) \o enc.out
    <3> DEFINE o == enc.out
               v == wire \o o
    <3>1. o \in Seq(Events) /\ v \in Seq(Events)
      BY OnTheWay, ConcatProperties
    <3>2. rx \o v \in Seq(Events)
      <4> HIDE DEF v
      <4> QED BY <3>1, OnTheWay, ConcatProperties
    <3>3. (rx \o v) \o <<>> = rx \o v
      BY <3>2, ConcatEmptySeq
    <3> HIDE DEF o
    <3>4. rx \o v = (rx \o wire) \o o
      BY <3>1, OnTheWay, Regroup DEF Grouped
    <3> QED BY <3>3, <3>4 DEF o
  <2>4. UNCHANGED (rx \o wire \o enc.out)
    BY <1>2, <2>1, <2>2, <2>3
  <2> QED BY <2>1, <2>2, <2>4, KeptAgrees, KeptPaid
<1>3. CASE Loses
  BY <1>3, LosesAgrees
<1> QED BY <1>1, <1>2, <1>3 DEF usb_send, WritePipe

(* A packet starts after whole pieces, or goes on with a system exclusive.  *)
LEMMA PacketAgrees ==
  ASSUME Types, Closed, Agrees, NEW p \in Packets, dest_read(p)
  PROVE  Agrees'
<1> SUFFICES ASSUME ~cut', alive' PROVE \E r : Tells(r)'
  BY DEF Agrees
<1> DEFINE w == rx \o wire
           q == w \o enc.out
           before == IF cut THEN Owes(InTransit) ELSE owed
<1>1. /\ enc.bytes = <<>> /\ enc.out = <<>> /\ (p[1].at = 240) = open
      /\ enc' = [enc EXCEPT !.bytes = Raw(p)]
      /\ open' = (p[Len(p)].next = 240) /\ cut' = (cut /\ open)
      /\ owed' = [plain |-> before.plain \o Plain(Says(p)),
                  clocks |-> before.clocks + Owes(Says(p)).clocks]
      /\ rx' = rx /\ wire' = wire /\ alive
  BY DEF dest_read, deviceVars, loopVars, alive
<1>2. /\ w \in Seq(Events) /\ q \in Seq(Events) /\ Heard(q) \in Seq(Bytes) /\ Ticks(q) \in Nat
      /\ Syx(enc) \in Seq(Bytes) /\ enc \in Encoders /\ Heard(q) \o Syx(enc) \in Seq(Bytes)
  <2>1. /\ w \in Seq(Events) /\ q \in Seq(Events) /\ Heard(q) \in Seq(Bytes) /\ Ticks(q) \in Nat
        /\ Syx(enc) \in Seq(Bytes) /\ enc \in Encoders
    BY OnTheWay
  <2> HIDE DEF w, q
  <2> QED BY <2>1, ConcatProperties
<1>3. /\ Stream(p) /\ p # <<>> /\ p[1].at \in {0, 240} /\ Raw(p) \in Seq(Bytes)
      /\ Told(p) \in Seq(Bytes) /\ Beats(p) \in Nat
  BY PacketFacts
<1>4. /\ enc'.bytes = Raw(p) /\ enc'.out = enc.out /\ enc'.gInSysex = enc.gInSysex
      /\ Syx(enc') = Syx(enc) /\ enc.gInSysex \in BOOLEAN /\ open \in BOOLEAN
  BY <1>1, <1>2 DEF Encoders, Syx, Types, Streams
<1>5. /\ enc.gInSysex <=> open
      /\ before.plain = Heard(q) \o Syx(enc) /\ before.clocks = Ticks(q)
  <2>1. CASE ~cut
    <3>1. PICK r : Tells(r)
      BY <1>1, <2>1 DEF Agrees
    <3>2. r = <<>>
      BY <1>1, <3>1, RawEmpty DEF Tells
    <3>3. Told(r) = <<>> /\ Beats(r) = 0
      BY <3>2, ToldFacts
    <3>4. /\ owed.plain = (Heard(q) \o Syx(enc)) \o <<>> /\ owed.clocks = Ticks(q) + 0
          /\ (enc.gInSysex <=> open)
      BY <3>1, <3>2, <3>3 DEF Tells
    <3> DEFINE a == Heard(q) \o Syx(enc)
    <3>5. a \in Seq(Bytes)
      BY <1>2
    <3> HIDE DEF a
    <3>6. a \o <<>> = a
      BY <3>5, ConcatEmptySeq
    <3>7. Ticks(q) + 0 = Ticks(q)
      <4> DEFINE n == Ticks(q)
      <4>1. n \in Nat
        BY <1>2
      <4> HIDE DEF n
      <4>2. n + 0 = n
        BY <4>1
      <4> QED BY <4>2 DEF n
    <3> QED BY <2>1, <3>4, <3>6, <3>7 DEF a
  <2>2. CASE cut
    <3>1. ~open /\ ~enc.gInSysex
      BY <1>1, <1>4, <2>2, EndsNothing DEF Closed
    <3>2. q = w
      BY <1>1, <1>2, ConcatEmptySeq
    <3>3. before.plain = Heard(w) /\ before.clocks = Ticks(w)
      <4>1. Owes(Decoded(w)) = [plain |-> Heard(w), clocks |-> Ticks(w)]
        <5> HIDE DEF w
        <5> QED BY <1>2, OwesFacts
      <4>2. before = Owes(Decoded(w))
        BY <2>2 DEF InTransit
      <4> HIDE DEF before
      <4> QED BY <4>1, <4>2
    <3>4. Syx(enc) = <<>> /\ Heard(q) \o <<>> = Heard(q)
      BY <1>2, <3>1, ConcatEmptySeq DEF Syx
    <3> QED BY <3>1, <3>2, <3>3, <3>4
  <2> QED BY <2>1, <2>2
<1>6. owed'.plain = (Heard(q) \o Syx(enc)) \o Told(p) /\ owed'.clocks = Ticks(q) + Beats(p)
  <2>1. Owes(Says(p)) = [plain |-> Told(p), clocks |-> Beats(p)] /\ Plain(Says(p)) = Told(p)
    BY OwesFacts DEF Told
  <2>2. Owes(Says(p)).clocks = Beats(p)
    BY <2>1
  <2> HIDE DEF before, q
  <2> QED BY <1>1, <1>5, <2>1, <2>2
<1>7. Meets(p[1].at, enc')
  <2>1. p[1].at = 240 <=> enc'.gInSysex
    BY <1>1, <1>4, <1>5
  <2>2. p[1].at \notin Channel
    <3>1. 0 \notin Channel /\ 240 \notin Channel
      BY DEF Channel
    <3> QED BY <1>3, <3>1
  <2> QED BY <2>1, <2>2 DEF Meets
<1>8. Tells(p)'
  BY <1>1, <1>3, <1>4, <1>6, <1>7 DEF Tells
<1> QED BY <1>8

LEMMA PacketPaid ==
  ASSUME Types, Transport, Agrees, Paid, NEW p \in Packets, dest_read(p)
  PROVE  Paid'
<1>0. CASE cut'
  BY <1>0, OwesFacts DEF dest_read, Paid
<1> SUFFICES ASSUME ~cut' PROVE Paid'
  BY <1>0
<1> DEFINE w == rx \o wire
           before == IF cut THEN Owes(InTransit) ELSE owed
           a == before.clocks
           b == Beats(p)
           c == Ticks(rx)
<1>1. /\ rx' = rx /\ cut' = (cut /\ open) /\ owed'.clocks = a + Owes(Says(p)).clocks
  BY DEF dest_read, loopVars
<1>2. owed'.clocks = a + b
  BY <1>1, OwesFacts
<1>3. b \in Nat /\ c \in Nat /\ Ticks(wire) \in Nat /\ Ticks(w) = c + Ticks(wire)
  BY PacketFacts, OnTheWay, HeardFacts
<1>4. a \in Int /\ a >= IF cut THEN c ELSE Ticks(rx)
  <2>1. CASE cut
    <3>1. a = Ticks(w)
      <4>1. w \in Seq(Events)
        BY OnTheWay
      <4>2. Owes(Decoded(w)) = [plain |-> Heard(w), clocks |-> Ticks(w)]
        <5> HIDE DEF w
        <5> QED BY <4>1, OwesFacts
      <4>3. before = Owes(Decoded(w))
        BY <2>1 DEF InTransit
      <4> QED BY <4>2, <4>3
    <3> HIDE DEF a, c, w
    <3> QED BY <1>3, <2>1, <3>1
  <2>2. CASE ~cut
    BY <2>2 DEF Paid, Types, Streams
  <2> QED BY <2>1, <2>2
<1> HIDE DEF a, b, c
<1>5. a + b >= 0 /\ a + b >= c
  BY <1>3, <1>4 DEF c
<1> QED BY <1>1, <1>2, <1>5 DEF Paid, c

(* An attach that cuts nothing starts with nothing owed.                    *)
LEMMA AttachedAgrees ==
  ASSUME Types, Transport, Agrees, Paid, Attached
  PROVE  Agrees' /\ Paid'
<1> USE DEF deviceVars, loopVars, clientVars
<1>1. CASE UNCHANGED <<gIf, enc, cut, owed>>
  <2>1. UNCHANGED <<open, owed, cut, rx, alive>> /\ UNCHANGED Coder
        /\ UNCHANGED (rx \o wire \o enc.out)
    BY <1>1 DEF Attached, alive, Coder
  <2> QED BY <2>1, KeptAgrees, KeptPaid
<1>2. CASE /\ enc' = [enc EXCEPT !.gRunning = 0, !.gInSysex = FALSE]
           /\ cut' = (Busy \/ open) /\ owed' = Owes(<<>>)
  <2>1. /\ rx' = rx /\ wire' = wire /\ open' = open /\ gIf = 0
    BY DEF Attached, Transport
  <2>2. rx = <<>> /\ wire = <<>>
    BY <2>1 DEF Transport, alive
  <2>3. owed' = [plain |-> <<>>, clocks |-> 0]
    BY <1>2, OwesFacts
  <2>4. Paid'
    BY <2>1, <2>2, <2>3, HeardFacts DEF Paid
  <2> SUFFICES ASSUME ~cut' PROVE \E r : Tells(r)'
    BY <2>4 DEF Agrees
  <2>5. enc.bytes = <<>> /\ enc.out = <<>> /\ ~open
    BY <1>2 DEF Busy
  <2>6. /\ enc'.bytes = <<>> /\ enc'.out = <<>> /\ enc'.gInSysex = FALSE
    BY <1>2, <2>5, OnTheWay DEF Encoders
  <2>7. <<>> \o <<>> \o <<>> = <<>>
    OBVIOUS
  <2>8. Stream(<<>>)
    <3>1. <<>> \in Seq(Piece) /\ DOMAIN <<>> = {}
      OBVIOUS
    <3> QED BY <3>1 DEF Stream, Follows
  <2>9. Raw(<<>>) = <<>> /\ Told(<<>>) = <<>> /\ Beats(<<>>) = 0 /\ Heard(<<>>) = <<>>
        /\ Ticks(<<>>) = 0 /\ 0 + 0 = 0
    BY RawFacts, ToldFacts, HeardFacts
  <2>10. Syx(enc') = <<>>
    BY <2>6 DEF Syx
  <2>11. Tells(<<>>)'
    BY <2>1, <2>2, <2>3, <2>5, <2>6, <2>7, <2>8, <2>9, <2>10 DEF Tells
  <2> QED BY <2>11
<1> QED BY <1>1, <1>2 DEF Attached, NoPipes, Opens

(* A read takes events from the front of the wire.                          *)
LEMMA ReadAgrees ==
  ASSUME Types, Transport, Agrees, Paid, ReadSucceeds
  PROVE  Agrees' /\ Paid'
<1> USE DEF deviceVars, loopVars, clientVars
<1> DEFINE n == IF Len(wire) < RxEvents THEN Len(wire) ELSE RxEvents
<1>1. /\ read = "pending" /\ alive /\ UNCHANGED <<open, owed, cut, alive, enc>>
      /\ rx' = SubSeq(wire, 1, n) /\ wire' = SubSeq(wire, n + 1, Len(wire))
  BY DEF ReadSucceeds, alive
<1>2. rx = <<>>
  BY <1>1 DEF Transport
<1>3. wire \in Seq(Events) /\ Len(wire) \in Nat /\ RxEvents \in Nat
  BY MidiAssumption, OnTheWay, LenProperties
<1>4. n \in 0 .. Len(wire) /\ n \in Nat
  BY <1>3
<1> HIDE DEF n
<1>5. rx' \in Seq(Events) /\ wire' \in Seq(Events)
  BY <1>1, <1>3, <1>4, HeadOfSeq, TailOfSeq
<1>6. rx' \o wire' = wire
  <2>1. 1 \in 1 .. Len(wire) + 1 /\ n \in 1 - 1 .. Len(wire) /\ Len(wire) \in n .. Len(wire)
    BY <1>3, <1>4
  <2>2. SubSeq(wire, 1, n) \o SubSeq(wire, n + 1, Len(wire)) = SubSeq(wire, 1, Len(wire))
    BY <1>3, <2>1, ConcatAdjacentSubSeq
  <2>3. SubSeq(wire, 1, Len(wire)) = wire
    BY <1>3, SubSeqFull
  <2> QED BY <1>1, <2>2, <2>3
<1>7. rx \o wire = wire
  BY <1>2, <1>3, ConcatEmptySeq
<1>8. UNCHANGED (rx \o wire \o enc.out) /\ UNCHANGED Coder
  BY <1>1, <1>6, <1>7 DEF Coder
<1>9. Agrees'
  BY <1>1, <1>8, KeptAgrees
<1>10. Paid'
  <2>1. CASE cut
    BY <1>1, <2>1 DEF Paid
  <2>2. CASE ~cut
    <3>1. owed.clocks >= Ticks(rx \o wire)
      BY <1>1, <2>2, TellsPaid DEF Agrees
    <3> DEFINE a == Ticks(rx')
               b == Ticks(wire')
    <3>2. a \in Nat /\ b \in Nat /\ Ticks(rx' \o wire') = a + b
      BY <1>5, HeardFacts
    <3>3. owed.clocks \in Int /\ owed.clocks >= a + b
      BY <1>6, <1>7, <3>1, <3>2 DEF Types, Streams
    <3> HIDE DEF a, b
    <3>4. owed.clocks >= a
      BY <3>2, <3>3
    <3> QED BY <1>1, <2>2, <3>4 DEF Paid, a
  <2> QED BY <2>1, <2>2
<1> QED BY <1>9, <1>10

(* What was read is taken from the front of what is owed.                   *)
LEMMA HeardAgrees ==
  ASSUME Types, Agrees, Paid, rx_complete
  PROVE  Agrees' /\ Paid'
<1> USE DEF deviceVars, loopVars, clientVars
<1>1. /\ UNCHANGED <<open, cut, alive, enc, wire>> /\ rx' = <<>>
      /\ owed' = IF cut THEN owed
                 ELSE [plain |-> SubSeq(owed.plain, Len(Heard(rx)) + 1, Len(owed.plain)),
                       clocks |-> owed.clocks - Owes(Decoded(rx)).clocks]
  BY DEF rx_complete, Heard, alive
<1>2. Owes(Decoded(rx)).clocks = Ticks(rx)
  BY OnTheWay, OwesFacts
<1> DEFINE c == Ticks(rx)
<1>3. c \in Nat /\ owed.clocks \in Int
  BY OnTheWay, HeardFacts DEF Types, Streams
<1>4. Paid'
  <2>1. CASE cut
    BY <1>1, <2>1 DEF Paid
  <2>2. CASE ~cut
    <3>1. owed.clocks >= c /\ owed'.clocks = owed.clocks - c
      BY <1>1, <1>2, <2>2 DEF Paid
    <3> HIDE DEF c
    <3>2. owed'.clocks >= 0
      BY <1>3, <3>1
    <3> QED BY <1>1, <2>2, <3>2, HeardFacts DEF Paid
  <2> QED BY <2>1, <2>2
<1> SUFFICES ASSUME ~cut', alive' PROVE \E r : Tells(r)'
  BY <1>4 DEF Agrees
<1>5. PICK r : Tells(r)
  BY <1>1 DEF Agrees
<1> DEFINE o == enc.out
           v == wire \o o
           h == Heard(rx)
           s == Syx(enc)
           t == Told(r)
           k == Heard(v)
<1>6. /\ rx \in Seq(Events) /\ wire \in Seq(Events) /\ o \in Seq(Events)
      /\ s \in Seq(Bytes)
  BY OnTheWay
<1>7. v \in Seq(Events)
  BY <1>6, ConcatProperties
<1>8. h \in Seq(Bytes) /\ k \in Seq(Bytes) /\ t \in Seq(Bytes) /\ Ticks(v) \in Nat /\ Beats(r) \in Nat
  <2> HIDE DEF v
  <2> QED BY <1>5, <1>6, <1>7, HeardFacts, ToldFacts DEF Tells, Stream
<1>9. (rx \o wire) \o o = rx \o v
  <2> HIDE DEF o
  <2> QED BY <1>6, Regroup DEF v, Grouped
<1>10. Heard(rx \o v) = h \o k /\ Ticks(rx \o v) = c + Ticks(v)
  <2> HIDE DEF v
  <2> QED BY <1>6, <1>7, HeardFacts
<1>11. owed.plain = ((h \o k) \o s) \o t /\ owed.clocks = (c + Ticks(v)) + Beats(r)
  BY <1>5, <1>9, <1>10 DEF Tells
<1>12. /\ (k \o s) \o t \in Seq(Bytes)
       /\ ((h \o k) \o s) \o t = h \o ((k \o s) \o t)
  <2> DEFINE x == k \o s
  <2> HIDE DEF h, k, s, t
  <2>1. x \in Seq(Bytes) /\ Grouped(h, k, s)
    BY <1>6, <1>8, ConcatProperties, Regroup
  <2> HIDE DEF x
  <2>2. x \o t \in Seq(Bytes) /\ Grouped(h, x, t)
    BY <1>8, <2>1, ConcatProperties, Regroup
  <2> QED BY <2>1, <2>2 DEF x, Grouped
<1>13. owed'.plain = (k \o s) \o t
  <2> DEFINE y == (k \o s) \o t
  <2>1. y \in Seq(Bytes) /\ owed.plain = h \o y
    BY <1>11, <1>12
  <2>2. owed'.plain = SubSeq(owed.plain, Len(h) + 1, Len(owed.plain))
    BY <1>1
  <2> HIDE DEF y, h
  <2>3. SubSeq(h \o y, Len(h) + 1, Len(h \o y)) = y
    BY <1>8, <2>1, Parts
  <2> QED BY <2>1, <2>2, <2>3 DEF y
<1>14. owed'.clocks = Ticks(v) + Beats(r)
  <2> DEFINE a == Ticks(v)
             b == Beats(r)
  <2>1. owed'.clocks = owed.clocks - c
    BY <1>1, <1>2
  <2>2. a \in Nat /\ b \in Nat /\ owed.clocks = (c + a) + b
    BY <1>8, <1>11
  <2> HIDE DEF a, b, c
  <2>3. owed'.clocks = a + b
    BY <1>3, <2>1, <2>2
  <2> QED BY <2>3 DEF a, b
<1>15. (rx' \o wire') \o enc'.out = v
  BY <1>1, <1>6, ConcatEmptySeq
<1>16. Tells(r)'
  <2>1. /\ Stream(r) /\ enc'.bytes = Raw(r)
        /\ r = <<>> => (enc'.gInSysex <=> open')
        /\ r # <<>> => Meets(r[1].at, enc') /\ (r[Len(r)].next = 240 <=> open')
    BY <1>1, <1>5 DEF Tells
  <2> QED BY <1>1, <1>13, <1>14, <1>15, <2>1 DEF Tells
<1> QED BY <1>16

LEMMA NextAgrees ==
  ASSUME Types, Transport, Closed, Agrees, Paid, [Next]_vars
  PROVE  Agrees' /\ Paid'
<1> USE DEF deviceVars, loopVars, clientVars
<1>0. plugs \in Nat /\ gIf \in 0 .. plugs /\ rx \in Seq(Events) /\ owed.clocks \in Int
  BY MidiAssumption DEF Types, Device, Loop, Streams
<1>1. ASSUME UNCHANGED <<open, owed, cut, rx, wire, enc>>, alive' => alive
      PROVE  Agrees' /\ Paid'
  BY <1>1, KeptAgrees, KeptPaid DEF Coder
<1>2. ASSUME UNCHANGED <<owed, cut>>, rx' \in {rx, <<>>}, ~alive'
      PROVE  Agrees' /\ Paid'
  <2>1. Agrees'
    BY <1>2 DEF Agrees
  <2>2. CASE rx' = rx
    BY <1>2, <2>1, <2>2, KeptPaid
  <2>3. CASE rx' = <<>>
    <3> DEFINE a == Ticks(rx)
    <3>1. a \in Nat /\ owed.clocks >= IF cut THEN 0 ELSE a
      BY <1>0, HeardFacts DEF Paid
    <3> HIDE DEF a
    <3>2. owed.clocks >= 0
      BY <1>0, <3>1
    <3> QED BY <1>2, <2>1, <2>3, <3>2, HeardFacts DEF Paid
  <2> QED BY <1>2, <2>2, <2>3
<1>3. CASE encode_bytes
  <2>1. UNCHANGED <<owed, cut, rx>>
    BY <1>3 DEF encode_bytes
  <2> QED BY <1>3, <2>1, EncodeAgrees, KeptPaid
<1>4. CASE usb_send \/ WritePipe
  BY <1>4, SendAgrees
<1>5. ASSUME NEW p \in Packets, dest_read(p) PROVE Agrees' /\ Paid'
  BY <1>5, PacketAgrees, PacketPaid
<1>6. CASE Attached
  BY <1>6, AttachedAgrees
<1>7. CASE ReadSucceeds
  BY <1>7, ReadAgrees
<1>8. CASE rx_complete
  BY <1>8, HeardAgrees
<1>9. CASE Plug
  <2>1. plugged' = plugs + 1 /\ UNCHANGED <<owed, cut, rx, gIf>>
    BY <1>9 DEF Plug
  <2>2. ~alive'
    BY <1>0, <2>1 DEF alive
  <2> QED BY <1>2, <2>1, <2>2
<1>10. CASE Unplug
  <2>1. plugged' = 0 /\ UNCHANGED <<owed, cut, rx, gIf>>
    BY <1>10 DEF Unplug
  <2> QED BY <1>2, <2>1 DEF alive
<1>11. CASE detach
  <2>1. gIf' = 0 /\ rx' = <<>> /\ UNCHANGED <<owed, cut>>
    BY <1>11 DEF detach
  <2> QED BY <1>2, <2>1 DEF alive
<1>12. CASE Restart
  <2>1. gIf' = 0 /\ rx' = <<>> /\ UNCHANGED <<owed, cut>>
    BY <1>12 DEF Restart
  <2> QED BY <1>2, <2>1 DEF alive
<1>13. CASE device_attach \/ PlugInConfigures \/ devices_added \/ SetConfiguration \/ attach
            \/ ReadFails \/ UNCHANGED vars
  BY <1>1, <1>13 DEF device_attach, PlugInConfigures, devices_added, SetConfiguration, attach, ReadFails, vars, alive
<1> QED BY <1>3, <1>4, <1>5, <1>6, <1>7, <1>8, <1>9, <1>10, <1>11, <1>12, <1>13
           DEF Next, RunLoop, CoreMidi

----------------------------------------------------------------------------
(* What was given up is named.                                              *)
Named == givenUp \subseteq {"attach", "read"}
LEMMA NextNamed == Named /\ [Next]_vars => Named'
<1> SUFFICES ASSUME Named, [Next]_vars PROVE Named'
  OBVIOUS
<1>1. CASE UNCHANGED givenUp \/ givenUp' = {}
  BY <1>1 DEF Named
<1>2. CASE givenUp' \in {givenUp \cup {"attach"}, givenUp \cup {"read"}, givenUp \ {"read"}}
  BY <1>2 DEF Named
<1>3. \/ UNCHANGED givenUp \/ givenUp' = {}
      \/ givenUp' \in {givenUp \cup {"attach"}, givenUp \cup {"read"}, givenUp \ {"read"}}
  <2>1. CASE encode_bytes \/ usb_send \/ WritePipe \/ Plug \/ Unplug \/ device_attach \/ detach
             \/ ReadSucceeds \/ Restart \/ \E p \in Packets : dest_read(p)
    BY <2>1 DEF encode_bytes, usb_send, WritePipe, Plug, Unplug, device_attach, detach,
                ReadSucceeds, Restart, dest_read
  <2>2. CASE PlugInConfigures \/ devices_added \/ SetConfiguration \/ attach \/ ReadFails
    BY <2>2 DEF PlugInConfigures, devices_added, SetConfiguration, attach, ReadFails
  <2>3. CASE Attached
    BY <2>3 DEF Attached, NoPipes, Opens
  <2>4. CASE rx_complete
    BY <2>4 DEF rx_complete, submit_read
  <2>5. CASE UNCHANGED vars
    BY <2>5 DEF vars
  <2> QED BY <2>1, <2>2, <2>3, <2>4, <2>5 DEF Next, RunLoop, CoreMidi
<1> QED BY <1>1, <1>2, <1>3

(* The inductive invariant.                                                 *)
Kept == Types /\ Transport /\ Closed /\ Agrees /\ Paid /\ Named

LEMMA KeptInvariant == Spec => []Kept
<1>1. Init => Kept
  <2>1. Init => Named
    BY DEF Init, Named
  <2> QED BY <2>1, InitTypes, InitTransport, InitClosed, InitAgrees DEF Kept
<1>2. Kept /\ [Next]_vars => Kept'
  BY NextTypes, NextTransport, NextClosed, NextAgrees, NextNamed DEF Kept
<1> QED BY <1>1, <1>2, PTL DEF Spec

(* The daemon's state stays well formed: a USB-MIDI event carries a code    *)
(* index and three bytes, fewer than three bytes of a system exclusive are  *)
(* kept in gSyx, and the running status is a byte, whatever legal packets   *)
(* the clients send and however often the device comes and goes.            *)
THEOREM TypeCorrect == Spec => []TypeOK
<1>1. Kept => TypeOK
  <2> SUFFICES ASSUME Kept PROVE TypeOK
    OBVIOUS
  <2>1. Types /\ Paid /\ Named
    BY DEF Kept
  <2>2. \A i \in DOMAIN evq : evq[i].kind \in {"device", "interface", "terminated"}
    <3>1. evq \in Seq(Told1(plugs))
      BY <2>1 DEF Types, Loop
    <3>2. \A i \in DOMAIN evq : evq[i] \in Told1(plugs)
      BY <3>1, LenProperties, ElementOfSeq
    <3> QED BY <3>2 DEF Told1
  <2>3. opening.kind \in {"nothing", "device", "interface"}
    BY <2>1 DEF Types, Loop, Opened, Nothing, Note
  <2>4. \A e \in Range(rx \o wire \o enc.out) : e.cin \in 0 .. 15 /\ \A i \in 1 .. 3 : e.b[i] \in Bytes
    <3> DEFINE q == rx \o wire \o enc.out
    <3>1. q \in Seq(Events)
      BY <2>1, OnTheWay
    <3> HIDE DEF q
    <3>2. \A i \in DOMAIN q : q[i] \in Events
      BY <3>1, LenProperties, ElementOfSeq
    <3>3. \A e \in Range(q) : e \in Events
      BY <3>2 DEF Range
    <3>4. \A e \in Range(q) : e.cin \in 0 .. 15 /\ \A i \in 1 .. 3 : e.b[i] \in Bytes
      BY <3>3 DEF Events
    <3> QED BY <3>4 DEF q
  <2>5. Len(enc.gSyx) < 3 /\ enc.gRunning \in Bytes
    BY <2>1 DEF Types, Encoding, Encoders, Bytes, Channel
  <2>6. owed.clocks \in Nat
    <3> DEFINE a == Ticks(rx)
    <3>1. a \in Nat /\ owed.clocks >= (IF cut THEN 0 ELSE a) /\ owed.clocks \in Int
      BY <2>1, HeardFacts DEF Paid, Types, Streams
    <3> HIDE DEF a
    <3> QED BY <3>1
  <2> QED BY <2>1, <2>2, <2>3, <2>4, <2>5, <2>6 DEF TypeOK, Types, Device, Loop, Streams, Named
<1> QED BY <1>1, KeptInvariant, PTL

(* Between two packets, every byte that clients sent since the attach was   *)
(* heard, is on the wire or in the read, or waits in gSyx: encode_bytes     *)
(* neither loses, doubles nor reorders what is not real-time, for any       *)
(* number of legal packets, of any length, and any buffer sizes.            *)
THEOREM InStepTheorem == Spec => []InStep
<1>1. Kept => InStep
  <2> SUFFICES ASSUME Kept, ~Busy, ~cut, alive
               PROVE  owed = [plain |-> Plain(InTransit)
                                         \o (IF enc.gInSysex THEN enc.gSyx ELSE <<>>),
                              clocks |-> Owes(InTransit).clocks]
    BY DEF InStep
  <2>1. PICK r : Tells(r)
    BY DEF Kept, Agrees
  <2>2. r = <<>> /\ enc.out = <<>>
    BY <2>1, RawEmpty DEF Tells, Busy
  <2> DEFINE w == rx \o wire
             a == Heard(w) \o Syx(enc)
             n == Ticks(w)
  <2>3. w \in Seq(Events) /\ Syx(enc) \in Seq(Bytes)
    BY OnTheWay DEF Kept
  <2>4. w \o enc.out = w
    BY <2>2, <2>3, ConcatEmptySeq
  <2>5. a \in Seq(Bytes) /\ n \in Nat
    <3>1. Heard(w) \in Seq(Bytes) /\ Ticks(w) \in Nat
      BY <2>3, HeardFacts
    <3> QED BY <2>3, <3>1, ConcatProperties
  <2>6. owed.plain = a \o <<>> /\ owed.clocks = n + 0
    BY <2>1, <2>2, <2>4, ToldFacts DEF Tells
  <2>7. owed.plain = a /\ owed.clocks = n
    <3> HIDE DEF a, n
    <3>1. a \o <<>> = a /\ n + 0 = n
      BY <2>5, ConcatEmptySeq
    <3> QED BY <2>6, <3>1
  <2>8. Owes(InTransit) = [plain |-> Heard(w), clocks |-> n]
    BY <2>3, OwesFacts DEF InTransit
  <2>9. Plain(InTransit) \o (IF enc.gInSysex THEN enc.gSyx ELSE <<>>) = a
    BY DEF InTransit, Heard, Syx
  <2>10. owed = [plain |-> owed.plain, clocks |-> owed.clocks]
    BY DEF Kept, Types, Streams
  <2> HIDE DEF a, n
  <2>11. Owes(InTransit).clocks = n
    BY <2>8
  <2> QED BY <2>7, <2>9, <2>10, <2>11
<1> QED BY <1>1, KeptInvariant, PTL
=============================================================================
