-------------------------- MODULE MessagePath_proofs --------------------------
EXTENDS MessagePath, SequenceTheorems, WellFoundedInduction, TLAPS

------------------------------------------------------------------------------
(* Induction, for a set of numbers.                                            *)

LEMMA SetInduction ==
    ASSUME NEW T \in SUBSET Nat, 0 \in T, \A n \in T : n + 1 \in T
    PROVE  T = Nat
<1> SUFFICES ASSUME Nat \ T # {}
             PROVE  FALSE
  OBVIOUS
<1> DEFINE R == OpToRel(<, Nat)
<1>1. IsWellFoundedOn(R, Nat)
  BY NatLessThanWellFounded
<1> HIDE DEF R
<1>2. PICK n \in Nat \ T : \A i \in Nat \ T : ~(<<i, n>> \in R)
  BY <1>1, WFMin
<1>3. n # 0 /\ n - 1 \in Nat /\ n - 1 < n
  BY <1>2
<1>4. <<n - 1, n>> \in R
  BY <1>2, <1>3 DEF R, OpToRel
<1>5. n - 1 \in T
  BY <1>2, <1>3, <1>4
<1> QED
  BY <1>2, <1>3, <1>5

------------------------------------------------------------------------------
(* FlattenSeq: the sequences put one behind the other.                         *)

IsFlat(g, ss) ==
    g = [i \in 1..Len(ss) |-> IF i = 1 THEN ss[i] ELSE g[i - 1] \o ss[i]]

FlatUpTo(g, ss, n) ==
    /\ n > 0 => g[1] = ss[1]
    /\ \A i \in 1..n - 1 : g[i + 1] = g[i] \o ss[i + 1]

LEMMA FlatExists ==
    ASSUME NEW S, NEW ss \in Seq(S)
    PROVE  \E g : IsFlat(g, ss)
<1> DEFINE Step(g, i) == IF i = 1 THEN ss[i] ELSE g[i - 1] \o ss[i]
           T == {n \in Nat : \E g : g = [i \in 1..n |-> Step(g, i)]}
<1>1. 0 \in T
  <2>1. [i \in 1..0 |-> ss[i]] = [i \in 1..0 |-> Step([j \in 1..0 |-> ss[j]], i)]
    OBVIOUS
  <2> QED
    BY <2>1
<1>2. ASSUME NEW n \in T
      PROVE  n + 1 \in T
  <2>1. PICK g : g = [i \in 1..n |-> Step(g, i)]
    OBVIOUS
  <2> DEFINE G == [i \in 1..n + 1 |-> IF i <= n THEN g[i] ELSE Step(g, i)]
  <2>0. n \in Nat
    OBVIOUS
  <2> HIDE DEF Step, T
  <2>2. \A i \in 1..n : G[i] = g[i]
    BY <2>0
  <2>3. G[n + 1] = Step(g, n + 1)
    BY <2>0
  <2>8. \A i \in 1..n : g[i] = Step(g, i)
    BY <2>1
  <2>4. ASSUME NEW i \in 1..n + 1
        PROVE  G[i] = Step(G, i)
    <3>1. i # 1 => i - 1 \in 1..n
      BY <2>0
    <3> HIDE DEF G
    <3>2. Step(G, i) = Step(g, i)
      BY <2>2, <3>1 DEF Step
    <3>3. CASE i \in 1..n
      BY <2>2, <2>8, <3>2, <3>3
    <3>4. CASE i = n + 1
      BY <2>3, <3>2, <3>4
    <3> QED
      BY <2>0, <3>3, <3>4
  <2>5. DOMAIN G = 1..n + 1 /\ G = [i \in 1..n + 1 |-> G[i]]
    OBVIOUS
  <2> HIDE DEF G
  <2>6. G = [i \in 1..n + 1 |-> Step(G, i)]
    BY <2>4, <2>5
  <2>7. \E f : f = [i \in 1..n + 1 |-> Step(f, i)]
    BY <2>6
  <2>9. n + 1 \in Nat
    BY <2>0
  <2> QED
    BY <2>7, <2>9 DEF T
<1>3. T \in SUBSET Nat
  OBVIOUS
<1> HIDE DEF T
<1>4. Len(ss) \in T
  BY <1>1, <1>2, <1>3, SetInduction, LenProperties
<1> QED
  BY <1>4 DEF T, IsFlat

LEMMA FlatIs ==
    ASSUME NEW S, NEW ss \in Seq(S), ss # <<>>
    PROVE  \E g : FlatUpTo(g, ss, Len(ss)) /\ FlattenSeq(ss) = g[Len(ss)]
<1> DEFINE H == CHOOSE g : IsFlat(g, ss)
<1>1. IsFlat(H, ss)
  BY FlatExists
<1>2. Len(ss) \in Nat /\ Len(ss) # 0
  BY EmptySeq
<1>3. FlattenSeq(ss) = H[Len(ss)]
  BY <1>2 DEF FlattenSeq, IsFlat
<1> HIDE DEF H
<1>4. \A i \in 1..Len(ss) : H[i] = IF i = 1 THEN ss[i] ELSE H[i - 1] \o ss[i]
  BY <1>1 DEF IsFlat
<1>5. H[1] = ss[1]
  BY <1>2, <1>4
<1>6. ASSUME NEW i \in 1..Len(ss) - 1
      PROVE  H[i + 1] = H[i] \o ss[i + 1]
  <2>1. i + 1 \in 1..Len(ss) /\ i + 1 # 1 /\ (i + 1) - 1 = i
    BY <1>2
  <2>2. H[i + 1] = H[(i + 1) - 1] \o ss[i + 1]
    BY <1>4, <2>1
  <2> QED
    BY <2>1, <2>2
<1>7. FlatUpTo(H, ss, Len(ss))
  BY <1>5, <1>6 DEF FlatUpTo
<1> QED
  BY <1>3, <1>7

LEMMA FlatType ==
    ASSUME NEW S, NEW ss \in Seq(Seq(S)), NEW g, FlatUpTo(g, ss, Len(ss)),
           NEW k \in 1..Len(ss)
    PROVE  g[k] \in Seq(S)
<1> DEFINE T == {n \in Nat : n + 1 \in 1..Len(ss) => g[n + 1] \in Seq(S)}
<1>1. \A i \in 1..Len(ss) : ss[i] \in Seq(S)
  BY ElementOfSeq
<1>2. 0 \in T
  BY <1>1 DEF FlatUpTo
<1>3. ASSUME NEW n \in T
      PROVE  n + 1 \in T
  <2> SUFFICES ASSUME (n + 1) + 1 \in 1..Len(ss)
               PROVE  g[(n + 1) + 1] \in Seq(S)
    OBVIOUS
  <2>1. n + 1 \in 1..Len(ss) /\ n + 1 \in 1..Len(ss) - 1
    OBVIOUS
  <2>2. g[(n + 1) + 1] = g[n + 1] \o ss[(n + 1) + 1]
    BY <2>1 DEF FlatUpTo
  <2>3. g[n + 1] \in Seq(S) /\ ss[(n + 1) + 1] \in Seq(S)
    BY <1>1, <2>1
  <2> QED
    BY <2>2, <2>3
<1>4. T \in SUBSET Nat
  OBVIOUS
<1> HIDE DEF T
<1>5. T = Nat
  BY <1>2, <1>3, <1>4, SetInduction
<1>6. k - 1 \in Nat /\ (k - 1) + 1 = k
  BY LenProperties
<1> QED
  BY <1>5, <1>6 DEF T

\* Two of them agree as long as they put the same things together.
LEMMA FlatSame ==
    ASSUME NEW ss, NEW ts, NEW f, NEW g, NEW n \in Nat, NEW k \in 1..n,
           FlatUpTo(f, ss, n), FlatUpTo(g, ts, n), \A i \in 1..n : ss[i] = ts[i]
    PROVE  f[k] = g[k]
<1> DEFINE T == {i \in Nat : i + 1 \in 1..n => f[i + 1] = g[i + 1]}
<1>1. 0 \in T
  BY DEF FlatUpTo
<1>2. ASSUME NEW i \in T
      PROVE  i + 1 \in T
  <2> SUFFICES ASSUME (i + 1) + 1 \in 1..n
               PROVE  f[(i + 1) + 1] = g[(i + 1) + 1]
    OBVIOUS
  <2>1. i + 1 \in 1..n /\ i + 1 \in 1..n - 1
    OBVIOUS
  <2>2. /\ f[(i + 1) + 1] = f[i + 1] \o ss[(i + 1) + 1]
        /\ g[(i + 1) + 1] = g[i + 1] \o ts[(i + 1) + 1]
    BY <2>1 DEF FlatUpTo
  <2>3. f[i + 1] = g[i + 1] /\ ss[(i + 1) + 1] = ts[(i + 1) + 1]
    BY <2>1
  <2> QED
    BY <2>2, <2>3
<1>3. T \in SUBSET Nat
  OBVIOUS
<1> HIDE DEF T
<1>4. k - 1 \in T
  BY <1>1, <1>2, <1>3, SetInduction
<1> QED
  BY <1>4 DEF T

LEMMA FlattenEmpty == FlattenSeq(<<>>) = <<>>
  BY DEF FlattenSeq

LEMMA FlattenType ==
    ASSUME NEW S, NEW ss \in Seq(Seq(S))
    PROVE  FlattenSeq(ss) \in Seq(S)
<1>1. CASE ss = <<>>
  <2>1. <<>> \in Seq(S)
    BY EmptySeq
  <2> QED
    BY <1>1, <2>1, FlattenEmpty
<1>2. CASE ss # <<>>
  <2>1. PICK g : FlatUpTo(g, ss, Len(ss)) /\ FlattenSeq(ss) = g[Len(ss)]
    BY <1>2, FlatIs
  <2>2. Len(ss) \in 1..Len(ss)
    BY <1>2, EmptySeq
  <2>3. g[Len(ss)] \in Seq(S)
    BY <2>1, <2>2, FlatType
  <2> QED
    BY <2>1, <2>3
<1> QED
  BY <1>1, <1>2

LEMMA FlattenAppend ==
    ASSUME NEW S, NEW ss \in Seq(Seq(S)), NEW s \in Seq(S)
    PROVE  FlattenSeq(Append(ss, s)) = FlattenSeq(ss) \o s
<1> DEFINE st == Append(ss, s)
<1>1. /\ st \in Seq(Seq(S)) /\ Len(st) = Len(ss) + 1 /\ st[Len(ss) + 1] = s
      /\ \A i \in 1..Len(ss) : st[i] = ss[i]
      /\ Len(ss) \in Nat /\ st # <<>>
  BY AppendProperties, LenProperties
<1> HIDE DEF st
<1>2. PICK g : FlatUpTo(g, st, Len(st)) /\ FlattenSeq(st) = g[Len(st)]
  BY <1>1, FlatIs
<1>3. CASE ss = <<>>
  <2>1. Len(st) = 1 /\ st[1] = s
    BY <1>1, <1>3
  <2>2. FlattenSeq(st) = s
    BY <1>2, <2>1 DEF FlatUpTo
  <2>3. <<>> \o s = s
    BY ConcatEmptySeq
  <2> QED
    BY <1>3, <2>2, <2>3, FlattenEmpty DEF st
<1>4. CASE ss # <<>>
  <2>1. PICK f : FlatUpTo(f, ss, Len(ss)) /\ FlattenSeq(ss) = f[Len(ss)]
    BY <1>4, FlatIs
  <2>2. Len(ss) \in 1..Len(ss) /\ Len(ss) \in 1..Len(st) - 1
    BY <1>1, <1>4, EmptySeq
  <2>3. FlatUpTo(g, st, Len(ss))
    <3>1. Len(st) > 0 /\ \A i \in 1..Len(ss) - 1 : i \in 1..Len(st) - 1
      BY <1>1
    <3>2. g[1] = st[1]
      BY <1>2, <3>1 DEF FlatUpTo
    <3>3. \A i \in 1..Len(ss) - 1 : g[i + 1] = g[i] \o st[i + 1]
      BY <1>2, <3>1 DEF FlatUpTo
    <3> QED
      BY <3>2, <3>3 DEF FlatUpTo
  <2>4. f[Len(ss)] = g[Len(ss)]
    BY <1>1, <2>1, <2>2, <2>3, FlatSame
  <2>5. g[Len(ss) + 1] = g[Len(ss)] \o st[Len(ss) + 1]
    BY <1>2, <2>2 DEF FlatUpTo
  <2> QED
    BY <1>1, <1>2, <2>1, <2>4, <2>5 DEF st
<1> QED
  BY <1>3, <1>4

LEMMA OneSeq ==
    ASSUME NEW S, NEW e \in S
    PROVE  <<>> \in Seq(S) /\ <<e>> \in Seq(S) /\ Len(<<e>>) = 1 /\ <<e>>[1] = e
  OBVIOUS

LEMMA SeqOfFun ==
    ASSUME NEW S, NEW n \in Nat, NEW f \in [1..n -> S]
    PROVE  f \in Seq(S) /\ Len(f) = n
  OBVIOUS

LEMMA ConcatAppend ==
    ASSUME NEW S, NEW s \in Seq(S), NEW t \in Seq(S), NEW e \in S
    PROVE  s \o Append(t, e) = Append(s \o t, e)
<1>1. <<e>> \in Seq(S)
  OBVIOUS
<1>2. Append(t, e) = t \o <<e>> /\ s \o t \in Seq(S)
  BY AppendIsConcat, ConcatProperties
<1>3. Append(s \o t, e) = (s \o t) \o <<e>>
  BY <1>2, AppendIsConcat
<1> QED
  BY SMTT(20), <1>1, <1>2, <1>3, ConcatAssociative

\* Flattening two lists of sequences one after the other, and the induction
\* step of FlattenConcat on its own.
FlattensApart(ss, us) == FlattenSeq(ss \o us) = FlattenSeq(ss) \o FlattenSeq(us)

LEMMA FlattenConcatStep ==
    ASSUME NEW S, NEW ss \in Seq(Seq(S)), NEW vs \in Seq(Seq(S)), NEW s \in Seq(S),
           FlattensApart(ss, vs)
    PROVE  FlattensApart(ss, Append(vs, s))
<1>1. ss \o Append(vs, s) = Append(ss \o vs, s)
  BY ConcatAppend
<1>2. FlattenSeq(Append(ss \o vs, s)) = FlattenSeq(ss \o vs) \o s
  <2> DEFINE sv == ss \o vs
  <2>1. sv \in Seq(Seq(S))
    BY ConcatProperties
  <2> HIDE DEF sv
  <2>2. FlattenSeq(Append(sv, s)) = FlattenSeq(sv) \o s
    BY <2>1, FlattenAppend
  <2> QED
    BY <2>2 DEF sv
<1>3. FlattenSeq(Append(vs, s)) = FlattenSeq(vs) \o s
  BY FlattenAppend
<1>4. (FlattenSeq(ss) \o FlattenSeq(vs)) \o s = FlattenSeq(ss) \o (FlattenSeq(vs) \o s)
  <2>1. FlattenSeq(ss) \in Seq(S) /\ FlattenSeq(vs) \in Seq(S)
    BY FlattenType
  <2>2. \A a, b, c \in Seq(S) : (a \o b) \o c = a \o (b \o c)
    BY SMTT(20), ConcatAssociative
  <2> QED
    BY Zenon, <2>1, <2>2
<1> QED
  BY Zenon, <1>1, <1>2, <1>3, <1>4 DEF FlattensApart

LEMMA FlattenConcat ==
    ASSUME NEW S, NEW ss \in Seq(Seq(S)), NEW ts \in Seq(Seq(S))
    PROVE  FlattenSeq(ss \o ts) = FlattenSeq(ss) \o FlattenSeq(ts)
<1> DEFINE T == {n \in Nat : \A us \in Seq(Seq(S)) : Len(us) = n => FlattensApart(ss, us)}
<1>1. 0 \in T
  <2> SUFFICES ASSUME NEW us \in Seq(Seq(S)), Len(us) = 0
               PROVE  FlattensApart(ss, us)
    OBVIOUS
  <2>1. us = <<>>
    BY EmptySeq
  <2> QED
    BY <2>1, FlattenEmpty, FlattenType, ConcatEmptySeq DEF FlattensApart
<1>2. ASSUME NEW n \in T
      PROVE  n + 1 \in T
  <2> SUFFICES ASSUME NEW us \in Seq(Seq(S)), Len(us) = n + 1
               PROVE  FlattensApart(ss, us)
    OBVIOUS
  <2>1. us # <<>>
    BY EmptySeq
  <2>2. PICK vs \in Seq(Seq(S)), s \in Seq(S) : us = Append(vs, s)
    BY <2>1, SequenceEmptyOrAppend
  <2>3. Len(vs) = n
    BY <2>2, AppendProperties, LenProperties
  <2>4. FlattensApart(ss, vs)
    BY <2>3
  <2> QED
    BY <2>2, <2>4, FlattenConcatStep
<1> HIDE DEF T
<1>3. T = Nat
  <2>1. T \in SUBSET Nat
    BY DEF T
  <2> QED
    BY <1>1, <1>2, <2>1, SetInduction
<1>4. FlattensApart(ss, ts)
  BY <1>3, LenProperties DEF T
<1> QED
  BY <1>4 DEF FlattensApart

LEMMA FlattenOne ==
    ASSUME NEW S, NEW s \in Seq(S)
    PROVE  FlattenSeq(<<s>>) = s
<1>1. <<s>> = Append(<<>>, s)
  OBVIOUS
<1>2. <<>> \in Seq(Seq(S))
  BY EmptySeq
<1>3. FlattenSeq(<<s>>) = <<>> \o s
  BY <1>1, <1>2, FlattenAppend, FlattenEmpty
<1> QED
  BY <1>3, ConcatEmptySeq

------------------------------------------------------------------------------
(* The lines of a name, of headers that are put together from parts.           *)

\* What LinesOf takes of each line.
Picked(h, name) == [i \in DOMAIN h |-> IF h[i].name = name THEN <<h[i]>> ELSE <<>>]

LEMMA PickedType ==
    ASSUME NEW S, NEW h \in Seq(S), NEW name
    PROVE  /\ Picked(h, name) \in Seq(Seq({l \in S : l.name = name}))
           /\ Len(Picked(h, name)) = Len(h)
           /\ LinesOf(h, name) = FlattenSeq(Picked(h, name))
<1> DEFINE Q == Seq({l \in S : l.name = name})
<1>1. DOMAIN h = 1..Len(h) /\ Len(h) \in Nat /\ \A i \in 1..Len(h) : h[i] \in S
  BY LenProperties, ElementOfSeq
<1>2. ASSUME NEW i \in 1..Len(h)
      PROVE  Picked(h, name)[i] \in Q
  <2>1. Picked(h, name)[i] = IF h[i].name = name THEN <<h[i]>> ELSE <<>>
    BY <1>1 DEF Picked
  <2>2. h[i].name = name => h[i] \in {l \in S : l.name = name}
    BY <1>1
  <2>3. <<>> \in Q
    BY EmptySeq
  <2> QED
    BY <2>1, <2>2, <2>3, OneSeq
<1> HIDE DEF Q
<1>3. Picked(h, name) \in [1..Len(h) -> Q]
  BY <1>1, <1>2 DEF Picked
<1>4. Picked(h, name) \in Seq(Q) /\ Len(Picked(h, name)) = Len(h)
  BY <1>1, <1>3
<1> QED
  BY <1>4 DEF Q, LinesOf, Picked

LEMMA LinesOfType ==
    ASSUME NEW S, NEW h \in Seq(S), NEW name
    PROVE  LinesOf(h, name) \in Seq({l \in S : l.name = name})
<1> DEFINE R == {l \in S : l.name = name}
<1> HIDE DEF R
<1>1. Picked(h, name) \in Seq(Seq(R)) /\ LinesOf(h, name) = FlattenSeq(Picked(h, name))
  BY PickedType DEF R
<1>2. FlattenSeq(Picked(h, name)) \in Seq(R)
  BY <1>1, FlattenType
<1> QED
  BY <1>1, <1>2 DEF R

LEMMA LinesOfConcat ==
    ASSUME NEW S, NEW h \in Seq(S), NEW k \in Seq(S), NEW name
    PROVE  LinesOf(h \o k, name) = LinesOf(h, name) \o LinesOf(k, name)
<1> DEFINE R == {l \in S : l.name = name}
<1> HIDE DEF R
<1>1. h \o k \in Seq(S) /\ Len(h \o k) = Len(h) + Len(k)
      /\ Len(h) \in Nat /\ Len(k) \in Nat
  BY ConcatProperties, LenProperties
<1>2. /\ Picked(h, name) \in Seq(Seq(R)) /\ Len(Picked(h, name)) = Len(h)
      /\ LinesOf(h, name) = FlattenSeq(Picked(h, name))
  BY PickedType DEF R
<1>3. /\ Picked(k, name) \in Seq(Seq(R)) /\ Len(Picked(k, name)) = Len(k)
      /\ LinesOf(k, name) = FlattenSeq(Picked(k, name))
  BY PickedType DEF R
<1>4. /\ Picked(h \o k, name) \in Seq(Seq(R)) /\ Len(Picked(h \o k, name)) = Len(h) + Len(k)
      /\ LinesOf(h \o k, name) = FlattenSeq(Picked(h \o k, name))
  BY <1>1, PickedType DEF R
<1> DEFINE P == Picked(h, name) \o Picked(k, name)
<1>5. /\ P \in Seq(Seq(R)) /\ Len(P) = Len(h) + Len(k)
      /\ \A i \in 1..Len(h) + Len(k) :
            P[i] = IF i <= Len(h) THEN Picked(h, name)[i] ELSE Picked(k, name)[i - Len(h)]
  <2> DEFINE Q == Seq(R)
  <2> HIDE DEF Q
  <2>1. Picked(h, name) \in Seq(Q) /\ Picked(k, name) \in Seq(Q)
    BY <1>2, <1>3 DEF Q
  <2>2. /\ P \in Seq(Q) /\ Len(P) = Len(Picked(h, name)) + Len(Picked(k, name))
        /\ \A i \in 1..Len(Picked(h, name)) + Len(Picked(k, name)) :
              P[i] = IF i <= Len(Picked(h, name)) THEN Picked(h, name)[i]
                     ELSE Picked(k, name)[i - Len(Picked(h, name))]
    BY <2>1, ConcatProperties
  <2> QED
    BY <1>2, <1>3, <2>2 DEF Q
<1> HIDE DEF P
<1>6. ASSUME NEW i \in 1..Len(h) + Len(k)
      PROVE  Picked(h \o k, name)[i] = P[i]
  <2>1. (h \o k)[i] = IF i <= Len(h) THEN h[i] ELSE k[i - Len(h)]
    BY ConcatProperties
  <2>2. i \in DOMAIN (h \o k)
    BY <1>1, LenProperties
  <2>3. Picked(h \o k, name)[i] = IF (h \o k)[i].name = name THEN <<(h \o k)[i]>> ELSE <<>>
    BY <2>2 DEF Picked
  <2>4. CASE i <= Len(h)
    <3>1. i \in DOMAIN h
      BY <2>4, LenProperties
    <3> QED
      BY <2>1, <2>3, <2>4, <3>1, <1>5 DEF Picked
  <2>5. CASE ~(i <= Len(h))
    <3>1. i - Len(h) \in DOMAIN k
      BY <1>1, <2>5, LenProperties
    <3> QED
      BY <2>1, <2>3, <2>5, <3>1, <1>5 DEF Picked
  <2> QED
    BY <2>4, <2>5
<1>7. Picked(h \o k, name) = P
  BY <1>4, <1>5, <1>6, SeqEqual
<1>8. FlattenSeq(P) = FlattenSeq(Picked(h, name)) \o FlattenSeq(Picked(k, name))
  BY <1>2, <1>3, FlattenConcat DEF P
<1> QED
  BY <1>2, <1>3, <1>4, <1>7, <1>8

LEMMA LinesOfEmpty == \A name : LinesOf(<<>>, name) = <<>>
  BY FlattenEmpty DEF LinesOf

LEMMA LinesOfOne ==
    ASSUME NEW l, NEW name
    PROVE  LinesOf(<<l>>, name) = IF l.name = name THEN <<l>> ELSE <<>>
<1> DEFINE s == IF l.name = name THEN <<l>> ELSE <<>>
<1>1. s \in Seq({l})
  BY OneSeq
<1>2. [i \in DOMAIN <<l>> |-> IF <<l>>[i].name = name THEN <<<<l>>[i]>> ELSE <<>>] = <<s>>
  OBVIOUS
<1> HIDE DEF s
<1>3. FlattenSeq(<<s>>) = s
  BY <1>1, FlattenOne
<1> QED
  BY <1>2, <1>3 DEF LinesOf, s

LEMMA NoLines ==
    ASSUME NEW S, NEW h \in Seq(S), NEW name, \A i \in 1..Len(h) : h[i].name # name
    PROVE  LinesOf(h, name) = <<>>
<1> DEFINE R == {h[i] : i \in 1..Len(h)}
           N == {l \in R : l.name = name}
<1>1. h \in Seq(R)
  BY LenProperties
<1>2. N = {}
  OBVIOUS
<1> HIDE DEF R
<1>3. LinesOf(h, name) \in Seq(N)
  BY <1>1, LinesOfType
<1> HIDE DEF N
<1>4. LinesOf(h, name) # <<>> => LinesOf(h, name)[1] \in N
  BY <1>3, EmptySeq, ElementOfSeq
<1> QED
  BY <1>2, <1>4

LEMMA Least ==
    ASSUME NEW T \in SUBSET Nat, T # {}
    PROVE  \E n \in T : \A i \in T : n <= i
<1> DEFINE R == OpToRel(<, Nat)
<1>1. IsWellFoundedOn(R, Nat)
  BY NatLessThanWellFounded
<1> HIDE DEF R
<1>2. PICK n \in T : \A i \in T : ~(<<i, n>> \in R)
  BY <1>1, WFMin
<1>3. ASSUME NEW i \in T
      PROVE  n <= i
  <2>1. ~(i < n)
    BY <1>2 DEF R, OpToRel
  <2> QED
    BY <2>1
<1> QED
  BY <1>3

LEMMA FirstLineIs ==
    ASSUME NEW S, NEW h \in Seq(S), NEW name, Has(h, name)
    PROVE  /\ FirstLine(h, name) \in 1..Len(h)
           /\ h[FirstLine(h, name)].name = name
           /\ \A j \in 1..FirstLine(h, name) - 1 : h[j].name # name
<1> DEFINE T == {i \in 1..Len(h) : h[i].name = name}
<1>1. DOMAIN h = 1..Len(h) /\ Len(h) \in Nat
  BY LenProperties
<1>2. T \in SUBSET Nat /\ T # {}
  BY <1>1 DEF Has
<1>3. PICK n \in T : \A i \in T : n <= i
  BY <1>2, Least
<1>4. n \in DOMAIN h /\ h[n].name = name /\ \A j \in 1..n - 1 : h[j].name # name
  BY <1>1, <1>3
<1> DEFINE IsFirst(i) == h[i].name = name /\ \A j \in 1..i - 1 : h[j].name # name
           f == CHOOSE i \in DOMAIN h : IsFirst(i)
<1>5. n \in DOMAIN h /\ IsFirst(n)
  BY <1>4
<1>6. FirstLine(h, name) = f
  BY DEF FirstLine
<1> HIDE DEF IsFirst
<1>7. f \in DOMAIN h /\ IsFirst(f)
  BY Zenon, <1>5
<1> HIDE DEF f
<1> QED
  BY <1>1, <1>6, <1>7 DEF IsFirst

LEMMA SplitAt ==
    ASSUME NEW S, NEW h \in Seq(S), NEW p \in 1..Len(h)
    PROVE  /\ SubSeq(h, 1, p - 1) \in Seq(S)
           /\ <<h[p]>> \in Seq(S)
           /\ SubSeq(h, p + 1, Len(h)) \in Seq(S)
           /\ h = SubSeq(h, 1, p - 1) \o (<<h[p]>> \o SubSeq(h, p + 1, Len(h)))
<1>1. Len(h) \in Nat /\ \A i \in 1..Len(h) : h[i] \in S
  BY LenProperties, ElementOfSeq
<1>2. SubSeq(h, 1, p - 1) \in Seq(S) /\ SubSeq(h, p + 1, Len(h)) \in Seq(S)
  BY <1>1, SubSeqProperties
<1>3. SubSeq(h, p, Len(h)) = <<h[p]>> \o SubSeq(h, p + 1, Len(h))
  <2>1. Len(h) \in p..Len(h)
    BY <1>1
  <2> QED
    BY <2>1, SubSeqRecursiveFirst
<1>4. SubSeq(h, 1, p - 1) \o SubSeq(h, (p - 1) + 1, Len(h)) = SubSeq(h, 1, Len(h))
  <2>1. 1 \in 1..Len(h) + 1 /\ p - 1 \in (1 - 1)..Len(h) /\ Len(h) \in (p - 1)..Len(h)
    BY <1>1
  <2> QED
    BY <2>1, ConcatAdjacentSubSeq
<1>5. SubSeq(h, 1, Len(h)) = h /\ (p - 1) + 1 = p
  BY SubSeqFull
<1>6. <<h[p]>> \in Seq(S)
  BY <1>1, OneSeq
<1> QED
  BY <1>2, <1>3, <1>4, <1>5, <1>6

LEMMA LinesSplitAt ==
    ASSUME NEW S, NEW h \in Seq(S), NEW p \in 1..Len(h), NEW name
    PROVE  LinesOf(h, name) =
               LinesOf(SubSeq(h, 1, p - 1), name)
                   \o ((IF h[p].name = name THEN <<h[p]>> ELSE <<>>)
                         \o LinesOf(SubSeq(h, p + 1, Len(h)), name))
<1> DEFINE a == SubSeq(h, 1, p - 1)
           b == SubSeq(h, p + 1, Len(h))
           l == <<h[p]>>
<1>1. a \in Seq(S) /\ b \in Seq(S) /\ l \in Seq(S) /\ h = a \o (l \o b)
  BY SplitAt
<1>2. LinesOf(l, name) = IF h[p].name = name THEN <<h[p]>> ELSE <<>>
  BY LinesOfOne
<1> HIDE DEF a, b, l
<1>3. l \o b \in Seq(S)
  BY <1>1, ConcatProperties
<1> DEFINE c == l \o b
<1> HIDE DEF c
<1>6. c \in Seq(S) /\ h = a \o c
  BY <1>1, <1>3 DEF c
<1>7. LinesOf(h, name) = LinesOf(a, name) \o LinesOf(c, name)
  <2>1. a \in Seq(S) /\ c \in Seq(S)
    BY <1>1, <1>6
  <2>2. LinesOf(a \o c, name) = LinesOf(a, name) \o LinesOf(c, name)
    BY <2>1, LinesOfConcat
  <2> QED
    BY <1>6, <2>2
<1>4. LinesOf(h, name) = LinesOf(a, name) \o LinesOf(l \o b, name)
  BY <1>7 DEF c
<1>5. LinesOf(l \o b, name) = LinesOf(l, name) \o LinesOf(b, name)
  BY <1>1, LinesOfConcat
<1> QED
  BY <1>2, <1>4, <1>5 DEF a, b, l

\* The lines before the first one of a name have none of that name.
LEMMA NoneAbove ==
    ASSUME NEW S, NEW h \in Seq(S), NEW name, NEW o \in 1..Len(h) + 1, NEW n \in 0..Len(h),
           Has(h, name) => n < FirstLine(h, name)
    PROVE  LinesOf(SubSeq(h, o, n), name) = <<>>
<1>1. Len(h) \in Nat /\ DOMAIN h = 1..Len(h) /\ \A i \in 1..Len(h) : h[i] \in S
  BY LenProperties, ElementOfSeq
<1> DEFINE k == SubSeq(h, o, n)
<1>2. /\ k \in Seq(S)
      /\ Len(k) = IF o <= n THEN n - o + 1 ELSE 0
      /\ \A i \in 1..n - o + 1 : k[i] = h[o + i - 1]
  BY <1>1, SubSeqProperties
<1> HIDE DEF k
<1>3. ASSUME NEW i \in 1..n
      PROVE  h[i].name # name
  <2>1. CASE Has(h, name)
    BY <1>1, <2>1, FirstLineIs
  <2>2. CASE ~Has(h, name)
    BY <1>1, <2>2 DEF Has
  <2> QED
    BY <2>1, <2>2
<1>4. \A i \in 1..Len(k) : k[i].name # name
  <2> TAKE i \in 1..Len(k)
  <2>1. o <= n /\ i \in 1..n - o + 1 /\ o + i - 1 \in 1..n
    BY <1>1, <1>2
  <2> QED
    BY <2>1, <1>2, <1>3
<1>5. LinesOf(k, name) = <<>>
  BY <1>2, <1>4, NoLines
<1> QED
  BY <1>5 DEF k

LEMMA TopLine ==
    ASSUME NEW S, NEW h \in Seq(S), NEW name, Has(h, name)
    PROVE  LET p == FirstLine(h, name)
           IN  LinesOf(h, name) = <<h[p]>> \o LinesOf(SubSeq(h, p + 1, Len(h)), name)
<1> DEFINE p == FirstLine(h, name)
           b == SubSeq(h, p + 1, Len(h))
<1>1. p \in 1..Len(h) /\ h[p].name = name /\ Len(h) \in Nat
  BY FirstLineIs, LenProperties
<1> HIDE DEF p
<1>2. LinesOf(SubSeq(h, 1, p - 1), name) = <<>>
  <2>1. 1 \in 1..Len(h) + 1 /\ p - 1 \in 0..Len(h) /\ p - 1 < p
    BY <1>1
  <2> QED
    BY <2>1, NoneAbove DEF p
<1>3. LinesOf(h, name) = <<>> \o (<<h[p]>> \o LinesOf(b, name))
  BY <1>1, <1>2, LinesSplitAt
<1>4. b \in Seq(S) /\ <<h[p]>> \in Seq(S)
  BY <1>1, SplitAt
<1> HIDE DEF b
<1>5. LinesOf(b, name) \in Seq(S)
  <2> DEFINE R == {l \in S : l.name = name}
  <2>1. LinesOf(b, name) \in Seq(R)
    BY <1>4, LinesOfType
  <2>2. R \subseteq S
    OBVIOUS
  <2> HIDE DEF R
  <2> QED
    BY <2>1, <2>2, SeqMonotonic
<1>6. <<h[p]>> \o LinesOf(b, name) \in Seq(S)
  BY <1>4, <1>5, ConcatProperties
<1>7. LinesOf(h, name) = <<h[p]>> \o LinesOf(b, name)
  BY <1>3, <1>6, ConcatEmptySeq
<1> QED
  BY <1>7 DEF p, b

LEMMA HasLines ==
    ASSUME NEW S, NEW h \in Seq(S), NEW name
    PROVE  /\ LinesOf(h, name) \in Seq(S)
           /\ Has(h, name) <=> LinesOf(h, name) # <<>>
           /\ \A i \in 1..Len(LinesOf(h, name)) : LinesOf(h, name)[i].name = name
<1> DEFINE R == {l \in S : l.name = name}
<1>1. LinesOf(h, name) \in Seq(R)
  BY LinesOfType
<1>2. R \subseteq S /\ \A l \in R : l.name = name
  OBVIOUS
<1> HIDE DEF R
<1>3. LinesOf(h, name) \in Seq(S)
  BY <1>1, <1>2, SeqMonotonic
<1>4. \A i \in 1..Len(LinesOf(h, name)) : LinesOf(h, name)[i] \in R
  BY <1>1, ElementOfSeq
<1>5. CASE Has(h, name)
  <2> DEFINE p == FirstLine(h, name)
             b == SubSeq(h, p + 1, Len(h))
  <2>1. LinesOf(h, name) = <<h[p]>> \o LinesOf(b, name)
    BY <1>5, TopLine
  <2>2. p \in 1..Len(h)
    BY <1>5, FirstLineIs
  <2> HIDE DEF p
  <2>3. b \in Seq(S) /\ h[p] \in S
    BY <2>2, SplitAt, ElementOfSeq
  <2> HIDE DEF b
  <2>4. LinesOf(b, name) \in Seq(S)
    <3>1. LinesOf(b, name) \in Seq(R)
      BY <2>3, LinesOfType DEF R
    <3> QED
      BY <3>1, <1>2, SeqMonotonic
  <2>5. <<h[p]>> \in Seq(S) /\ <<h[p]>> # <<>>
    BY <2>3
  <2>6. <<h[p]>> \o LinesOf(b, name) # <<>>
    BY <2>4, <2>5, ConcatEqualIffEmpty
  <2> QED
    BY <1>5, <2>1, <2>6, <1>2, <1>3, <1>4
<1>6. CASE ~Has(h, name)
  <2>1. \A i \in 1..Len(h) : h[i].name # name
    BY <1>6, LenProperties DEF Has
  <2>2. LinesOf(h, name) = <<>>
    BY <2>1, NoLines
  <2> QED
    BY <1>6, <2>2, <1>2, <1>3, <1>4
<1> QED
  BY <1>5, <1>6

\* The first line of a name, and those below it.
LEMMA TopLines ==
    ASSUME NEW S, NEW h \in Seq(S), NEW name, Has(h, name)
    PROVE  LET p == FirstLine(h, name)
               ls == LinesOf(h, name)
           IN  /\ p \in 1..Len(h)
               /\ Len(ls) \in Nat \ {0}
               /\ ls[1] = h[p]
               /\ Tail(ls) = LinesOf(SubSeq(h, p + 1, Len(h)), name)
               /\ ls = <<ls[1]>> \o Tail(ls)
<1> DEFINE p == FirstLine(h, name)
           b == SubSeq(h, p + 1, Len(h))
           t == LinesOf(b, name)
<1>1. LinesOf(h, name) = <<h[p]>> \o t
  BY TopLine
<1>2. p \in 1..Len(h)
  BY FirstLineIs
<1> HIDE DEF p
<1>3. b \in Seq(S) /\ h[p] \in S
  BY <1>2, SplitAt, ElementOfSeq
<1> HIDE DEF b
<1>4. t \in Seq(S)
  BY <1>3, HasLines
<1> HIDE DEF t
<1>5. /\ Len(<<h[p]>> \o t) \in Nat \ {0}
      /\ (<<h[p]>> \o t)[1] = h[p]
      /\ Tail(<<h[p]>> \o t) = t
  BY <1>3, <1>4
<1> QED
  BY <1>1, <1>2, <1>5 DEF t, b, p

LEMMA SecondIs ==
    ASSUME NEW S, NEW h \in Seq(S), NEW name
    PROVE  LET ls == LinesOf(h, name)
           IN  /\ IsMulti(h, name) <=> Len(ls) > 1 \/ (ls # <<>> /\ Len(ls[1].vals) > 1)
               /\ ~IsMulti(h, name) => SecondValue(h, name) = None
               /\ IsMulti(h, name) => SecondValue(h, name) =
                     IF Len(ls[1].vals) > 1 THEN ls[1].vals[2] ELSE ls[2].vals[1]
<1> DEFINE ls == LinesOf(h, name)
<1>1. Has(h, name) => ls[1] = h[FirstLine(h, name)]
  BY TopLines
<1>2. Has(h, name) <=> ls # <<>>
  BY HasLines
<1>3. ls = <<>> => Len(ls) = 0
  OBVIOUS
<1>4. ManyOnTop(h, name) <=> ls # <<>> /\ Len(ls[1].vals) > 1
  BY <1>1, <1>2 DEF ManyOnTop
<1>5. IsMulti(h, name) <=> Len(ls) > 1 \/ (ls # <<>> /\ Len(ls[1].vals) > 1)
  BY <1>4 DEF IsMulti
<1>6. ~IsMulti(h, name) => SecondValue(h, name) = None
  BY DEF SecondValue
<1>7. ASSUME IsMulti(h, name)
      PROVE  SecondValue(h, name) =
                 IF Len(ls[1].vals) > 1 THEN ls[1].vals[2] ELSE ls[2].vals[1]
  <2>1. ls # <<>>
    BY <1>3, <1>5, <1>7
  <2> QED
    BY <1>1, <1>2, <1>4, <1>7, <2>1 DEF SecondValue
<1> QED
  BY <1>5, <1>6, <1>7

------------------------------------------------------------------------------
(* The values of a name.                                                       *)

Singles(name, vals) == [i \in DOMAIN vals |-> Line(name, <<vals[i]>>)]

LEMMA FlattenSingles ==
    ASSUME NEW V, NEW vals \in Seq(V)
    PROVE  FlattenSeq([i \in DOMAIN vals |-> <<vals[i]>>]) = vals
<1> DEFINE Of(v) == [i \in DOMAIN v |-> <<v[i]>>]
           T == {n \in Nat : \A v \in Seq(V) : Len(v) = n => FlattenSeq(Of(v)) = v}
<1>1. 0 \in T
  <2> SUFFICES ASSUME NEW v \in Seq(V), Len(v) = 0
               PROVE  FlattenSeq(Of(v)) = v
    OBVIOUS
  <2>1. v = <<>>
    BY EmptySeq
  <2>2. Of(v) = <<>>
    BY <2>1
  <2> QED
    BY <2>1, <2>2, FlattenEmpty
<1>2. ASSUME NEW n \in T
      PROVE  n + 1 \in T
  <2> SUFFICES ASSUME NEW v \in Seq(V), Len(v) = n + 1
               PROVE  FlattenSeq(Of(v)) = v
    OBVIOUS
  <2>0. v # <<>>
    BY EmptySeq
  <2>1. PICK u \in Seq(V), e \in V : v = Append(u, e)
    BY <2>0, SequenceEmptyOrAppend
  <2>2. /\ Len(u) = n /\ v[n + 1] = e /\ \A i \in 1..n : v[i] = u[i]
        /\ DOMAIN u = 1..n /\ DOMAIN v = 1..n + 1 /\ n \in Nat
    BY <2>1, AppendProperties, LenProperties
  <2>3. FlattenSeq(Of(u)) = u
    BY <2>2
  <2>4. \A i \in 1..n : <<u[i]>> \in Seq(V)
    BY <2>2, ElementOfSeq, OneSeq
  <2>5. Of(u) \in Seq(Seq(V)) /\ Len(Of(u)) = n
    <3> DEFINE Q == Seq(V)
    <3>1. \A i \in 1..n : Of(u)[i] \in Q
      BY <2>2, <2>4
    <3> HIDE DEF Q
    <3>2. Of(u) \in [1..n -> Q]
      BY <2>2, <3>1
    <3> HIDE DEF Of
    <3>3. Of(u) \in Seq(Q) /\ Len(Of(u)) = n
      BY <2>2, <3>2, SeqOfFun
    <3> QED
      BY <3>3 DEF Q
  <2>6. Of(v) = Append(Of(u), <<e>>)
    BY <2>2, <2>5
  <2>7. <<e>> \in Seq(V)
    BY OneSeq
  <2>8. FlattenSeq(Of(v)) = FlattenSeq(Of(u)) \o <<e>>
    BY <2>5, <2>6, <2>7, FlattenAppend
  <2>9. Append(u, e) = u \o <<e>>
    BY AppendIsConcat
  <2> QED
    BY <2>1, <2>3, <2>8, <2>9
<1>3. T \in SUBSET Nat
  OBVIOUS
<1> HIDE DEF T
<1>4. T = Nat
  BY <1>1, <1>2, <1>3, SetInduction
<1> QED
  BY <1>4, LenProperties DEF T

LEMMA ValuesOfSingles ==
    ASSUME NEW V, NEW vals \in Seq(V), NEW h, NEW name, LinesOf(h, name) = Singles(name, vals)
    PROVE  Values(h, name) = vals
<1> DEFINE ls == LinesOf(h, name)
<1>1. DOMAIN ls = DOMAIN vals /\ \A i \in DOMAIN vals : ls[i].vals = <<vals[i]>>
  BY DEF Singles, Line
<1>2. [i \in DOMAIN ls |-> ls[i].vals] = [i \in DOMAIN vals |-> <<vals[i]>>]
  BY <1>1
<1> QED
  BY <1>2, FlattenSingles DEF Values

LEMMA ValuesOfOne ==
    ASSUME NEW V, NEW vals \in Seq(V), NEW h, NEW name, LinesOf(h, name) = <<Line(name, vals)>>
    PROVE  Values(h, name) = vals
<1> DEFINE ls == LinesOf(h, name)
<1>1. [i \in DOMAIN ls |-> ls[i].vals] = <<vals>>
  BY DEF Line
<1> QED
  BY <1>1, FlattenOne DEF Values

LEMMA ValuesOfNone ==
    ASSUME NEW h, NEW name, LinesOf(h, name) = <<>>
    PROVE  Values(h, name) = <<>>
<1>1. [i \in DOMAIN <<>> |-> <<>>[i].vals] = <<>>
  OBVIOUS
<1> QED
  BY <1>1, FlattenEmpty DEF Values

\* The value on top, of lines that have one at least.
LEMMA TopValue ==
    ASSUME NEW S, NEW V, NEW h \in Seq(S), NEW name,
           \A l \in S : l.vals \in Seq(V),
           LinesOf(h, name) # <<>>, LinesOf(h, name)[1].vals # <<>>
    PROVE  /\ Values(h, name) # <<>>
           /\ Values(h, name)[1] = LinesOf(h, name)[1].vals[1]
<1> DEFINE ls == LinesOf(h, name)
           t == Tail(ls)
           Of(l) == [i \in DOMAIN l |-> l[i].vals]
           Q == Seq(V)
<1>1. ls \in Seq(S) /\ ls # <<>>
  BY HasLines
<1> HIDE DEF ls
<1>2. t \in Seq(S) /\ Len(t) = Len(ls) - 1 /\ \A i \in 1..Len(t) : t[i] = ls[i + 1]
  BY <1>1, HeadTailProperties
<1>3. Len(ls) \in Nat \ {0} /\ DOMAIN ls = 1..Len(ls) /\ DOMAIN t = 1..Len(t) /\ ls[1] \in S
      /\ \A i \in 1..Len(t) : t[i] \in S
  BY <1>1, <1>2, EmptySeq, LenProperties, ElementOfSeq
<1>4. ls[1].vals \in Q /\ \A i \in 1..Len(t) : t[i].vals \in Q
  BY <1>3
<1> HIDE DEF Q, t
<1>5. Of(t) \in Seq(Q) /\ Len(Of(t)) = Len(t)
  <2>1. Of(t) \in [1..Len(t) -> Q]
    BY <1>3, <1>4
  <2>2. Len(t) \in Nat
    BY <1>2, <1>3
  <2> QED
    BY <2>1, <2>2
<1>6. Of(ls) = <<ls[1].vals>> \o Of(t)
  <2>1. <<ls[1].vals>> \in Seq(Q)
    BY <1>4, OneSeq
  <2>2. /\ Len(<<ls[1].vals>> \o Of(t)) = Len(ls)
        /\ \A i \in 1..Len(ls) : (<<ls[1].vals>> \o Of(t))[i] = IF i = 1 THEN ls[1].vals ELSE Of(t)[i - 1]
        /\ <<ls[1].vals>> \o Of(t) \in Seq(Q)
    BY <2>1, <1>2, <1>3, <1>5
  <2>3. \A i \in 1..Len(ls) : Of(ls)[i] = (<<ls[1].vals>> \o Of(t))[i]
    <3> TAKE i \in 1..Len(ls)
    <3>1. Of(ls)[i] = ls[i].vals
      BY <1>3
    <3>2. CASE i = 1
      BY <3>1, <3>2, <2>2
    <3>3. CASE i # 1
      <4>1. i - 1 \in 1..Len(t) /\ (i - 1) + 1 = i
        BY <3>3, <1>2, <1>3
      <4>2. t[i - 1] = ls[i]
        BY <4>1, <1>2
      <4>3. Of(t)[i - 1] = ls[i].vals
        BY <4>1, <4>2, <1>3
      <4> QED
        BY <3>1, <3>3, <4>3, <2>2
    <3> QED
      BY <3>2, <3>3
  <2>4. Of(ls) \in Seq(Q) /\ Len(Of(ls)) = Len(ls)
    <3>1. \A i \in 1..Len(ls) : ls[i].vals \in Q
      <4>1. \A i \in 1..Len(ls) : ls[i] \in S
        BY <1>1, ElementOfSeq
      <4> QED
        BY <4>1 DEF Q
    <3>2. Of(ls) \in [1..Len(ls) -> Q]
      BY <1>3, <3>1
    <3> QED
      BY <1>3, <3>2
  <2> HIDE DEF Of
  <2> QED
    BY <2>2, <2>3, <2>4, SeqEqual
<1>7. <<ls[1].vals>> \in Seq(Q)
  BY <1>4, OneSeq
<1> HIDE DEF Of
<1>8. FlattenSeq(Of(ls)) = FlattenSeq(<<ls[1].vals>>) \o FlattenSeq(Of(t))
  <2>1. <<ls[1].vals>> \in Seq(Seq(V)) /\ Of(t) \in Seq(Seq(V))
    BY <1>5, <1>7 DEF Q
  <2> QED
    BY <1>6, <2>1, FlattenConcat
<1>9. FlattenSeq(<<ls[1].vals>>) = ls[1].vals /\ FlattenSeq(Of(t)) \in Seq(V)
  <2>1. Of(t) \in Seq(Seq(V)) /\ ls[1].vals \in Seq(V)
    BY <1>4, <1>5 DEF Q
  <2> QED
    BY <2>1, FlattenOne, FlattenType
<1>10. Values(h, name) = ls[1].vals \o FlattenSeq(Of(t))
  BY <1>8, <1>9 DEF Values, ls, Of
<1>11. ls[1].vals \in Seq(V) /\ ls[1].vals # <<>>
  BY <1>4 DEF ls, Q
<1> QED
  BY <1>9, <1>10, <1>11 DEF ls

\* Lines that all have the name.
LEMMA AllLines ==
    ASSUME NEW S, NEW h \in Seq(S), NEW name, \A i \in 1..Len(h) : h[i].name = name
    PROVE  LinesOf(h, name) = h
<1>1. DOMAIN h = 1..Len(h)
  BY LenProperties
<1>2. [i \in DOMAIN h |-> IF h[i].name = name THEN <<h[i]>> ELSE <<>>] = [i \in DOMAIN h |-> <<h[i]>>]
  BY <1>1
<1> QED
  BY <1>2, FlattenSingles DEF LinesOf

------------------------------------------------------------------------------
(* The list of changes, and what each of them does to the copy.                *)

\* A list of changes while it is built up, and the copy while it is made.
Listing(g, h, dels, adds) ==
    /\ g[0] = <<>>
    /\ \A i \in 1..Len(dels) : g[i] = WithDeletion(h, g[i - 1], dels[i])
    /\ \A i \in 1..Len(adds) :
          g[Len(dels) + i] = Inserted(g[Len(dels) + i - 1], Addition(h, adds[i]))

CopyOf(out, from, part, ended) == [out |-> out, from |-> from, part |-> part, ended |-> ended]

Copying(g, h, list) ==
    /\ g[0] = CopyOf(<<>>, 1, <<>>, FALSE)
    /\ \A i \in 1..Len(list) : g[i] = IF list[i].del THEN SkippedLine(h, g[i - 1], list[i])
                                      ELSE WrittenLine(h, g[i - 1], list[i])

LEMMA ListingIs ==
    ASSUME NEW h, NEW dels, NEW adds, Len(dels) \in Nat, Len(adds) \in Nat
    PROVE  \E g : Listing(g, h, dels, adds) /\ ModifyList(h, dels, adds) = g[Len(dels) + Len(adds)]
<1> DEFINE N == Len(dels) + Len(adds)
           Step(g, i) == IF i = 0 THEN <<>>
                         ELSE IF i <= Len(dels) THEN WithDeletion(h, g[i - 1], dels[i])
                         ELSE Inserted(g[i - 1], Addition(h, adds[i - Len(dels)]))
           T == {n \in Nat : \E g : g = [i \in 0..n |-> Step(g, i)]}
<1>1. 0 \in T
  <2> DEFINE E == [i \in 0..0 |-> <<>>]
  <2>1. E = [i \in 0..0 |-> Step(E, i)]
    OBVIOUS
  <2> HIDE DEF E
  <2>2. \E g : g = [i \in 0..0 |-> Step(g, i)]
    BY <2>1
  <2> QED
    BY <2>2
<1>2. ASSUME NEW n \in T
      PROVE  n + 1 \in T
  <2>1. PICK g : g = [i \in 0..n |-> Step(g, i)]
    OBVIOUS
  <2> DEFINE G == [i \in 0..n + 1 |-> IF i <= n THEN g[i] ELSE Step(g, i)]
  <2>2. n \in Nat
    OBVIOUS
  <2> HIDE DEF Step, T
  <2>3. \A i \in 0..n : G[i] = g[i]
    BY <2>2
  <2>4. G[n + 1] = Step(g, n + 1)
    BY <2>2
  <2>5. \A i \in 0..n : g[i] = Step(g, i)
    BY <2>1
  <2>6. ASSUME NEW i \in 0..n + 1
        PROVE  G[i] = Step(G, i)
    <3>1. i # 0 => i - 1 \in 0..n
      BY <2>2
    <3> HIDE DEF G
    <3>2. Step(G, i) = Step(g, i)
      BY <2>3, <3>1 DEF Step
    <3>3. CASE i \in 0..n
      BY <2>3, <2>5, <3>2, <3>3
    <3>4. CASE i = n + 1
      BY <2>4, <3>2, <3>4
    <3> QED
      BY <2>2, <3>3, <3>4
  <2>7. G = [i \in 0..n + 1 |-> G[i]]
    OBVIOUS
  <2> HIDE DEF G
  <2>8. G = [i \in 0..n + 1 |-> Step(G, i)]
    BY <2>6, <2>7
  <2>9. \E f : f = [i \in 0..n + 1 |-> Step(f, i)]
    BY <2>8
  <2>10. n + 1 \in Nat
    BY <2>2
  <2> QED
    BY <2>9, <2>10 DEF T
<1>3. T \in SUBSET Nat
  OBVIOUS
<1>4. N \in Nat
  OBVIOUS
<1> HIDE DEF T, N
<1>5. T = Nat
  BY <1>1, <1>2, <1>3, SetInduction
<1> DEFINE H == CHOOSE g : g = [i \in 0..N |-> Step(g, i)]
<1> HIDE DEF Step
<1>6. H = [i \in 0..N |-> Step(H, i)]
  BY <1>4, <1>5 DEF T
<1>7. ModifyList(h, dels, adds) = H[N]
  BY DEF ModifyList, Step, N
<1> HIDE DEF H
<1>8. \A i \in 0..N : H[i] = Step(H, i)
  BY <1>6
<1>9. H[0] = <<>>
  BY <1>4, <1>8 DEF Step
<1>10. ASSUME NEW i \in 1..Len(dels)
       PROVE  H[i] = WithDeletion(h, H[i - 1], dels[i])
  <2>1. i \in 0..N /\ i # 0 /\ i <= Len(dels)
    BY DEF N
  <2> QED
    BY <1>8, <2>1 DEF Step
<1>11. ASSUME NEW i \in 1..Len(adds)
       PROVE  H[Len(dels) + i] = Inserted(H[Len(dels) + i - 1], Addition(h, adds[i]))
  <2>1. /\ Len(dels) + i \in 0..N /\ Len(dels) + i # 0 /\ ~(Len(dels) + i <= Len(dels))
        /\ (Len(dels) + i) - Len(dels) = i
    BY DEF N
  <2>2. H[Len(dels) + i] = Inserted(H[Len(dels) + i - 1],
                                    Addition(h, adds[(Len(dels) + i) - Len(dels)]))
    BY <1>8, <2>1 DEF Step
  <2> QED
    BY <2>1, <2>2
<1>12. Listing(H, h, dels, adds)
  BY <1>9, <1>10, <1>11 DEF Listing
<1> QED
  BY <1>7, <1>12 DEF N

LEMMA CopyingIs ==
    ASSUME NEW h, NEW dels, NEW adds, NEW list, list = ModifyList(h, dels, adds), Len(list) \in Nat
    PROVE  \E g : /\ Copying(g, h, list)
                  /\ Edited(h, dels, adds) = CopiedTo(h, g[Len(list)], Len(h))
<1> DEFINE N == Len(list)
           Step(g, i) == IF i = 0 THEN [out |-> <<>>, from |-> 1, part |-> <<>>, ended |-> FALSE]
                         ELSE IF list[i].del THEN SkippedLine(h, g[i - 1], list[i])
                         ELSE WrittenLine(h, g[i - 1], list[i])
           T == {n \in Nat : \E g : g = [i \in 0..n |-> Step(g, i)]}
<1>1. 0 \in T
  <2> DEFINE E == [i \in 0..0 |-> [out |-> <<>>, from |-> 1, part |-> <<>>, ended |-> FALSE]]
  <2>1. E = [i \in 0..0 |-> Step(E, i)]
    OBVIOUS
  <2> HIDE DEF E
  <2>2. \E g : g = [i \in 0..0 |-> Step(g, i)]
    BY <2>1
  <2> QED
    BY <2>2
<1>2. ASSUME NEW n \in T
      PROVE  n + 1 \in T
  <2>1. PICK g : g = [i \in 0..n |-> Step(g, i)]
    OBVIOUS
  <2> DEFINE G == [i \in 0..n + 1 |-> IF i <= n THEN g[i] ELSE Step(g, i)]
  <2>2. n \in Nat
    OBVIOUS
  <2> HIDE DEF Step, T
  <2>3. \A i \in 0..n : G[i] = g[i]
    BY <2>2
  <2>4. G[n + 1] = Step(g, n + 1)
    BY <2>2
  <2>5. \A i \in 0..n : g[i] = Step(g, i)
    BY <2>1
  <2>6. ASSUME NEW i \in 0..n + 1
        PROVE  G[i] = Step(G, i)
    <3>1. i # 0 => i - 1 \in 0..n
      BY <2>2
    <3> HIDE DEF G
    <3>2. Step(G, i) = Step(g, i)
      BY <2>3, <3>1 DEF Step
    <3>3. CASE i \in 0..n
      BY <2>3, <2>5, <3>2, <3>3
    <3>4. CASE i = n + 1
      BY <2>4, <3>2, <3>4
    <3> QED
      BY <2>2, <3>3, <3>4
  <2>7. G = [i \in 0..n + 1 |-> G[i]]
    OBVIOUS
  <2> HIDE DEF G
  <2>8. G = [i \in 0..n + 1 |-> Step(G, i)]
    BY <2>6, <2>7
  <2>9. \E f : f = [i \in 0..n + 1 |-> Step(f, i)]
    BY <2>8
  <2>10. n + 1 \in Nat
    BY <2>2
  <2> QED
    BY <2>9, <2>10 DEF T
<1>3. T \in SUBSET Nat
  OBVIOUS
<1> HIDE DEF T, N
<1>4. N \in T
  BY <1>1, <1>2, <1>3, SetInduction DEF N
<1> DEFINE H == CHOOSE g : g = [i \in 0..N |-> Step(g, i)]
<1> HIDE DEF Step
<1>5. H = [i \in 0..N |-> Step(H, i)]
  BY <1>4 DEF T
<1>6. Edited(h, dels, adds) = CopiedTo(h, H[N], Len(h))
  BY DEF Edited, Step, N
<1> HIDE DEF H
<1>7. \A i \in 0..N : H[i] = Step(H, i)
  BY <1>5
<1>8. H[0] = CopyOf(<<>>, 1, <<>>, FALSE)
  BY <1>7 DEF Step, N, CopyOf
<1>9. \A i \in 1..N : H[i] = IF list[i].del THEN SkippedLine(h, H[i - 1], list[i])
                             ELSE WrittenLine(h, H[i - 1], list[i])
  <2> TAKE i \in 1..N
  <2>1. i \in 0..N /\ i # 0
    BY DEF N
  <2> QED
    BY <1>7, <2>1 DEF Step
<1> QED
  BY <1>6, <1>8, <1>9 DEF Copying, N

\* A list that has become longer by one, at its end or at the k-th place.
NotBefore(new, list, n) == \A i \in 1..n : ~GoesBefore(new, list[i])

Appended(S, a, list, new) ==
    /\ a \in Seq(S) /\ Len(a) = Len(list) + 1
    /\ \A i \in 1..Len(list) : a[i] = list[i]
    /\ a[Len(list) + 1] = new

PutAt(S, a, list, k, new) ==
    /\ a \in Seq(S) /\ Len(a) = Len(list) + 1
    /\ \A i \in 1..k - 1 : a[i] = list[i]
    /\ a[k] = new
    /\ \A i \in k..Len(list) : a[i + 1] = list[i]

LEMMA InsertedLast ==
    ASSUME NEW S, NEW list \in Seq(S), NEW new \in S, NotBefore(new, list, Len(list))
    PROVE  Appended(S, Inserted(list, new), list, new)
<1>1. DOMAIN list = 1..Len(list)
  BY LenProperties
<1>2. {i \in DOMAIN list : GoesBefore(new, list[i])} = {}
  BY <1>1 DEF NotBefore
<1>3. Inserted(list, new) = Append(list, new)
  BY <1>2 DEF Inserted
<1> QED
  BY <1>3, AppendProperties DEF Appended

LEMMA InsertedFirst ==
    ASSUME NEW S, NEW new \in S
    PROVE  Inserted(<<>>, new) \in Seq(S) /\ Len(Inserted(<<>>, new)) = 1
           /\ Inserted(<<>>, new)[1] = new
<1>1. <<>> \in Seq(S) /\ Len(<<>>) = 0
  BY EmptySeq
<1>2. \A i \in 1..Len(<<>>) : ~GoesBefore(new, <<>>[i])
  BY <1>1
<1> DEFINE e == <<>>
<1>3. Len(e) = 0 /\ e \in Seq(S) /\ NotBefore(new, e, Len(e))
  BY <1>1, <1>2 DEF NotBefore
<1> HIDE DEF e
<1>4. Appended(S, Inserted(e, new), e, new)
  BY <1>3, InsertedLast
<1> QED
  BY <1>3, <1>4 DEF e, Appended

LEMMA InsertedAt ==
    ASSUME NEW S, NEW list \in Seq(S), NEW new \in S, NEW k \in 1..Len(list),
           GoesBefore(new, list[k]), NotBefore(new, list, k - 1)
    PROVE  PutAt(S, Inserted(list, new), list, k, new)
<1>1. DOMAIN list = 1..Len(list) /\ Len(list) \in Nat
  BY LenProperties
<1> DEFINE later == {i \in DOMAIN list : GoesBefore(new, list[i])}
           c == CHOOSE i \in later : \A j \in later : i <= j
<1>2. k \in later /\ later \subseteq 1..Len(list)
  BY <1>1
<1>3. \A j \in later : k <= j
  <2> TAKE j \in later
  <2>1. j \in 1..Len(list) /\ GoesBefore(new, list[j])
    BY <1>1
  <2>2. j \notin 1..k - 1
    BY <2>1 DEF NotBefore
  <2> QED
    BY <2>1, <2>2, <1>1
<1> HIDE DEF later
<1>4. c \in later /\ \A j \in later : c <= j
  BY <1>2, <1>3
<1> HIDE DEF c
<1>5. c = k
  <2>1. c <= k /\ k <= c /\ c \in 1..Len(list)
    BY <1>2, <1>3, <1>4
  <2> QED
    BY <2>1, <1>1
<1>6. later # {}
  BY <1>2
<1>7. Inserted(list, new) = InsertAt(list, k, new)
  <2>1. Inserted(list, new) = IF later = {} THEN Append(list, new) ELSE InsertAt(list, c, new)
    BY DEF Inserted, later, c
  <2> QED
    BY <2>1, <1>5, <1>6
<1> DEFINE a == SubSeq(list, 1, k - 1)
           b == SubSeq(list, k, Len(list))
<1>8. Inserted(list, new) = (a \o <<new>>) \o b
  BY <1>7 DEF InsertAt
<1>9. \A i \in 1..Len(list) : list[i] \in S
  BY ElementOfSeq
<1>10. /\ a \in Seq(S) /\ Len(a) = k - 1
       /\ \A i \in 1..k - 1 : a[i] = list[i]
  <2>1. k - 1 \in Int /\ 1..k - 1 \subseteq 1..Len(list)
    BY <1>1
  <2>2. \A i \in 1..k - 1 : list[i] \in S
    BY <2>1, <1>9
  <2>3. /\ a \in Seq(S)
        /\ Len(a) = IF 1 <= k - 1 THEN (k - 1) - 1 + 1 ELSE 0
        /\ \A i \in 1..(k - 1) - 1 + 1 : a[i] = list[1 + i - 1]
    BY <2>1, <2>2, SubSeqProperties
  <2> QED
    BY <2>3, <1>1
<1>11. /\ b \in Seq(S) /\ Len(b) = Len(list) - k + 1
       /\ \A i \in 1..Len(list) - k + 1 : b[i] = list[k + i - 1]
  <2>1. Len(list) \in Int /\ k \in Int /\ \A i \in k..Len(list) : list[i] \in S
    BY <1>1, <1>9
  <2> QED
    BY <2>1, <1>1, SubSeqProperties
<1> HIDE DEF a, b
<1>12. <<new>> \in Seq(S) /\ Len(<<new>>) = 1 /\ <<new>>[1] = new
  OBVIOUS
<1> DEFINE an == a \o <<new>>
<1>13. /\ an \in Seq(S) /\ Len(an) = k
       /\ \A i \in 1..k - 1 : an[i] = list[i]
       /\ an[k] = new
  <2>1. /\ an \in Seq(S) /\ Len(an) = Len(a) + Len(<<new>>)
        /\ \A i \in 1..Len(a) + Len(<<new>>) :
              an[i] = IF i <= Len(a) THEN a[i] ELSE <<new>>[i - Len(a)]
    BY <1>10, <1>12, ConcatProperties
  <2> HIDE DEF an
  <2>2. k - 1 \in Nat /\ Len(a) + Len(<<new>>) = k
    BY <1>10, <1>12
  <2>3. an[k] = <<new>>[1]
    BY <2>1, <2>2, <1>10
  <2>4. Len(an) = k /\ an[k] = new
    BY <2>1, <2>2, <2>3, <1>12
  <2>5. \A i \in 1..k - 1 : an[i] = a[i]
    BY <2>1, <2>2, <1>10
  <2> QED
    BY <2>1, <2>4, <2>5, <1>10
<1> HIDE DEF an
<1>14. /\ an \o b \in Seq(S) /\ Len(an \o b) = Len(list) + 1
       /\ \A i \in 1..Len(list) + 1 : (an \o b)[i] = IF i <= k THEN an[i] ELSE b[i - k]
  <2>1. /\ an \o b \in Seq(S) /\ Len(an \o b) = Len(an) + Len(b)
        /\ \A i \in 1..Len(an) + Len(b) :
              (an \o b)[i] = IF i <= Len(an) THEN an[i] ELSE b[i - Len(an)]
    BY <1>11, <1>13, ConcatProperties
  <2>2. Len(an) = k /\ Len(an) + Len(b) = Len(list) + 1
    BY <1>1, <1>11, <1>13
  <2> QED
    BY <2>1, <2>2
<1>15. \A i \in k..Len(list) : (an \o b)[i + 1] = list[i]
  <2> TAKE i \in k..Len(list)
  <2>1. i + 1 \in 1..Len(list) + 1 /\ ~(i + 1 <= k) /\ i + 1 - k \in 1..Len(list) - k + 1
    BY <1>1
  <2>2. (an \o b)[i + 1] = b[i + 1 - k]
    BY <2>1, <1>14
  <2>3. b[i + 1 - k] = list[k + (i + 1 - k) - 1]
    BY <2>1, <1>11
  <2>4. k + (i + 1 - k) - 1 = i
    BY <1>1
  <2> QED
    BY <2>2, <2>3, <2>4
<1>16. Inserted(list, new) = an \o b
  BY <1>8 DEF an
<1>17. \A i \in 1..k - 1 : (an \o b)[i] = list[i]
  BY <1>1, <1>13, <1>14
<1>18. (an \o b)[k] = new
  BY <1>1, <1>13, <1>14
<1> QED
  BY <1>14, <1>15, <1>16, <1>17, <1>18 DEF PutAt

\* A copy that stands between two lines, and no empty line has been written.
\* The provers need a name for the value of "ended" then.
Open == FALSE
IsCopy(c) == c = CopyOf(c.out, c.from, <<>>, Open) /\ c.from \in Int

LEMMA CopyIs ==
    \A out : \A from \in Int :
        /\ IsCopy(CopyOf(out, from, <<>>, Open))
        /\ CopyOf(out, from, <<>>, Open).out = out
        /\ CopyOf(out, from, <<>>, Open).from = from
  BY DEF IsCopy, CopyOf

\* What has been copied up to a line, and what has been when an empty line was
\* written.
LEMMA CopiedOpen ==
    ASSUME NEW h, NEW c, IsCopy(c), NEW n \in Int
    PROVE  CopiedTo(h, c, n) = c.out \o SubSeq(h, c.from, n)
<1>1. c.part = <<>> /\ c.ended = Open /\ c.from \in Int
  BY DEF IsCopy, CopyOf
<1>2. <<>> \o SubSeq(h, c.from, n) = SubSeq(h, c.from, n)
  BY <1>1
<1> QED
  BY <1>1, <1>2 DEF CopiedTo, Written, Open

LEMMA CopiedToEnd ==
    ASSUME NEW S, NEW h \in Seq(S), NEW c, IsCopy(c)
    PROVE  CopiedTo(h, c, Len(h)) = c.out \o SubSeq(h, c.from, Len(h))
<1> DEFINE n == Len(h)
<1>1. n \in Int
  BY LenProperties
<1> HIDE DEF n
<1>2. CopiedTo(h, c, n) = c.out \o SubSeq(h, c.from, n)
  BY <1>1, CopiedOpen
<1> QED
  BY <1>2 DEF n

Moved(c, oo, ff)   == [c EXCEPT !.out = oo, !.from = ff, !.part = <<>>]
Behind(c, oo, ee)  == [c EXCEPT !.out = oo, !.ended = ee]

LEMMA CopyMoved ==
    \A o, f, q, e, oo, ff : Moved(CopyOf(o, f, q, e), oo, ff) = CopyOf(oo, ff, <<>>, e)
<1> TAKE o, f, q, e, oo, ff
<1> DEFINE c == CopyOf(o, f, q, e)
<1>1. [c EXCEPT !.out = oo] = CopyOf(oo, f, q, e)
  BY DEF CopyOf
<1>2. [CopyOf(oo, f, q, e) EXCEPT !.from = ff] = CopyOf(oo, ff, q, e)
  BY DEF CopyOf
<1>3. [CopyOf(oo, ff, q, e) EXCEPT !.part = <<>>] = CopyOf(oo, ff, <<>>, e)
  BY DEF CopyOf
<1>4. Moved(c, oo, ff) = [[[c EXCEPT !.out = oo] EXCEPT !.from = ff] EXCEPT !.part = <<>>]
  BY DEF Moved
<1> QED
  BY Zenon, <1>1, <1>2, <1>3, <1>4

LEMMA CopyBehind ==
    \A o, f, q, e, oo, ee : Behind(CopyOf(o, f, q, e), oo, ee) = CopyOf(oo, f, q, ee)
<1> TAKE o, f, q, e, oo, ee
<1> DEFINE c == CopyOf(o, f, q, e)
<1>1. [c EXCEPT !.out = oo] = CopyOf(oo, f, q, e)
  BY DEF CopyOf
<1>2. [CopyOf(oo, f, q, e) EXCEPT !.ended = ee] = CopyOf(oo, f, q, ee)
  BY DEF CopyOf
<1>3. Behind(c, oo, ee) = [[c EXCEPT !.out = oo] EXCEPT !.ended = ee]
  BY DEF Behind
<1> QED
  BY Zenon, <1>1, <1>2, <1>3

\* What the copy is after a whole line has been skipped, and after an addition
\* that has a place or none.
AfterSkip(h, c, x) == CopyOf(c.out \o SubSeq(h, c.from, x.pos - 1), x.pos + 1, <<>>, Open)
AfterWrite(c, x)   == CopyOf(c.out \o <<Line(x.name, <<x.val>>)>>, c.from, <<>>, x.ends)
AfterLoss(h, c)    == CopyOf(c.out \o SubSeq(h, c.from, Len(h)), Eof(h), <<>>, Open)

LEMMA LineSkipped ==
    ASSUME NEW h, NEW c, NEW x, IsCopy(c), x.pos \in Int, WithoutFirst(h[x.pos].vals) = <<>>
    PROVE  SkippedLine(h, c, x) = AfterSkip(h, c, x)
<1>1. SkippedLine(h, c, x) =
          [c EXCEPT !.out = CopiedTo(h, c, x.pos - 1), !.from = x.pos + 1, !.part = <<>>]
  BY DEF SkippedLine
<1> DEFINE n == x.pos - 1
<1>2. n \in Int
  OBVIOUS
<1> HIDE DEF n
<1>3. CopiedTo(h, c, n) = c.out \o SubSeq(h, c.from, n)
  BY <1>2, CopiedOpen
<1> DEFINE o == c.out
           f == c.from
<1>4. c = CopyOf(o, f, <<>>, Open)
  BY DEF IsCopy
<1> DEFINE oo == CopiedTo(h, c, n)
           ff == x.pos + 1
<1>5. SkippedLine(h, c, x) = Moved(c, oo, ff)
  BY <1>1 DEF n, Moved
<1> HIDE DEF oo, ff, o, f
<1>6. Moved(c, oo, ff) = CopyOf(oo, ff, <<>>, Open)
  BY <1>4, CopyMoved
<1> QED
  BY <1>3, <1>5, <1>6 DEF AfterSkip, oo, ff, n

LEMMA LineWritten ==
    ASSUME NEW h, NEW c, NEW x, IsCopy(c), x.ends \in BOOLEAN, Len(h) \in Int
    PROVE  WrittenLine(h, c, x) = IF x.pos < Eof(h) THEN AfterWrite(c, x) ELSE AfterLoss(h, c)
<1> DEFINE l == <<Line(x.name, <<x.val>>)>>
           o == c.out
           f == c.from
<1>3. c.ended = Open /\ c.part = <<>>
  BY DEF IsCopy, CopyOf
<1>4. c = CopyOf(o, f, <<>>, Open)
  BY DEF IsCopy
<1>1. CASE x.pos < Eof(h)
  <2> DEFINE oo == Written(c, l)
             ee == c.ended \/ x.ends
  <2>1. WrittenLine(h, c, x) = Behind(c, oo, ee)
    BY <1>1 DEF WrittenLine, Behind
  <2>2. oo = c.out \o l
    BY <1>3 DEF Written, Open
  <2>3. ee = x.ends
    BY <1>3 DEF Open
  <2> HIDE DEF oo, ee, l, o, f
  <2>4. Behind(c, oo, ee) = CopyOf(oo, f, <<>>, ee)
    BY <1>4, CopyBehind
  <2>5. WrittenLine(h, c, x) = CopyOf(oo, f, <<>>, ee)
    BY <2>1, <2>4
  <2>6. WrittenLine(h, c, x) = CopyOf(c.out \o l, c.from, <<>>, x.ends)
    BY <2>2, <2>3, <2>5 DEF f
  <2> QED
    BY <1>1, <2>6 DEF AfterWrite, l
<1>2. CASE ~(x.pos < Eof(h))
  <2> DEFINE oo == CopiedTo(h, c, Len(h))
  <2>1. WrittenLine(h, c, x) = Moved(c, oo, Eof(h))
    BY <1>2 DEF WrittenLine, Moved
  <2>2. oo = c.out \o SubSeq(h, c.from, Len(h))
    BY CopiedOpen
  <2> HIDE DEF oo, o, f
  <2>3. Moved(c, oo, Eof(h)) = CopyOf(oo, Eof(h), <<>>, Open)
    BY <1>4, CopyMoved
  <2>4. WrittenLine(h, c, x) = CopyOf(oo, Eof(h), <<>>, Open)
    BY <2>1, <2>3
  <2> QED
    BY <1>2, <2>2, <2>4 DEF AfterLoss
<1> QED
  BY <1>1, <1>2

\* One step of the copy, by the kind of the change.
Skips(h, x, b, a) ==
    IsCopy(a) /\ a.out = b.out \o SubSeq(h, b.from, x.pos - 1) /\ a.from = x.pos + 1
Writes(x, b, a) ==
    /\ a.out = b.out \o <<Line(x.name, <<x.val>>)>> /\ a.from = b.from
    /\ a.ended = x.ends /\ (~x.ends => IsCopy(a))
Loses(h, b, a) ==
    IsCopy(a) /\ a.out = b.out \o SubSeq(h, b.from, Len(h)) /\ a.from = Eof(h)

LEMMA CopyStart ==
    ASSUME NEW g, NEW h, NEW list, Copying(g, h, list)
    PROVE  IsCopy(g[0]) /\ g[0].out = <<>> /\ g[0].from = 1
<1> DEFINE d == CopyOf(<<>>, 1, <<>>, Open)
<1>1. g[0] = d
  BY DEF Copying, Open
<1>2. IsCopy(d) /\ d.out = <<>> /\ d.from = 1
  BY DEF IsCopy, CopyOf
<1> HIDE DEF d
<1> QED
  BY <1>1, <1>2

LEMMA CopySkips ==
    ASSUME NEW g, NEW h, NEW list, Copying(g, h, list), Len(list) \in Nat,
           NEW k \in 1..Len(list), IsCopy(g[k - 1]), list[k].del = TRUE,
           list[k].pos \in Int, WithoutFirst(h[list[k].pos].vals) = <<>>
    PROVE  Skips(h, list[k], g[k - 1], g[k])
<1>1. g[k] = SkippedLine(h, g[k - 1], list[k])
  BY DEF Copying
<1>2. SkippedLine(h, g[k - 1], list[k]) = AfterSkip(h, g[k - 1], list[k])
  BY LineSkipped
<1>3. list[k].pos + 1 \in Int
  OBVIOUS
<1>4. Skips(h, list[k], g[k - 1], AfterSkip(h, g[k - 1], list[k]))
  BY <1>3, CopyIs DEF Skips, AfterSkip
<1> QED
  BY <1>1, <1>2, <1>4

LEMMA CopyWrites ==
    ASSUME NEW g, NEW h, NEW list, Copying(g, h, list), Len(list) \in Nat, Len(h) \in Int,
           NEW k \in 1..Len(list), IsCopy(g[k - 1]), list[k].del = FALSE, list[k].ends \in BOOLEAN
    PROVE  IF list[k].pos < Eof(h) THEN Writes(list[k], g[k - 1], g[k])
           ELSE Loses(h, g[k - 1], g[k])
<1>1. g[k] = WrittenLine(h, g[k - 1], list[k])
  BY DEF Copying
<1>2. WrittenLine(h, g[k - 1], list[k]) =
          IF list[k].pos < Eof(h) THEN AfterWrite(g[k - 1], list[k])
          ELSE AfterLoss(h, g[k - 1])
  BY LineWritten
<1>3. g[k - 1].from \in Int /\ Eof(h) \in Int
  BY DEF IsCopy, Eof
<1>4. Writes(list[k], g[k - 1], AfterWrite(g[k - 1], list[k]))
  <2> DEFINE o == g[k - 1].out \o <<Line(list[k].name, <<list[k].val>>)>>
             f == g[k - 1].from
  <2>1. ~list[k].ends => list[k].ends = Open
    BY DEF Open
  <2>2. AfterWrite(g[k - 1], list[k]) = CopyOf(o, f, <<>>, list[k].ends)
    BY DEF AfterWrite
  <2> HIDE DEF o, f
  <2>3. /\ CopyOf(o, f, <<>>, list[k].ends).out = o /\ CopyOf(o, f, <<>>, list[k].ends).from = f
        /\ CopyOf(o, f, <<>>, list[k].ends).ended = list[k].ends
    BY DEF CopyOf
  <2>4. IsCopy(CopyOf(o, f, <<>>, Open))
    BY <1>3, CopyIs DEF f
  <2>5. ~list[k].ends => IsCopy(CopyOf(o, f, <<>>, list[k].ends))
    BY <2>1, <2>4
  <2> QED
    BY <2>2, <2>3, <2>5 DEF Writes, o, f
<1>5. Loses(h, g[k - 1], AfterLoss(h, g[k - 1]))
  BY <1>3, CopyIs DEF Loses, AfterLoss
<1> QED
  BY <1>1, <1>2, <1>4, <1>5

------------------------------------------------------------------------------
(* What the changes that the nodes make do to the lines of each name.          *)

ViaTop   == [name |-> Via, top |-> TRUE]
RouteTop == [name |-> Route, top |-> TRUE]

\* The lines of a name below the first one.
Rest(ls) == IF ls = <<>> THEN <<>> ELSE Tail(ls)

LEMMA NamesApart ==
    /\ Via # Route /\ Via # RecordRoute /\ Via # Identity /\ Via # CallId /\ Via # Length
    /\ Via # Fragment
    /\ Route # RecordRoute /\ Route # Identity /\ Route # CallId /\ Route # Length
    /\ Route # Fragment
    /\ RecordRoute # Identity /\ RecordRoute # CallId /\ RecordRoute # Length
    /\ RecordRoute # Fragment
    /\ Identity # CallId /\ Identity # Length /\ Identity # Fragment
    /\ CallId # Length /\ CallId # Fragment /\ Length # Fragment
<1> DEFINE n == <<Via, Route, RecordRoute, Identity, CallId, Length, Fragment, None>>
<1>1. \A i, j \in 1..8 : i # j => n[i] # n[j]
  BY NamesDiffer
<1>2. /\ n[1] = Via /\ n[2] = Route /\ n[3] = RecordRoute /\ n[4] = Identity
      /\ n[5] = CallId /\ n[6] = Length /\ n[7] = Fragment
  OBVIOUS
<1> HIDE DEF n
<1>3. \A j \in 2..7 : n[1] # n[j]
  BY <1>1
<1>4. \A j \in 3..7 : n[2] # n[j]
  BY <1>1
<1>5. \A j \in 4..7 : n[3] # n[j]
  BY <1>1
<1>6. \A j \in 5..7 : n[4] # n[j]
  BY <1>1
<1>7. n[5] # n[6] /\ n[5] # n[7] /\ n[6] # n[7]
  BY <1>1
<1> QED
  BY <1>2, <1>3, <1>4, <1>5, <1>6, <1>7

\* The first line of a name that stands on top of everything.
LEMMA FirstOnTop ==
    ASSUME NEW S, NEW h \in Seq(S), NEW name, h # <<>>, h[1].name = name
    PROVE  Has(h, name) /\ FirstLine(h, name) = 1
<1>1. Len(h) \in Nat \ {0} /\ DOMAIN h = 1..Len(h)
  BY LenProperties, EmptySeq
<1>2. Has(h, name)
  BY <1>1 DEF Has
<1>3. FirstLine(h, name) \in 1..Len(h) /\ \A j \in 1..FirstLine(h, name) - 1 : h[j].name # name
  BY <1>2, FirstLineIs
<1>4. ~(1 \in 1..FirstLine(h, name) - 1)
  BY <1>3
<1> QED
  BY <1>1, <1>2, <1>3, <1>4

\* The deletion of the top Via is the first change.
LEMMA ViaFirst ==
    ASSUME NEW h, NEW dels, NEW adds, NEW g, Listing(g, h, dels, adds),
           Len(dels) \in Nat \ {0}, dels[1] = ViaTop, Has(h, Via),
           NEW S, Deletion(h, ViaTop) \in S
    PROVE  g[1] \in Seq(S) /\ Len(g[1]) = 1 /\ g[1][1] = Deletion(h, ViaTop)
<1>1. g[0] = <<>> /\ g[1] = WithDeletion(h, g[1 - 1], dels[1])
  BY DEF Listing
<1>2. g[1] = Inserted(<<>>, Deletion(h, ViaTop))
  BY <1>1 DEF WithDeletion, ViaTop
<1> QED
  BY <1>2, InsertedFirst

\* The answer's top Via is taken off.
LEMMA AnswerWithout ==
    ASSUME NEW S, NEW h \in Seq(S), Has(h, Via), WithoutFirst(h[FirstLine(h, Via)].vals) = <<>>
    PROVE  LET p == FirstLine(h, Via)
           IN  AnswerForwarded(h) = SubSeq(h, 1, p - 1) \o SubSeq(h, p + 1, Len(h))
<1> DEFINE p == FirstLine(h, Via)
           D == Deletion(h, ViaTop)
           dels == <<ViaTop>>
           adds == <<>>
           list == ModifyList(h, dels, adds)
<1>1. Len(dels) = 1 /\ dels[1] = ViaTop /\ Len(adds) = 0
  OBVIOUS
<1>11. AnswerForwarded(h) = Edited(h, dels, adds)
  BY DEF AnswerForwarded, ViaTop
<1> HIDE DEF dels, adds
<1>2. PICK g : Listing(g, h, dels, adds) /\ ModifyList(h, dels, adds) = g[Len(dels) + Len(adds)]
  <2>1. Len(dels) \in Nat /\ Len(adds) \in Nat
    BY <1>1
  <2> QED
    BY <2>1, ListingIs
<1>3. Len(list) = 1 /\ list[1] = D
  <2>1. D \in {D} /\ Len(dels) \in Nat \ {0}
    BY <1>1
  <2> HIDE DEF D
  <2>2. D = Deletion(h, ViaTop) /\ Deletion(h, ViaTop) \in {D}
    BY <2>1 DEF D
  <2>3. Len(g[1]) = 1 /\ g[1][1] = Deletion(h, ViaTop)
    <3>1. Listing(g, h, dels, adds) /\ dels[1] = ViaTop
      BY <1>1, <1>2
    <3> QED
      BY <2>1, <2>2, <3>1, ViaFirst
  <2> QED
    BY <1>1, <1>2, <2>2, <2>3
<1>4. list = ModifyList(h, dels, adds) /\ Len(list) \in Nat /\ Len(dels) \in Nat
  BY <1>1, <1>3
<1> HIDE DEF list
<1>5. PICK c : Copying(c, h, list) /\ Edited(h, dels, adds) = CopiedTo(h, c[Len(list)], Len(h))
  BY <1>4, CopyingIs
<1>6. D.del = TRUE /\ D.pos = p
  BY DEF Deletion, ViaTop
<1>7. IsCopy(c[0]) /\ c[0].out = <<>> /\ c[0].from = 1
  BY <1>5, CopyStart
<1>8. Skips(h, D, c[0], c[1])
  <2>1. 1 \in 1..Len(list) /\ 1 - 1 = 0
    BY <1>3
  <2>2. list[1].del = TRUE /\ list[1].pos \in Int /\ WithoutFirst(h[list[1].pos].vals) = <<>>
    BY <1>3, <1>6, FirstLineIs, LenProperties
  <2>3. Skips(h, list[1], c[1 - 1], c[1])
    BY <1>4, <1>5, <1>7, <2>1, <2>2, CopySkips
  <2> QED
    BY <1>3, <2>1, <2>3
<1>9. <<>> \o SubSeq(h, 1, p - 1) = SubSeq(h, 1, p - 1)
  <2>1. SubSeq(h, 1, p - 1) \in Seq(S)
    BY FirstLineIs, SplitAt
  <2> QED
    BY <2>1, ConcatEmptySeq
<1>10. IsCopy(c[1]) /\ c[1].out = SubSeq(h, 1, p - 1) /\ c[1].from = p + 1
  BY <1>6, <1>7, <1>8, <1>9 DEF Skips
<1>12. CopiedTo(h, c[1], Len(h)) = c[1].out \o SubSeq(h, c[1].from, Len(h))
  BY <1>10, CopiedToEnd
<1> QED
  BY <1>3, <1>5, <1>10, <1>11, <1>12

\* A list without the first line of Via and of Route, as far as they are there.
LEMMA DeletionsListed ==
    ASSUME NEW S, NEW h \in Seq(S), h # <<>>, h[1].name = Via,
           NEW dels, NEW adds, NEW g, Listing(g, h, dels, adds),
           Len(dels) = 2, dels[1] = ViaTop, dels[2] = RouteTop,
           NEW T, Deletion(h, ViaTop) \in T, Deletion(h, RouteTop) \in T
    PROVE  /\ g[2] \in Seq(T)
           /\ g[2][1] = Deletion(h, ViaTop)
           /\ Has(h, Route) => Len(g[2]) = 2 /\ g[2][2] = Deletion(h, RouteTop)
           /\ ~Has(h, Route) => Len(g[2]) = 1
<1> DEFINE D == Deletion(h, ViaTop)
           R == Deletion(h, RouteTop)
<1>1. Has(h, Via) /\ FirstLine(h, Via) = 1
  BY FirstOnTop
<1>2. g[1] \in Seq(T) /\ Len(g[1]) = 1 /\ g[1][1] = D
  <2>1. Len(dels) \in Nat \ {0}
    OBVIOUS
  <2> QED
    BY <1>1, <2>1, ViaFirst
<1>3. g[2] = WithDeletion(h, g[1], RouteTop)
  <2>1. g[2] = WithDeletion(h, g[2 - 1], dels[2])
    BY DEF Listing
  <2> QED
    BY <2>1
<1>4. CASE ~Has(h, Route)
  <2>1. g[2] = g[1]
    BY <1>3, <1>4 DEF WithDeletion, RouteTop
  <2> QED
    BY <1>2, <1>4, <2>1
<1>5. CASE Has(h, Route)
  <2>1. g[2] = Inserted(g[1], R)
    BY <1>3, <1>5 DEF WithDeletion, RouteTop
  <2>2. D.pos = 1 /\ R.pos = FirstLine(h, Route) /\ R.del = TRUE
    BY <1>1 DEF Deletion, ViaTop, RouteTop
  <2>3. FirstLine(h, Route) \in Nat \ {0}
    BY <1>5, FirstLineIs, LenProperties
  <2> HIDE DEF D, R
  <2>4. ~GoesBefore(R, D)
    BY <2>2, <2>3 DEF GoesBefore
  <2>5. NotBefore(R, g[1], Len(g[1]))
    BY <1>2, <2>4 DEF NotBefore
  <2>6. R \in T
    BY DEF R
  <2>7. Appended(T, g[2], g[1], R)
    BY <2>1, <2>5, <2>6, <1>2, InsertedLast
  <2>8. g[2] \in Seq(T) /\ Len(g[2]) = 2 /\ g[2][1] = D /\ g[2][2] = R
    BY <1>2, <2>7 DEF Appended
  <2> QED
    BY <1>5, <2>8 DEF D, R
<1> QED
  BY <1>4, <1>5

\* The list with one addition more, of a name that none of the deletions has.
WithRecord(l, h, a) ==
    LET A == Addition(h, a)
        p == PlaceToAdd(h, RecordRoute)
        r == FirstLine(h, Route)
    IN  /\ A.pos = p /\ A.del = FALSE /\ A.name = RecordRoute /\ A.val = a.val
        /\ A.ends = a.ends
        /\ Len(l) = IF Has(h, Route) THEN 3 ELSE 2
        /\ l[1] = Deletion(h, ViaTop)
        /\ ~Has(h, Route) => l[2] = A
        /\ Has(h, Route) /\ p < r => l[2] = A /\ l[3] = Deletion(h, RouteTop)
        /\ Has(h, Route) /\ ~(p < r) => l[2] = Deletion(h, RouteTop) /\ l[3] = A

LEMMA AdditionListed ==
    ASSUME NEW S, NEW h \in Seq(S), h # <<>>, h[1].name = Via,
           NEW dels, NEW adds, NEW g, Listing(g, h, dels, adds),
           Len(dels) = 2, dels[1] = ViaTop, dels[2] = RouteTop,
           Len(adds) = 1, adds[1].name = RecordRoute
    PROVE  WithRecord(g[3], h, adds[1])
<1> DEFINE A == Addition(h, adds[1])
           p == PlaceToAdd(h, RecordRoute)
           r == FirstLine(h, Route)
           D == Deletion(h, ViaTop)
           R == Deletion(h, RouteTop)
           T == {A, D, R}
<1>1. /\ A.pos = p /\ A.del = FALSE /\ A.name = RecordRoute /\ A.val = adds[1].val
      /\ A.ends = adds[1].ends
  BY DEF Addition
<1>2. D.pos = 1 /\ D.name = Via /\ R.pos = r /\ R.name = Route
  BY FirstOnTop DEF Deletion, ViaTop, RouteTop
<1>3. Has(h, Route) => r \in Nat \ {0}
  BY FirstLineIs, LenProperties
<1>4. p \in Nat \ {0}
  <2>1. Len(h) \in Nat
    BY LenProperties
  <2>2. CASE Has(h, RecordRoute)
    BY <2>1, <2>2, FirstLineIs DEF PlaceToAdd
  <2>3. CASE ~Has(h, RecordRoute) /\ Has(h, Length)
    BY <2>1, <2>3, FirstLineIs DEF PlaceToAdd
  <2>4. CASE ~Has(h, RecordRoute) /\ ~Has(h, Length)
    BY <2>1, <2>4 DEF PlaceToAdd, Eof
  <2> QED
    BY <2>2, <2>3, <2>4
<1>5. D \in T /\ R \in T /\ A \in T
  OBVIOUS
<1> HIDE DEF T
<1>6. /\ g[2] \in Seq(T)
      /\ g[2][1] = D
      /\ Has(h, Route) => Len(g[2]) = 2 /\ g[2][2] = R
      /\ ~Has(h, Route) => Len(g[2]) = 1
  BY <1>5, DeletionsListed
<1>7. g[3] = Inserted(g[2], A)
  <2>1. g[Len(dels) + 1] = Inserted(g[Len(dels) + 1 - 1], Addition(h, adds[1]))
    BY DEF Listing
  <2> QED
    BY <2>1
<1> HIDE DEF A, p, r, D, R
<1>8. ~GoesBefore(A, D)
  BY <1>1, <1>2, <1>4, NamesApart DEF GoesBefore
<1>9. GoesBefore(A, R) <=> p < r
  BY <1>1, <1>2, NamesApart DEF GoesBefore
<1> DEFINE Result ==
             /\ Len(g[3]) = IF Has(h, Route) THEN 3 ELSE 2
             /\ g[3][1] = D
             /\ ~Has(h, Route) => g[3][2] = A
             /\ Has(h, Route) /\ p < r => g[3][2] = A /\ g[3][3] = R
             /\ Has(h, Route) /\ ~(p < r) => g[3][2] = R /\ g[3][3] = A
<1>10. ASSUME ~Has(h, Route) \/ ~(p < r)
       PROVE  Result
  <2>1. NotBefore(A, g[2], Len(g[2]))
    BY <1>6, <1>8, <1>9, <1>10 DEF NotBefore
  <2>2. Appended(T, g[3], g[2], A)
    BY <1>5, <1>6, <1>7, <2>1, InsertedLast
  <2>3. CASE Has(h, Route)
    <3>2. Len(g[2]) = 2 /\ g[2][1] = D /\ g[2][2] = R
      BY <1>6, <2>3
    <3>1. Len(g[3]) = 3 /\ g[3][1] = D /\ g[3][2] = R /\ g[3][3] = A
      BY <3>2, <2>2 DEF Appended
    <3> QED
      BY <1>10, <2>3, <3>1
  <2>4. CASE ~Has(h, Route)
    <3>1. Len(g[3]) = 2 /\ g[3][1] = D /\ g[3][2] = A
      BY SMTT(20), <1>6, <2>2, <2>4 DEF Appended
    <3> QED
      BY <2>4, <3>1
  <2> QED
    BY <2>3, <2>4
<1>11. ASSUME Has(h, Route), p < r
       PROVE  Result
  <2>1. 2 \in 1..Len(g[2]) /\ GoesBefore(A, g[2][2])
    BY <1>6, <1>9, <1>11
  <2>2. NotBefore(A, g[2], 2 - 1)
    BY <1>6, <1>8 DEF NotBefore
  <2>3. PutAt(T, g[3], g[2], 2, A)
    BY <1>5, <1>6, <1>7, <2>1, <2>2, InsertedAt
  <2>4. Len(g[3]) = 3 /\ g[3][1] = D /\ g[3][2] = A /\ g[3][3] = R
    BY SMTT(20), <1>6, <1>11, <2>3 DEF PutAt
  <2> QED
    BY <1>11, <2>4
<1>12. Result
  BY <1>10, <1>11
<1> QED
  BY <1>1, <1>12 DEF A, p, r, D, R, WithRecord

\* What stays of the lines of a name when a request is sent on.
Kept(h, name) ==
    IF name \in {Via, Route} THEN Rest(LinesOf(h, name)) ELSE LinesOf(h, name)

LEMMA BelowTop ==
    ASSUME NEW S, NEW h \in Seq(S), h # <<>>, NEW name
    PROVE  LET c == SubSeq(h, 2, Len(h))
           IN  /\ c \in Seq(S)
               /\ h[1].name # name => LinesOf(h, name) = LinesOf(c, name)
               /\ h[1].name = name => LinesOf(h, name) # <<>> /\ Tail(LinesOf(h, name)) = LinesOf(c, name)
<1> DEFINE c == SubSeq(h, 2, Len(h))
<1>1. 1 \in 1..Len(h) /\ Len(h) \in Nat
  BY LenProperties, EmptySeq
<1>2. c \in Seq(S)
  <2>1. SubSeq(h, 1 + 1, Len(h)) \in Seq(S)
    BY <1>1, SplitAt
  <2> QED
    BY <2>1
<1>3. LinesOf(c, name) \in Seq(S)
  BY <1>2, HasLines
<1>4. CASE h[1].name = name
  <2>1. Has(h, name) /\ FirstLine(h, name) = 1
    BY <1>4, FirstOnTop
  <2>2. Tail(LinesOf(h, name)) = LinesOf(SubSeq(h, 1 + 1, Len(h)), name)
    BY <2>1, TopLines
  <2>3. LinesOf(h, name) # <<>>
    BY <2>1, HasLines
  <2> QED
    BY <1>2, <1>4, <2>2, <2>3
<1>5. CASE h[1].name # name
  <2>1. LinesOf(h, name) = LinesOf(SubSeq(h, 1, 1 - 1), name)
            \o ((IF h[1].name = name THEN <<h[1]>> ELSE <<>>)
                  \o LinesOf(SubSeq(h, 1 + 1, Len(h)), name))
    BY <1>1, LinesSplitAt
  <2>2. SubSeq(h, 1, 1 - 1) = <<>> /\ 1 + 1 = 2
    BY SubSeqEmpty
  <2>3. LinesOf(h, name) = <<>> \o (<<>> \o LinesOf(c, name))
    BY <1>5, <2>1, <2>2, LinesOfEmpty
  <2> HIDE DEF c
  <2>4. LinesOf(h, name) = LinesOf(c, name)
    BY <1>3, <2>3, ConcatEmptySeq
  <2> QED
    BY <1>2, <1>5, <2>4 DEF c
<1> QED
  BY <1>4, <1>5

\* The lines between the top one and a place, and those behind it.
LEMMA AroundPlace ==
    ASSUME NEW S, NEW h \in Seq(S), NEW q \in 2..Len(h), NEW name
    PROVE  LET a == SubSeq(h, 2, q - 1)
               b == SubSeq(h, q + 1, Len(h))
               c == SubSeq(h, 2, Len(h))
           IN  /\ a \in Seq(S) /\ b \in Seq(S)
               /\ h[q].name # name => LinesOf(c, name) = LinesOf(a, name) \o LinesOf(b, name)
<1> DEFINE a == SubSeq(h, 2, q - 1)
           b == SubSeq(h, q + 1, Len(h))
           c == SubSeq(h, 2, Len(h))
           l == <<h[q]>>
<1>1. Len(h) \in Nat /\ \A i \in 1..Len(h) : h[i] \in S
  BY LenProperties, ElementOfSeq
<1>2. l \in Seq(S) /\ b \in Seq(S)
  <2>1. q \in 1..Len(h)
    BY <1>1
  <2> QED
    BY <2>1, SplitAt
<1>3. a \in Seq(S)
  <2>1. q - 1 \in Int /\ \A i \in 2..q - 1 : h[i] \in S
    BY <1>1
  <2> QED
    BY <2>1, SubSeqProperties
<1>4. c = a \o (l \o b)
  <2>1. 2 \in 1..Len(h) + 1 /\ q - 1 \in 2 - 1..Len(h) /\ Len(h) \in q - 1..Len(h)
    BY <1>1
  <2>2. SubSeq(h, 2, q - 1) \o SubSeq(h, q - 1 + 1, Len(h)) = SubSeq(h, 2, Len(h))
    BY <2>1, ConcatAdjacentSubSeq
  <2>3. q - 1 + 1 = q /\ q \in 1..Len(h) /\ Len(h) \in q..Len(h)
    BY <1>1
  <2>4. SubSeq(h, q, Len(h)) = <<h[q]>> \o SubSeq(h, q + 1, Len(h))
    BY <2>3, SubSeqRecursiveFirst
  <2> QED
    BY <2>2, <2>3, <2>4
<1>5. ASSUME h[q].name # name
      PROVE  LinesOf(c, name) = LinesOf(a, name) \o LinesOf(b, name)
  <2>1. LinesOf(l, name) = <<>>
    BY <1>5, LinesOfOne
  <2> HIDE DEF a, b, l
  <2>2. l \o b \in Seq(S) /\ LinesOf(b, name) \in Seq(S)
    BY <1>2, ConcatProperties, HasLines
  <2> DEFINE lb == l \o b
  <2>8. lb \in Seq(S)
    BY <2>2
  <2> HIDE DEF lb
  <2>9. LinesOf(a \o lb, name) = LinesOf(a, name) \o LinesOf(lb, name)
    BY <1>3, <2>8, LinesOfConcat
  <2>3. LinesOf(a \o (l \o b), name) = LinesOf(a, name) \o LinesOf(l \o b, name)
    BY <2>9 DEF lb
  <2>4. LinesOf(l \o b, name) = LinesOf(l, name) \o LinesOf(b, name)
    BY <1>2, LinesOfConcat
  <2>5. <<>> \o LinesOf(b, name) = LinesOf(b, name)
    BY <2>2, ConcatEmptySeq
  <2>6. LinesOf(l \o b, name) = LinesOf(b, name)
    BY <2>1, <2>4, <2>5
  <2>7. LinesOf(c, name) = LinesOf(a \o (l \o b), name)
    BY <1>4
  <2> QED
    BY <2>3, <2>6, <2>7
<1> QED
  BY <1>2, <1>3, <1>5

LEMMA KeptAround ==
    ASSUME NEW S, NEW h \in Seq(S), h # <<>>, h[1].name = Via
    PROVE  LET q == FirstLine(h, Route)
               a == SubSeq(h, 2, q - 1)
               b == SubSeq(h, q + 1, Len(h))
               c == SubSeq(h, 2, Len(h))
           IN  /\ c \in Seq(S)
               /\ ~Has(h, Route) => \A name : Kept(h, name) = LinesOf(c, name)
               /\ Has(h, Route) => /\ q \in 2..Len(h) /\ h[q].name = Route
                                   /\ a \in Seq(S) /\ b \in Seq(S)
                                   /\ \A name : Kept(h, name) = LinesOf(a, name) \o LinesOf(b, name)
<1> DEFINE q == FirstLine(h, Route)
           a == SubSeq(h, 2, q - 1)
           b == SubSeq(h, q + 1, Len(h))
           c == SubSeq(h, 2, Len(h))
<1>1. Via # Route
  BY NamesApart
<1>2. c \in Seq(S)
  BY BelowTop
<1>3. \A name : name # Via => LinesOf(h, name) = LinesOf(c, name)
  BY BelowTop
<1>4. LinesOf(h, Via) # <<>> /\ Tail(LinesOf(h, Via)) = LinesOf(c, Via)
  <2>1. LinesOf(h, Via) # <<>>
    BY BelowTop
  <2>2. Tail(LinesOf(h, Via)) = LinesOf(c, Via)
    BY BelowTop
  <2> QED
    BY <2>1, <2>2
<1> HIDE DEF c
<1>5. Kept(h, Via) = LinesOf(c, Via)
  BY <1>4 DEF Kept, Rest
<1>6. ASSUME ~Has(h, Route), NEW name
      PROVE  Kept(h, name) = LinesOf(c, name)
  <2>1. LinesOf(h, Route) = <<>>
    BY <1>6, HasLines
  <2>2. Kept(h, Route) = LinesOf(c, Route)
    BY <1>1, <1>3, <2>1 DEF Kept, Rest
  <2>3. CASE name \notin {Via, Route}
    BY <1>3, <2>3 DEF Kept
  <2> QED
    BY <1>5, <2>2, <2>3
<1>7. ASSUME Has(h, Route)
      PROVE  /\ q \in 2..Len(h) /\ h[q].name = Route
             /\ a \in Seq(S) /\ b \in Seq(S)
             /\ \A name : Kept(h, name) = LinesOf(a, name) \o LinesOf(b, name)
  <2>1. q \in 1..Len(h) /\ h[q].name = Route /\ Len(h) \in Nat
    BY <1>7, FirstLineIs, LenProperties
  <2>2. q # 1
    BY <1>1, <2>1
  <2>3. q \in 2..Len(h)
    BY <2>1, <2>2
  <2>4. LinesOf(a, Route) = <<>>
    <3>1. 2 \in 1..Len(h) + 1 /\ q - 1 \in 0..Len(h) /\ q - 1 < q
      BY <2>1, <2>3
    <3> QED
      BY <3>1, NoneAbove DEF q
  <2>5. Kept(h, Route) = LinesOf(b, Route)
    <3>1. Tail(LinesOf(h, Route)) = LinesOf(b, Route)
      BY <1>7, TopLines
    <3>2. LinesOf(h, Route) # <<>>
      BY <1>7, HasLines
    <3> QED
      BY <3>1, <3>2 DEF Kept, Rest
  <2> HIDE DEF q
  <2>6. a \in Seq(S) /\ b \in Seq(S)
    BY <2>3, AroundPlace
  <2>7. \A name : name # Route => LinesOf(c, name) = LinesOf(a, name) \o LinesOf(b, name)
    BY <2>1, <2>3, AroundPlace DEF c
  <2> HIDE DEF a, b
  <2>8. Kept(h, Route) = LinesOf(a, Route) \o LinesOf(b, Route)
    BY <2>4, <2>5, <2>6, HasLines, ConcatEmptySeq
  <2>9. Kept(h, Via) = LinesOf(a, Via) \o LinesOf(b, Via)
    BY <1>1, <1>5, <2>7
  <2>10. ASSUME NEW name, name \notin {Via, Route}
         PROVE  Kept(h, name) = LinesOf(a, name) \o LinesOf(b, name)
    BY <1>3, <2>7, <2>10 DEF Kept
  <2> QED
    BY <2>1, <2>3, <2>6, <2>8, <2>9, <2>10
<1> QED
  BY <1>2, <1>6, <1>7 DEF c

LEMMA TwoDeletions ==
    LET dels == <<[name |-> Via, top |-> TRUE]>> \o TopRoute
    IN  Len(dels) = 2 /\ dels[1] = ViaTop /\ dels[2] = RouteTop
<1> DEFINE v == <<[name |-> Via, top |-> TRUE]>>
           T == {ViaTop, RouteTop}
<1>1. v \in Seq(T) /\ Len(v) = 1 /\ v[1] = ViaTop
  BY DEF ViaTop
<1>2. TopRoute \in Seq(T) /\ Len(TopRoute) = 1 /\ TopRoute[1] = RouteTop
  BY DEF TopRoute, RouteTop
<1> HIDE DEF v, T
<1>3. /\ Len(v \o TopRoute) = Len(v) + Len(TopRoute)
      /\ \A i \in 1..Len(v) + Len(TopRoute) :
            (v \o TopRoute)[i] = IF i <= Len(v) THEN v[i] ELSE TopRoute[i - Len(v)]
  BY <1>1, <1>2, ConcatProperties
<1>4. Len(v \o TopRoute) = 2 /\ (v \o TopRoute)[1] = ViaTop /\ (v \o TopRoute)[2] = RouteTop
  BY <1>1, <1>2, <1>3
<1> QED
  BY <1>4 DEF v

\* The copy when the top Via, which is the top line, has been skipped.
LEMMA ViaSkipped ==
    ASSUME NEW S, NEW h \in Seq(S), h # <<>>, h[1].name = Via, WithoutFirst(h[1].vals) = <<>>,
           NEW list, Len(list) \in Nat \ {0}, list[1] = Deletion(h, ViaTop),
           NEW c, Copying(c, h, list)
    PROVE  IsCopy(c[1]) /\ c[1].out = <<>> /\ c[1].from = 2
<1> DEFINE D == Deletion(h, ViaTop)
<1>1. D.del = TRUE /\ D.pos = 1
  BY FirstOnTop DEF Deletion, ViaTop
<1> HIDE DEF D
<1>2. list[1] = D
  BY DEF D
<1>3. IsCopy(c[0]) /\ c[0].out = <<>> /\ c[0].from = 1
  BY CopyStart
<1>4. Skips(h, D, c[0], c[1])
  <2>1. 1 \in 1..Len(list) /\ 1 - 1 = 0 /\ Len(list) \in Nat
    OBVIOUS
  <2>2. list[1].del = TRUE /\ list[1].pos \in Int /\ WithoutFirst(h[list[1].pos].vals) = <<>>
    BY <1>1, <1>2
  <2>3. Skips(h, list[1], c[1 - 1], c[1])
    BY <1>3, <2>1, <2>2, CopySkips
  <2> QED
    BY <1>2, <2>1, <2>3
<1>5. SubSeq(h, 1, 1 - 1) = <<>> /\ <<>> \o <<>> = <<>>
  BY SubSeqEmpty, ConcatEmptySeq, EmptySeq
<1>6. c[1].out = c[0].out \o SubSeq(h, c[0].from, D.pos - 1) /\ c[1].from = D.pos + 1 /\ IsCopy(c[1])
  BY <1>4 DEF Skips
<1>7. c[1].out = <<>> \o SubSeq(h, 1, 1 - 1)
  BY <1>1, <1>3, <1>6
<1>8. <<>> \o SubSeq(h, 1, 1 - 1) = <<>>
  BY <1>5
<1>9. c[1].from = 2
  BY <1>1, <1>6
<1> QED
  BY <1>6, <1>7, <1>8, <1>9

\* The copy when the top Route has been skipped after that.
LEMMA RouteSkipped ==
    ASSUME NEW h, Has(h, Route), FirstLine(h, Route) \in Int,
           WithoutFirst(h[FirstLine(h, Route)].vals) = <<>>,
           NEW list, Len(list) \in Nat, NEW k \in 1..Len(list), list[k] = Deletion(h, RouteTop),
           NEW c, Copying(c, h, list), IsCopy(c[k - 1]), c[k - 1].from = 2
    PROVE  LET q == FirstLine(h, Route)
           IN  IsCopy(c[k]) /\ c[k].out = c[k - 1].out \o SubSeq(h, 2, q - 1) /\ c[k].from = q + 1
<1> DEFINE D == Deletion(h, RouteTop)
           q == FirstLine(h, Route)
<1>1. D.del = TRUE /\ D.pos = q
  BY DEF Deletion, RouteTop
<1> HIDE DEF D
<1>2. list[k] = D
  BY DEF D
<1>3. list[k].del = TRUE /\ list[k].pos \in Int /\ WithoutFirst(h[list[k].pos].vals) = <<>>
  BY <1>1, <1>2
<1>4. Skips(h, list[k], c[k - 1], c[k])
  BY <1>3, CopySkips
<1>5. c[k].out = c[k - 1].out \o SubSeq(h, c[k - 1].from, D.pos - 1) /\ c[k].from = D.pos + 1
      /\ IsCopy(c[k])
  BY <1>2, <1>4 DEF Skips
<1> QED
  BY <1>1, <1>5

\* Without additions: the S-CSCF on the way to the callee.
LEMMA RequestWithout ==
    ASSUME NEW S, NEW h \in Seq(S), h # <<>>, h[1].name = Via, WithoutFirst(h[1].vals) = <<>>,
           Has(h, Route) => WithoutFirst(h[FirstLine(h, Route)].vals) = <<>>
    PROVE  LET e == Edited(h, <<[name |-> Via, top |-> TRUE]>> \o TopRoute, <<>>)
           IN  e \in Seq(S) /\ \A name : LinesOf(e, name) = Kept(h, name)
<1> DEFINE dels == <<[name |-> Via, top |-> TRUE]>> \o TopRoute
           adds == <<>>
           list == ModifyList(h, dels, adds)
           q == FirstLine(h, Route)
           a == SubSeq(h, 2, q - 1)
           b == SubSeq(h, q + 1, Len(h))
           r == SubSeq(h, 2, Len(h))
           T == {Deletion(h, ViaTop), Deletion(h, RouteTop)}
           E == Edited(h, dels, adds)
<1>1. Len(dels) = 2 /\ dels[1] = ViaTop /\ dels[2] = RouteTop
  BY TwoDeletions
<1>2. Len(adds) = 0
  OBVIOUS
<1> HIDE DEF dels, adds
<1>3. PICK g : Listing(g, h, dels, adds) /\ list = g[Len(dels) + Len(adds)]
  <2>1. Len(dels) \in Nat /\ Len(adds) \in Nat
    BY <1>1, <1>2
  <2> QED
    BY <2>1, ListingIs
<1>4. list = g[2]
  BY <1>1, <1>2, <1>3
<1>5. /\ list[1] = Deletion(h, ViaTop)
      /\ Has(h, Route) => Len(list) = 2 /\ list[2] = Deletion(h, RouteTop)
      /\ ~Has(h, Route) => Len(list) = 1
  <2>1. Deletion(h, ViaTop) \in T /\ Deletion(h, RouteTop) \in T
    OBVIOUS
  <2> HIDE DEF T, list
  <2>2. /\ g[2][1] = Deletion(h, ViaTop)
        /\ Has(h, Route) => Len(g[2]) = 2 /\ g[2][2] = Deletion(h, RouteTop)
        /\ ~Has(h, Route) => Len(g[2]) = 1
    BY <1>1, <1>3, <2>1, DeletionsListed
  <2> QED
    BY <1>4, <2>2
<1>6. Len(list) \in Nat \ {0}
  BY <1>5
<1>7. list = ModifyList(h, dels, adds) /\ Len(dels) \in Nat /\ Len(adds) \in Nat
  BY <1>1, <1>2
<1> HIDE DEF list
<1>8. PICK c : Copying(c, h, list) /\ E = CopiedTo(h, c[Len(list)], Len(h))
  BY <1>6, <1>7, CopyingIs
<1> HIDE DEF E
<1>9. IsCopy(c[1]) /\ c[1].out = <<>> /\ c[1].from = 2
  BY <1>5, <1>6, <1>8, ViaSkipped
<1>10. /\ r \in Seq(S)
       /\ ~Has(h, Route) => \A name : Kept(h, name) = LinesOf(r, name)
       /\ Has(h, Route) => /\ a \in Seq(S) /\ b \in Seq(S) /\ q \in 2..Len(h)
                           /\ \A name : Kept(h, name) = LinesOf(a, name) \o LinesOf(b, name)
  BY KeptAround
<1>11. ASSUME ~Has(h, Route)
       PROVE  E \in Seq(S) /\ \A name : LinesOf(E, name) = Kept(h, name)
  <2>3. CopiedTo(h, c[1], Len(h)) = c[1].out \o SubSeq(h, c[1].from, Len(h))
    BY <1>9, CopiedToEnd
  <2>1. E = <<>> \o r
    BY <1>5, <1>8, <1>9, <1>11, <2>3
  <2> HIDE DEF r
  <2>2. E = r
    BY <1>10, <2>1, ConcatEmptySeq
  <2> QED
    BY <1>10, <1>11, <2>2
<1>12. ASSUME Has(h, Route)
       PROVE  E \in Seq(S) /\ \A name : LinesOf(E, name) = Kept(h, name)
  <2>1. IsCopy(c[2]) /\ c[2].out = c[1].out \o a /\ c[2].from = q + 1
    <3>4. Len(list) = 2 /\ list[2] = Deletion(h, RouteTop)
      BY <1>5, <1>12
    <3>1. Len(list) \in Nat /\ 2 \in 1..Len(list) /\ 2 - 1 = 1 /\ list[2] = Deletion(h, RouteTop)
      BY <3>4
    <3>2. IsCopy(c[2 - 1]) /\ c[2 - 1].from = 2
      BY <1>9, <3>1
    <3>3. IsCopy(c[2]) /\ c[2].out = c[2 - 1].out \o SubSeq(h, 2, q - 1) /\ c[2].from = q + 1
      <4>1. q \in Int
        BY <1>10, <1>12
      <4> QED
        BY <1>8, <1>12, <3>1, <3>2, <4>1, RouteSkipped
    <3> QED
      BY <3>1, <3>3
  <2>5. CopiedTo(h, c[2], Len(h)) = c[2].out \o SubSeq(h, c[2].from, Len(h))
    BY <2>1, CopiedToEnd
  <2>2. E = (<<>> \o a) \o b
    BY <1>5, <1>8, <1>9, <1>12, <2>1, <2>5
  <2> HIDE DEF a, b
  <2>3. E = a \o b
    BY <1>10, <1>12, <2>2, ConcatEmptySeq
  <2>4. \A name : LinesOf(a \o b, name) = LinesOf(a, name) \o LinesOf(b, name)
    BY <1>10, <1>12, LinesOfConcat
  <2> QED
    BY <1>10, <1>12, <2>3, <2>4, ConcatProperties
<1>13. E \in Seq(S) /\ \A name : LinesOf(E, name) = Kept(h, name)
  BY <1>11, <1>12
<1> QED
  BY <1>13 DEF E, dels, adds

\* Headers put together from two parts.
Joined(S, h, a, b) ==
    /\ h \in Seq(S)
    /\ \A name : LinesOf(h, name) = LinesOf(a, name) \o LinesOf(b, name)
    /\ a # <<>> => h # <<>> /\ h[1] = a[1]

LEMMA JoinIs ==
    ASSUME NEW S, NEW a \in Seq(S), NEW b \in Seq(S)
    PROVE  Joined(S, a \o b, a, b)
<1>1. a \o b \in Seq(S) /\ Len(a \o b) = Len(a) + Len(b) /\ Len(a) \in Nat /\ Len(b) \in Nat
  BY ConcatProperties, LenProperties
<1>2. \A name : LinesOf(a \o b, name) = LinesOf(a, name) \o LinesOf(b, name)
  BY LinesOfConcat
<1>3. ASSUME a # <<>>
      PROVE  a \o b # <<>> /\ (a \o b)[1] = a[1]
  <2>1. Len(a) # 0
    BY <1>3, EmptySeq
  <2>2. (a \o b)[1] = a[1]
    BY <1>1, <2>1, ConcatProperties
  <2> DEFINE ab == a \o b
  <2> HIDE DEF ab
  <2>3. ab \in Seq(S) /\ Len(ab) # 0
    BY <1>1, <2>1 DEF ab
  <2>4. ab # <<>>
    BY <2>3, EmptySeq
  <2> QED
    BY <2>2, <2>4 DEF ab
<1> QED
  BY <1>1, <1>2, <1>3 DEF Joined

LEMMA RecordedPlace ==
    ASSUME NEW S, NEW h \in Seq(S)
    PROVE  /\ PlaceToAdd(h, RecordRoute) < Eof(h) <=> Has(h, RecordRoute) \/ Has(h, Length)
           /\ PlaceToAdd(h, RecordRoute) \in Nat
           /\ Has(h, RecordRoute) => PlaceToAdd(h, RecordRoute) = FirstLine(h, RecordRoute)
<1>1. Len(h) \in Nat
  BY LenProperties
<1>2. CASE Has(h, RecordRoute)
  <2>1. FirstLine(h, RecordRoute) \in 1..Len(h)
    BY <1>2, FirstLineIs
  <2>2. PlaceToAdd(h, RecordRoute) = FirstLine(h, RecordRoute)
    BY <1>2 DEF PlaceToAdd
  <2> QED
    BY <1>1, <1>2, <2>1, <2>2 DEF Eof
<1>3. CASE ~Has(h, RecordRoute) /\ Has(h, Length)
  <2>1. FirstLine(h, Length) \in 1..Len(h)
    BY <1>3, FirstLineIs
  <2>2. PlaceToAdd(h, RecordRoute) = FirstLine(h, Length)
    BY <1>3 DEF PlaceToAdd
  <2> QED
    BY <1>1, <1>3, <2>1, <2>2 DEF Eof
<1>4. CASE ~Has(h, RecordRoute) /\ ~Has(h, Length)
  <2>1. PlaceToAdd(h, RecordRoute) = Eof(h)
    BY SMTT(20), <1>4 DEF PlaceToAdd
  <2> QED
    BY <1>1, <1>4, <2>1 DEF Eof
<1> QED
  BY <1>2, <1>3, <1>4

\* The edited headers of a request that a proxy sends on, before that is analysed.
RecordedHdrs(h, x) == Edited(h, <<[name |-> Via, top |-> TRUE]>> \o TopRoute,
                                <<[name |-> RecordRoute, val |-> x, ends |-> TRUE]>>)

\* The headers that can be added to: those that say where, before their end.
HasPlace(h) == Has(h, RecordRoute) \/ Has(h, Length)

LEMMA RecordedCopy ==
    ASSUME NEW S, NEW h \in Seq(S), h # <<>>, h[1].name = Via, NEW x
    PROVE  \E list, c :
               /\ WithRecord(list, h, [name |-> RecordRoute, val |-> x, ends |-> TRUE])
               /\ Len(list) \in Nat \ {0}
               /\ Copying(c, h, list)
               /\ RecordedHdrs(h, x) = CopiedTo(h, c[Len(list)], Len(h))
<1> DEFINE dels == <<[name |-> Via, top |-> TRUE]>> \o TopRoute
           rec == [name |-> RecordRoute, val |-> x, ends |-> TRUE]
           adds == <<rec>>
           list == ModifyList(h, dels, adds)
           E == Edited(h, dels, adds)
<1>1. Len(dels) = 2 /\ dels[1] = ViaTop /\ dels[2] = RouteTop
  BY TwoDeletions
<1>2. Len(adds) = 1 /\ adds[1] = rec /\ rec.name = RecordRoute
  OBVIOUS
<1>3. RecordedHdrs(h, x) = E
  BY DEF RecordedHdrs
<1> HIDE DEF dels, adds, rec
<1>4. Len(dels) \in Nat /\ Len(adds) \in Nat
  BY <1>1, <1>2
<1>5. PICK g : Listing(g, h, dels, adds) /\ list = g[Len(dels) + Len(adds)]
  BY <1>4, ListingIs
<1>6. list = g[3]
  BY <1>1, <1>2, <1>5
<1> HIDE DEF list
<1>7. WithRecord(list, h, rec)
  <2>1. adds[1].name = RecordRoute
    BY <1>2
  <2>2. WithRecord(g[3], h, adds[1])
    BY <1>1, <1>2, <1>5, <2>1, AdditionListed
  <2> QED
    BY <1>2, <1>6, <2>2
<1>8. Len(list) \in Nat \ {0}
  BY <1>7 DEF WithRecord
<1>9. list = ModifyList(h, dels, adds)
  BY DEF list
<1>10. \E c : Copying(c, h, list) /\ E = CopiedTo(h, c[Len(list)], Len(h))
  BY <1>4, <1>8, <1>9, CopyingIs
<1> QED
  BY <1>3, <1>7, <1>8, <1>10 DEF rec

\* One step of a copy that may stand in the middle of a line, or behind an empty one.
Done == TRUE

LEMMA SkippedIs ==
    ASSUME NEW h, NEW x, NEW o, NEW f, NEW q, NEW e
    PROVE  \E ff, qq : SkippedLine(h, CopyOf(o, f, q, e), x) =
                           CopyOf(CopiedTo(h, CopyOf(o, f, q, e), x.pos - 1), ff, qq, e)
<1> DEFINE c == CopyOf(o, f, q, e)
           oo == CopiedTo(h, c, x.pos - 1)
           n == x.pos + 1
           s == Moved(c, oo, n)
           fr == <<Line(Fragment, <<>>)>>
           v == <<Line(Via, WithoutFirst(h[x.pos].vals))>>
           w == FirstLine(h, Via) + 1
<1>1. \/ SkippedLine(h, c, x) = s
      \/ SkippedLine(h, c, x) = [s EXCEPT !.part = v]
      \/ SkippedLine(h, c, x) = [s EXCEPT !.part = fr, !.from = w]
  BY DEF SkippedLine, Moved
<1> HIDE DEF oo, n, fr, v, w
<1>2. s = CopyOf(oo, n, <<>>, e)
  BY CopyMoved
<1> HIDE DEF s, c
<1>3. [s EXCEPT !.part = v] = CopyOf(oo, n, v, e)
  BY <1>2 DEF CopyOf
<1>4. [s EXCEPT !.part = fr] = CopyOf(oo, n, fr, e)
  BY <1>2 DEF CopyOf
<1>5. [CopyOf(oo, n, fr, e) EXCEPT !.from = w] = CopyOf(oo, w, fr, e)
  BY DEF CopyOf
<1>6. [s EXCEPT !.part = fr, !.from = w] = [[s EXCEPT !.part = fr] EXCEPT !.from = w]
  OBVIOUS
<1>7. [s EXCEPT !.part = fr, !.from = w] = CopyOf(oo, w, fr, e)
  BY Zenon, <1>4, <1>5, <1>6
<1>8. \/ SkippedLine(h, c, x) = CopyOf(oo, n, <<>>, e)
      \/ SkippedLine(h, c, x) = CopyOf(oo, n, v, e)
      \/ SkippedLine(h, c, x) = CopyOf(oo, w, fr, e)
  BY Zenon, <1>1, <1>2, <1>3, <1>7
<1>9. \E ff, qq : SkippedLine(h, c, x) = CopyOf(oo, ff, qq, e)
  BY Zenon, <1>8
<1> QED
  BY <1>9 DEF c, oo

\* A value with a line break of its own, and what becomes of the rest.
LEMMA WrittenHere ==
    ASSUME NEW h, NEW x, NEW o, NEW f, NEW q, x.pos < Eof(h), x.ends = TRUE
    PROVE  WrittenLine(h, CopyOf(o, f, q, Open), x) =
               CopyOf(o \o <<Line(x.name, <<x.val>>)>>, f, q, Done)
<1> DEFINE c == CopyOf(o, f, q, Open)
           l == <<Line(x.name, <<x.val>>)>>
           oo == Written(c, l)
           ee == c.ended \/ x.ends
<1>1. WrittenLine(h, c, x) = Behind(c, oo, ee)
  BY DEF WrittenLine, Behind
<1>2. oo = o \o l
  BY DEF Written, CopyOf, Open
<1>3. ee = Done
  BY DEF Done
<1> HIDE DEF oo, ee, l
<1>4. Behind(c, oo, ee) = CopyOf(oo, f, q, ee)
  BY CopyBehind
<1>5. WrittenLine(h, c, x) = CopyOf(oo, f, q, Done)
  BY <1>1, <1>3, <1>4
<1> QED
  BY <1>2, <1>5 DEF c, l

LEMMA DoneStays ==
    \A h, o, f, q, n : CopiedTo(h, CopyOf(o, f, q, Done), n) = o
<1> TAKE h, o, f, q, n
<1>1. CopyOf(o, f, q, Done).ended = Done /\ CopyOf(o, f, q, Done).out = o
  BY DEF CopyOf
<1> QED
  BY <1>1 DEF CopiedTo, Written, Done

LEMMA DoneSkips ==
    \A h, x, o, f, q : \E ff, qq : SkippedLine(h, CopyOf(o, f, q, Done), x) = CopyOf(o, ff, qq, Done)
<1> TAKE h, x, o, f, q
<1> DEFINE n == x.pos - 1
<1>1. PICK ff, qq : SkippedLine(h, CopyOf(o, f, q, Done), x) =
                        CopyOf(CopiedTo(h, CopyOf(o, f, q, Done), n), ff, qq, Done)
  BY SkippedIs
<1> HIDE DEF n
<1>2. CopiedTo(h, CopyOf(o, f, q, Done), n) = o
  BY DoneStays
<1> QED
  BY <1>1, <1>2

\* With a place, the addition is the last header line: what was to be deleted in
\* front of it is gone, with what stood before that copied, and the rest is body.
LEMMA RequestEnded ==
    ASSUME NEW S, NEW h \in Seq(S), h # <<>>, h[1].name = Via, WithoutFirst(h[1].vals) = <<>>,
           HasPlace(h), NEW x
    PROVE  RecordedHdrs(h, x) =
               (IF Has(h, Route) /\ ~(PlaceToAdd(h, RecordRoute) < FirstLine(h, Route))
                THEN SubSeq(h, 2, FirstLine(h, Route) - 1) ELSE <<>>)
                   \o <<Line(RecordRoute, <<x>>)>>
<1> DEFINE q == FirstLine(h, Route)
           p == PlaceToAdd(h, RecordRoute)
           a == SubSeq(h, 2, q - 1)
           rr == <<Line(RecordRoute, <<x>>)>>
           rec == [name |-> RecordRoute, val |-> x, ends |-> TRUE]
           A == Addition(h, rec)
           R == Deletion(h, RouteTop)
           E == RecordedHdrs(h, x)
<1>1. rec.val = x /\ rec.ends = TRUE
  OBVIOUS
<1>2. PICK list, c :
          /\ WithRecord(list, h, rec)
          /\ Len(list) \in Nat \ {0}
          /\ Copying(c, h, list)
          /\ E = CopiedTo(h, c[Len(list)], Len(h))
  BY RecordedCopy
<1> HIDE DEF rec, E
<1>3. /\ A.pos = p /\ A.del = FALSE /\ A.name = RecordRoute /\ A.val = x /\ A.ends = TRUE
      /\ Len(list) = IF Has(h, Route) THEN 3 ELSE 2
      /\ list[1] = Deletion(h, ViaTop)
      /\ ~Has(h, Route) => list[2] = A
      /\ Has(h, Route) /\ p < q => list[2] = A /\ list[3] = R
      /\ Has(h, Route) /\ ~(p < q) => list[2] = R /\ list[3] = A
  BY <1>1, <1>2 DEF WithRecord
<1>4. R.del = TRUE /\ R.pos = q
  BY DEF Deletion, RouteTop
<1>5. p < Eof(h)
  BY RecordedPlace DEF HasPlace
<1> HIDE DEF A, R, p
<1>6. IsCopy(c[1]) /\ c[1].out = <<>> /\ c[1].from = 2
  BY <1>2, <1>3, ViaSkipped
<1>7. c[1] = CopyOf(<<>>, 2, <<>>, Open)
  BY <1>6 DEF IsCopy
<1>8. \A o, f, k : WrittenLine(h, CopyOf(o, f, k, Open), A) = CopyOf(o \o rr, f, k, Done)
  <2> TAKE o, f, k
  <2>1. WrittenLine(h, CopyOf(o, f, k, Open), A) = CopyOf(o \o <<Line(A.name, <<A.val>>)>>, f, k, Done)
    <3>1. A.pos < Eof(h) /\ A.ends = TRUE
      BY <1>3, <1>5
    <3> QED
      BY Zenon, <3>1, WrittenHere
  <2> QED
    BY <1>3, <2>1
<1> HIDE DEF rr
<1>9. ASSUME Has(h, Route), ~(p < q)
      PROVE  E = a \o rr
  <2>1. Len(list) = 3 /\ list[2] = R /\ list[3] = A
    BY <1>3, <1>9
  <2>2. c[2] = SkippedLine(h, c[1], R) /\ c[3] = WrittenLine(h, c[2], A)
    <3>1. 2 \in 1..Len(list) /\ 3 \in 1..Len(list) /\ 2 - 1 = 1 /\ 3 - 1 = 2
      BY <2>1
    <3>2. c[2] = IF list[2].del THEN SkippedLine(h, c[2 - 1], list[2]) ELSE WrittenLine(h, c[2 - 1], list[2])
      BY <1>2, <3>1 DEF Copying
    <3>3. c[3] = IF list[3].del THEN SkippedLine(h, c[3 - 1], list[3]) ELSE WrittenLine(h, c[3 - 1], list[3])
      BY <1>2, <3>1 DEF Copying
    <3> QED
      BY <1>3, <1>4, <2>1, <3>1, <3>2, <3>3
  <2> DEFINE d == CopyOf(<<>>, 2, <<>>, Open)
             n == R.pos - 1
  <2>3. PICK ff, qq : SkippedLine(h, d, R) = CopyOf(CopiedTo(h, d, n), ff, qq, Open)
    BY SkippedIs
  <2>4. CopiedTo(h, d, n) = a
    <3>1. q \in Int
      BY <1>9, FirstLineIs
    <3>2. n = q - 1 /\ n \in Int
      BY <1>4, <3>1
    <3>3. IsCopy(c[1]) /\ c[1] = d
      BY <1>6, <1>7
    <3> HIDE DEF d, n
    <3>4. CopiedTo(h, c[1], n) = c[1].out \o SubSeq(h, c[1].from, n)
      BY <3>2, <3>3, CopiedOpen
    <3>5. CopiedTo(h, d, n) = <<>> \o SubSeq(h, 2, n)
      BY <1>6, <3>3, <3>4
    <3>6. <<>> \o SubSeq(h, 2, n) = SubSeq(h, 2, n)
      BY <3>2
    <3> QED
      BY <3>2, <3>5, <3>6
  <2> HIDE DEF a, d, n
  <2>5. c[2] = CopyOf(a, ff, qq, Open)
    BY <1>7, <2>2, <2>3, <2>4 DEF d
  <2>6. c[3] = CopyOf(a \o rr, ff, qq, Done)
    BY <1>8, <2>2, <2>5
  <2>7. E = CopiedTo(h, c[3], Len(h))
    BY <1>2, <2>1
  <2> DEFINE o == a \o rr
  <2>8. \A k : CopiedTo(h, CopyOf(o, ff, qq, Done), k) = o
    <3> HIDE DEF o
    <3> QED
      BY DoneStays
  <2> QED
    BY <2>6, <2>7, <2>8
<1>10. ASSUME ~(Has(h, Route) /\ ~(p < q))
       PROVE  E = <<>> \o rr
  <2>1. list[2] = A /\ 2 \in 1..Len(list)
    BY <1>3, <1>10
  <2>2. c[2] = CopyOf(<<>> \o rr, 2, <<>>, Done)
    <3>1. c[2] = IF list[2].del THEN SkippedLine(h, c[2 - 1], list[2]) ELSE WrittenLine(h, c[2 - 1], list[2])
      BY <1>2, <2>1 DEF Copying
    <3>2. c[2] = WrittenLine(h, c[1], A)
      BY <1>3, <2>1, <3>1
    <3> QED
      BY <1>7, <1>8, <3>2
  <2> DEFINE o == <<>> \o rr
             d == CopyOf(o, 2, <<>>, Done)
  <2>3. \A i, f, k : CopiedTo(h, CopyOf(o, f, k, Done), i) = o
    BY DoneStays
  <2>4. CASE ~Has(h, Route)
    <3>1. E = CopiedTo(h, c[2], Len(h))
      BY <1>2, <1>3, <2>4
    <3> HIDE DEF o
    <3> QED
      BY <2>2, <2>3, <3>1 DEF o
  <2>5. CASE Has(h, Route)
    <3>1. Len(list) = 3 /\ list[3] = R /\ 3 \in 1..Len(list) /\ 3 - 1 = 2
      BY <1>3, <1>10, <2>5
    <3>2. c[3] = SkippedLine(h, d, R)
      <4>1. c[3] = IF list[3].del THEN SkippedLine(h, c[3 - 1], list[3]) ELSE WrittenLine(h, c[3 - 1], list[3])
        BY <1>2, <3>1 DEF Copying
      <4> QED
        BY <1>4, <2>2, <3>1, <4>1
    <3> HIDE DEF o
    <3>3. PICK ff, qq : SkippedLine(h, d, R) = CopyOf(o, ff, qq, Done)
      BY DoneSkips
    <3>4. c[3] = CopyOf(o, ff, qq, Done)
      BY <3>2, <3>3
    <3>5. E = CopiedTo(h, c[3], Len(h))
      BY <1>2, <3>1
    <3> QED
      BY <2>3, <3>4, <3>5 DEF o
  <2> QED
    BY <2>4, <2>5
<1>11. E = (IF Has(h, Route) /\ ~(p < q) THEN a ELSE <<>>) \o rr
  BY <1>9, <1>10
<1> QED
  BY <1>11 DEF E, p, rr

IsPlaced(h, x) == x.pos < Eof(h)

\* What is written in all when there is no change any more.
Leads(h, c, w) ==
    \E o, f, k : c = CopyOf(o, f, k, Open) /\ w = o \o (k \o SubSeq(h, f, Len(h)))

\* Without a place, the addition goes behind the body: all that was not copied yet
\* is copied before it.
LEMMA WrittenBehind ==
    ASSUME NEW S, NEW h \in Seq(S), NEW x, ~IsPlaced(h, x),
           NEW c, NEW w \in Seq(S), Leads(h, c, w)
    PROVE  CopiedTo(h, WrittenLine(h, c, x), Len(h)) = w
<1> PICK o, f, k : c = CopyOf(o, f, k, Open) /\ w = o \o (k \o SubSeq(h, f, Len(h)))
  BY DEF Leads
<1> DEFINE oo == CopiedTo(h, c, Len(h))
           n == Eof(h)
           d == CopyOf(oo, n, <<>>, Open)
<1>1. WrittenLine(h, c, x) = Moved(c, oo, n)
  BY DEF WrittenLine, Moved, IsPlaced
<1>2. oo = w
  BY DEF CopiedTo, Written, CopyOf, Open
<1> HIDE DEF oo, n
<1>3. Moved(c, oo, n) = d
  BY CopyMoved
<1>4. n \in Int /\ SubSeq(h, n, Len(h)) = <<>>
  BY LenProperties, SubSeqEmpty DEF Eof, n
<1>5. IsCopy(d) /\ d.out = oo /\ d.from = n
  BY <1>4, CopyIs
<1> HIDE DEF d
<1>6. CopiedTo(h, d, Len(h)) = oo \o <<>>
  BY <1>4, <1>5, CopiedToEnd
<1>7. oo \o <<>> = oo
  BY <1>2, ConcatEmptySeq
<1> QED
  BY <1>1, <1>2, <1>3, <1>6, <1>7

LEMMA RecordedBehind ==
    ASSUME NEW S, NEW h \in Seq(S), h # <<>>, h[1].name = Via, WithoutFirst(h[1].vals) = <<>>,
           ~HasPlace(h), NEW x
    PROVE  LET A == Addition(h, [name |-> RecordRoute, val |-> x, ends |-> TRUE])
               c == CopyOf(<<>>, 2, <<>>, Open)
               d == IF Has(h, Route) THEN SkippedLine(h, c, Deletion(h, RouteTop)) ELSE c
           IN  RecordedHdrs(h, x) = CopiedTo(h, WrittenLine(h, d, A), Len(h)) /\ ~IsPlaced(h, A)
<1> DEFINE q == FirstLine(h, Route)
           p == PlaceToAdd(h, RecordRoute)
           rec == [name |-> RecordRoute, val |-> x, ends |-> TRUE]
           A == Addition(h, rec)
           R == Deletion(h, RouteTop)
           V == Deletion(h, ViaTop)
           E == RecordedHdrs(h, x)
<1>1. PICK list, c :
          /\ WithRecord(list, h, rec)
          /\ Len(list) \in Nat \ {0}
          /\ Copying(c, h, list)
          /\ E = CopiedTo(h, c[Len(list)], Len(h))
  BY RecordedCopy
<1> HIDE DEF rec, E
<1>2. ~(p < Eof(h)) /\ p \in Nat /\ Len(h) \in Nat
  BY RecordedPlace, LenProperties DEF HasPlace
<1>11. ~IsPlaced(h, A)
  BY <1>2 DEF IsPlaced, Addition, rec
<1>3. Has(h, Route) => ~(p < q)
  BY <1>2, FirstLineIs DEF Eof
<1>4. /\ A.pos = p /\ A.del = FALSE
      /\ Len(list) = IF Has(h, Route) THEN 3 ELSE 2
      /\ list[1] = V
      /\ ~Has(h, Route) => list[2] = A
      /\ Has(h, Route) => list[2] = R /\ list[3] = A
  BY <1>1, <1>3 DEF WithRecord
<1>5. R.del = TRUE
  BY DEF Deletion, RouteTop
<1>6. c[1] = CopyOf(<<>>, 2, <<>>, Open)
  BY <1>1, <1>4, ViaSkipped DEF IsCopy
<1> HIDE DEF A, R, V, p
<1>7. \A i \in 1..Len(list) : c[i] = IF list[i].del THEN SkippedLine(h, c[i - 1], list[i])
                                     ELSE WrittenLine(h, c[i - 1], list[i])
  BY <1>1 DEF Copying
<1>8. 2 \in 1..Len(list) /\ 2 - 1 = 1
  BY <1>4
<1>9. CASE ~Has(h, Route)
  <2>1. c[2] = WrittenLine(h, c[1], A)
    BY <1>4, <1>7, <1>8, <1>9
  <2>2. E = CopiedTo(h, c[2], Len(h))
    BY <1>1, <1>4, <1>9
  <2> QED
    BY <1>11, <1>6, <1>9, <2>1, <2>2 DEF A, E, rec
<1>10. CASE Has(h, Route)
  <2>1. c[2] = SkippedLine(h, c[1], R)
    BY <1>4, <1>5, <1>7, <1>8, <1>10
  <2>2. 3 \in 1..Len(list) /\ 3 - 1 = 2
    BY <1>4, <1>10
  <2>3. c[3] = WrittenLine(h, c[2], A)
    BY <1>4, <1>7, <1>10, <2>2
  <2>4. E = CopiedTo(h, c[3], Len(h))
    BY <1>1, <1>4, <1>10
  <2> QED
    BY <1>11, <1>6, <1>10, <2>1, <2>3, <2>4 DEF A, E, rec, R
<1> QED
  BY <1>9, <1>10

\* Then what was not deleted stays as it is,
LEMMA RequestKept ==
    ASSUME NEW S, NEW h \in Seq(S), h # <<>>, h[1].name = Via, WithoutFirst(h[1].vals) = <<>>,
           Has(h, Route) => WithoutFirst(h[FirstLine(h, Route)].vals) = <<>>,
           ~HasPlace(h), NEW x
    PROVE  LET e == RecordedHdrs(h, x)
           IN  e \in Seq(S) /\ \A name : LinesOf(e, name) = Kept(h, name)
<1> DEFINE q == FirstLine(h, Route)
           a == SubSeq(h, 2, q - 1)
           b == SubSeq(h, q + 1, Len(h))
           r == SubSeq(h, 2, Len(h))
           A == Addition(h, [name |-> RecordRoute, val |-> x, ends |-> TRUE])
           R == Deletion(h, RouteTop)
           E == RecordedHdrs(h, x)
           c == CopyOf(<<>>, 2, <<>>, Open)
<1>1. /\ E = CopiedTo(h, WrittenLine(h, IF Has(h, Route) THEN SkippedLine(h, c, R) ELSE c, A), Len(h))
      /\ ~IsPlaced(h, A)
  BY RecordedBehind
<1>2. /\ r \in Seq(S)
      /\ ~Has(h, Route) => \A name : Kept(h, name) = LinesOf(r, name)
      /\ Has(h, Route) => /\ a \in Seq(S) /\ b \in Seq(S) /\ q \in 2..Len(h)
                          /\ \A name : Kept(h, name) = LinesOf(a, name) \o LinesOf(b, name)
  BY KeptAround
<1>3. IsCopy(c) /\ c.out = <<>> /\ c.from = 2
  BY CopyIs
<1>4. R.pos = q
  BY DEF Deletion, RouteTop
<1> HIDE DEF A, E, R
<1>5. CASE ~Has(h, Route)
  <2>1. E = CopiedTo(h, WrittenLine(h, c, A), Len(h))
    BY <1>1, <1>5
  <2> DEFINE o == <<>>
             k == <<>>
  <2>2. o \o (k \o r) = r
    BY <1>2, ConcatEmptySeq
  <2>3. c = CopyOf(o, 2, k, Open)
    OBVIOUS
  <2>6. r = o \o (k \o SubSeq(h, 2, Len(h)))
    BY <2>2
  <2> HIDE DEF o, k, c, r
  <2>7. Leads(h, c, r)
    BY <2>3, <2>6 DEF Leads
  <2>4. CopiedTo(h, WrittenLine(h, c, A), Len(h)) = r
    BY <1>1, <1>2, <2>7, WrittenBehind
  <2>5. E = r
    BY <2>1, <2>4
  <2> QED
    BY <1>2, <1>5, <2>5 DEF E
<1>6. CASE Has(h, Route)
  <2>1. E = CopiedTo(h, WrittenLine(h, SkippedLine(h, c, R), A), Len(h))
    BY <1>1, <1>6
  <2> DEFINE o == <<>> \o a
             k == <<>>
             f == q + 1
  <2>2. q \in Int
    BY <1>2, <1>6
  <2>3. SkippedLine(h, c, R) = AfterSkip(h, c, R)
    <3> HIDE DEF c
    <3> QED
      BY <1>3, <1>4, <1>6, <2>2, LineSkipped
  <2>4. SkippedLine(h, c, R) = CopyOf(o, f, k, Open)
    BY <1>3, <1>4, <2>3 DEF AfterSkip
  <2>5. a \in Seq(S) /\ b \in Seq(S)
    BY <1>2, <1>6
  <2>6. b = SubSeq(h, f, Len(h))
    OBVIOUS
  <2> HIDE DEF a, b, c, f
  <2>7. o \o (k \o b) = a \o b /\ a \o b \in Seq(S)
    BY <2>5, ConcatEmptySeq, ConcatProperties
  <2> DEFINE w == a \o b
             g == SkippedLine(h, c, R)
  <2>11. w = o \o (k \o SubSeq(h, f, Len(h))) /\ w \in Seq(S) /\ g = CopyOf(o, f, k, Open)
    BY <2>4, <2>6, <2>7
  <2> HIDE DEF o, k, w, g
  <2>12. Leads(h, g, w)
    BY <2>11 DEF Leads
  <2>8. CopiedTo(h, WrittenLine(h, g, A), Len(h)) = w
    BY <1>1, <2>11, <2>12, WrittenBehind
  <2>9. E = a \o b
    BY <2>1, <2>8 DEF w, g
  <2>10. \A name : LinesOf(a \o b, name) = LinesOf(a, name) \o LinesOf(b, name)
    BY <2>5, LinesOfConcat
  <2> QED
    BY <1>2, <1>6, <2>7, <2>9, <2>10 DEF E, a, b
<1> QED
  BY <1>5, <1>6

\* or the copy goes on in the middle of the top line, if there are several Routes
\* on it, and what comes of it is no message.
LEMMA RequestCut ==
    ASSUME NEW S, NEW h \in Seq(S), h # <<>>, h[1].name = Via, WithoutFirst(h[1].vals) = <<>>,
           Has(h, Route), WithoutFirst(h[FirstLine(h, Route)].vals) # <<>>,
           ~HasPlace(h), NEW x, Line(Fragment, <<>>) \in S
    PROVE  RecordedHdrs(h, x) \in Seq(S)
<1> DEFINE q == FirstLine(h, Route)
           a == SubSeq(h, 2, q - 1)
           r == SubSeq(h, 2, Len(h))
           A == Addition(h, [name |-> RecordRoute, val |-> x, ends |-> TRUE])
           R == Deletion(h, RouteTop)
           E == RecordedHdrs(h, x)
           c == CopyOf(<<>>, 2, <<>>, Open)
           o == CopiedTo(h, c, R.pos - 1)
           k == <<Line(Fragment, <<>>)>>
<1>1. E = CopiedTo(h, WrittenLine(h, SkippedLine(h, c, R), A), Len(h)) /\ ~IsPlaced(h, A)
  BY RecordedBehind
<1>2. r \in Seq(S) /\ a \in Seq(S) /\ q \in 2..Len(h)
  BY KeptAround
<1>3. IsCopy(c) /\ c.out = <<>> /\ c.from = 2
  BY CopyIs
<1>4. R.pos = q /\ R.top = TRUE /\ R.name = Route /\ Route # Via
  BY NamesApart DEF Deletion, RouteTop
<1>5. FirstLine(h, Via) = 1
  BY FirstOnTop
<1> HIDE DEF A, E, R
<1>6. SkippedLine(h, c, R) = CopyOf(o, 2, k, Open)
  <2> DEFINE n == R.pos + 1
             s == Moved(c, o, n)
             d == CopyOf(o, n, <<>>, Open)
  <2>1. SkippedLine(h, c, R) = [s EXCEPT !.part = k, !.from = FirstLine(h, Via) + 1]
    BY <1>4 DEF SkippedLine, Moved
  <2> HIDE DEF o, n, k
  <2>2. s = d
    BY CopyMoved
  <2>3. SkippedLine(h, c, R) = [s EXCEPT !.part = k, !.from = 2]
    BY <1>5, <2>1
  <2> HIDE DEF s, c
  <2>4. [s EXCEPT !.part = k] = CopyOf(o, n, k, Open)
    BY <2>2 DEF CopyOf
  <2>5. [CopyOf(o, n, k, Open) EXCEPT !.from = 2] = CopyOf(o, 2, k, Open)
    BY DEF CopyOf
  <2>6. [s EXCEPT !.part = k, !.from = 2] = [[s EXCEPT !.part = k] EXCEPT !.from = 2]
    OBVIOUS
  <2> QED
    BY Zenon, <2>3, <2>4, <2>5, <2>6
<1>7. o \in Seq(S)
  <2> DEFINE n == R.pos - 1
  <2>1. n = q - 1 /\ n \in Int
    BY <1>2, <1>4
  <2> HIDE DEF n, c
  <2>2. CopiedTo(h, c, n) = c.out \o SubSeq(h, c.from, n)
    BY <1>3, <2>1, CopiedOpen
  <2>3. CopiedTo(h, c, n) = <<>> \o a
    BY <1>3, <2>1, <2>2
  <2> HIDE DEF a
  <2>4. <<>> \o a = a
    BY <1>2, ConcatEmptySeq
  <2> QED
    BY <1>2, <2>3, <2>4 DEF n
<1>8. k \in Seq(S)
  OBVIOUS
<1>9. r = SubSeq(h, 2, Len(h))
  OBVIOUS
<1> DEFINE w == o \o (k \o r)
           g == SkippedLine(h, c, R)
<1> HIDE DEF o, k, r, c
<1>10. w \in Seq(S)
  BY <1>2, <1>7, <1>8, ConcatProperties
<1>13. w = o \o (k \o SubSeq(h, 2, Len(h))) /\ g = CopyOf(o, 2, k, Open)
  BY <1>6, <1>9
<1> HIDE DEF w, g
<1>14. Leads(h, g, w)
  BY <1>13 DEF Leads
<1>11. CopiedTo(h, WrittenLine(h, g, A), Len(h)) = w
  BY <1>1, <1>10, <1>14, WrittenBehind
<1>12. E \in Seq(S)
  BY <1>1, <1>10, <1>11 DEF g
<1> QED
  BY <1>12 DEF E

------------------------------------------------------------------------------
(* The inductive invariant.                                                    *)

IPs       == Nodes \cup {NatBox}
Addresses == [ip : IPs, port : {1, 2}]
ViaValues == [sentBy : Addresses, rport : BOOLEAN, received : IPs \cup {None}]
Hops      == Nodes \cup {Odi}

\* The lines that headers are made of.  Only Routes stand on a line together.
HeaderLines ==
    [name : {Via}, vals : {<<v>> : v \in ViaValues}]
        \cup [name : {Route}, vals : Seq(Hops) \ {<<>>}]
        \cup [name : {RecordRoute}, vals : {<<p>> : p \in Proxies}]
        \cup [name : {Identity}, vals : {<<"sip">>, <<"tel">>}]
        \cup [name : {CallId}, vals : {<<None>>}]
        \cup [name : {Length}, vals : {<<0>>}]
        \cup [name : {Fragment}, vals : {<<>>}]

\* The way an initial request has come.
Passers == Proxies \cup {Scscf, AppServer}
IsTrail(t) == t \in Seq(Nodes) /\ t # <<>> /\ t[1] = Caller /\ \A i \in 2..Len(t) : t[i] \in Passers

\* The caller's Via, as the first hop passes it on.
CallerMarked ==
    IF setup.rport THEN [CallerVia EXCEPT !.received = setup.source.ip] ELSE CallerVia

\* The top Vias are those of the nodes that were passed, the last one first; what
\* is below them is left over.
ViaPath(h, t) ==
    LET v == LinesOf(h, Via)
        n == Len(t) IN
    /\ Len(v) >= n
    /\ \A i \in 1..n - 1 : v[i] = Line(Via, <<ViaOf(AddrOf(t[n + 1 - i]))>>)
    /\ n >= 2 => v[n] = Line(Via, <<CallerMarked>>)

\* What becomes of the proxies that recorded themselves: each one cuts off what the
\* one before has written, or all of them write behind the body.
RouteSetOf(r) == IF setup.length /\ r # <<>> THEN <<r[Len(r)]>> ELSE <<>>
RecordsOf(r)  == Singles(RecordRoute, RouteSetOf(r))

IsRequest(h) == h # <<>> /\ h[1].name = Via
RoutesAre(h, routes) == LinesOf(h, Route) = Singles(Route, routes)

TypeInv ==
    /\ TypeOK
    /\ src \in Addresses
    /\ m \in [uri : Nodes \cup {NoUri}, limit : Int, hdrs : Seq(HeaderLines)]
    /\ trail \in Seq(Nodes) /\ recorded \in Seq(Proxies)
    /\ answered \in BOOLEAN

IdleInv ==
    phase = "idle" =>
        kind = "initial" /\ at = Caller /\ trail = <<>> /\ recorded = <<>> /\ ~answered

\* The calls of GetsThrough.
IsServed ==
    /\ setup.through = "proxies" /\ Len(setup.routes) < 2
    /\ \A p \in Proxies : setup.build[p] = "registrar"
    /\ KeepsHeaders

\* What there is left of the headers of a request for which the proxies r have
\* recorded themselves.
Remains(h, r) ==
    /\ ~setup.length \/ (IsServed /\ Len(r) = 1) => Has(h, CallId)
    /\ ~Has(h, Fragment)

\* An initial request for u with the headers h, at the node a behind the trail t.
AmongProxies(h, t, a, u, r) ==
    /\ a \in Proxies \cup {Callee}
    /\ u \in Proxies \cup {Callee, NoUri}
    /\ u = NoUri => \E p \in Proxies : setup.build[p] = "nextHop"
    /\ Len(t) = 1 => a = First /\ h = Request(CallerVia, setup.routes) /\ r = <<>>
    /\ Len(t) # 1 => /\ LinesOf(h, Route) = <<>> /\ Remains(h, r) /\ r # <<>>
                     /\ ~setup.length => ~Has(h, Length)
                     /\ setup.length /\ IsServed => r = <<First>> /\ a \in {First, Callee}

AmongServers(h, t, a) ==
    /\ Readable(h)
    /\ \/ a = Scscf /\ Len(t) = 1 /\ h = Request(CallerVia, <<Scscf>>)
       \/ a = AppServer /\ Len(t) # 1 /\ RoutesAre(h, <<AppServer, Odi>>)
       \/ a = Scscf /\ Len(t) # 1 /\ RoutesAre(h, <<Odi>>)
       \/ a = Callee /\ Len(t) # 1 /\ RoutesAre(h, <<>>)

Initial(h, t, a, s, u, r) ==
    /\ IsTrail(t) /\ IsRequest(h)
    /\ LinesOf(h, RecordRoute) = RecordsOf(r)
    /\ Len(t) = 1 => s = setup.source
    /\ Len(t) # 1 => ViaPath(h, t)
    /\ setup.through = "proxies" => AmongProxies(h, t, a, u, r)
    /\ setup.through = "scscf"   => AmongServers(h, t, a)

RequestInv ==
    phase = "request" /\ kind = "initial" =>
        ~answered /\ Initial(m.hdrs, trail, at, src, m.uri, recorded)

\* An answer with the headers h that the trail t leads back from.
Returning(h, t) == IsTrail(t) /\ Readable(h) /\ (Len(t) # 1 => ViaPath(h, t))

AnswerInv ==
    phase = "answer" =>
        /\ kind = "initial" /\ Returning(m.hdrs, trail)
        /\ \/ at = Last(trail)
           \/ at = Nowhere /\ Last(trail) = Caller /\ ~Reachable

AnsweredInv ==
    answered =>
        /\ routeSet = RouteSetOf(recorded)
        /\ phase \in {"answer", "heard"} => LinesOf(m.hdrs, RecordRoute) = RecordsOf(recorded)

\* A request inside the dialog: its ends and the Route it starts with, if any.
From(k) == IF k = "fromCaller" THEN Caller ELSE Callee
To(k)   == IF k = "fromCaller" THEN Callee ELSE Caller
Starts(h, plan) == \E via \in ViaValues : h = Request(via, plan)

\* Where the request with the headers h is that has come along t.
InDialog(h, t, a, k, plan) ==
    \/ plan = <<>> /\ t = <<From(k)>> /\ a = To(k) /\ Starts(h, plan)
    \/ plan # <<>> /\ t = <<From(k)>> /\ a = plan[1] /\ Starts(h, plan)
    \/ /\ plan # <<>> /\ t = <<From(k), plan[1]>> /\ a = To(k)
       /\ LinesOf(h, Route) = <<>> /\ (setup.routesLast => Readable(h))

AsksInv ==
    phase = "asks" =>
        /\ kind # "initial" /\ trail = <<>>
        /\ at = From(kind) /\ m.uri = To(kind)
        /\ Starts(m.hdrs, RouteSetOf(recorded))

DialogInv ==
    kind # "initial" =>
        /\ answered /\ setup.through = "proxies"
        /\ phase = "request" =>
              m.uri = To(kind) /\ InDialog(m.hdrs, trail, at, kind, RouteSetOf(recorded))
        /\ phase = "over" =>
              Append(trail, at) = <<From(kind)>> \o RouteSetOf(recorded) \o <<To(kind)>>

IInv ==
    /\ TypeInv /\ IdleInv /\ RequestInv /\ AnswerInv /\ AnsweredInv
    /\ AsksInv /\ DialogInv /\ GetsThrough

------------------------------------------------------------------------------
(* The nodes and their addresses.                                              *)

LEMMA NodesApart ==
    /\ First \in Proxies
    /\ Caller \notin Proxies /\ Callee \notin Proxies /\ Scscf \notin Proxies
    /\ AppServer \notin Proxies /\ Odi \notin Proxies /\ NatBox \notin Proxies
    /\ Nowhere \notin Proxies /\ NoUri \notin Proxies /\ None \notin Proxies
    /\ Caller # Callee /\ Caller # Scscf /\ Caller # AppServer /\ Caller # Odi
    /\ Caller # NatBox /\ Caller # Nowhere /\ Caller # NoUri /\ Caller # None
    /\ Callee # Scscf /\ Callee # AppServer /\ Callee # Odi /\ Callee # NatBox
    /\ Callee # Nowhere /\ Callee # NoUri /\ Callee # None
    /\ Scscf # AppServer /\ Scscf # Odi /\ Scscf # NatBox /\ Scscf # Nowhere
    /\ Scscf # NoUri /\ Scscf # None
    /\ AppServer # Odi /\ AppServer # NatBox /\ AppServer # Nowhere
    /\ AppServer # NoUri /\ AppServer # None
    /\ Odi # NatBox /\ Odi # Nowhere /\ Odi # NoUri /\ Odi # None
    /\ NatBox # Nowhere /\ NatBox # NoUri /\ NatBox # None
    /\ Nowhere # NoUri /\ Nowhere # None /\ NoUri # None
<1> DEFINE n == <<Caller, Callee, Scscf, AppServer, Odi, NatBox, Nowhere, NoUri, None>>
<1>1. First \in Proxies /\ \A i \in 1..9 : n[i] \notin Proxies /\ \A j \in 1..9 : i # j => n[i] # n[j]
  BY PathAssumption
<1>2. /\ n[1] = Caller /\ n[2] = Callee /\ n[3] = Scscf /\ n[4] = AppServer /\ n[5] = Odi
      /\ n[6] = NatBox /\ n[7] = Nowhere /\ n[8] = NoUri /\ n[9] = None
  OBVIOUS
<1> HIDE DEF n
<1>3. \A i \in 1..9 : n[i] \notin Proxies
  BY <1>1
<1>4. \A i, j \in 1..9 : i < j => n[i] # n[j]
  BY <1>1
<1>5. /\ n[1] \notin Proxies /\ n[2] \notin Proxies /\ n[3] \notin Proxies
      /\ n[4] \notin Proxies /\ n[5] \notin Proxies /\ n[6] \notin Proxies
      /\ n[7] \notin Proxies /\ n[8] \notin Proxies /\ n[9] \notin Proxies
  BY <1>3
<1>6. \A j \in 2..9 : n[1] # n[j]
  BY <1>4
<1>7. \A j \in 3..9 : n[2] # n[j]
  BY <1>4
<1>8. \A j \in 4..9 : n[3] # n[j]
  BY <1>4
<1>9. \A j \in 5..9 : n[4] # n[j]
  BY <1>4
<1>10. \A j \in 6..9 : n[5] # n[j]
  BY <1>4
<1>11. \A j \in 7..9 : n[6] # n[j]
  BY <1>4
<1>12. n[7] # n[8] /\ n[7] # n[9] /\ n[8] # n[9]
  BY <1>4
<1>13. /\ n[1] # n[2] /\ n[1] # n[3] /\ n[1] # n[4] /\ n[1] # n[5] /\ n[1] # n[6]
       /\ n[1] # n[7] /\ n[1] # n[8] /\ n[1] # n[9]
  BY <1>6
<1>14. /\ n[2] # n[3] /\ n[2] # n[4] /\ n[2] # n[5] /\ n[2] # n[6]
       /\ n[2] # n[7] /\ n[2] # n[8] /\ n[2] # n[9]
  BY <1>7
<1>15. /\ n[3] # n[4] /\ n[3] # n[5] /\ n[3] # n[6] /\ n[3] # n[7] /\ n[3] # n[8] /\ n[3] # n[9]
  BY <1>8
<1>16. n[4] # n[5] /\ n[4] # n[6] /\ n[4] # n[7] /\ n[4] # n[8] /\ n[4] # n[9]
  BY <1>9
<1>17. n[5] # n[6] /\ n[5] # n[7] /\ n[5] # n[8] /\ n[5] # n[9]
  BY <1>10
<1>18. n[6] # n[7] /\ n[6] # n[8] /\ n[6] # n[9]
  BY <1>11
<1> QED
  BY <1>1, <1>2, <1>5, <1>12, <1>13, <1>14, <1>15, <1>16, <1>17, <1>18

LEMMA SetupIs ==
    ASSUME setup \in Setups
    PROVE  /\ setup.source \in Sources
           /\ setup.source \in Addresses
           /\ setup.source.ip \in {Caller, NatBox} /\ setup.source.port \in {1, 2}
           /\ setup.through \in {"proxies", "scscf"}
           /\ setup.rport \in BOOLEAN /\ setup.length \in BOOLEAN /\ setup.folded \in BOOLEAN
           /\ setup.routesLast \in BOOLEAN
           /\ setup.limit \in Int
           /\ setup.build \in [Proxies -> Builds]
           /\ setup.target \in [Proxies -> Proxies \cup {Callee, None}]
           /\ setup.routes \in Seq(Proxies) /\ Len(setup.routes) <= 2
           /\ Len(setup.routes) < 2 => setup.routes \in {<<>>, <<First>>}
<1>1. /\ setup.source \in Sources /\ setup.through \in {"proxies", "scscf"}
      /\ setup.rport \in BOOLEAN /\ setup.length \in BOOLEAN /\ setup.folded \in BOOLEAN
      /\ setup.routesLast \in BOOLEAN
      /\ setup.limit \in Limits
      /\ setup.build \in [Proxies -> Builds]
      /\ setup.target \in [Proxies -> Proxies \cup {Callee, None}]
      /\ setup.routes \in {<<>>, <<First>>} \cup {<<First, p>> : p \in Proxies \ {First}}
  BY DEF Setups
<1>2. setup.limit \in Int
  <2>1. Limits \subseteq 0..255
    BY PathAssumption
  <2>2. setup.limit \in 0..255
    BY <1>1, <2>1
  <2> QED
    BY <2>2
<1>3. /\ setup.source \in Addresses
      /\ setup.source.ip \in {Caller, NatBox} /\ setup.source.port \in {1, 2}
  BY <1>1 DEF Sources, AddrOf, Addresses, IPs, Nodes
<1>4. /\ setup.routes \in Seq(Proxies) /\ Len(setup.routes) <= 2
      /\ Len(setup.routes) < 2 => setup.routes \in {<<>>, <<First>>}
  <2>1. First \in Proxies
    BY NodesApart
  <2>2. CASE setup.routes = <<>>
    BY <2>2
  <2>3. CASE setup.routes = <<First>>
    BY <2>1, <2>3
  <2>4. ASSUME NEW p \in Proxies, setup.routes = <<First, p>>
        PROVE  setup.routes \in Seq(Proxies) /\ Len(setup.routes) = 2
    BY <2>1, <2>4
  <2> DEFINE r == setup.routes
  <2>5. CASE r \in {<<>>, <<First>>}
    BY <2>2, <2>3, <2>5
  <2>6. CASE r \in {<<First, p>> : p \in Proxies \ {First}}
    <3>1. r \in Seq(Proxies) /\ Len(r) = 2
      BY <2>4, <2>6
    <3> HIDE DEF r
    <3>2. Len(r) <= 2 /\ ~(Len(r) < 2)
      BY <3>1
    <3> QED
      BY <3>1, <3>2 DEF r
  <2> QED
    BY <1>1, <2>5, <2>6
<1> QED
  BY <1>1, <1>2, <1>3, <1>4

LEMMA NodeAtNode ==
    ASSUME setup \in Setups, NEW n \in Nodes, n # Caller
    PROVE  NodeAt(AddrOf(n)) = n
<1>1. AddrOf(n) # setup.source
  <2>1. AddrOf(n).ip = n /\ n \notin {Caller, NatBox}
    BY NodesApart DEF AddrOf, Nodes
  <2> QED
    BY <2>1, SetupIs
<1>2. \A k \in Nodes : AddrOf(k) = AddrOf(n) <=> k = n
  <2>1. \A k : AddrOf(k).ip = k
    BY DEF AddrOf
  <2> QED
    BY <2>1
<1>3. \E k \in Nodes \ {Caller} : AddrOf(k) = AddrOf(n)
  OBVIOUS
<1>4. (CHOOSE k \in Nodes : AddrOf(k) = AddrOf(n)) = n
  BY <1>2
<1> QED
  BY <1>1, <1>3, <1>4 DEF NodeAt

\* An address of the caller, or what looks like one.
LEMMA NodeAtCaller ==
    ASSUME NEW addr, addr.ip \notin Nodes \ {Caller}
    PROVE  NodeAt(addr) = IF addr = setup.source THEN Caller ELSE Nowhere
<1>1. ~\E n \in Nodes \ {Caller} : AddrOf(n) = addr
  BY DEF AddrOf
<1> QED
  BY <1>1 DEF NodeAt

LEMMA HopNode ==
    ASSUME setup \in Setups, NEW n \in Nodes, n # Caller
    PROVE  Hop(n) = n /\ Hop(n) # Nowhere
<1>1. n # Odi /\ n # Nowhere
  BY NodesApart DEF Nodes
<1> QED
  BY <1>1, NodeAtNode DEF Hop

LEMMA HopCaller ==
    ASSUME setup \in Setups
    PROVE  Hop(Caller) = IF setup.source = AddrOf(Caller) THEN Caller ELSE Nowhere
<1>1. Caller # Odi /\ AddrOf(Caller).ip = Caller
  BY NodesApart DEF AddrOf
<1>2. NodeAt(AddrOf(Caller)) = IF AddrOf(Caller) = setup.source THEN Caller ELSE Nowhere
  BY <1>1, NodeAtCaller
<1> QED
  BY <1>1, <1>2 DEF Hop

LEMMA HopOther ==
    ASSUME setup \in Setups
    PROVE  Hop(Odi) = Scscf /\ Hop(Nowhere) = Nowhere /\ Hop(NoUri) = Nowhere
<1>1. ASSUME NEW n \in {Nowhere, NoUri}
      PROVE  Hop(n) = Nowhere
  <2>1. n # Odi /\ n \notin Nodes /\ n \notin {Caller, NatBox} /\ AddrOf(n).ip = n
    BY NodesApart DEF Nodes, AddrOf
  <2>2. AddrOf(n) # setup.source
    BY <2>1, SetupIs
  <2>3. NodeAt(AddrOf(n)) = IF AddrOf(n) = setup.source THEN Caller ELSE Nowhere
    BY <2>1, NodeAtCaller
  <2> QED
    BY <2>1, <2>2, <2>3 DEF Hop
<1> QED
  BY <1>1 DEF Hop

------------------------------------------------------------------------------
(* The lines that headers are made of.                                         *)

LEMMA LineTypes ==
    /\ \A v \in ViaValues : Line(Via, <<v>>) \in HeaderLines
    /\ \A r \in Seq(Hops) : r # <<>> => Line(Route, r) \in HeaderLines
    /\ \A p \in Proxies : Line(RecordRoute, <<p>>) \in HeaderLines
    /\ Line(Identity, <<"sip">>) \in HeaderLines /\ Line(Identity, <<"tel">>) \in HeaderLines
    /\ Line(CallId, <<None>>) \in HeaderLines
    /\ Line(Length, <<0>>) \in HeaderLines
    /\ Line(Fragment, <<>>) \in HeaderLines
  BY DEF HeaderLines, Line

\* What any of them has for values.
AnyValue == ViaValues \cup Hops \cup {"sip", "tel", None, 0}

LEMMA LineIs ==
    ASSUME NEW l \in HeaderLines
    PROVE  /\ l.name \in Names \cup {Fragment}
           /\ l.name = Via => \E v \in ViaValues : l = Line(Via, <<v>>)
           /\ l.name = Route => l.vals \in Seq(Hops) /\ l.vals # <<>>
           /\ l.name = RecordRoute => \E p \in Proxies : l = Line(RecordRoute, <<p>>)
           /\ l.name = Length => l = Line(Length, <<0>>)
           /\ l.vals \in Seq(AnyValue)
           /\ l = Line(l.name, l.vals)
<1>1. CASE l \in [name : {Via}, vals : {<<v>> : v \in ViaValues}]
  <2>1. PICK v \in ViaValues : l.name = Via /\ l.vals = <<v>> /\ l = Line(Via, <<v>>)
    BY <1>1 DEF Line
  <2>2. v \in AnyValue
    BY DEF AnyValue
  <2> QED
    BY <2>1, <2>2, OneSeq, NamesApart DEF Names
<1>2. CASE l \in [name : {Route}, vals : Seq(Hops) \ {<<>>}]
  <2>1. l.name = Route /\ l.vals \in Seq(Hops) /\ l.vals # <<>> /\ l = Line(l.name, l.vals)
    BY <1>2 DEF Line
  <2>2. Hops \subseteq AnyValue
    BY DEF AnyValue
  <2>3. l.vals \in Seq(AnyValue)
    BY <2>1, <2>2
  <2> QED
    BY <2>1, <2>3, NamesApart DEF Names
<1>3. CASE l \in [name : {RecordRoute}, vals : {<<p>> : p \in Proxies}]
  <2>1. PICK p \in Proxies : l.name = RecordRoute /\ l.vals = <<p>> /\ l = Line(RecordRoute, <<p>>)
    BY <1>3 DEF Line
  <2>2. p \in AnyValue
    BY DEF AnyValue, Hops, Nodes
  <2> QED
    BY <2>1, <2>2, OneSeq, NamesApart DEF Names
<1>4. CASE l \in [name : {Identity}, vals : {<<"sip">>, <<"tel">>}]
  <2>1. PICK v \in {"sip", "tel"} : l.name = Identity /\ l.vals = <<v>> /\ l = Line(l.name, l.vals)
    BY <1>4 DEF Line
  <2>2. v \in AnyValue
    BY DEF AnyValue
  <2> QED
    BY <2>1, <2>2, OneSeq, NamesApart DEF Names
<1>5. CASE l \in [name : {CallId}, vals : {<<None>>}]
  <2>1. l.name = CallId /\ l.vals = <<None>> /\ l = Line(l.name, l.vals)
    BY <1>5 DEF Line
  <2>2. None \in AnyValue
    BY DEF AnyValue
  <2> QED
    BY <2>1, <2>2, OneSeq, NamesApart DEF Names
<1>6. CASE l \in [name : {Length}, vals : {<<0>>}]
  <2>1. l.name = Length /\ l.vals = <<0>> /\ l = Line(Length, <<0>>)
    BY <1>6 DEF Line
  <2>2. 0 \in AnyValue
    BY DEF AnyValue
  <2> QED
    BY <2>1, <2>2, OneSeq, NamesApart DEF Names
<1>7. CASE l \in [name : {Fragment}, vals : {<<>>}]
  <2>1. l.name = Fragment /\ l.vals = <<>> /\ l = Line(l.name, l.vals)
    BY <1>7 DEF Line
  <2> QED
    BY <2>1, EmptySeq, NamesApart DEF Names
<1> QED
  BY <1>1, <1>2, <1>3, <1>4, <1>5, <1>6, <1>7 DEF HeaderLines

\* The lines of one name in headers of this kind.
LEMMA LinesAre ==
    ASSUME NEW h \in Seq(HeaderLines), NEW name
    PROVE  /\ LinesOf(h, name) \in Seq(HeaderLines)
           /\ \A i \in 1..Len(LinesOf(h, name)) :
                 LinesOf(h, name)[i] \in HeaderLines /\ LinesOf(h, name)[i].name = name
<1>1. /\ LinesOf(h, name) \in Seq(HeaderLines)
      /\ \A i \in 1..Len(LinesOf(h, name)) : LinesOf(h, name)[i].name = name
  BY HasLines
<1> QED
  BY <1>1, ElementOfSeq

\* A Via line has one value, and so the top Via is a whole line.
LEMMA OneVia ==
    ASSUME NEW h \in Seq(HeaderLines), NEW i \in 1..Len(h), h[i].name = Via
    PROVE  WithoutFirst(h[i].vals) = <<>>
<1>1. h[i] \in HeaderLines
  BY ElementOfSeq
<1>2. PICK v : h[i] = Line(Via, <<v>>)
  BY <1>1, LineIs
<1>3. h[i].vals = <<v>>
  BY <1>2 DEF Line
<1> QED
  BY <1>3 DEF WithoutFirst

\* The top value of a name whose lines all have one.
LEMMA TopOf ==
    ASSUME NEW h \in Seq(HeaderLines), NEW name, LinesOf(h, name) # <<>>,
           LinesOf(h, name)[1].vals # <<>>
    PROVE  Values(h, name) # <<>> /\ Values(h, name)[1] = LinesOf(h, name)[1].vals[1]
<1>1. \A l \in HeaderLines : l.vals \in Seq(AnyValue)
  BY LineIs
<1> QED
  BY <1>1, TopValue

------------------------------------------------------------------------------
(* Route lines, and the requests that the ends write.                          *)

LEMMA LineFields == \A name, vals : Line(name, vals).name = name /\ Line(name, vals).vals = vals
  BY DEF Line

\* Values that can stand alone on a line of the name, and such lines.
Fits(S, V, name) == \A v \in V : Line(name, <<v>>) \in S
AreSingles(S, ls, name, vals) ==
    /\ ls \in Seq(S) /\ Len(ls) = Len(vals) /\ Len(ls) \in Nat
    /\ \A i \in 1..Len(vals) : /\ ls[i] = Line(name, <<vals[i]>>)
                               /\ ls[i].name = name
                               /\ Len(ls[i].vals) = 1 /\ ls[i].vals[1] = vals[i]

LEMMA SinglesAre ==
    ASSUME NEW S, NEW V, NEW name, Fits(S, V, name), NEW vals \in Seq(V)
    PROVE  AreSingles(S, Singles(name, vals), name, vals)
<1>1. DOMAIN vals = 1..Len(vals) /\ Len(vals) \in Nat /\ \A i \in 1..Len(vals) : vals[i] \in V
  BY LenProperties, ElementOfSeq
<1>2. \A i \in 1..Len(vals) : Singles(name, vals)[i] = Line(name, <<vals[i]>>)
  BY <1>1 DEF Singles
<1>3. Singles(name, vals) \in [1..Len(vals) -> S]
  BY <1>1 DEF Singles, Fits
<1>4. Singles(name, vals) \in Seq(S) /\ Len(Singles(name, vals)) = Len(vals)
  BY <1>1, <1>3, SeqOfFun
<1>5. \A v : Len(<<v>>) = 1 /\ <<v>>[1] = v
  OBVIOUS
<1>6. ASSUME NEW i \in 1..Len(vals)
      PROVE  /\ Singles(name, vals)[i].name = name
             /\ Len(Singles(name, vals)[i].vals) = 1 /\ Singles(name, vals)[i].vals[1] = vals[i]
  <2>1. Singles(name, vals)[i].name = name /\ Singles(name, vals)[i].vals = <<vals[i]>>
    <3> DEFINE one == <<vals[i]>>
    <3> HIDE DEF one
    <3>1. Singles(name, vals)[i] = Line(name, one)
      BY <1>2 DEF one
    <3>2. Singles(name, vals)[i].name = name /\ Singles(name, vals)[i].vals = one
      BY <3>1, LineFields
    <3> QED
      BY <3>2 DEF one
  <2> QED
    BY <2>1, <1>5
<1> DEFINE ls == Singles(name, vals)
<1>7. /\ ls \in Seq(S) /\ Len(ls) = Len(vals) /\ Len(ls) \in Nat
      /\ \A i \in 1..Len(vals) : /\ ls[i] = Line(name, <<vals[i]>>)
                                 /\ ls[i].name = name
                                 /\ Len(ls[i].vals) = 1 /\ ls[i].vals[1] = vals[i]
  BY <1>1, <1>2, <1>4, <1>6
<1> HIDE DEF ls
<1>8. AreSingles(S, ls, name, vals)
  BY <1>7 DEF AreSingles
<1> QED
  BY <1>8 DEF ls

LEMMA RoutesFit == Fits(HeaderLines, Hops, Route)
<1>1. \A v \in Hops : <<v>> \in Seq(Hops) /\ <<v>> # <<>>
  OBVIOUS
<1> QED
  BY <1>1, LineTypes DEF Fits

LEMMA RouteSingles ==
    ASSUME NEW routes \in Seq(Hops)
    PROVE  AreSingles(HeaderLines, Singles(Route, routes), Route, routes)
  BY RoutesFit, SinglesAre

\* One line each, or one for all of them.
LEMMA RoutesUnfolded ==
    ASSUME NEW routes, routes = <<>> \/ setup.folded = FALSE
    PROVE  RouteLines(routes) = Singles(Route, routes)
<1>1. CASE routes = <<>>
  BY <1>1 DEF RouteLines, Singles
<1>2. CASE routes # <<>>
  BY <1>2 DEF RouteLines, Singles
<1> QED
  BY <1>1, <1>2

LEMMA RoutesFolded ==
    ASSUME NEW routes, routes # <<>>, setup.folded = TRUE
    PROVE  RouteLines(routes) = <<Line(Route, routes)>>
  BY DEF RouteLines

LEMMA RouteLinesType ==
    ASSUME NEW routes \in Seq(Hops), setup.folded \in BOOLEAN
    PROVE  /\ RouteLines(routes) \in Seq(HeaderLines)
           /\ \A i \in 1..Len(RouteLines(routes)) : RouteLines(routes)[i].name = Route
<1> DEFINE ls == RouteLines(routes)
<1>1. CASE routes = <<>> \/ setup.folded = FALSE
  <2>1. ls = Singles(Route, routes)
    BY <1>1, RoutesUnfolded
  <2>2. AreSingles(HeaderLines, ls, Route, routes)
    BY <2>1, RouteSingles
  <2> HIDE DEF ls
  <2>3. /\ ls \in Seq(HeaderLines)
        /\ \A i \in 1..Len(ls) : ls[i].name = Route
    BY <2>2 DEF AreSingles
  <2> QED
    BY <2>3 DEF ls
<1>2. CASE routes # <<>> /\ setup.folded = TRUE
  <2>1. ls = <<Line(Route, routes)>> /\ Line(Route, routes) \in HeaderLines
    BY <1>2, RoutesFolded, LineTypes
  <2>2. Line(Route, routes).name = Route
    BY DEF Line
  <2> DEFINE l == Line(Route, routes)
  <2> HIDE DEF l
  <2>3. <<l>> \in Seq(HeaderLines) /\ Len(<<l>>) = 1 /\ <<l>>[1] = l
    BY <2>1, OneSeq DEF l
  <2> QED
    BY <2>1, <2>2, <2>3 DEF l
<1> QED
  BY <1>1, <1>2

LEMMA OtherLines ==
    ASSUME NEW S, NEW h \in Seq(S), NEW name, NEW other, other # name,
           \A i \in 1..Len(h) : h[i].name = name
    PROVE  LinesOf(h, other) = <<>>
<1>1. \A i \in 1..Len(h) : h[i].name # other
  OBVIOUS
<1> QED
  BY <1>1, NoLines

LEMMA RouteLinesOf ==
    ASSUME NEW routes \in Seq(Hops), setup.folded \in BOOLEAN, NEW name
    PROVE  LinesOf(RouteLines(routes), name) = IF name = Route THEN RouteLines(routes) ELSE <<>>
<1>1. /\ RouteLines(routes) \in Seq(HeaderLines)
      /\ \A i \in 1..Len(RouteLines(routes)) : RouteLines(routes)[i].name = Route
  BY RouteLinesType
<1> DEFINE ls == RouteLines(routes)
<1> HIDE DEF ls
<1>2. ls \in Seq(HeaderLines) /\ \A i \in 1..Len(ls) : ls[i].name = Route
  BY <1>1 DEF ls
<1>3. LinesOf(ls, Route) = ls
  BY <1>2, AllLines
<1>4. name # Route => LinesOf(ls, name) = <<>>
  BY <1>2, OtherLines
<1> QED
  BY <1>3, <1>4 DEF ls

\* What a node reads of them: all, the first and the second.
ReadsRoutes(h, routes) ==
    /\ Has(h, Route) <=> routes # <<>>
    /\ Values(h, Route) = routes
    /\ IsMulti(h, Route) <=> Len(routes) > 1
    /\ SecondValue(h, Route) = IF Len(routes) > 1 THEN routes[2] ELSE None

LEMMA RoutesRead ==
    ASSUME NEW h \in Seq(HeaderLines), NEW routes \in Seq(Hops), setup.folded \in BOOLEAN,
           LinesOf(h, Route) = RouteLines(routes)
    PROVE  ReadsRoutes(h, routes)
<1> DEFINE ls == LinesOf(h, Route)
<1>1. /\ IsMulti(h, Route) <=> Len(ls) > 1 \/ (ls # <<>> /\ Len(ls[1].vals) > 1)
      /\ ~IsMulti(h, Route) => SecondValue(h, Route) = None
      /\ IsMulti(h, Route) => SecondValue(h, Route) =
                     IF Len(ls[1].vals) > 1 THEN ls[1].vals[2] ELSE ls[2].vals[1]
  BY SecondIs
<1>2. Has(h, Route) <=> ls # <<>>
  BY HasLines
<1>3. CASE routes = <<>> \/ setup.folded = FALSE
  <2>1. ls = Singles(Route, routes)
    BY <1>3, RoutesUnfolded
  <2>2. Values(h, Route) = routes
    BY <2>1, ValuesOfSingles
  <2>3. AreSingles(HeaderLines, ls, Route, routes)
    BY <2>1, RouteSingles
  <2> HIDE DEF ls
  <2>5. /\ ls \in Seq(HeaderLines) /\ Len(ls) = Len(routes) /\ Len(ls) \in Nat
    BY <2>3 DEF AreSingles
  <2>7. \A i \in 1..Len(routes) : Len(ls[i].vals) = 1 /\ ls[i].vals[1] = routes[i]
    BY <2>3 DEF AreSingles
  <2>8. (ls = <<>> <=> Len(ls) = 0) /\ (routes = <<>> <=> Len(routes) = 0)
    BY <2>5, EmptySeq
  <2>9. Has(h, Route) <=> routes # <<>>
    BY <1>2, <2>5, <2>8
  <2>10. IsMulti(h, Route) <=> Len(routes) > 1
    <3>1. ls # <<>> => 1 \in 1..Len(routes)
      BY <2>5, <2>8
    <3>2. CASE ls = <<>>
      BY <1>1, <2>5, <2>8, <3>2
    <3>3. CASE ls # <<>>
      <4>1. Len(ls[1].vals) = 1
        BY <2>7, <3>1, <3>3
      <4>2. ~(Len(ls[1].vals) > 1)
        BY <4>1
      <4> QED
        BY <1>1, <2>5, <4>2
    <3> QED
      BY <3>2, <3>3
  <2>11. CASE Len(routes) > 1
    <3>1. 1 \in 1..Len(routes) /\ 2 \in 1..Len(routes)
      BY <2>5, <2>11
    <3>2. SecondValue(h, Route) = routes[2]
      BY <1>1, <2>7, <2>10, <2>11, <3>1
    <3> QED
      BY <2>2, <2>9, <2>10, <2>11, <3>2 DEF ReadsRoutes
  <2>12. CASE ~(Len(routes) > 1)
    BY <1>1, <2>2, <2>9, <2>10, <2>12 DEF ReadsRoutes
  <2> QED
    BY <2>11, <2>12
<1>4. CASE routes # <<>> /\ setup.folded = TRUE
  <2>1. ls = <<Line(Route, routes)>>
    BY <1>4, RoutesFolded
  <2>2. Values(h, Route) = routes
    BY <2>1, ValuesOfOne
  <2>3. Len(ls) = 1 /\ ls # <<>> /\ ls[1] = Line(Route, routes)
    BY <2>1
  <2>4. ls[1].vals = routes
    BY <2>3, LineFields
  <2> HIDE DEF ls
  <2>5. ~(Len(ls) > 1)
    BY <2>3
  <2>6. IsMulti(h, Route) <=> Len(routes) > 1
    BY <1>1, <2>3, <2>4, <2>5
  <2>7. SecondValue(h, Route) = IF Len(routes) > 1 THEN routes[2] ELSE None
    BY <1>1, <2>4, <2>6
  <2> QED
    BY <1>2, <1>4, <2>2, <2>3, <2>6, <2>7 DEF ReadsRoutes
<1> QED
  BY <1>3, <1>4

\* Does the first Route stand alone on its line, and what is left when it goes?
LEMMA TopRouteWhole ==
    ASSUME NEW h \in Seq(HeaderLines), NEW routes \in Seq(Hops), setup.folded \in BOOLEAN,
           LinesOf(h, Route) = RouteLines(routes), Has(h, Route)
    PROVE  WithoutFirst(h[FirstLine(h, Route)].vals) = <<>>
               <=> ~(setup.folded = TRUE /\ Len(routes) > 1)
<1> DEFINE ls == LinesOf(h, Route)
           p  == FirstLine(h, Route)
<1>1. ls[1] = h[p] /\ ls # <<>>
  <2>1. ls[1] = h[p]
    BY TopLines
  <2>2. ls # <<>>
    BY HasLines
  <2> QED
    BY <2>1, <2>2
<1>2. ReadsRoutes(h, routes)
  BY RoutesRead
<1>3. routes # <<>> /\ Len(routes) \in Nat \ {0}
  BY <1>2, EmptySeq, LenProperties DEF ReadsRoutes
<1>4. CASE setup.folded = FALSE
  <2>1. ls = Singles(Route, routes)
    BY <1>4, RoutesUnfolded
  <2>2. AreSingles(HeaderLines, ls, Route, routes)
    BY <2>1, RouteSingles
  <2>3. 1 \in 1..Len(routes)
    BY <1>3
  <2>4. ls[1] = Line(Route, <<routes[1]>>)
    BY <2>2, <2>3 DEF AreSingles
  <2>5. h[p].vals = <<routes[1]>>
    BY <1>1, <2>4 DEF Line
  <2>6. WithoutFirst(h[p].vals) = <<>>
    BY <2>5 DEF WithoutFirst
  <2> QED
    BY <1>4, <2>6
<1>5. CASE setup.folded = TRUE
  <2>1. ls = <<Line(Route, routes)>>
    BY <1>3, <1>5, RoutesFolded
  <2>2. ls[1] = Line(Route, routes)
    BY <2>1
  <2>3. h[p].vals = routes
    BY <1>1, <2>2 DEF Line
  <2>4. Len(Tail(routes)) = Len(routes) - 1 /\ Tail(routes) \in Seq(Hops)
    BY <1>3, HeadTailProperties
  <2>5. Tail(routes) = <<>> <=> Len(Tail(routes)) = 0
    BY <2>4, EmptySeq
  <2>6. WithoutFirst(h[p].vals) = Tail(routes)
    BY <2>3 DEF WithoutFirst
  <2> DEFINE n == Len(routes)
             k == Len(Tail(routes))
  <2>8. n \in Nat \ {0} /\ k = n - 1
    BY <1>3, <2>4
  <2> HIDE DEF n, k
  <2>7. k = 0 <=> ~(n > 1)
    BY <2>8
  <2>9. Len(Tail(routes)) = 0 <=> ~(Len(routes) > 1)
    BY <2>7 DEF n, k
  <2> QED
    BY <1>5, <2>5, <2>6, <2>9
<1> QED
  BY <1>4, <1>5

LEMMA RestOf ==
    ASSUME NEW S, NEW s \in Seq(S)
    PROVE  /\ Rest(s) \in Seq(S)
           /\ Len(Rest(s)) = IF s = <<>> THEN 0 ELSE Len(s) - 1
           /\ \A i \in 1..Len(s) - 1 : Rest(s)[i] = s[i + 1]
<1>1. CASE s = <<>>
  <2>1. Rest(s) = <<>> /\ Len(s) = 0
    BY <1>1, EmptySeq DEF Rest
  <2>2. <<>> \in Seq(S) /\ Len(<<>>) = 0
    BY EmptySeq
  <2> DEFINE none == <<>>
  <2> HIDE DEF none
  <2>3. Rest(s) = none /\ none \in Seq(S) /\ Len(none) = 0
    BY <2>1, <2>2 DEF none
  <2>4. \A i \in 1..Len(s) - 1 : Rest(s)[i] = s[i + 1]
    BY <2>1
  <2> QED
    BY <1>1, <2>3, <2>4
<1>2. CASE s # <<>>
  <2>1. Rest(s) = Tail(s)
    BY <1>2 DEF Rest
  <2> QED
    BY <1>2, <2>1, HeadTailProperties
<1> QED
  BY <1>1, <1>2

LEMMA RestOfRoutes ==
    ASSUME NEW routes \in Seq(Hops), setup.folded \in BOOLEAN,
           Len(routes) <= 1 \/ setup.folded = FALSE
    PROVE  Rest(RouteLines(routes)) = RouteLines(Rest(routes))
<1>1. /\ Rest(routes) \in Seq(Hops)
      /\ Len(Rest(routes)) = IF routes = <<>> THEN 0 ELSE Len(routes) - 1
      /\ \A i \in 1..Len(routes) - 1 : Rest(routes)[i] = routes[i + 1]
  BY RestOf
<1>2. Len(routes) \in Nat /\ (routes = <<>> <=> Len(routes) = 0)
      /\ (Rest(routes) = <<>> <=> Len(Rest(routes)) = 0)
  BY <1>1, LenProperties, EmptySeq
<1>3. CASE Len(routes) <= 1
  <2>1. Rest(routes) = <<>>
    BY <1>1, <1>2, <1>3
  <2>2. RouteLines(Rest(routes)) = <<>>
    BY <2>1 DEF RouteLines
  <2>3. CASE routes = <<>>
    BY <2>2, <2>3 DEF Rest, RouteLines
  <2>4. CASE routes # <<>> /\ setup.folded = TRUE
    <3>1. RouteLines(routes) = <<Line(Route, routes)>>
      BY <2>4, RoutesFolded
    <3>2. Rest(RouteLines(routes)) = <<>>
      BY <3>1 DEF Rest
    <3> QED
      BY <2>2, <3>2
  <2>5. CASE routes # <<>> /\ setup.folded = FALSE
    <3> DEFINE ls == RouteLines(routes)
    <3>1. ls = Singles(Route, routes)
      BY <2>5, RoutesUnfolded
    <3>2. AreSingles(HeaderLines, ls, Route, routes)
      BY <3>1, RouteSingles
    <3> HIDE DEF ls
    <3>3. ls \in Seq(HeaderLines) /\ Len(ls) = 1
      BY <1>2, <1>3, <2>5, <3>2 DEF AreSingles
    <3>4. Rest(ls) \in Seq(HeaderLines) /\ Len(Rest(ls)) = 0
      BY <3>3, RestOf
    <3>5. Rest(ls) = <<>>
      BY <3>4, EmptySeq
    <3> QED
      BY <2>2, <3>5 DEF ls
  <2> QED
    BY <2>3, <2>4, <2>5
<1>4. CASE routes # <<>> /\ setup.folded = FALSE
  <2> DEFINE ls == Singles(Route, routes)
             lr == Singles(Route, Rest(routes))
  <2>1. RouteLines(routes) = ls /\ RouteLines(Rest(routes)) = lr
    BY <1>4, RoutesUnfolded
  <2>2. AreSingles(HeaderLines, ls, Route, routes) /\ AreSingles(HeaderLines, lr, Route, Rest(routes))
    BY <1>1, RouteSingles
  <2> HIDE DEF ls, lr
  <2>3. ls \in Seq(HeaderLines) /\ Len(ls) = Len(routes) /\ ls # <<>>
    BY <1>2, <1>4, <2>2, EmptySeq DEF AreSingles
  <2>4. lr \in Seq(HeaderLines) /\ Len(lr) = Len(routes) - 1
    BY <1>1, <1>4, <2>2 DEF AreSingles
  <2>5. /\ Rest(ls) \in Seq(HeaderLines) /\ Len(Rest(ls)) = Len(routes) - 1
        /\ \A i \in 1..Len(routes) - 1 : Rest(ls)[i] = ls[i + 1]
    BY <2>3, RestOf
  <2>6. ASSUME NEW i \in 1..Len(routes) - 1
        PROVE  Rest(ls)[i] = lr[i]
    <3>1. i + 1 \in 1..Len(routes) /\ i \in 1..Len(Rest(routes))
      BY <1>1, <1>2, <1>4
    <3>2. ls[i + 1] = Line(Route, <<routes[i + 1]>>) /\ lr[i] = Line(Route, <<Rest(routes)[i]>>)
      BY <2>2, <3>1 DEF AreSingles
    <3> QED
      BY <1>1, <2>5, <3>2
  <2>7. Rest(ls) = lr
    BY <2>4, <2>5, <2>6, SeqEqual
  <2> QED
    BY <2>1, <2>7
<1>5. routes = <<>> => Len(routes) <= 1
  BY <1>2
<1> QED
  BY <1>3, <1>4, <1>5

IsJoined4(S, h, a, b, c, d) ==
    /\ h \in Seq(S)
    /\ a # <<>> => h # <<>> /\ h[1] = a[1]
    /\ \A name : LinesOf(h, name) =
          ((LinesOf(a, name) \o LinesOf(b, name)) \o LinesOf(c, name)) \o LinesOf(d, name)

LEMMA FourParts ==
    ASSUME NEW S, NEW a \in Seq(S), NEW b \in Seq(S), NEW c \in Seq(S), NEW d \in Seq(S)
    PROVE  IsJoined4(S, ((a \o b) \o c) \o d, a, b, c, d)
<1> DEFINE ab  == a \o b
           abc == ab \o c
           all == abc \o d
<1>1. Joined(S, ab, a, b)
  BY JoinIs
<1> HIDE DEF ab
<1>2. ab \in Seq(S)
  BY <1>1 DEF Joined
<1>3. Joined(S, abc, ab, c)
  BY <1>2, JoinIs
<1> HIDE DEF abc
<1>4. abc \in Seq(S)
  BY <1>3 DEF Joined
<1>5. Joined(S, all, abc, d)
  BY <1>4, JoinIs
<1> HIDE DEF all
<1>6. all \in Seq(S) /\ (a # <<>> => all # <<>> /\ all[1] = a[1])
  BY <1>1, <1>3, <1>5 DEF Joined
<1>7. ASSUME NEW name
      PROVE  LinesOf(all, name) =
          ((LinesOf(a, name) \o LinesOf(b, name)) \o LinesOf(c, name)) \o LinesOf(d, name)
  <2>1. LinesOf(ab, name) = LinesOf(a, name) \o LinesOf(b, name)
    BY <1>1 DEF Joined
  <2>2. LinesOf(abc, name) = LinesOf(ab, name) \o LinesOf(c, name)
    BY <1>3 DEF Joined
  <2>3. LinesOf(all, name) = LinesOf(abc, name) \o LinesOf(d, name)
    BY <1>5 DEF Joined
  <2> QED
    BY <2>1, <2>2, <2>3
<1>8. IsJoined4(S, all, a, b, c, d)
  BY <1>6, <1>7 DEF IsJoined4
<1> QED
  BY <1>8 DEF all, abc, ab

\* With all but one of the parts empty, the part is what there is.
LEMMA OnePart ==
    ASSUME NEW S, NEW e \in Seq(S)
    PROVE  /\ ((e \o <<>>) \o <<>>) \o <<>> = e
           /\ ((<<>> \o e) \o <<>>) \o <<>> = e
           /\ ((<<>> \o <<>>) \o e) \o <<>> = e
           /\ ((<<>> \o <<>>) \o <<>>) \o e = e
<1>1. e \o <<>> = e /\ <<>> \o e = e
  BY ConcatEmptySeq
<1>2. <<>> \o <<>> = <<>>
  OBVIOUS
<1> QED
  BY <1>1, <1>2

IsFirstRequest(h, via, routes) ==
    /\ h \in Seq(HeaderLines) /\ IsRequest(h) /\ Readable(h)
    /\ LinesOf(h, Via) = <<Line(Via, <<via>>)>>
    /\ LinesOf(h, Route) = RouteLines(routes)
    /\ LinesOf(h, RecordRoute) = <<>>
    /\ Has(h, Length) <=> setup.length = TRUE

LEMMA OneLine ==
    ASSUME NEW l \in HeaderLines, NEW n, l.name = n
    PROVE  <<l>> \in Seq(HeaderLines) /\ \A name : LinesOf(<<l>>, name) = IF name = n THEN <<l>> ELSE <<>>
<1>1. \A name : LinesOf(<<l>>, name) = IF l.name = name THEN <<l>> ELSE <<>>
  BY LinesOfOne
<1> QED
  BY <1>1, OneSeq

Only(a, n) == a \in Seq(HeaderLines) /\ \A name : name # n => LinesOf(a, name) = <<>>

HasParts(h, a, b, c, d) ==
    /\ h \in Seq(HeaderLines) /\ h # <<>> /\ h[1].name = Via
    /\ LinesOf(h, Via) = LinesOf(a, Via) /\ LinesOf(h, Route) = LinesOf(b, Route)
    /\ LinesOf(h, CallId) = LinesOf(c, CallId) /\ LinesOf(h, Length) = LinesOf(d, Length)
    /\ LinesOf(h, RecordRoute) = <<>> /\ LinesOf(h, Fragment) = <<>>

LEMMA Regrouped == \A a, b, c \in Seq(HeaderLines) : (a \o b) \o c = a \o (b \o c)
  BY SMTT(20), ConcatAssociative

\* With the Routes in front of the other headers or behind them.
LEMMA RequestParts ==
    ASSUME NEW a, NEW b, NEW c, NEW d, NEW h,
           h = (a \o (b \o c)) \o d \/ h = (a \o (c \o b)) \o d,
           a # <<>>, a[1].name = Via,
           Only(a, Via), Only(b, Route), Only(c, CallId), Only(d, Length)
    PROVE  HasParts(h, a, b, c, d)
<1>0. /\ a \in Seq(HeaderLines) /\ b \in Seq(HeaderLines) /\ c \in Seq(HeaderLines)
      /\ d \in Seq(HeaderLines)
  BY DEF Only
<1>1. IsJoined4(HeaderLines, h, a, b, c, d) \/ IsJoined4(HeaderLines, h, a, c, b, d)
  <2>1. (a \o b) \o c = a \o (b \o c) /\ (a \o c) \o b = a \o (c \o b)
    BY Zenon, <1>0, Regrouped
  <2> QED
    BY <1>0, <2>1, FourParts
<1>2. h \in Seq(HeaderLines) /\ h # <<>> /\ h[1].name = Via
  BY <1>1 DEF IsJoined4
<1>3. /\ LinesOf(a, Via) \in Seq(HeaderLines) /\ LinesOf(b, Route) \in Seq(HeaderLines)
      /\ LinesOf(c, CallId) \in Seq(HeaderLines) /\ LinesOf(d, Length) \in Seq(HeaderLines)
  BY <1>0, HasLines
<1>4. LinesOf(h, Via) = LinesOf(a, Via)
  <2>1. LinesOf(b, Via) = <<>> /\ LinesOf(c, Via) = <<>> /\ LinesOf(d, Via) = <<>>
    BY NamesApart DEF Only
  <2>2. LinesOf(h, Via) = ((LinesOf(a, Via) \o <<>>) \o <<>>) \o <<>>
    BY <1>1, <2>1 DEF IsJoined4
  <2> QED
    BY <1>3, <2>2, OnePart
<1>5. LinesOf(h, Route) = LinesOf(b, Route)
  <2>1. LinesOf(a, Route) = <<>> /\ LinesOf(c, Route) = <<>> /\ LinesOf(d, Route) = <<>>
    BY NamesApart DEF Only
  <2>2. \/ LinesOf(h, Route) = ((<<>> \o LinesOf(b, Route)) \o <<>>) \o <<>>
        \/ LinesOf(h, Route) = ((<<>> \o <<>>) \o LinesOf(b, Route)) \o <<>>
    BY <1>1, <2>1 DEF IsJoined4
  <2> QED
    BY <1>3, <2>2, OnePart
<1>6. LinesOf(h, CallId) = LinesOf(c, CallId)
  <2>1. LinesOf(a, CallId) = <<>> /\ LinesOf(b, CallId) = <<>> /\ LinesOf(d, CallId) = <<>>
    BY NamesApart DEF Only
  <2>2. \/ LinesOf(h, CallId) = ((<<>> \o LinesOf(c, CallId)) \o <<>>) \o <<>>
        \/ LinesOf(h, CallId) = ((<<>> \o <<>>) \o LinesOf(c, CallId)) \o <<>>
    BY <1>1, <2>1 DEF IsJoined4
  <2> QED
    BY <1>3, <2>2, OnePart
<1>7. LinesOf(h, Length) = LinesOf(d, Length)
  <2>1. LinesOf(a, Length) = <<>> /\ LinesOf(b, Length) = <<>> /\ LinesOf(c, Length) = <<>>
    BY NamesApart DEF Only
  <2>2. LinesOf(h, Length) = ((<<>> \o <<>>) \o <<>>) \o LinesOf(d, Length)
    BY <1>1, <2>1 DEF IsJoined4
  <2> QED
    BY <1>3, <2>2, OnePart
<1>8. ASSUME NEW name \in {RecordRoute, Fragment}
      PROVE  LinesOf(h, name) = <<>>
  <2>1. /\ LinesOf(a, name) = <<>> /\ LinesOf(b, name) = <<>> /\ LinesOf(c, name) = <<>>
        /\ LinesOf(d, name) = <<>>
    BY NamesApart DEF Only
  <2>2. LinesOf(h, name) = ((<<>> \o <<>>) \o <<>>) \o <<>>
    BY <1>1, <2>1 DEF IsJoined4
  <2>3. <<>> \o <<>> = <<>>
    OBVIOUS
  <2> QED
    BY <2>2, <2>3
<1> QED
  BY <1>2, <1>4, <1>5, <1>6, <1>7, <1>8 DEF HasParts

LEMMA RequestIs ==
    ASSUME NEW via \in ViaValues, NEW routes \in Seq(Hops),
           setup.folded \in BOOLEAN, setup.length \in BOOLEAN
    PROVE  IsFirstRequest(Request(via, routes), via, routes)
<1> DEFINE a == <<Line(Via, <<via>>)>>
           b == RouteLines(routes)
           c == <<Line(CallId, <<None>>)>>
           d == IF setup.length THEN <<Line(Length, <<0>>)>> ELSE <<>>
           h == Request(via, routes)
<1>1. h = (a \o (b \o c)) \o d \/ h = (a \o (c \o b)) \o d
  BY DEF Request
<1>2. a \in Seq(HeaderLines) /\ \A name : LinesOf(a, name) = IF name = Via THEN a ELSE <<>>
  <2>1. Line(Via, <<via>>) \in HeaderLines /\ Line(Via, <<via>>).name = Via
    BY LineTypes, LineFields
  <2> QED
    BY <2>1, OneLine
<1>3. a # <<>> /\ a[1].name = Via
  BY LineFields
<1>4. /\ b \in Seq(HeaderLines)
      /\ \A name : LinesOf(b, name) = IF name = Route THEN RouteLines(routes) ELSE <<>>
  BY RouteLinesType, RouteLinesOf
<1>5. c \in Seq(HeaderLines) /\ \A name : LinesOf(c, name) = IF name = CallId THEN c ELSE <<>>
  <2>1. Line(CallId, <<None>>) \in HeaderLines /\ Line(CallId, <<None>>).name = CallId
    BY LineTypes, LineFields
  <2> QED
    BY <2>1, OneLine
<1>6. /\ d \in Seq(HeaderLines)
      /\ \A name : LinesOf(d, name) = IF name = Length THEN d ELSE <<>>
      /\ d # <<>> <=> setup.length = TRUE
  <2>1. CASE setup.length = TRUE
    <3>1. Line(Length, <<0>>) \in HeaderLines /\ Line(Length, <<0>>).name = Length
      BY LineTypes, LineFields
    <3>2. d = <<Line(Length, <<0>>)>>
      BY <2>1
    <3> DEFINE l == Line(Length, <<0>>)
    <3> HIDE DEF l
    <3>3. <<l>> \in Seq(HeaderLines) /\ \A name : LinesOf(<<l>>, name) = IF name = Length THEN <<l>> ELSE <<>>
      BY <3>1, OneLine DEF l
    <3> QED
      BY <2>1, <3>2, <3>3 DEF l
  <2>2. CASE setup.length = FALSE
    <3>1. d = <<>>
      BY <2>2
    <3> QED
      BY <2>2, <3>1, LinesOfEmpty, EmptySeq
  <2> QED
    BY <2>1, <2>2
<1>13. c # <<>>
  OBVIOUS
<1> HIDE DEF a, b, c, d, h
<1>7. HasParts(h, a, b, c, d)
  <2>1. Only(a, Via) /\ Only(b, Route) /\ Only(c, CallId) /\ Only(d, Length)
    BY <1>2, <1>4, <1>5, <1>6 DEF Only
  <2> QED
    BY <1>1, <1>3, <2>1, RequestParts
<1>8. /\ LinesOf(h, Via) = a /\ LinesOf(h, Route) = RouteLines(routes)
      /\ LinesOf(h, CallId) = c /\ LinesOf(h, Length) = d
  BY <1>2, <1>4, <1>5, <1>6, <1>7 DEF HasParts
<1>9. Has(h, Length) <=> setup.length = TRUE
  BY <1>6, <1>7, <1>8, HasLines DEF HasParts
<1>10. Readable(h)
  BY <1>7, <1>8, <1>13, HasLines DEF Readable, HasParts
<1>11. IsRequest(h)
  BY <1>7 DEF IsRequest, HasParts
<1>12. IsFirstRequest(h, via, routes)
  BY <1>7, <1>8, <1>9, <1>10, <1>11 DEF IsFirstRequest, HasParts, a
<1> QED
  BY <1>12 DEF h

\* Routes that stand last, and a Content-Length behind them: the other headers are
\* in front of the first Route, and so is the place of a Record-Route not.
LEMMA RequestLast ==
    ASSUME NEW via \in ViaValues, NEW routes \in Seq(Hops), routes # <<>>,
           setup.folded \in BOOLEAN, setup.length = TRUE, setup.routesLast = TRUE
    PROVE  LET h == Request(via, routes)
           IN  /\ FirstLine(h, Route) = 3 /\ h[2] = Line(CallId, <<None>>)
               /\ ~(PlaceToAdd(h, RecordRoute) < FirstLine(h, Route))
<1> DEFINE v == Line(Via, <<via>>)
           c == Line(CallId, <<None>>)
           b == RouteLines(routes)
           d == Line(Length, <<0>>)
           h == Request(via, routes)
<1>1. h = (<<v>> \o (<<c>> \o b)) \o <<d>>
  BY DEF Request
<1>2. /\ v \in HeaderLines /\ v.name = Via /\ c \in HeaderLines /\ c.name = CallId
      /\ d \in HeaderLines /\ d.name = Length
  BY LineTypes, LineFields
<1>3. b \in Seq(HeaderLines) /\ \A i \in 1..Len(b) : b[i].name = Route
  BY RouteLinesType
<1>4. Len(b) \in Nat \ {0}
  <2>1. CASE setup.folded = FALSE
    <3>1. b = Singles(Route, routes)
      BY <2>1, RoutesUnfolded
    <3>2. AreSingles(HeaderLines, b, Route, routes)
      BY <3>1, RouteSingles
    <3> HIDE DEF b
    <3>3. Len(b) = Len(routes) /\ Len(routes) # 0 /\ Len(b) \in Nat
      BY <3>2, EmptySeq DEF AreSingles
    <3> QED
      BY <3>3
  <2>2. CASE setup.folded = TRUE
    <3> DEFINE l == Line(Route, routes)
    <3>1. b = <<l>>
      BY <2>2, RoutesFolded
    <3> HIDE DEF l, b
    <3> QED
      BY <3>1
  <2> QED
    BY <2>1, <2>2
<1>5. IsFirstRequest(h, via, routes)
  BY RequestIs
<1> HIDE DEF v, c, b, d, h
<1>6. /\ h[1] = v /\ h[2] = c /\ h[3] = b[1] /\ Len(h) \in Nat /\ Len(h) > 3
  <2> DEFINE w == <<c>> \o b
             u == <<v>> \o w
  <2>1. \A l \in HeaderLines : <<l>> \in Seq(HeaderLines) /\ Len(<<l>>) = 1 /\ <<l>>[1] = l
    OBVIOUS
  <2>2. /\ w \in Seq(HeaderLines) /\ Len(w) = 1 + Len(b)
        /\ w[1] = c /\ w[2] = b[1]
    BY <1>2, <1>3, <1>4, <2>1, ConcatProperties
  <2> HIDE DEF w
  <2>3. /\ u \in Seq(HeaderLines) /\ Len(u) = 2 + Len(b)
        /\ u[1] = v /\ u[2] = c /\ u[3] = b[1]
    BY <1>2, <1>4, <2>1, <2>2, ConcatProperties
  <2>4. h = u \o <<d>>
    BY <1>1 DEF w
  <2> HIDE DEF u
  <2> QED
    BY <1>2, <1>4, <2>1, <2>3, <2>4, ConcatProperties
<1>7. h[1].name = Via /\ h[2].name = CallId /\ h[3].name = Route
  BY <1>2, <1>3, <1>4, <1>6
<1>8. h \in Seq(HeaderLines) /\ Has(h, Length) /\ ~Has(h, RecordRoute)
  BY <1>5, HasLines DEF IsFirstRequest
<1>9. Has(h, Route)
  BY <1>6, <1>7, <1>8 DEF Has
<1>10. FirstLine(h, Route) = 3
  <2> DEFINE q == FirstLine(h, Route)
  <2>1. q \in 1..Len(h) /\ h[q].name = Route /\ \A j \in 1..q - 1 : h[j].name # Route
    BY <1>8, <1>9, FirstLineIs
  <2> HIDE DEF q
  <2>2. q # 1 /\ q # 2
    BY <1>7, <2>1, NamesApart
  <2>3. ~(q > 3)
    BY <1>6, <1>7, <2>1
  <2> QED
    BY <2>1, <2>2, <2>3 DEF q
<1>11. FirstLine(h, Length) \in 1..Len(h) /\ h[FirstLine(h, Length)].name = Length
  BY <1>8, FirstLineIs
<1>12. ~(FirstLine(h, Length) < 3)
  <2> DEFINE q == FirstLine(h, Length)
  <2> HIDE DEF q
  <2>1. q \in 1..Len(h) /\ h[q].name = Length
    BY <1>11 DEF q
  <2>2. q # 1 /\ q # 2
    BY <1>7, <2>1, NamesApart
  <2> QED
    BY <2>1, <2>2 DEF q
<1>13. PlaceToAdd(h, RecordRoute) = FirstLine(h, Length)
  BY <1>8 DEF PlaceToAdd
<1> QED
  BY <1>6, <1>10, <1>12, <1>13 DEF h, c

------------------------------------------------------------------------------
(* The Vias of a request that is sent on.                                      *)

\* What becomes of the top Via, when the request came from peer.
Marked(via, peer) ==
    IF via.rport = TRUE /\ via.received = None THEN [via EXCEPT !.received = peer.ip] ELSE via

LEMMA MarkedType ==
    ASSUME NEW via \in ViaValues, NEW peer \in Addresses
    PROVE  Marked(via, peer) \in ViaValues
<1>1. peer.ip \in IPs \cup {None}
  BY DEF Addresses
<1> QED
  BY <1>1 DEF Marked, ViaValues

IsEncoded(e, v, peer) ==
    /\ e \in Seq(HeaderLines) /\ Len(e) = Len(v)
    /\ \A i \in 1..Len(e) : e[i].name = Via
    /\ e[1] = Line(Via, <<Marked(v[1].vals[1], peer)>>)
    /\ \A i \in 2..Len(v) : e[i] = v[i]

LEMMA EncodedIs ==
    ASSUME NEW h \in Seq(HeaderLines), LinesOf(h, Via) # <<>>, NEW peer \in Addresses
    PROVE  IsEncoded(ViasEncoded(h, peer), LinesOf(h, Via), peer)
<1> DEFINE v == LinesOf(h, Via)
           e == ViasEncoded(h, peer)
           mark == Marked(v[1].vals[1], peer)
           line == Line(Via, <<mark>>)
<1>1. v \in Seq(HeaderLines) /\ \A i \in 1..Len(v) : v[i] \in HeaderLines /\ v[i].name = Via
  BY LinesAre
<1>2. Len(v) \in Nat \ {0} /\ 1 \in 1..Len(v) /\ DOMAIN v = 1..Len(v)
  BY <1>1, EmptySeq, LenProperties
<1>3. PICK w \in ViaValues : v[1] = Line(Via, <<w>>)
  BY <1>1, <1>2, LineIs
<1>4. v[1].vals = <<w>> /\ v[1].vals[1] = w
  BY <1>3 DEF Line
<1>5. w.rport \in BOOLEAN
  BY DEF ViaValues
<1>6. e = [v EXCEPT ![1].vals[1] = mark]
  BY <1>4, <1>5 DEF ViasEncoded, Marked
<1>7. [v[1] EXCEPT !.vals[1] = mark] = line
  BY <1>3, <1>4 DEF Line
<1>8. line \in HeaderLines /\ line.name = Via
  <2>1. mark \in ViaValues
    BY <1>4, MarkedType
  <2> QED
    BY <2>1, LineTypes, LineFields
<1>9. e = [v EXCEPT ![1] = line]
  BY <1>6, <1>7
<1> HIDE DEF e, v, line
<1>10. e \in Seq(HeaderLines) /\ Len(e) = Len(v)
  BY <1>1, <1>2, <1>8, <1>9, ExceptSeq
<1>11. e[1] = line /\ \A i \in 2..Len(v) : e[i] = v[i]
  BY <1>2, <1>9
<1>12. \A i \in 1..Len(e) : e[i].name = Via
  BY <1>1, <1>2, <1>8, <1>9, <1>10
<1>13. IsEncoded(e, v, peer)
  BY <1>10, <1>11, <1>12 DEF IsEncoded, line
<1> QED
  BY <1>13 DEF e, v

\* An own Via on top, the Vias received, and what the editing left.
IsForwarded(f, own, enc, e) ==
    /\ f \in Seq(HeaderLines) /\ IsRequest(f)
    /\ LinesOf(f, Via) = (<<own>> \o enc) \o LinesOf(e, Via)
    /\ \A name : name # Via => LinesOf(f, name) = LinesOf(e, name)

LEMMA ForwardedIs ==
    ASSUME NEW own \in HeaderLines, own.name = Via,
           NEW enc \in Seq(HeaderLines), \A i \in 1..Len(enc) : enc[i].name = Via,
           NEW e \in Seq(HeaderLines)
    PROVE  IsForwarded((<<own>> \o enc) \o e, own, enc, e)
<1> DEFINE a == <<own>>
           ae == a \o enc
           f  == ae \o e
<1>1. a \in Seq(HeaderLines) /\ a # <<>> /\ a[1] = own
      /\ \A name : LinesOf(a, name) = IF name = Via THEN a ELSE <<>>
  BY OneLine
<1> HIDE DEF a
<1>2. Joined(HeaderLines, ae, a, enc)
  BY <1>1, JoinIs
<1> HIDE DEF ae
<1>3. ae \in Seq(HeaderLines)
  BY <1>2 DEF Joined
<1>4. Joined(HeaderLines, f, ae, e)
  BY <1>3, JoinIs
<1> HIDE DEF f
<1>5. f \in Seq(HeaderLines) /\ IsRequest(f)
  BY <1>1, <1>2, <1>4 DEF Joined, IsRequest
<1>6. LinesOf(enc, Via) = enc /\ \A name : name # Via => LinesOf(enc, name) = <<>>
  BY AllLines, OtherLines
<1>7. LinesOf(f, Via) = ae \o LinesOf(e, Via)
  <2>1. LinesOf(f, Via) = LinesOf(ae, Via) \o LinesOf(e, Via)
    BY <1>4 DEF Joined
  <2>2. LinesOf(ae, Via) = LinesOf(a, Via) \o LinesOf(enc, Via)
    BY <1>2 DEF Joined
  <2>3. LinesOf(ae, Via) = ae
    BY <1>1, <1>6, <2>2 DEF ae
  <2> QED
    BY <2>1, <2>3
<1>8. ASSUME NEW name, name # Via
      PROVE  LinesOf(f, name) = LinesOf(e, name)
  <2>1. LinesOf(f, name) = LinesOf(ae, name) \o LinesOf(e, name)
    BY <1>4 DEF Joined
  <2>2. LinesOf(ae, name) = LinesOf(a, name) \o LinesOf(enc, name)
    BY <1>2 DEF Joined
  <2>3. LinesOf(ae, name) = <<>>
    <3>1. LinesOf(ae, name) = <<>> \o <<>>
      BY <1>1, <1>6, <1>8, <2>2
    <3>2. <<>> \o <<>> = <<>>
      OBVIOUS
    <3> QED
      BY <3>1, <3>2
  <2>4. LinesOf(e, name) \in Seq(HeaderLines)
    BY HasLines
  <2> QED
    BY <2>1, <2>3, <2>4, ConcatEmptySeq
<1>9. IsForwarded(f, own, enc, e)
  BY <1>5, <1>7, <1>8 DEF IsForwarded, ae, a
<1> QED
  BY <1>9 DEF f, ae, a

\* Two lines on top, and below them the Vias received from the second one on.
PutOnTop(f, v, x, y) ==
    LET w == LinesOf(f, Via)
    IN  /\ Len(w) >= Len(v) + 1 /\ Len(w) \in Nat
        /\ w[1] = x /\ w[2] = y
        /\ \A i \in 2..Len(v) : w[i + 1] = v[i]

LEMMA OnTop ==
    ASSUME NEW x \in HeaderLines, NEW enc \in Seq(HeaderLines), enc # <<>>,
           NEW r \in Seq(HeaderLines), NEW f, LinesOf(f, Via) = (<<x>> \o enc) \o r,
           NEW v, Len(v) = Len(enc), \A i \in 2..Len(enc) : v[i] = enc[i]
    PROVE  PutOnTop(f, v, x, enc[1])
<1> DEFINE a == <<x>>
           ae == a \o enc
           w == LinesOf(f, Via)
<1>1. a \in Seq(HeaderLines) /\ Len(a) = 1 /\ a[1] = x
  BY OneSeq
<1> HIDE DEF a
<1>2. Len(enc) \in Nat \ {0} /\ Len(r) \in Nat
  BY EmptySeq, LenProperties
<1>3. /\ ae \in Seq(HeaderLines) /\ Len(ae) = Len(a) + Len(enc)
      /\ \A i \in 1..Len(a) + Len(enc) : ae[i] = IF i <= Len(a) THEN a[i] ELSE enc[i - Len(a)]
  BY <1>1, ConcatProperties
<1>4. w = ae \o r
  BY DEF ae, a
<1> HIDE DEF ae, w
<1>5. /\ Len(w) = Len(ae) + Len(r)
      /\ \A i \in 1..Len(ae) + Len(r) : w[i] = IF i <= Len(ae) THEN ae[i] ELSE r[i - Len(ae)]
  <2>1. /\ Len(ae \o r) = Len(ae) + Len(r)
        /\ \A i \in 1..Len(ae) + Len(r) : (ae \o r)[i] = IF i <= Len(ae) THEN ae[i] ELSE r[i - Len(ae)]
    <3>1. ae \in Seq(HeaderLines)
      BY <1>3
    <3> QED
      BY <3>1, ConcatProperties
  <2> QED
    BY <1>4, <2>1
<1>6. Len(w) >= Len(v) + 1 /\ Len(w) \in Nat
  BY <1>1, <1>2, <1>3, <1>5
<1>7. w[1] = x
  <2>1. w[1] = ae[1]
    BY <1>1, <1>2, <1>3, <1>5
  <2>2. ae[1] = a[1]
    BY <1>1, <1>2, <1>3
  <2> QED
    BY <1>1, <2>1, <2>2
<1>8. ASSUME NEW i \in 1..Len(enc)
      PROVE  w[i + 1] = enc[i]
  <2>1. w[i + 1] = ae[i + 1]
    BY <1>1, <1>2, <1>3, <1>5
  <2>2. ae[i + 1] = enc[(i + 1) - 1]
    BY <1>1, <1>2, <1>3
  <2>3. (i + 1) - 1 = i
    OBVIOUS
  <2> QED
    BY <2>1, <2>2, <2>3
<1>9. w[2] = enc[1]
  <2>1. w[1 + 1] = enc[1] /\ 1 + 1 = 2
    BY <1>2, <1>8
  <2> QED
    BY <2>1
<1>10. \A i \in 2..Len(v) : w[i + 1] = v[i]
  BY <1>2, <1>8
<1> QED
  BY <1>6, <1>7, <1>9, <1>10 DEF PutOnTop, w

------------------------------------------------------------------------------
(* The way back that the Vias describe.                                        *)

LEMMA CallerViaIs ==
    ASSUME setup \in Setups
    PROVE  /\ CallerVia \in ViaValues /\ CallerMarked \in ViaValues
           /\ Marked(CallerVia, setup.source) = CallerMarked
           /\ PeerOf(CallerVia) = AddrOf(Caller)
           /\ setup.rport = TRUE  => PeerOf(CallerMarked) = [ip |-> setup.source.ip, port |-> 1]
           /\ setup.rport = FALSE => PeerOf(CallerMarked) = AddrOf(Caller)
<1>1. setup.rport \in BOOLEAN /\ setup.source.ip \in {Caller, NatBox}
  BY SetupIs
<1>2. AddrOf(Caller) = [ip |-> Caller, port |-> 1] /\ AddrOf(Caller) \in Addresses
      /\ Caller \in IPs /\ setup.source.ip \in IPs /\ setup.source.ip # None
  BY <1>1, NodesApart DEF AddrOf, Addresses, IPs, Nodes
<1>3. CASE setup.rport = TRUE
  <2>1. CallerVia = [sentBy |-> AddrOf(Caller), rport |-> TRUE, received |-> None]
    BY <1>3 DEF CallerVia, ViaWithRport
  <2>2. CallerMarked = [sentBy |-> AddrOf(Caller), rport |-> TRUE, received |-> setup.source.ip]
    BY <1>3, <2>1 DEF CallerMarked
  <2>3. Marked(CallerVia, setup.source) = CallerMarked
    <3>1. CallerVia.rport = TRUE /\ CallerVia.received = None
      BY <2>1
    <3> QED
      BY <1>3, <3>1 DEF Marked, CallerMarked
  <2>4. PeerOf(CallerVia) = AddrOf(Caller)
    BY <1>2, <2>1 DEF PeerOf
  <2>5. PeerOf(CallerMarked) = [ip |-> setup.source.ip, port |-> 1]
    BY <1>2, <2>2 DEF PeerOf
  <2>6. CallerVia \in ViaValues /\ CallerMarked \in ViaValues
    BY <1>2, <2>1, <2>2 DEF ViaValues
  <2> QED
    BY <1>3, <2>3, <2>4, <2>5, <2>6
<1>4. CASE setup.rport = FALSE
  <2>1. CallerVia = [sentBy |-> AddrOf(Caller), rport |-> FALSE, received |-> None]
    BY <1>4 DEF CallerVia, ViaOf
  <2>2. CallerMarked = CallerVia
    BY <1>4 DEF CallerMarked
  <2>3. Marked(CallerVia, setup.source) = CallerMarked
    BY <2>1, <2>2 DEF Marked
  <2>4. PeerOf(CallerVia) = AddrOf(Caller)
    BY <1>2, <2>1 DEF PeerOf
  <2>5. CallerVia \in ViaValues
    BY <1>2, <2>1 DEF ViaValues
  <2> QED
    BY <1>4, <2>2, <2>3, <2>4, <2>5
<1> QED
  BY <1>1, <1>3, <1>4

\* The Via of a node of the path: the next hop has nothing to fill in.
NodeVia(n) == Line(Via, <<ViaOf(AddrOf(n))>>)

LEMMA NodeViaIs ==
    ASSUME NEW n \in Nodes
    PROVE  /\ NodeVia(n) \in HeaderLines /\ NodeVia(n).name = Via
           /\ NodeVia(n).vals[1] = ViaOf(AddrOf(n)) /\ NodeVia(n).vals # <<>>
           /\ \A peer : Line(Via, <<Marked(NodeVia(n).vals[1], peer)>>) = NodeVia(n)
           /\ PeerOf(ViaOf(AddrOf(n))) = AddrOf(n)
           /\ AddrOf(n) \in Addresses
<1>1. AddrOf(n) = [ip |-> n, port |-> 1] /\ AddrOf(n) \in Addresses
  BY DEF AddrOf, Addresses, IPs
<1>2. ViaOf(AddrOf(n)) = [sentBy |-> AddrOf(n), rport |-> FALSE, received |-> None]
  BY DEF ViaOf
<1>3. ViaOf(AddrOf(n)) \in ViaValues
  <2> DEFINE a == AddrOf(n)
  <2> HIDE DEF a
  <2>1. a \in Addresses
    BY <1>1 DEF a
  <2>2. ViaOf(a) \in ViaValues
    BY <2>1 DEF ViaOf, ViaValues
  <2> QED
    BY <2>2 DEF a
<1>4. \A peer : Marked(ViaOf(AddrOf(n)), peer) = ViaOf(AddrOf(n))
  BY <1>2 DEF Marked
<1>5. PeerOf(ViaOf(AddrOf(n))) = AddrOf(n)
  BY <1>1, <1>2 DEF PeerOf
<1>6. NodeVia(n).name = Via /\ NodeVia(n).vals = <<ViaOf(AddrOf(n))>>
  BY LineFields DEF NodeVia
<1>7. NodeVia(n).vals[1] = ViaOf(AddrOf(n)) /\ NodeVia(n).vals # <<>>
  BY <1>6
<1>8. NodeVia(n) \in HeaderLines
  BY <1>3, LineTypes DEF NodeVia
<1>9. \A peer : Line(Via, <<Marked(NodeVia(n).vals[1], peer)>>) = NodeVia(n)
  BY <1>4, <1>7 DEF NodeVia
<1> QED
  BY <1>1, <1>5, <1>6, <1>7, <1>8, <1>9

LEMMA TrailIs ==
    ASSUME NEW t, IsTrail(t)
    PROVE  /\ t \in Seq(Nodes) /\ Len(t) \in Nat \ {0} /\ t[1] = Caller
           /\ Last(t) = t[Len(t)]
           /\ Len(t) = 1 => Last(t) = Caller
           /\ Len(t) # 1 => Len(t) >= 2 /\ Last(t) \in Passers
           /\ \A i \in 2..Len(t) : t[i] \in Passers /\ t[i] \in Nodes /\ t[i] # Caller
<1>1. /\ t \in Seq(Nodes) /\ Len(t) \in Nat \ {0} /\ t[1] = Caller
      /\ \A i \in 2..Len(t) : t[i] \in Passers
  BY EmptySeq, LenProperties DEF IsTrail
<1>2. Last(t) = t[Len(t)]
  BY DEF Last
<1>3. \A n \in Passers : n \in Nodes /\ n # Caller
  BY NodesApart DEF Passers, Nodes
<1>4. Len(t) = 1 => Last(t) = Caller
  BY <1>1, <1>2
<1>5. ASSUME Len(t) # 1
      PROVE  Len(t) >= 2 /\ Last(t) \in Passers
  <2> DEFINE n == Len(t)
  <2>1. n \in Nat \ {0} /\ n # 1
    BY <1>1, <1>5
  <2> HIDE DEF n
  <2>2. n >= 2 /\ n \in 2..n
    BY <2>1
  <2> QED
    BY <1>1, <1>2, <2>2 DEF n
<1>6. \A i \in 2..Len(t) : t[i] \in Passers /\ t[i] \in Nodes /\ t[i] # Caller
  BY <1>1, <1>3
<1> QED
  BY <1>1, <1>2, <1>4, <1>5, <1>6

LEMMA TrailOn ==
    ASSUME NEW t, IsTrail(t), NEW n \in Passers
    PROVE  /\ IsTrail(Append(t, n)) /\ Len(Append(t, n)) = Len(t) + 1
           /\ Append(t, n)[Len(t) + 1] = n /\ \A i \in 1..Len(t) : Append(t, n)[i] = t[i]
<1>1. n \in Nodes
  BY DEF Passers, Nodes
<1>2. t \in Seq(Nodes) /\ Len(t) \in Nat \ {0} /\ t[1] = Caller /\ \A i \in 2..Len(t) : t[i] \in Passers
  BY TrailIs
<1> DEFINE tn == Append(t, n)
<1>3. /\ tn \in Seq(Nodes) /\ Len(tn) = Len(t) + 1 /\ tn[Len(t) + 1] = n
      /\ \A i \in 1..Len(t) : tn[i] = t[i]
  BY <1>1, <1>2, AppendProperties
<1> HIDE DEF tn
<1>4. tn # <<>> /\ tn[1] = Caller
  BY <1>2, <1>3, EmptySeq
<1>5. ASSUME NEW i \in 2..Len(tn)
      PROVE  tn[i] \in Passers
  <2>1. CASE i = Len(t) + 1
    BY <1>3, <2>1
  <2>2. CASE i # Len(t) + 1
    <3>1. i \in 2..Len(t) /\ i \in 1..Len(t)
      BY <1>2, <1>3, <2>2
    <3> QED
      BY <1>2, <1>3, <3>1
  <2> QED
    BY <2>1, <2>2
<1>6. IsTrail(tn)
  BY <1>3, <1>4, <1>5 DEF IsTrail
<1> QED
  BY <1>3, <1>6 DEF tn

LEMMA TrailBack ==
    ASSUME NEW t, IsTrail(t), Len(t) # 1
    PROVE  /\ IsTrail(Front(t)) /\ Len(Front(t)) = Len(t) - 1
           /\ \A i \in 1..Len(t) - 1 : Front(t)[i] = t[i]
           /\ Last(Front(t)) = t[Len(t) - 1]
<1>1. /\ t \in Seq(Nodes) /\ Len(t) \in Nat /\ Len(t) >= 2 /\ t[1] = Caller
      /\ \A i \in 2..Len(t) : t[i] \in Passers
  BY TrailIs
<1> DEFINE f == Front(t)
<1>2. f = SubSeq(t, 1, Len(t) - 1)
  BY DEF Front
<1>3. \A i \in 1..Len(t) - 1 : t[i] \in Nodes
  BY <1>1, ElementOfSeq
<1>4. /\ f \in Seq(Nodes) /\ Len(f) = Len(t) - 1 /\ \A i \in 1..Len(t) - 1 : f[i] = t[i]
  <2>1. f = [i \in 1..Len(t) - 1 |-> t[i]]
    BY <1>1, <1>2
  <2>2. Len(t) - 1 \in Nat /\ f \in [1..Len(t) - 1 -> Nodes]
    BY <1>1, <1>3, <2>1
  <2> QED
    BY <2>1, <2>2, SeqOfFun
<1> HIDE DEF f
<1>5. f # <<>> /\ f[1] = Caller /\ \A i \in 2..Len(f) : f[i] \in Passers
  BY <1>1, <1>4, EmptySeq
<1>6. IsTrail(f)
  BY <1>4, <1>5 DEF IsTrail
<1>7. Last(f) = t[Len(t) - 1]
  <2>1. Last(f) = f[Len(f)]
    BY DEF Last
  <2>2. Len(t) - 1 \in 1..Len(t) - 1
    BY <1>1
  <2> QED
    BY <1>4, <2>1, <2>2
<1> QED
  BY <1>4, <1>6, <1>7 DEF f

\* The Vias of the path as lines.
LEMMA PathIs ==
    ASSUME NEW h, NEW t
    PROVE  ViaPath(h, t) <=>
               /\ Len(LinesOf(h, Via)) >= Len(t)
               /\ \A i \in 1..Len(t) - 1 : LinesOf(h, Via)[i] = NodeVia(t[Len(t) + 1 - i])
               /\ Len(t) >= 2 => LinesOf(h, Via)[Len(t)] = Line(Via, <<CallerMarked>>)
  BY DEF ViaPath, NodeVia

\* The lines on top of a request that has come along a trail, at the next hop.
TopOfPath(h, t) ==
    IF Len(t) = 1 THEN Line(Via, <<CallerMarked>>) ELSE LinesOf(h, Via)[1]

LEMMA PathOn ==
    ASSUME NEW t, IsTrail(t), NEW n \in Passers, NEW h, Len(t) # 1 => ViaPath(h, t),
           NEW f, PutOnTop(f, LinesOf(h, Via), NodeVia(n), TopOfPath(h, t)),
           Len(LinesOf(h, Via)) \in Nat \ {0}
    PROVE  ViaPath(f, Append(t, n))
<1> DEFINE v == LinesOf(h, Via)
           w == LinesOf(f, Via)
           k == Len(t)
           u == Append(t, n)
<1>1. k \in Nat \ {0} /\ Len(v) \in Nat \ {0}
  BY TrailIs
<1>2. Len(u) = k + 1 /\ u[k + 1] = n /\ \A i \in 1..k : u[i] = t[i]
  BY TrailOn
<1>3. /\ Len(w) >= Len(v) + 1 /\ Len(w) \in Nat /\ w[1] = NodeVia(n) /\ w[2] = TopOfPath(h, t)
      /\ \A i \in 2..Len(v) : w[i + 1] = v[i]
  BY DEF PutOnTop
<1>4. k # 1 => /\ Len(v) >= k
               /\ \A i \in 1..k - 1 : v[i] = NodeVia(t[k + 1 - i])
               /\ k >= 2 => v[k] = Line(Via, <<CallerMarked>>)
  BY PathIs
<1>5. TopOfPath(h, t) = IF k = 1 THEN Line(Via, <<CallerMarked>>) ELSE v[1]
  BY DEF TopOfPath
<1> HIDE DEF v, w, u, k
<1> DEFINE marked == Line(Via, <<CallerMarked>>)
<1> HIDE DEF marked
<1>6. Len(w) >= k + 1
  <2>1. CASE k = 1
    BY <1>1, <1>3, <2>1
  <2>2. CASE k # 1
    BY <1>1, <1>3, <1>4, <2>2
  <2> QED
    BY <2>1, <2>2
<1>7. ASSUME NEW i \in 1..k
      PROVE  w[i] = NodeVia(u[k + 2 - i])
  <2>1. CASE i = 1
    <3>1. k + 2 - i = k + 1
      BY <1>1, <2>1
    <3> QED
      BY <1>2, <1>3, <2>1, <3>1
  <2>2. CASE i = 2
    <3>1. k # 1 /\ k + 2 - i = k /\ 1 \in 1..k - 1 /\ k + 1 - 1 = k /\ k \in 1..k
      BY <1>1, <2>2
    <3>2. v[1] = NodeVia(t[k])
      BY <1>4, <3>1
    <3>3. u[k] = t[k]
      BY <1>2, <3>1
    <3> QED
      BY <1>3, <1>5, <2>2, <3>1, <3>2, <3>3
  <2>3. CASE i > 2
    <3>1. k # 1 /\ k + 2 - i \in 1..k /\ i - 1 \in 1..k - 1 /\ k + 1 - (i - 1) = k + 2 - i
      BY <1>1, <2>3
    <3>2. i - 1 \in 2..Len(v) /\ (i - 1) + 1 = i
      BY <1>1, <1>4, <2>3, <3>1
    <3>3. w[i] = v[i - 1]
      BY <1>3, <3>2
    <3>4. v[i - 1] = NodeVia(t[k + 1 - (i - 1)])
      BY <1>4, <3>1
    <3>5. u[k + 2 - i] = t[k + 2 - i]
      BY <1>2, <3>1
    <3> QED
      BY <3>1, <3>3, <3>4, <3>5
  <2>4. i = 1 \/ i = 2 \/ i > 2
    BY <1>1
  <2> QED
    BY <2>1, <2>2, <2>3, <2>4
<1>8. w[k + 1] = marked
  <2>1. CASE k = 1
    BY <1>3, <1>5, <2>1 DEF marked
  <2>2. CASE k # 1
    <3>1. k >= 2 /\ k \in 2..Len(v)
      BY <1>1, <1>4, <2>2
    <3>2. v[k] = marked
      BY <1>4, <2>2, <3>1 DEF marked
    <3> QED
      BY <1>3, <3>1, <3>2
  <2> QED
    BY <2>1, <2>2
<1> DEFINE j == Len(u)
<1>9. j = k + 1 /\ j - 1 = k /\ \A i \in 1..k : j + 1 - i = k + 2 - i
  BY <1>1, <1>2
<1> HIDE DEF j
<1>10. /\ Len(w) >= j
       /\ \A i \in 1..j - 1 : w[i] = NodeVia(u[j + 1 - i])
       /\ w[j] = marked
  BY <1>6, <1>7, <1>8, <1>9
<1>11. ViaPath(f, u)
  BY <1>10, PathIs DEF w, j, marked
<1> QED
  BY <1>11 DEF u

LEMMA PathTop ==
    ASSUME NEW t, IsTrail(t), Len(t) # 1, NEW h, ViaPath(h, t)
    PROVE  LinesOf(h, Via)[1] = NodeVia(Last(t))
<1>1. Len(t) >= 2 /\ Last(t) = t[Len(t)] /\ Len(t) \in Nat
  BY TrailIs
<1>2. 1 \in 1..Len(t) - 1 /\ Len(t) + 1 - 1 = Len(t)
  BY <1>1
<1>3. LinesOf(h, Via)[1] = NodeVia(t[Len(t) + 1 - 1])
  BY <1>2, PathIs
<1> QED
  BY <1>1, <1>2, <1>3

LEMMA PathSecond ==
    ASSUME NEW t, IsTrail(t), Len(t) # 1, NEW h, ViaPath(h, t)
    PROVE  /\ Len(LinesOf(h, Via)) > 1
           /\ LinesOf(h, Via)[2] = IF Len(t) = 2 THEN Line(Via, <<CallerMarked>>)
                                   ELSE NodeVia(t[Len(t) - 1])
<1> DEFINE v == LinesOf(h, Via)
           k == Len(t)
           marked == Line(Via, <<CallerMarked>>)
<1>1. k \in Nat /\ k >= 2
  BY TrailIs
<1>2. /\ Len(v) >= k
      /\ \A i \in 1..k - 1 : v[i] = NodeVia(t[k + 1 - i])
      /\ k >= 2 => v[k] = marked
  BY PathIs
<1>3. Len(v) \in Nat
  BY DEF LinesOf, ViaPath
<1> HIDE DEF v, k, marked
<1>4. k # 2 => 2 \in 1..k - 1 /\ k + 1 - 2 = k - 1
  BY <1>1
<1>5. v[2] = IF k = 2 THEN marked ELSE NodeVia(t[k - 1])
  BY <1>1, <1>2, <1>4
<1> QED
  BY <1>1, <1>2, <1>3, <1>5 DEF v, k, marked

\* An answer without its top Via.
LEMMA PathBack ==
    ASSUME NEW t, IsTrail(t), Len(t) # 1, NEW h \in Seq(HeaderLines), ViaPath(h, t),
           NEW f, LinesOf(f, Via) = Tail(LinesOf(h, Via))
    PROVE  ViaPath(f, Front(t))
<1> DEFINE v == LinesOf(h, Via)
           w == LinesOf(f, Via)
           k == Len(t)
           u == Front(t)
           marked == Line(Via, <<CallerMarked>>)
<1>1. k \in Nat /\ k >= 2
  BY TrailIs
<1>2. /\ Len(v) >= k
      /\ \A i \in 1..k - 1 : v[i] = NodeVia(t[k + 1 - i])
      /\ k >= 2 => v[k] = marked
  BY PathIs
<1>3. Len(u) = k - 1 /\ \A i \in 1..k - 1 : u[i] = t[i]
  BY TrailBack
<1>4. v \in Seq(HeaderLines)
  BY LinesAre
<1>5. w = Tail(v)
  OBVIOUS
<1> HIDE DEF v, w, k, u, marked
<1>6. v # <<>> /\ Len(v) \in Nat
  BY <1>1, <1>2, <1>4, EmptySeq, LenProperties
<1>7. Len(w) = Len(v) - 1 /\ \A i \in 1..Len(w) : w[i] = v[i + 1]
  BY <1>4, <1>5, <1>6, HeadTailProperties
<1>8. Len(w) >= k - 1
  BY <1>1, <1>2, <1>6, <1>7
<1>9. ASSUME NEW i \in 1..(k - 1) - 1
      PROVE  w[i] = NodeVia(u[(k - 1) + 1 - i])
  <2>1. i \in 1..Len(w) /\ i + 1 \in 1..k - 1
    BY <1>1, <1>2, <1>6, <1>7
  <2>2. (k - 1) + 1 - i = k + 1 - (i + 1) /\ (k - 1) + 1 - i \in 1..k - 1
    BY <1>1
  <2>3. w[i] = NodeVia(t[k + 1 - (i + 1)])
    BY <1>2, <1>7, <2>1
  <2> QED
    BY <1>3, <2>2, <2>3
<1>10. w[k - 1] = marked
  <2>1. k - 1 \in 1..Len(w) /\ (k - 1) + 1 = k
    BY <1>1, <1>2, <1>6, <1>7
  <2> QED
    BY <1>1, <1>2, <1>7, <2>1
<1> DEFINE j == Len(u)
<1>11. j = k - 1
  BY <1>3
<1> HIDE DEF j
<1>12. /\ Len(w) >= j
       /\ \A i \in 1..j - 1 : w[i] = NodeVia(u[j + 1 - i])
       /\ w[j] = marked
  BY <1>8, <1>9, <1>10, <1>11
<1>13. ViaPath(f, u)
  BY <1>12, PathIs DEF w, j, marked
<1> QED
  BY <1>13 DEF u

\* Who hears an answer that is sent to an address, and who should.
BackTo(addr, n) ==
    \/ NodeAt(addr) = n
    \/ NodeAt(addr) = Nowhere /\ n = Caller /\ ~Reachable

LEMMA BackToNode ==
    ASSUME setup \in Setups, NEW n \in Passers
    PROVE  BackTo(PeerOf(ViaOf(AddrOf(n))), n)
<1>1. n \in Nodes /\ n # Caller
  BY NodesApart DEF Passers, Nodes
<1>2. PeerOf(ViaOf(AddrOf(n))) = AddrOf(n) /\ NodeAt(AddrOf(n)) = n
  BY <1>1, NodeViaIs, NodeAtNode
<1> QED
  BY <1>2 DEF BackTo

\* The first hop has filled the caller's Via in, or there was nothing to fill in.
LEMMA BackToCaller ==
    ASSUME setup \in Setups, NEW addr, addr.ip \in {Caller, NatBox},
           Reachable => addr = setup.source
    PROVE  BackTo(addr, Caller)
<1>1. addr.ip \notin Nodes \ {Caller}
  BY NodesApart DEF Nodes
<1>2. NodeAt(addr) = IF addr = setup.source THEN Caller ELSE Nowhere
  BY <1>1, NodeAtCaller
<1> QED
  BY <1>2 DEF BackTo

LEMMA PeerTop ==
    ASSUME setup \in Setups, NEW t, IsTrail(t), NEW h \in Seq(HeaderLines),
           Len(t) # 1 => ViaPath(h, t),
           Len(t) = 1 => LinesOf(h, Via) = <<Line(Via, <<CallerVia>>)>> /\ answered = FALSE
    PROVE  BackTo(PeerOfTop(h), Last(t))
<1>1. CASE Len(t) # 1
  <2>1. Last(t) \in Passers /\ Last(t) \in Nodes /\ Len(t) \in Nat /\ Len(t) >= 2
    BY <1>1, TrailIs DEF Passers, Nodes
  <2>2. LinesOf(h, Via)[1] = NodeVia(Last(t))
    BY <1>1, PathTop
  <2>3. LinesOf(h, Via) # <<>>
    <3>1. Len(LinesOf(h, Via)) >= Len(t)
      BY <1>1, PathIs
    <3>2. LinesOf(h, Via) \in Seq(HeaderLines)
      BY LinesAre
    <3>3. Len(LinesOf(h, Via)) # 0
      BY <2>1, <3>1
    <3> QED
      BY <3>2, <3>3, EmptySeq
  <2>4. NodeVia(Last(t)).vals[1] = ViaOf(AddrOf(Last(t))) /\ NodeVia(Last(t)).vals # <<>>
    BY <2>1, NodeViaIs
  <2>5. Values(h, Via)[1] = ViaOf(AddrOf(Last(t)))
    BY <2>2, <2>3, <2>4, TopOf
  <2>6. PeerOfTop(h) = PeerOf(ViaOf(AddrOf(Last(t))))
    BY <2>5 DEF PeerOfTop
  <2> QED
    BY <2>1, <2>6, BackToNode
<1>2. CASE Len(t) = 1
  <2>1. LinesOf(h, Via) = <<Line(Via, <<CallerVia>>)>> /\ answered = FALSE /\ Last(t) = Caller
    BY <1>2, TrailIs
  <2>2. LinesOf(h, Via) # <<>> /\ LinesOf(h, Via)[1] = Line(Via, <<CallerVia>>)
    BY <2>1
  <2>3. LinesOf(h, Via)[1].vals = <<CallerVia>>
    BY <2>2, LineFields
  <2>4. LinesOf(h, Via)[1].vals # <<>> /\ LinesOf(h, Via)[1].vals[1] = CallerVia
    BY <2>3
  <2>5. Values(h, Via)[1] = CallerVia
    BY <2>2, <2>4, TopOf
  <2>6. PeerOfTop(h) = AddrOf(Caller)
    BY <2>5, CallerViaIs DEF PeerOfTop
  <2>7. AddrOf(Caller).ip = Caller
    BY DEF AddrOf
  <2>8. Reachable => AddrOf(Caller) = setup.source
    BY <2>1 DEF Reachable
  <2>9. BackTo(AddrOf(Caller), Caller)
    BY <2>7, <2>8, BackToCaller
  <2> QED
    BY <2>1, <2>6, <2>9
<1> QED
  BY <1>1, <1>2

LEMMA PeerSecond ==
    ASSUME setup \in Setups, NEW t, IsTrail(t), NEW h \in Seq(HeaderLines),
           Len(t) # 1, ViaPath(h, t)
    PROVE  BackTo(PeerOfSecond(h), Last(Front(t)))
<1> DEFINE v == LinesOf(h, Via)
<1>1. Len(t) \in Nat /\ Len(t) >= 2 /\ t[1] = Caller /\ \A i \in 2..Len(t) : t[i] \in Passers
  BY TrailIs
<1>2. Last(Front(t)) = t[Len(t) - 1]
  BY TrailBack
<1>3. Len(v) > 1 /\ v[2] = IF Len(t) = 2 THEN Line(Via, <<CallerMarked>>) ELSE NodeVia(t[Len(t) - 1])
  BY PathSecond
<1>4. /\ IsMulti(h, Via) <=> Len(v) > 1 \/ (v # <<>> /\ Len(v[1].vals) > 1)
      /\ IsMulti(h, Via) => SecondValue(h, Via) =
                     IF Len(v[1].vals) > 1 THEN v[1].vals[2] ELSE v[2].vals[1]
  BY SecondIs
<1>5. ~(Len(v[1].vals) > 1)
  <2>1. v \in Seq(HeaderLines) /\ \A i \in 1..Len(v) : v[i] \in HeaderLines /\ v[i].name = Via
    BY LinesAre
  <2>2. 1 \in 1..Len(v)
    BY <1>3, <2>1, LenProperties
  <2>3. v[1] \in HeaderLines /\ v[1].name = Via
    BY <2>1, <2>2
  <2>4. PICK w : v[1] = Line(Via, <<w>>)
    BY <2>3, LineIs
  <2>5. v[1].vals = <<w>>
    BY <2>4, LineFields
  <2>6. Len(<<w>>) = 1
    OBVIOUS
  <2> QED
    BY <2>5, <2>6
<1>6. PeerOfSecond(h) = PeerOf(v[2].vals[1])
  BY <1>3, <1>4, <1>5 DEF PeerOfSecond
<1>7. CASE Len(t) = 2
  <2>1. v[2] = Line(Via, <<CallerMarked>>) /\ Last(Front(t)) = Caller
    BY <1>1, <1>2, <1>3, <1>7
  <2>2. v[2].vals = <<CallerMarked>>
    BY <2>1, LineFields
  <2>3. PeerOfSecond(h) = PeerOf(CallerMarked)
    BY <1>6, <2>2
  <2> DEFINE p == PeerOf(CallerMarked)
  <2>4. /\ setup.rport = TRUE  => p = [ip |-> setup.source.ip, port |-> 1]
        /\ setup.rport = FALSE => p = AddrOf(Caller)
    BY CallerViaIs
  <2> HIDE DEF p
  <2>5. setup.rport \in BOOLEAN /\ setup.source.ip \in {Caller, NatBox} /\ setup.source \in Sources
    BY SetupIs
  <2>6. p.ip \in {Caller, NatBox}
    BY <2>4, <2>5 DEF AddrOf
  <2>7. Reachable => p = setup.source
    <3>1. CASE setup.source = AddrOf(Caller)
      BY <2>4, <2>5, <3>1 DEF AddrOf
    <3>2. CASE setup.rport = TRUE /\ setup.source.port = 1
      <4>1. setup.source = [ip |-> setup.source.ip, port |-> 1]
        BY <2>5, <3>2 DEF Sources, AddrOf
      <4> QED
        BY <2>4, <3>2, <4>1
    <3> QED
      BY <2>5, <3>1, <3>2 DEF Reachable
  <2>8. BackTo(p, Caller)
    BY <2>6, <2>7, BackToCaller
  <2> QED
    BY <2>1, <2>3, <2>8 DEF p
<1>8. CASE Len(t) # 2
  <2>1. Len(t) - 1 \in 2..Len(t)
    <3> DEFINE n == Len(t)
    <3>1. n \in Nat /\ n >= 2 /\ n # 2
      BY <1>1, <1>8
    <3> HIDE DEF n
    <3>2. n - 1 \in 2..n
      BY <3>1
    <3> QED
      BY <3>2 DEF n
  <2>2. t[Len(t) - 1] \in Passers /\ t[Len(t) - 1] \in Nodes
    BY <1>1, <2>1 DEF Passers, Nodes
  <2>3. v[2] = NodeVia(t[Len(t) - 1])
    BY <1>3, <1>8
  <2>4. v[2].vals[1] = ViaOf(AddrOf(t[Len(t) - 1]))
    BY <2>2, <2>3, NodeViaIs
  <2> QED
    BY <1>2, <1>6, <2>2, <2>4, BackToNode
<1> QED
  BY <1>7, <1>8

------------------------------------------------------------------------------
(* What each hop makes of the headers it received.                             *)

\* With an own Via on top, the Vias received below it, and then what was edited.
Passed(f, h, n, peer, e) ==
    /\ f \in Seq(HeaderLines) /\ IsRequest(f)
    /\ PutOnTop(f, LinesOf(h, Via), NodeVia(n),
                Line(Via, <<Marked(LinesOf(h, Via)[1].vals[1], peer)>>))
    /\ Len(LinesOf(h, Via)) \in Nat \ {0}
    /\ \A name : name # Via => LinesOf(f, name) = LinesOf(e, name)

LEMMA ForwardedPassed ==
    ASSUME NEW h \in Seq(HeaderLines), IsRequest(h), NEW n \in Nodes, NEW peer \in Addresses,
           NEW dels, NEW adds,
           Edited(h, <<[name |-> Via, top |-> TRUE]>> \o dels, adds) \in Seq(HeaderLines)
    PROVE  Passed(Forwarded(h, dels, adds, AddrOf(n), peer), h, n, peer,
                  Edited(h, <<[name |-> Via, top |-> TRUE]>> \o dels, adds))
<1> DEFINE e   == Edited(h, <<[name |-> Via, top |-> TRUE]>> \o dels, adds)
           f   == Forwarded(h, dels, adds, AddrOf(n), peer)
           enc == ViasEncoded(h, peer)
           own == NodeVia(n)
           v   == LinesOf(h, Via)
<1>1. f = (<<own>> \o enc) \o e
  BY DEF Forwarded, NodeVia
<1>2. Has(h, Via)
  BY FirstOnTop DEF IsRequest
<1>3. v # <<>> /\ v \in Seq(HeaderLines)
  BY <1>2, HasLines
<1>4. IsEncoded(enc, v, peer)
  BY <1>3, EncodedIs
<1>5. own \in HeaderLines /\ own.name = Via
  BY NodeViaIs
<1> HIDE DEF e, f, enc, own, v
<1>6. enc \in Seq(HeaderLines) /\ \A i \in 1..Len(enc) : enc[i].name = Via
  BY <1>4 DEF IsEncoded
<1>7. e \in Seq(HeaderLines)
  BY DEF e
<1>8. IsForwarded(f, own, enc, e)
  BY <1>1, <1>5, <1>6, <1>7, ForwardedIs
<1>9. Len(v) \in Nat \ {0} /\ Len(enc) = Len(v) /\ enc # <<>>
  BY <1>3, <1>4, <1>6, EmptySeq, LenProperties DEF IsEncoded
<1>10. LinesOf(e, Via) \in Seq(HeaderLines)
  BY <1>7, HasLines
<1>11. PutOnTop(f, v, own, enc[1])
  <2>1. LinesOf(f, Via) = (<<own>> \o enc) \o LinesOf(e, Via)
    BY <1>8 DEF IsForwarded
  <2>2. \A i \in 2..Len(enc) : v[i] = enc[i]
    BY <1>4, <1>9 DEF IsEncoded
  <2> DEFINE r == LinesOf(e, Via)
  <2> HIDE DEF r
  <2>3. r \in Seq(HeaderLines) /\ LinesOf(f, Via) = (<<own>> \o enc) \o r
    BY <1>10, <2>1 DEF r
  <2> QED
    BY <1>5, <1>6, <1>9, <2>2, <2>3, OnTop
<1>12. enc[1] = Line(Via, <<Marked(v[1].vals[1], peer)>>)
  BY <1>4 DEF IsEncoded
<1>13. Passed(f, h, n, peer, e)
  BY <1>8, <1>9, <1>11, <1>12 DEF Passed, IsForwarded, v, own
<1> QED
  BY <1>13 DEF f, e

\* The request has come along the trail t, and from peer.
CameAlong(h, t, peer) ==
    /\ Len(t) = 1 => peer = setup.source /\ LinesOf(h, Via) = <<Line(Via, <<CallerVia>>)>>
    /\ Len(t) # 1 => ViaPath(h, t)

LEMMA PassedPath ==
    ASSUME setup \in Setups, NEW t, IsTrail(t), NEW n \in Passers, NEW h, NEW f, NEW e, NEW peer,
           CameAlong(h, t, peer), Passed(f, h, n, peer, e)
    PROVE  ViaPath(f, Append(t, n))
<1> DEFINE v == LinesOf(h, Via)
           y == Line(Via, <<Marked(v[1].vals[1], peer)>>)
<1>1. y = TopOfPath(h, t)
  <2>1. CASE Len(t) = 1
    <3>1. peer = setup.source /\ v = <<Line(Via, <<CallerVia>>)>>
      BY <2>1 DEF CameAlong
    <3>2. v[1] = Line(Via, <<CallerVia>>)
      BY <3>1
    <3>3. v[1].vals = <<CallerVia>>
      BY <3>2, LineFields
    <3>4. v[1].vals[1] = CallerVia
      BY <3>3
    <3>5. y = Line(Via, <<CallerMarked>>)
      BY <3>1, <3>4, CallerViaIs
    <3> QED
      BY <2>1, <3>5 DEF TopOfPath
  <2>2. CASE Len(t) # 1
    <3>1. Last(t) \in Nodes
      BY <2>2, TrailIs DEF Passers, Nodes
    <3>2. v[1] = NodeVia(Last(t))
      BY <2>2, PathTop DEF CameAlong
    <3>3. y = NodeVia(Last(t))
      BY <3>1, <3>2, NodeViaIs
    <3> QED
      BY <2>2, <3>2, <3>3 DEF TopOfPath
  <2> QED
    BY <2>1, <2>2
<1>2. PutOnTop(f, v, NodeVia(n), y) /\ Len(v) \in Nat \ {0}
  BY DEF Passed
<1>3. PutOnTop(f, LinesOf(h, Via), NodeVia(n), TopOfPath(h, t))
  BY <1>1, <1>2
<1>4. Len(t) # 1 => ViaPath(h, t)
  BY DEF CameAlong
<1> QED
  BY <1>2, <1>3, <1>4, PathOn

\* The top Route, if there is one, has a line of its own.
Whole(h) == Has(h, Route) => WithoutFirst(h[FirstLine(h, Route)].vals) = <<>>

\* A request whose Call-ID stands in front of the Routes.
CallIdFirst(h) ==
    /\ FirstLine(h, Route) = 3 /\ h[2] = Line(CallId, <<None>>)
    /\ ~(PlaceToAdd(h, RecordRoute) < FirstLine(h, Route))

\* What stands in front of an own Record-Route that has a place in the headers.
IsEnded(e, h, n) ==
    /\ e \in Seq(HeaderLines)
    /\ LinesOf(e, Route) = <<>>
    /\ LinesOf(e, RecordRoute) = <<Line(RecordRoute, <<n>>)>>
    /\ ~Has(h, Fragment) => ~Has(e, Fragment)
    /\ Has(h, Route) /\ CallIdFirst(h) => Has(e, CallId)

LEMMA TwoJoined ==
    ASSUME NEW S, NEW a \in Seq(S), NEW b \in Seq(S), Len(a) = 1, Len(b) = 1
    PROVE  Len(a \o b) = 2 /\ (a \o b)[1] = a[1]
<1> DEFINE c == a \o b
           x == Len(a)
           y == Len(b)
<1>1. /\ Len(c) = x + y
      /\ \A i \in 1..(x + y) : c[i] = IF i <= x THEN a[i] ELSE b[i - x]
  BY ConcatProperties
<1>2. x = 1 /\ y = 1
  OBVIOUS
<1> HIDE DEF c, x, y
<1>3. x + y = 2 /\ 1 \in 1..(x + y) /\ 1 <= x
  BY <1>2
<1>4. c[1] = a[1]
  BY <1>1, <1>3
<1> QED
  BY <1>1, <1>3, <1>4 DEF c

LEMMA RecordEnds ==
    ASSUME NEW h \in Seq(HeaderLines), IsRequest(h), HasPlace(h), NEW n \in Proxies
    PROVE  IsEnded(RecordedHdrs(h, n), h, n)
<1> DEFINE e   == RecordedHdrs(h, n)
           q   == FirstLine(h, Route)
           p   == PlaceToAdd(h, RecordRoute)
           a   == SubSeq(h, 2, q - 1)
           pre == IF Has(h, Route) /\ ~(p < q) THEN a ELSE <<>>
           l   == Line(RecordRoute, <<n>>)
<1>1. h # <<>> /\ h[1].name = Via
  BY DEF IsRequest
<1>2. WithoutFirst(h[1].vals) = <<>>
  <2>1. 1 \in 1..Len(h)
    BY <1>1, EmptySeq, LenProperties
  <2> QED
    BY <1>1, <2>1, OneVia
<1>3. e = pre \o <<l>>
  BY <1>1, <1>2, RequestEnded
<1>4. l \in HeaderLines /\ l.name = RecordRoute
  BY LineTypes, LineFields
<1>5. Has(h, Route) => q \in 2..Len(h) /\ a \in Seq(HeaderLines)
  BY <1>1, KeptAround
<1>6. Len(h) \in Nat
  BY LenProperties
<1>7. p \in Nat /\ (Has(h, RecordRoute) => p = FirstLine(h, RecordRoute))
  BY RecordedPlace
<1>8. pre \in Seq(HeaderLines)
  BY <1>5
<1>9. ASSUME NEW name, name \in {Route, RecordRoute} \/ ~Has(h, name)
      PROVE  LinesOf(pre, name) = <<>>
  <2>1. CASE pre = <<>>
    <3> HIDE DEF pre
    <3> QED
      BY <2>1, LinesOfEmpty
  <2>2. CASE Has(h, Route) /\ ~(p < q)
    <3>1. 2 \in 1..Len(h) + 1 /\ q - 1 \in 0..Len(h)
      BY <1>5, <1>6, <2>2
    <3>2. Has(h, name) => q - 1 < FirstLine(h, name)
      BY <1>5, <1>7, <1>9, <2>2
    <3>3. LinesOf(a, name) = <<>>
      BY <3>1, <3>2, NoneAbove
    <3> QED
      BY <2>2, <3>3
  <2> QED
    BY <2>1, <2>2
<1>14. CallIdFirst(h) => q = 3 /\ h[2] = Line(CallId, <<None>>) /\ ~(p < q)
  BY DEF CallIdFirst
<1>15. Has(h, Route) /\ CallIdFirst(h) => Len(pre) = 1 /\ pre[1].name = CallId
  <2> SUFFICES ASSUME Has(h, Route), CallIdFirst(h)
               PROVE  Len(pre) = 1 /\ pre[1].name = CallId
    OBVIOUS
  <2>1. pre = SubSeq(h, 2, 2)
    BY <1>14
  <2>2. 2 \in 1..Len(h)
    BY <1>5
  <2>3. Len(SubSeq(h, 2, 2)) = 1 /\ SubSeq(h, 2, 2)[1] = h[2]
    BY <1>6, <2>2
  <2>4. h[2].name = CallId
    BY <1>14, LineFields
  <2> QED
    BY <2>1, <2>3, <2>4
<1> HIDE DEF e, pre, l
<1>10. <<l>> \in Seq(HeaderLines) /\ \A name : LinesOf(<<l>>, name) = IF name = RecordRoute THEN <<l>> ELSE <<>>
  BY <1>4, OneLine
<1>20. Joined(HeaderLines, pre \o <<l>>, pre, <<l>>)
  <2> DEFINE ll == <<l>>
  <2>1. ll \in Seq(HeaderLines)
    BY <1>10
  <2> HIDE DEF ll
  <2>2. Joined(HeaderLines, pre \o ll, pre, ll)
    BY <1>8, <2>1, JoinIs
  <2> QED
    BY <2>2 DEF ll
<1>11. e \in Seq(HeaderLines)
  BY <1>3, <1>20 DEF Joined
<1>12. \A name : LinesOf(e, name) = LinesOf(pre, name) \o LinesOf(<<l>>, name)
  BY <1>3, <1>20 DEF Joined
<1>13. ASSUME NEW name, LinesOf(pre, name) = <<>>
       PROVE  LinesOf(e, name) = IF name = RecordRoute THEN <<l>> ELSE <<>>
  <2>1. LinesOf(e, name) = <<>> \o LinesOf(<<l>>, name)
    BY <1>12, <1>13
  <2>2. <<>> \o <<l>> = <<l>> /\ <<>> \o <<>> = <<>>
    BY <1>10, ConcatEmptySeq
  <2> QED
    BY <1>10, <2>1, <2>2
<1>16. LinesOf(e, Route) = <<>> /\ LinesOf(e, RecordRoute) = <<l>>
  BY <1>9, <1>13, NamesApart
<1>17. ~Has(h, Fragment) => ~Has(e, Fragment)
  <2>1. ~Has(h, Fragment) => LinesOf(e, Fragment) = <<>>
    BY <1>9, <1>13, NamesApart
  <2> QED
    BY <1>11, <2>1, HasLines
<1>18. Has(h, Route) /\ CallIdFirst(h) => Has(e, CallId)
  <2> SUFFICES ASSUME Has(h, Route), CallIdFirst(h)
               PROVE  Has(e, CallId)
    OBVIOUS
  <2>1. Len(pre) = 1 /\ pre[1].name = CallId
    BY <1>15
  <2> DEFINE ll == <<l>>
  <2>2. Len(ll) = 1 /\ ll \in Seq(HeaderLines) /\ e = pre \o ll
    BY <1>3, <1>10
  <2> HIDE DEF ll
  <2> HIDE DEF pre, e
  <2>3. Len(e) = 2 /\ e[1] = pre[1]
    BY <1>8, <2>1, <2>2, TwoJoined
  <2>4. 1 \in DOMAIN e
    BY <1>11, <2>3
  <2> QED
    BY <2>1, <2>3, <2>4 DEF Has
<1>19. IsEnded(e, h, n)
  BY <1>11, <1>16, <1>17, <1>18 DEF IsEnded, l
<1> QED
  BY <1>19 DEF e

\* What a proxy sends on.  It may be cut in two ways: behind an own Record-Route
\* that has a place in the headers, and in the middle of the top line if there are
\* several Routes on it.
ProxySent(f, h, n, peer) ==
    /\ \E e : Passed(f, h, n, peer, e)
    /\ ~HasPlace(h) /\ Whole(h) => \A name : name # Via => LinesOf(f, name) = Kept(h, name)
    /\ HasPlace(h) => /\ LinesOf(f, Route) = <<>>
                      /\ LinesOf(f, RecordRoute) = <<Line(RecordRoute, <<n>>)>>
                      /\ ~Has(h, Fragment) => ~Has(f, Fragment)
                      /\ Has(h, Route) /\ CallIdFirst(h) => Has(f, CallId)

OnRecord(n) == <<[name |-> RecordRoute, val |-> n, ends |-> TRUE]>>

LEMMA ProxySends ==
    ASSUME NEW h \in Seq(HeaderLines), IsRequest(h),
           NEW n \in Proxies, NEW peer \in Addresses
    PROVE  ProxySent(Forwarded(h, TopRoute, OnRecord(n), AddrOf(n), peer), h, n, peer)
<1> DEFINE e == RecordedHdrs(h, n)
           f == Forwarded(h, TopRoute, OnRecord(n), AddrOf(n), peer)
<1>1. h # <<>> /\ h[1].name = Via
  BY DEF IsRequest
<1>2. WithoutFirst(h[1].vals) = <<>>
  <2>1. 1 \in 1..Len(h)
    BY <1>1, EmptySeq, LenProperties
  <2> QED
    BY <1>1, <2>1, OneVia
<1>3. ~HasPlace(h) /\ Whole(h) => e \in Seq(HeaderLines) /\ \A name : LinesOf(e, name) = Kept(h, name)
  <2> SUFFICES ASSUME ~HasPlace(h), Whole(h)
               PROVE  e \in Seq(HeaderLines) /\ \A name : LinesOf(e, name) = Kept(h, name)
    OBVIOUS
  <2>1. Has(h, Route) => WithoutFirst(h[FirstLine(h, Route)].vals) = <<>>
    BY DEF Whole
  <2> QED
    BY <1>1, <1>2, <2>1, RequestKept
<1>4. HasPlace(h) => IsEnded(e, h, n)
  BY RecordEnds
<1>5. e = Edited(h, <<[name |-> Via, top |-> TRUE]>> \o TopRoute, OnRecord(n))
  BY DEF RecordedHdrs, OnRecord
<1>6. n \in Nodes
  BY DEF Nodes
<1>7. e \in Seq(HeaderLines)
  <2>1. ~HasPlace(h) /\ ~Whole(h) => e \in Seq(HeaderLines)
    BY <1>1, <1>2, LineTypes, RequestCut DEF Whole
  <2> QED
    BY <1>3, <1>4, <2>1 DEF IsEnded
<1>8. Passed(f, h, n, peer, e)
  BY <1>5, <1>6, <1>7, ForwardedPassed
<1> HIDE DEF e, f
<1>9. \A name : name # Via => LinesOf(f, name) = LinesOf(e, name)
  BY <1>8 DEF Passed
<1>10. f \in Seq(HeaderLines)
  BY <1>8 DEF Passed
<1>11. \A name : name # Via => (Has(f, name) <=> Has(e, name))
  BY <1>7, <1>9, <1>10, HasLines
<1>12. ~HasPlace(h) /\ Whole(h) => \A name : name # Via => LinesOf(f, name) = Kept(h, name)
  BY <1>3, <1>9
<1>13. HasPlace(h) => /\ LinesOf(f, Route) = <<>>
                      /\ LinesOf(f, RecordRoute) = <<Line(RecordRoute, <<n>>)>>
                      /\ ~Has(h, Fragment) => ~Has(f, Fragment)
                      /\ Has(h, Route) /\ CallIdFirst(h) => Has(f, CallId)
  <2> SUFFICES ASSUME HasPlace(h)
               PROVE  /\ LinesOf(f, Route) = <<>>
                      /\ LinesOf(f, RecordRoute) = <<Line(RecordRoute, <<n>>)>>
                      /\ ~Has(h, Fragment) => ~Has(f, Fragment)
                      /\ Has(h, Route) /\ CallIdFirst(h) => Has(f, CallId)
    OBVIOUS
  <2>1. IsEnded(e, h, n)
    BY <1>4
  <2>2. /\ LinesOf(f, Route) = LinesOf(e, Route) /\ LinesOf(f, RecordRoute) = LinesOf(e, RecordRoute)
        /\ Has(f, Fragment) <=> Has(e, Fragment)
        /\ Has(f, CallId) <=> Has(e, CallId)
    BY <1>9, <1>11, NamesApart
  <2> QED
    BY <2>1, <2>2 DEF IsEnded
<1>16. ProxySent(f, h, n, peer)
  BY <1>8, <1>12, <1>13 DEF ProxySent
<1> QED
  BY <1>16 DEF f

\* The S-CSCF on the way to the callee adds nothing.
ScscfSent(f, h, peer) ==
    /\ \E e : Passed(f, h, Scscf, peer, e)
    /\ \A name : name # Via => LinesOf(f, name) = Kept(h, name)

LEMMA ScscfSends ==
    ASSUME NEW h \in Seq(HeaderLines), IsRequest(h), Whole(h), NEW peer \in Addresses
    PROVE  ScscfSent(Forwarded(h, TopRoute, <<>>, AddrOf(Scscf), peer), h, peer)
<1> DEFINE e == Edited(h, <<[name |-> Via, top |-> TRUE]>> \o TopRoute, <<>>)
           f == Forwarded(h, TopRoute, <<>>, AddrOf(Scscf), peer)
<1>1. h # <<>> /\ h[1].name = Via
  BY DEF IsRequest
<1>2. WithoutFirst(h[1].vals) = <<>>
  <2>1. 1 \in 1..Len(h)
    BY <1>1, EmptySeq, LenProperties
  <2> QED
    BY <1>1, <2>1, OneVia
<1>3. e \in Seq(HeaderLines) /\ \A name : LinesOf(e, name) = Kept(h, name)
  BY <1>1, <1>2, RequestWithout DEF Whole
<1>4. Scscf \in Nodes
  BY DEF Nodes
<1>5. Passed(f, h, Scscf, peer, e)
  BY <1>3, <1>4, ForwardedPassed
<1> HIDE DEF e, f
<1>6. \A name : name # Via => LinesOf(f, name) = Kept(h, name)
  BY <1>3, <1>5 DEF Passed
<1>7. ScscfSent(f, h, peer)
  BY <1>5, <1>6 DEF ScscfSent
<1> QED
  BY <1>7 DEF f

LEMMA SinglesTuples ==
    ASSUME NEW name
    PROVE  /\ Singles(name, <<>>) = <<>>
           /\ \A a : Singles(name, <<a>>) = <<Line(name, <<a>>)>>
           /\ \A a, b : Singles(name, <<a, b>>) = <<Line(name, <<a>>), Line(name, <<b>>)>>
  BY DEF Singles

\* An answer without the top Via.
AnswerOn(f, h) ==
    /\ f \in Seq(HeaderLines)
    /\ LinesOf(f, Via) = Tail(LinesOf(h, Via))
    /\ \A name : name # Via => LinesOf(f, name) = LinesOf(h, name)

LEMMA AnswerGoesOn ==
    ASSUME NEW h \in Seq(HeaderLines), LinesOf(h, Via) # <<>>
    PROVE  AnswerOn(AnswerForwarded(h), h)
<1> DEFINE p == FirstLine(h, Via)
           a == SubSeq(h, 1, p - 1)
           b == SubSeq(h, p + 1, Len(h))
           f == AnswerForwarded(h)
<1>1. Has(h, Via)
  BY HasLines
<1>2. p \in 1..Len(h) /\ h[p].name = Via
  BY <1>1, FirstLineIs
<1>3. WithoutFirst(h[p].vals) = <<>>
  BY <1>2, OneVia
<1>4. f = a \o b
  BY <1>1, <1>3, AnswerWithout
<1>5. a \in Seq(HeaderLines) /\ b \in Seq(HeaderLines)
  BY <1>2, SplitAt
<1>6. \A name : LinesOf(h, name) =
          LinesOf(a, name) \o ((IF h[p].name = name THEN <<h[p]>> ELSE <<>>) \o LinesOf(b, name))
  BY <1>2, LinesSplitAt
<1>7. LinesOf(a, Via) = <<>>
  <2>1. 1 \in 1..Len(h) + 1 /\ p - 1 \in 0..Len(h) /\ p - 1 < p
    BY <1>2, LenProperties
  <2> QED
    BY <2>1, NoneAbove
<1>8. Tail(LinesOf(h, Via)) = LinesOf(b, Via)
  BY <1>1, TopLines
<1> HIDE DEF a, b, f, p
<1>9. Joined(HeaderLines, f, a, b)
  BY <1>4, <1>5, JoinIs
<1>10. f \in Seq(HeaderLines) /\ \A name : LinesOf(f, name) = LinesOf(a, name) \o LinesOf(b, name)
  BY <1>9 DEF Joined
<1>11. \A name : LinesOf(a, name) \in Seq(HeaderLines) /\ LinesOf(b, name) \in Seq(HeaderLines)
  BY <1>5, HasLines
<1>12. LinesOf(f, Via) = Tail(LinesOf(h, Via))
  <2>1. LinesOf(f, Via) = <<>> \o LinesOf(b, Via)
    BY <1>7, <1>10
  <2> QED
    BY <1>8, <1>11, <2>1, ConcatEmptySeq
<1>13. ASSUME NEW name, name # Via
       PROVE  LinesOf(f, name) = LinesOf(h, name)
  <2>1. LinesOf(h, name) = LinesOf(a, name) \o (<<>> \o LinesOf(b, name))
    BY <1>2, <1>6, <1>13
  <2>2. <<>> \o LinesOf(b, name) = LinesOf(b, name)
    BY <1>11, ConcatEmptySeq
  <2> QED
    BY <1>10, <2>1, <2>2
<1>14. AnswerOn(f, h)
  BY <1>10, <1>12, <1>13 DEF AnswerOn
<1> QED
  BY <1>14 DEF f

\* Three parts that each have lines of one name only.
InThree(f, a, b, c, na, nb, nc) ==
    /\ f \in Seq(HeaderLines)
    /\ LinesOf(f, na) = LinesOf(a, na)
    /\ LinesOf(f, nb) = LinesOf(b, nb)
    /\ LinesOf(f, nc) = LinesOf(c, nc)
    /\ \A name : name \notin {na, nb, nc} => LinesOf(f, name) = <<>>

LEMMA AnswerParts ==
    ASSUME NEW a, NEW b, NEW c, NEW na, NEW nb, NEW nc, na # nb, na # nc, nb # nc,
           Only(a, na), Only(b, nb), Only(c, nc)
    PROVE  InThree((a \o b) \o c, a, b, c, na, nb, nc)
<1> DEFINE ab  == a \o b
           abc == ab \o c
<1>1. a \in Seq(HeaderLines) /\ b \in Seq(HeaderLines) /\ c \in Seq(HeaderLines)
  BY DEF Only
<1>2. Joined(HeaderLines, ab, a, b)
  BY <1>1, JoinIs
<1> HIDE DEF ab
<1>3. ab \in Seq(HeaderLines)
  BY <1>2 DEF Joined
<1>4. Joined(HeaderLines, abc, ab, c)
  BY <1>1, <1>3, JoinIs
<1> HIDE DEF abc
<1>5. abc \in Seq(HeaderLines)
      /\ \A name : LinesOf(abc, name) = (LinesOf(a, name) \o LinesOf(b, name)) \o LinesOf(c, name)
  BY <1>2, <1>4 DEF Joined
<1>6. /\ LinesOf(a, na) \in Seq(HeaderLines) /\ LinesOf(b, nb) \in Seq(HeaderLines)
      /\ LinesOf(c, nc) \in Seq(HeaderLines)
  BY <1>1, HasLines
<1>7. \A s \in Seq(HeaderLines) : s \o <<>> = s /\ <<>> \o s = s
  BY ConcatEmptySeq
<1>8. LinesOf(abc, na) = LinesOf(a, na)
  <2>1. LinesOf(abc, na) = (LinesOf(a, na) \o <<>>) \o <<>>
    BY <1>5 DEF Only
  <2> QED
    BY <1>6, <1>7, <2>1
<1>9. LinesOf(abc, nb) = LinesOf(b, nb)
  <2>1. LinesOf(abc, nb) = (<<>> \o LinesOf(b, nb)) \o <<>>
    BY <1>5 DEF Only
  <2> QED
    BY <1>6, <1>7, <2>1
<1>12. LinesOf(abc, nc) = LinesOf(c, nc)
  <2>1. LinesOf(abc, nc) = (<<>> \o <<>>) \o LinesOf(c, nc)
    BY <1>5 DEF Only
  <2>2. <<>> \o <<>> = <<>>
    OBVIOUS
  <2> QED
    BY <1>6, <1>7, <2>1, <2>2
<1>10. ASSUME NEW name, name \notin {na, nb, nc}
       PROVE  LinesOf(abc, name) = <<>>
  <2>1. LinesOf(abc, name) = (<<>> \o <<>>) \o <<>>
    BY <1>5, <1>10 DEF Only
  <2>2. <<>> \o <<>> = <<>>
    OBVIOUS
  <2> QED
    BY <2>1, <2>2
<1>11. InThree(abc, a, b, c, na, nb, nc)
  BY <1>5, <1>8, <1>9, <1>10, <1>12 DEF InThree
<1> QED
  BY <1>11 DEF abc, ab

\* Lines taken out of headers, and lines that all have the name.
LEMMA OnlyLines ==
    ASSUME NEW h \in Seq(HeaderLines), NEW n
    PROVE  Only(LinesOf(h, n), n) /\ LinesOf(LinesOf(h, n), n) = LinesOf(h, n)
<1> DEFINE ls == LinesOf(h, n)
<1>1. ls \in Seq(HeaderLines) /\ \A i \in 1..Len(ls) : ls[i].name = n
  BY LinesAre
<1> HIDE DEF ls
<1>2. Only(ls, n)
  BY <1>1, OtherLines DEF Only
<1>3. LinesOf(ls, n) = ls
  BY <1>1, AllLines
<1> QED
  BY <1>2, <1>3 DEF ls

\* The callee's answer, and one of a proxy's own.
Answered(f, h, vias) ==
    f \in Seq(HeaderLines) /\ LinesOf(f, Via) = vias /\ Readable(f)

LEMMA CalleesAnswer ==
    ASSUME NEW h \in Seq(HeaderLines), Readable(h)
    PROVE  /\ Answered(Answer(h), h, LinesOf(h, Via))
           /\ LinesOf(Answer(h), RecordRoute) = LinesOf(h, RecordRoute)
<1> DEFINE a == LinesOf(h, Via)
           b == LinesOf(h, RecordRoute)
           c == LinesOf(h, CallId)
           f == Answer(h)
<1>1. f = (a \o b) \o c
  BY DEF Answer
<1>2. /\ Only(a, Via) /\ Only(b, RecordRoute) /\ Only(c, CallId)
      /\ LinesOf(a, Via) = a /\ LinesOf(b, RecordRoute) = b /\ LinesOf(c, CallId) = c
  BY OnlyLines
<1>5. c # <<>>
  BY HasLines DEF Readable
<1> HIDE DEF a, b, c, f
<1>3. /\ f \in Seq(HeaderLines) /\ LinesOf(f, Via) = a /\ LinesOf(f, RecordRoute) = b
      /\ LinesOf(f, CallId) = c /\ LinesOf(f, Fragment) = <<>>
  <2>1. InThree(f, a, b, c, Via, RecordRoute, CallId)
    BY <1>1, <1>2, NamesApart, AnswerParts
  <2> QED
    BY <1>2, <2>1, NamesApart DEF InThree
<1>4. Readable(f)
  BY <1>3, <1>5, HasLines DEF Readable
<1> QED
  BY <1>3, <1>4 DEF Answered, a, b, f

LEMMA ProxysAnswer ==
    ASSUME NEW h \in Seq(HeaderLines), Readable(h), LinesOf(h, Via) # <<>>, NEW peer \in Addresses
    PROVE  Answered(OwnAnswer(h, peer), h, ViasEncoded(h, peer))
<1> DEFINE a == LinesOf(h, CallId)
           b == ViasEncoded(h, peer)
           c == <<Line(Length, <<0>>)>>
           f == OwnAnswer(h, peer)
<1>1. f = (a \o b) \o c
  BY DEF OwnAnswer, AnswerStart
<1>2. Only(a, CallId) /\ LinesOf(a, CallId) = a
  BY OnlyLines
<1>9. a # <<>>
  BY HasLines DEF Readable
<1>3. IsEncoded(b, LinesOf(h, Via), peer)
  BY EncodedIs
<1>4. Only(c, Length)
  <2>1. Line(Length, <<0>>) \in HeaderLines /\ Line(Length, <<0>>).name = Length
    BY LineTypes, LineFields
  <2> DEFINE l == Line(Length, <<0>>)
  <2> HIDE DEF l
  <2>2. <<l>> \in Seq(HeaderLines) /\ \A name : LinesOf(<<l>>, name) = IF name = Length THEN <<l>> ELSE <<>>
    BY <2>1, OneLine DEF l
  <2>3. Only(<<l>>, Length)
    BY <2>2 DEF Only
  <2> QED
    BY <2>3 DEF l
<1> HIDE DEF a, b, c, f
<1>5. b \in Seq(HeaderLines) /\ \A i \in 1..Len(b) : b[i].name = Via
  BY <1>3 DEF IsEncoded
<1>6. Only(b, Via) /\ LinesOf(b, Via) = b
  BY <1>5, OtherLines, AllLines DEF Only
<1>7. f \in Seq(HeaderLines) /\ LinesOf(f, Via) = b /\ LinesOf(f, Fragment) = <<>>
      /\ LinesOf(f, CallId) = a
  <2>1. InThree(f, a, b, c, CallId, Via, Length)
    BY <1>1, <1>2, <1>4, <1>6, NamesApart, AnswerParts
  <2> QED
    BY <1>2, <1>6, <2>1, NamesApart DEF InThree
<1>8. Readable(f)
  BY <1>7, <1>9, HasLines DEF Readable
<1> QED
  BY <1>7, <1>8 DEF Answered, b, f

\* With a node's Via on top there was nothing to fill in.
LEMMA EncodedSame ==
    ASSUME NEW h \in Seq(HeaderLines), NEW peer \in Addresses, LinesOf(h, Via) # <<>>,
           NEW n \in Nodes, LinesOf(h, Via)[1] = NodeVia(n)
    PROVE  ViasEncoded(h, peer) = LinesOf(h, Via)
<1> DEFINE v == LinesOf(h, Via)
           e == ViasEncoded(h, peer)
<1>1. IsEncoded(e, v, peer)
  BY EncodedIs
<1>2. v \in Seq(HeaderLines)
  BY LinesAre
<1>3. Line(Via, <<Marked(v[1].vals[1], peer)>>) = v[1]
  BY NodeViaIs
<1> HIDE DEF e, v
<1>4. e \in Seq(HeaderLines) /\ Len(e) = Len(v) /\ \A i \in 1..Len(e) : e[i] = v[i]
  <2>1. Len(v) \in Nat /\ \A i \in 1..Len(v) : i = 1 \/ i \in 2..Len(v)
    BY <1>2, LenProperties
  <2>2. e[1] = v[1] /\ \A i \in 2..Len(v) : e[i] = v[i]
    BY <1>1, <1>3 DEF IsEncoded
  <2>3. e \in Seq(HeaderLines) /\ Len(e) = Len(v)
    BY <1>1 DEF IsEncoded
  <2> QED
    BY <2>1, <2>2, <2>3
<1>5. e = v
  BY <1>2, <1>4, SeqEqual
<1> QED
  BY <1>5 DEF e, v

\* What the application server leaves as it is.
Left(l) == IF l.name \in {Via, Route} THEN <<>> ELSE <<l>>
Lefts(h) == [i \in DOMAIN h |-> IF h[i].name \in {Via, Route} THEN <<>> ELSE <<h[i]>>]
LeftOf(o, h) ==
    /\ o \in Seq(HeaderLines)
    /\ LinesOf(o, Via) = <<>> /\ LinesOf(o, Route) = <<>>
    /\ \A name : name \notin {Via, Route} => LinesOf(o, name) = LinesOf(h, name)

LEMMA LeftsAppend ==
    ASSUME NEW h \in Seq(HeaderLines), NEW l \in HeaderLines
    PROVE  /\ Lefts(h) \in Seq(Seq(HeaderLines)) /\ Left(l) \in Seq(HeaderLines)
           /\ Lefts(Append(h, l)) = Append(Lefts(h), Left(l))
<1>0. \A k \in HeaderLines : Left(k) \in Seq(HeaderLines)
  BY OneSeq, EmptySeq DEF Left
<1>1. ASSUME NEW k \in Seq(HeaderLines)
      PROVE  /\ Lefts(k) \in Seq(Seq(HeaderLines)) /\ Len(Lefts(k)) = Len(k)
             /\ \A i \in 1..Len(k) : Lefts(k)[i] = Left(k[i])
  <2>1. DOMAIN k = 1..Len(k) /\ Len(k) \in Nat /\ \A i \in 1..Len(k) : k[i] \in HeaderLines
    BY LenProperties, ElementOfSeq
  <2>2. \A i \in 1..Len(k) : Lefts(k)[i] = Left(k[i])
    BY <2>1 DEF Lefts, Left
  <2> DEFINE Q == Seq(HeaderLines)
  <2> HIDE DEF Q
  <2>3. Lefts(k) = [i \in 1..Len(k) |-> Left(k[i])]
    BY <2>1 DEF Lefts, Left
  <2>4. \A i \in 1..Len(k) : Left(k[i]) \in Q
    BY <1>0, <2>1 DEF Q
  <2>5. Lefts(k) \in [1..Len(k) -> Q]
    BY <2>3, <2>4
  <2>6. Lefts(k) \in Seq(Q) /\ Len(Lefts(k)) = Len(k)
    BY <2>1, <2>5, SeqOfFun
  <2> QED
    BY <2>2, <2>6 DEF Q
<1> DEFINE hl == Append(h, l)
<1>2. /\ hl \in Seq(HeaderLines) /\ Len(hl) = Len(h) + 1 /\ hl[Len(h) + 1] = l
      /\ \A i \in 1..Len(h) : hl[i] = h[i]
  BY AppendProperties
<1> HIDE DEF hl
<1>3. /\ Lefts(hl) \in Seq(Seq(HeaderLines)) /\ Len(Lefts(hl)) = Len(hl)
      /\ \A i \in 1..Len(hl) : Lefts(hl)[i] = Left(hl[i])
  BY <1>1, <1>2
<1>4. /\ Lefts(h) \in Seq(Seq(HeaderLines)) /\ Len(Lefts(h)) = Len(h)
      /\ \A i \in 1..Len(h) : Lefts(h)[i] = Left(h[i])
  BY <1>1
<1>5. Left(l) \in Seq(HeaderLines) /\ Len(h) \in Nat
  BY <1>0, LenProperties
<1> DEFINE Q == Seq(HeaderLines)
           a == Append(Lefts(h), Left(l))
<1>6. Lefts(h) \in Seq(Q) /\ Left(l) \in Q /\ Lefts(hl) \in Seq(Q)
  BY <1>3, <1>4, <1>5
<1> HIDE DEF Q
<1>7. /\ a \in Seq(Q) /\ Len(a) = Len(h) + 1 /\ a[Len(h) + 1] = Left(l)
      /\ \A i \in 1..Len(h) : a[i] = Lefts(h)[i]
  BY <1>4, <1>6, AppendProperties
<1> HIDE DEF a
<1>8. ASSUME NEW i \in 1..Len(h) + 1
      PROVE  Lefts(hl)[i] = a[i]
  <2>1. CASE i = Len(h) + 1
    BY <1>2, <1>3, <1>5, <1>7, <2>1
  <2>2. CASE i # Len(h) + 1
    <3>1. i \in 1..Len(h) /\ i \in 1..Len(hl)
      BY <1>2, <1>5, <2>2
    <3> QED
      BY <1>2, <1>3, <1>4, <1>7, <3>1
  <2> QED
    BY <2>1, <2>2
<1>9. Lefts(hl) = a
  BY <1>2, <1>3, <1>6, <1>7, <1>8, SeqEqual
<1> QED
  BY <1>4, <1>5, <1>9 DEF hl, a

LEMMA LeftsAre ==
    ASSUME NEW h \in Seq(HeaderLines)
    PROVE  LeftOf(FlattenSeq(Lefts(h)), h)
<1> DEFINE T == {n \in Nat : \A k \in Seq(HeaderLines) : Len(k) = n => LeftOf(FlattenSeq(Lefts(k)), k)}
<1>1. 0 \in T
  <2> SUFFICES ASSUME NEW k \in Seq(HeaderLines), Len(k) = 0
               PROVE  LeftOf(FlattenSeq(Lefts(k)), k)
    OBVIOUS
  <2>1. k = <<>>
    BY EmptySeq
  <2>2. Lefts(k) = <<>>
    BY <2>1 DEF Lefts
  <2> DEFINE o == FlattenSeq(Lefts(k))
  <2>3. o = <<>> /\ o = k
    BY <2>1, <2>2, FlattenEmpty
  <2> HIDE DEF o
  <2>4. \A name : LinesOf(o, name) = <<>>
    BY <2>3, LinesOfEmpty
  <2>5. LeftOf(o, k)
    BY <2>3, <2>4 DEF LeftOf
  <2> QED
    BY <2>5 DEF o
<1>2. ASSUME NEW n \in T
      PROVE  n + 1 \in T
  <2> SUFFICES ASSUME NEW k \in Seq(HeaderLines), Len(k) = n + 1
               PROVE  LeftOf(FlattenSeq(Lefts(k)), k)
    OBVIOUS
  <2>1. k # <<>>
    BY EmptySeq
  <2>2. PICK g \in Seq(HeaderLines), l \in HeaderLines : k = Append(g, l)
    BY <2>1, SequenceEmptyOrAppend
  <2>3. Len(g) = n
    BY <2>2, AppendProperties, LenProperties
  <2> DEFINE o == FlattenSeq(Lefts(g))
             p == FlattenSeq(Lefts(k))
             r == Left(l)
  <2>4. LeftOf(o, g)
    BY <2>3
  <2>5. p = o \o r /\ r \in Seq(HeaderLines)
    <3>1. Lefts(g) \in Seq(Seq(HeaderLines)) /\ Left(l) \in Seq(HeaderLines)
          /\ Lefts(k) = Append(Lefts(g), Left(l))
      BY <2>2, LeftsAppend
    <3> QED
      BY <3>1, FlattenAppend
  <2>6. k = g \o <<l>> /\ <<l>> \in Seq(HeaderLines)
    BY <2>2, AppendIsConcat, OneSeq
  <2>7. \A name : LinesOf(k, name) = LinesOf(g, name) \o LinesOf(<<l>>, name)
    <3> DEFINE one == <<l>>
    <3> HIDE DEF one
    <3>1. k = g \o one /\ one \in Seq(HeaderLines)
      BY <2>6 DEF one
    <3>2. Joined(HeaderLines, k, g, one)
      BY <3>1, JoinIs
    <3> QED
      BY <3>2 DEF Joined, one
  <2>8. \A name : LinesOf(r, name) = IF name \in {Via, Route} THEN <<>> ELSE LinesOf(<<l>>, name)
    <3>1. \A name : LinesOf(<<l>>, name) = IF l.name = name THEN <<l>> ELSE <<>>
      BY LinesOfOne
    <3>2. CASE l.name \in {Via, Route}
      <4>1. r = <<>>
        BY <3>2 DEF Left
      <4> QED
        BY <3>1, <3>2, <4>1, LinesOfEmpty
    <3>3. CASE l.name \notin {Via, Route}
      <4>1. r = <<l>>
        BY <3>3 DEF Left
      <4> QED
        BY <3>1, <3>3, <4>1
    <3> QED
      BY <3>2, <3>3
  <2> HIDE DEF o, p, r
  <2>9. o \in Seq(HeaderLines)
    BY <2>4 DEF LeftOf
  <2>10. Joined(HeaderLines, p, o, r)
    BY <2>5, <2>9, JoinIs
  <2>11. p \in Seq(HeaderLines) /\ \A name : LinesOf(p, name) = LinesOf(o, name) \o LinesOf(r, name)
    BY <2>10 DEF Joined
  <2>12. ASSUME NEW name \in {Via, Route}
         PROVE  LinesOf(p, name) = <<>>
    <3>1. LinesOf(o, name) = <<>> /\ LinesOf(r, name) = <<>>
      BY <2>4, <2>8 DEF LeftOf
    <3>2. <<>> \o <<>> = <<>>
      OBVIOUS
    <3> QED
      BY <2>11, <3>1, <3>2
  <2>13. ASSUME NEW name, name \notin {Via, Route}
         PROVE  LinesOf(p, name) = LinesOf(k, name)
    <3>1. LinesOf(o, name) = LinesOf(g, name)
      BY <2>4, <2>13 DEF LeftOf
    <3>2. LinesOf(r, name) = LinesOf(<<l>>, name)
      BY <2>8, <2>13
    <3> QED
      BY <2>7, <2>11, <3>1, <3>2
  <2>14. LeftOf(p, k)
    BY <2>11, <2>12, <2>13 DEF LeftOf
  <2> QED
    BY <2>14 DEF p
<1>3. T \in SUBSET Nat
  OBVIOUS
<1> HIDE DEF T
<1>4. T = Nat
  BY <1>1, <1>2, <1>3, SetInduction
<1> QED
  BY <1>4, LenProperties DEF T

\* The application server takes its own Route off and leaves the one below it.
ServerSent(f, h) ==
    /\ f \in Seq(HeaderLines) /\ IsRequest(f)
    /\ PutOnTop(f, LinesOf(h, Via), NodeVia(AppServer), LinesOf(h, Via)[1])
    /\ Len(LinesOf(h, Via)) \in Nat \ {0}
    /\ RoutesAre(f, <<Odi>>)
    /\ \A name : name \notin {Via, Route} => LinesOf(f, name) = LinesOf(h, name)

LEMMA ServerSends ==
    ASSUME setup \in Setups, NEW h \in Seq(HeaderLines), IsRequest(h), RoutesAre(h, <<AppServer, Odi>>)
    PROVE  ServerSent(ServersRequest(h), h)
<1> DEFINE a == <<NodeVia(AppServer)>>
           b == LinesOf(h, Via)
           c == RouteLines(Tail(Values(h, Route)))
           d == FlattenSeq(Lefts(h))
           f == ServersRequest(h)
<1>1. f = ((a \o b) \o c) \o d
  BY DEF ServersRequest, NodeVia, Lefts
<1>2. NodeVia(AppServer) \in HeaderLines /\ NodeVia(AppServer).name = Via
  BY NodeViaIs DEF Nodes
<1>3. /\ a \in Seq(HeaderLines) /\ a # <<>> /\ a[1] = NodeVia(AppServer)
      /\ \A name : LinesOf(a, name) = IF name = Via THEN a ELSE <<>>
  BY <1>2, OneLine
<1>4. Only(b, Via) /\ LinesOf(b, Via) = b
  BY OnlyLines
<1>5. b # <<>>
  <2>1. Has(h, Via)
    BY FirstOnTop DEF IsRequest
  <2> QED
    BY <2>1, HasLines
<1>6. Odi \in Hops /\ AppServer \in Hops /\ setup.folded \in BOOLEAN
  BY SetupIs DEF Hops, Nodes
<1>7. c = RouteLines(<<Odi>>)
  <2>1. <<AppServer, Odi>> \in Seq(Hops)
    BY <1>6
  <2> DEFINE routes == <<AppServer, Odi>>
  <2>2. Tail(routes) = <<Odi>>
    OBVIOUS
  <2> HIDE DEF routes
  <2>3. routes \in Seq(Hops) /\ LinesOf(h, Route) = Singles(Route, routes)
    BY <2>1 DEF RoutesAre, routes
  <2>4. Values(h, Route) = routes
    BY <2>3, ValuesOfSingles
  <2> QED
    BY <2>2, <2>4
<1>8. RouteLines(<<Odi>>) = Singles(Route, <<Odi>>)
  <2> DEFINE routes == <<Odi>>
  <2>1. routes \in Seq(Hops) /\ routes # <<>>
    BY <1>6
  <2>2. Singles(Route, routes) = <<Line(Route, routes)>>
    BY SinglesTuples
  <2> HIDE DEF routes
  <2>3. RouteLines(routes) = Singles(Route, routes)
    <3>1. CASE setup.folded = TRUE
      BY Zenon, <2>1, <2>2, <3>1, RoutesFolded
    <3>2. CASE setup.folded = FALSE
      BY Zenon, <3>2, RoutesUnfolded
    <3> QED
      BY <1>6, <3>1, <3>2
  <2> QED
    BY <2>3 DEF routes
<1>9. c \in Seq(HeaderLines) /\ \A name : LinesOf(c, name) = IF name = Route THEN c ELSE <<>>
  <2> DEFINE routes == <<Odi>>
  <2>1. routes \in Seq(Hops)
    BY <1>6
  <2> HIDE DEF routes
  <2>2. /\ RouteLines(routes) \in Seq(HeaderLines)
        /\ \A name : LinesOf(RouteLines(routes), name) = IF name = Route THEN RouteLines(routes) ELSE <<>>
    BY <1>6, <2>1, RouteLinesType, RouteLinesOf
  <2> QED
    BY <1>7, <2>2 DEF routes
<1>10. LeftOf(d, h)
  BY LeftsAre
<1> HIDE DEF a, b, c, d, f
<1>11. b \in Seq(HeaderLines) /\ d \in Seq(HeaderLines)
  BY <1>4, <1>10 DEF Only, LeftOf
<1>12. IsJoined4(HeaderLines, f, a, b, c, d)
  BY <1>1, <1>3, <1>9, <1>11, FourParts
<1>13. f \in Seq(HeaderLines) /\ IsRequest(f)
  BY <1>2, <1>3, <1>12 DEF IsJoined4, IsRequest
<1>14. \A name : LinesOf(f, name) =
          ((LinesOf(a, name) \o LinesOf(b, name)) \o LinesOf(c, name)) \o LinesOf(d, name)
  BY <1>12 DEF IsJoined4
<1>15. \A s \in Seq(HeaderLines) : s \o <<>> = s /\ <<>> \o s = s
  BY ConcatEmptySeq
<1>16. <<>> \o <<>> = <<>>
  OBVIOUS
<1>17. LinesOf(f, Via) = (a \o b) \o <<>>
  <2>1. LinesOf(f, Via) = ((a \o b) \o <<>>) \o <<>>
    BY <1>3, <1>4, <1>9, <1>10, <1>14, NamesApart DEF LeftOf
  <2>2. (a \o b) \in Seq(HeaderLines)
    BY <1>3, <1>11, ConcatProperties
  <2> QED
    BY <1>15, <2>1, <2>2
<1>18. Len(b) \in Nat \ {0}
  BY <1>5, <1>11, EmptySeq, LenProperties
<1>19. PutOnTop(f, b, NodeVia(AppServer), b[1])
  <2> DEFINE none == <<>>
             x == NodeVia(AppServer)
  <2>1. none \in Seq(HeaderLines)
    BY EmptySeq
  <2>2. LinesOf(f, Via) = (<<x>> \o b) \o none /\ x \in HeaderLines
    BY <1>2, <1>17 DEF a
  <2> HIDE DEF none, x
  <2>3. \A i \in 2..Len(b) : b[i] = b[i]
    OBVIOUS
  <2>4. PutOnTop(f, b, x, b[1])
    BY <1>5, <1>11, <2>1, <2>2, <2>3, OnTop
  <2> QED
    BY <2>4 DEF x
<1>20. LinesOf(f, Route) = c
  <2>1. LinesOf(f, Route) = ((<<>> \o <<>>) \o c) \o <<>>
    BY <1>3, <1>4, <1>9, <1>10, <1>14, NamesApart DEF LeftOf, Only
  <2> QED
    BY <1>9, <1>15, <1>16, <2>1
<1>21. ASSUME NEW name, name \notin {Via, Route}
       PROVE  LinesOf(f, name) = LinesOf(h, name)
  <2>1. LinesOf(f, name) = ((<<>> \o <<>>) \o <<>>) \o LinesOf(h, name)
    BY <1>3, <1>4, <1>9, <1>10, <1>14, <1>21 DEF LeftOf, Only
  <2>2. LinesOf(h, name) \in Seq(HeaderLines)
    BY LinesAre
  <2> QED
    BY <1>15, <1>16, <2>1, <2>2
<1>22. RoutesAre(f, <<Odi>>)
  BY <1>7, <1>8, <1>20 DEF RoutesAre
<1>23. ServerSent(f, h)
  BY <1>13, <1>18, <1>19, <1>21, <1>22 DEF ServerSent, b
<1> QED
  BY <1>23 DEF f

LEMMA AppendIs ==
    ASSUME NEW S, NEW s \in Seq(S), NEW e \in S, NEW t \in Seq(S), Len(t) = Len(s) + 1,
           t[Len(s) + 1] = e, \A i \in 1..Len(s) : t[i] = s[i]
    PROVE  Append(s, e) = t
<1> DEFINE u == Append(s, e)
<1>1. /\ u \in Seq(S) /\ Len(u) = Len(s) + 1 /\ u[Len(s) + 1] = e
      /\ \A i \in 1..Len(s) : u[i] = s[i]
  BY AppendProperties
<1> HIDE DEF u
<1>2. Len(s) \in Nat
  BY LenProperties
<1>3. \A i \in 1..Len(u) : i \in 1..Len(s) \/ i = Len(s) + 1
  BY <1>1, <1>2
<1>4. \A i \in 1..Len(u) : u[i] = t[i]
  BY <1>1, <1>3
<1>5. u = t
  BY <1>1, <1>4, SeqEqual
<1> QED
  BY <1>5 DEF u

LEMMA TwoLong ==
    ASSUME NEW a, NEW b
    PROVE  <<a>> \o <<b>> = <<a, b>>
<1> DEFINE S == {a, b}
           s == <<a>>
           t == <<a, b>>
<1>1. s \in Seq(S) /\ t \in Seq(S) /\ b \in S
  OBVIOUS
<1>2. Len(s) = 1 /\ Len(t) = 2 /\ t[2] = b /\ \A i \in 1..1 : t[i] = s[i]
  OBVIOUS
<1> HIDE DEF S, s, t
<1>3. Len(t) = Len(s) + 1 /\ t[Len(s) + 1] = b /\ \A i \in 1..Len(s) : t[i] = s[i]
  BY <1>2
<1>4. Append(s, b) = t
  BY <1>1, <1>3, AppendIs
<1>5. s \o <<b>> = Append(s, b)
  BY <1>1, AppendIsConcat
<1> QED
  BY <1>4, <1>5 DEF s, t

LEMMA ThreeLong ==
    ASSUME NEW a, NEW b, NEW c
    PROVE  <<a, b>> \o <<c>> = <<a, b, c>>
<1> DEFINE S == {a, b, c}
           s == <<a, b>>
           t == <<a, b, c>>
<1>1. s \in Seq(S) /\ t \in Seq(S) /\ c \in S
  OBVIOUS
<1>2. Len(s) = 2 /\ Len(t) = 3 /\ t[3] = c /\ \A i \in 1..2 : t[i] = s[i]
  OBVIOUS
<1> HIDE DEF S, s, t
<1>3. Len(t) = Len(s) + 1 /\ t[Len(s) + 1] = c /\ \A i \in 1..Len(s) : t[i] = s[i]
  BY <1>2
<1>4. Append(s, c) = t
  BY <1>1, <1>3, AppendIs
<1>5. s \o <<c>> = Append(s, c)
  BY <1>1, AppendIsConcat
<1> QED
  BY <1>4, <1>5 DEF s, t

LEMMA FourLong ==
    ASSUME NEW a, NEW b, NEW c, NEW d
    PROVE  <<a, b, c>> \o <<d>> = <<a, b, c, d>>
<1> DEFINE S == {a, b, c, d}
           s == <<a, b, c>>
           t == <<a, b, c, d>>
<1>1. s \in Seq(S) /\ t \in Seq(S) /\ d \in S
  OBVIOUS
<1>2. Len(s) = 3 /\ Len(t) = 4 /\ t[4] = d /\ \A i \in 1..3 : t[i] = s[i]
  OBVIOUS
<1> HIDE DEF S, s, t
<1>3. Len(t) = Len(s) + 1 /\ t[Len(s) + 1] = d /\ \A i \in 1..Len(s) : t[i] = s[i]
  BY <1>2
<1>4. Append(s, d) = t
  BY <1>1, <1>3, AppendIs
<1>5. s \o <<d>> = Append(s, d)
  BY <1>1, AppendIsConcat
<1> QED
  BY <1>4, <1>5 DEF s, t

LEMMA TwoTwo ==
    ASSUME NEW a, NEW b, NEW c, NEW d
    PROVE  <<a, b>> \o <<c, d>> = <<a, b, c, d>>
<1> DEFINE S == {a, b, c, d}
           s == <<a, b>>
           t == <<c>>
           u == <<d>>
<1>1. s \in Seq(S) /\ t \in Seq(S) /\ u \in Seq(S)
  OBVIOUS
<1>2. s \o t = <<a, b, c>>
  BY ThreeLong
<1>3. t \o u = <<c, d>>
  BY TwoLong
<1>4. <<a, b, c>> \o u = <<a, b, c, d>>
  BY FourLong
<1> HIDE DEF S, s, t, u
<1>5. (s \o t) \o u = s \o (t \o u)
  BY <1>1, ConcatAssociative
<1> QED
  BY <1>2, <1>3, <1>4, <1>5 DEF s

------------------------------------------------------------------------------
(* What the S-CSCF makes of the caller's request: the server's Route and the   *)
(* way back to itself come in where its own Route was.                         *)

\* Its Route stands in front of the other headers or behind them.
IsScscfsRequest(h) ==
    /\ h \in Seq(HeaderLines) /\ Len(h) \in {3, 4}
    /\ h[1].name = Via
    /\ \/ h[2].name = Route /\ WithoutFirst(h[2].vals) = <<>> /\ h[3].name = CallId
       \/ h[2].name = CallId /\ h[3].name = Route /\ WithoutFirst(h[3].vals) = <<>>
    /\ Len(h) = 4 => h[4].name = Length

LEMMA ScscfsRequest ==
    ASSUME setup \in Setups, NEW via \in ViaValues
    PROVE  IsScscfsRequest(Request(via, <<Scscf>>))
<1> DEFINE A == Line(Via, <<via>>)
           B == Line(Route, <<Scscf>>)
           C == Line(CallId, <<None>>)
           D == Line(Length, <<0>>)
           X == IF setup.routesLast THEN C ELSE B
           Y == IF setup.routesLast THEN B ELSE C
           h == Request(via, <<Scscf>>)
           routes == <<Scscf>>
<1>0. setup.folded \in BOOLEAN /\ setup.length \in BOOLEAN /\ setup.routesLast \in BOOLEAN
  BY SetupIs
<1>1. routes \in Seq(Hops) /\ routes # <<>> /\ Scscf \in Hops
  BY DEF Hops, Nodes
<1>2. /\ A \in HeaderLines /\ B \in HeaderLines /\ C \in HeaderLines /\ D \in HeaderLines
  BY <1>1, LineTypes
<1>3. /\ A.name = Via /\ B.name = Route /\ C.name = CallId /\ D.name = Length /\ B.vals = <<Scscf>>
  BY LineFields
<1>4. RouteLines(<<Scscf>>) = <<B>>
  <2>1. CASE setup.folded = TRUE
    BY <2>1, RoutesFolded
  <2>2. CASE setup.folded = FALSE
    BY <2>2, RoutesUnfolded, SinglesTuples
  <2> QED
    BY <1>0, <2>1, <2>2
<1>5. h = (<<A>> \o (<<X>> \o <<Y>>)) \o (IF setup.length THEN <<D>> ELSE <<>>)
  <2>1. CASE setup.routesLast = TRUE
    <3>1. X = C /\ Y = B
      BY <2>1
    <3>2. h = <<A>> \o (<<C>> \o RouteLines(<<Scscf>>)) \o (IF setup.length THEN <<D>> ELSE <<>>)
      BY <2>1 DEF Request
    <3> HIDE DEF X, Y, A, B, C, D, h
    <3> QED
      BY <1>4, <3>1, <3>2
  <2>2. CASE setup.routesLast = FALSE
    <3>1. X = B /\ Y = C
      BY <2>2
    <3> HIDE DEF X, Y, B, D
    <3> QED
      BY <1>4, <2>2, <3>1 DEF Request, D
  <2> QED
    BY <1>0, <2>1, <2>2
<1>6. WithoutFirst(B.vals) = <<>>
  <2>1. Tail(<<Scscf>>) = <<>>
    OBVIOUS
  <2> HIDE DEF B
  <2> QED
    BY <1>3, <2>1 DEF WithoutFirst
<1>9. X \in HeaderLines /\ Y \in HeaderLines /\ ((X = B /\ Y = C) \/ (X = C /\ Y = B))
  <2>1. CASE setup.routesLast = TRUE
    <3>1. X = C /\ Y = B
      BY <2>1
    <3> HIDE DEF X, Y, B, C
    <3> QED
      BY <1>2, <3>1
  <2>2. CASE setup.routesLast = FALSE
    <3>1. X = B /\ Y = C
      BY <2>2
    <3> HIDE DEF X, Y, B, C
    <3> QED
      BY <1>2, <3>1
  <2> QED
    BY <1>0, <2>1, <2>2
<1> HIDE DEF A, B, C, D, X, Y, h, routes
<1>10. <<A>> \o (<<X>> \o <<Y>>) = <<A, X, Y>>
  <2> DEFINE a == <<A>>
             b == <<X>>
             c == <<Y>>
  <2>1. a \in Seq(HeaderLines) /\ b \in Seq(HeaderLines) /\ c \in Seq(HeaderLines)
    BY <1>2, <1>9
  <2>2. a \o b = <<A, X>> /\ <<A, X>> \o c = <<A, X, Y>>
    BY TwoLong, ThreeLong
  <2> HIDE DEF a, b, c
  <2>3. (a \o b) \o c = a \o (b \o c)
    BY Zenon, <2>1, Regrouped
  <2>4. a \o (b \o c) = <<A, X, Y>>
    BY <2>2, <2>3
  <2> QED
    BY <2>4 DEF a, b, c
<1>11. ASSUME NEW g \in Seq(HeaderLines), Len(g) \in {3, 4}, g[1] = A, g[2] = X, g[3] = Y,
              Len(g) = 4 => g[4] = D
       PROVE  IsScscfsRequest(g)
  <2>1. \/ g[2].name = Route /\ WithoutFirst(g[2].vals) = <<>> /\ g[3].name = CallId
        \/ g[2].name = CallId /\ g[3].name = Route /\ WithoutFirst(g[3].vals) = <<>>
    BY <1>3, <1>6, <1>9, <1>11
  <2>2. g[1].name = Via /\ (Len(g) = 4 => g[4].name = Length)
    BY <1>3, <1>11
  <2> QED
    BY <1>11, <2>1, <2>2 DEF IsScscfsRequest
<1>7. CASE setup.length = TRUE
  <2>1. h = <<A, X, Y, D>>
    BY <1>5, <1>7, <1>10, FourLong
  <2>2. h \in Seq(HeaderLines) /\ Len(h) = 4
    BY <1>2, <1>9, <2>1
  <2>3. h[1] = A /\ h[2] = X /\ h[3] = Y /\ h[4] = D
    BY <2>1
  <2>4. IsScscfsRequest(h)
    BY <1>11, <2>2, <2>3
  <2> QED
    BY <2>4 DEF h
<1>8. CASE setup.length = FALSE
  <2>1. h = <<A, X, Y>>
    <3>1. <<A, X, Y>> \o <<>> = <<A, X, Y>>
      OBVIOUS
    <3> QED
      BY <1>5, <1>8, <1>10, <3>1
  <2>2. h \in Seq(HeaderLines) /\ Len(h) = 3
    BY <1>2, <1>9, <2>1
  <2>3. h[1] = A /\ h[2] = X /\ h[3] = Y
    BY <2>1
  <2>4. IsScscfsRequest(h)
    BY <1>11, <2>2, <2>3
  <2> QED
    BY <2>4 DEF h
<1> QED
  BY <1>0, <1>7, <1>8

\* Where its changes go.
LEMMA ScscfsPlaces ==
    ASSUME NEW h, IsScscfsRequest(h)
    PROVE  /\ Has(h, Via) /\ FirstLine(h, Via) = 1
           /\ Has(h, Route) /\ FirstLine(h, Route) \in {2, 3}
           /\ WithoutFirst(h[FirstLine(h, Route)].vals) = <<>>
           /\ FirstLine(h, Route) = 2 => h[3].name = CallId
           /\ FirstLine(h, Route) = 3 => h[2].name = CallId
           /\ PlaceToAdd(h, Route) = FirstLine(h, Route)
           /\ PlaceToAdd(h, Identity) = 4
<1>1. /\ h \in Seq(HeaderLines) /\ Len(h) \in {3, 4} /\ DOMAIN h = 1..Len(h)
      /\ h[1].name = Via
      /\ \/ h[2].name = Route /\ WithoutFirst(h[2].vals) = <<>> /\ h[3].name = CallId
         \/ h[2].name = CallId /\ h[3].name = Route /\ WithoutFirst(h[3].vals) = <<>>
      /\ Len(h) = 4 => h[4].name = Length
  BY LenProperties DEF IsScscfsRequest
<1>2. \A i \in 1..Len(h) : i = 1 \/ i = 2 \/ i = 3 \/ (i = 4 /\ Len(h) = 4)
  BY <1>1
<1>3. Has(h, Via) /\ Has(h, Route)
  BY <1>1 DEF Has
<1>4. Has(h, Length) <=> Len(h) = 4
  BY <1>1, <1>2, NamesApart DEF Has
<1>5. ~Has(h, Identity)
  BY <1>1, <1>2, NamesApart DEF Has
<1>6. FirstLine(h, Via) = 1
  <2>1. FirstLine(h, Via) \in 1..Len(h) /\ h[FirstLine(h, Via)].name = Via
    BY <1>1, <1>3, FirstLineIs
  <2> QED
    BY <1>1, <1>2, <2>1, NamesApart
<1>7. \/ FirstLine(h, Route) = 2 /\ WithoutFirst(h[2].vals) = <<>> /\ h[3].name = CallId
      \/ FirstLine(h, Route) = 3 /\ WithoutFirst(h[3].vals) = <<>> /\ h[2].name = CallId
  <2>1. FirstLine(h, Route) \in 1..Len(h) /\ h[FirstLine(h, Route)].name = Route
    BY <1>1, <1>3, FirstLineIs
  <2> QED
    BY <1>1, <1>2, <2>1, NamesApart
<1>8. PlaceToAdd(h, Route) = FirstLine(h, Route)
  BY <1>3 DEF PlaceToAdd
<1>9. PlaceToAdd(h, Identity) = 4
  <2>1. CASE Len(h) = 4
    <3>1. FirstLine(h, Length) \in 1..Len(h) /\ h[FirstLine(h, Length)].name = Length
      BY <1>1, <1>4, <2>1, FirstLineIs
    <3>2. FirstLine(h, Length) = 4
      BY <1>1, <1>2, <3>1, NamesApart
    <3> QED
      BY <1>4, <1>5, <2>1, <3>2 DEF PlaceToAdd
  <2>2. CASE Len(h) = 3
    BY <1>4, <1>5, <2>2 DEF PlaceToAdd, Eof
  <2> QED
    BY <1>1, <2>1, <2>2
<1> QED
  BY <1>3, <1>6, <1>7, <1>8, <1>9

IdentitySip == [name |-> Identity, val |-> "sip", ends |-> FALSE]
IdentityTel == [name |-> Identity, val |-> "tel", ends |-> FALSE]
ToServer == <<RouteBack, ServerNext>> \o Identities

LEMMA FourAdditions ==
    /\ Len(ToServer) = 4
    /\ ToServer[1] = RouteBack /\ ToServer[2] = ServerNext
    /\ ToServer[3] = IdentitySip /\ ToServer[4] = IdentityTel
<1> DEFINE a == RouteBack
           b == ServerNext
           c == IdentitySip
           d == IdentityTel
<1>1. ToServer = <<a, b>> \o <<c, d>>
  BY DEF ToServer, Identities, IdentitySip, IdentityTel
<1> HIDE DEF a, b, c, d
<1>2. ToServer = <<a, b, c, d>>
  <2>1. <<a, b>> \o <<c, d>> = <<a, b, c, d>>
    BY TwoTwo
  <2> QED
    BY <1>1, <2>1
<1>3. Len(ToServer) = 4 /\ ToServer[1] = a /\ ToServer[2] = b /\ ToServer[3] = c /\ ToServer[4] = d
  BY <1>2
<1> QED
  BY <1>3 DEF a, b, c, d

\* The list of its changes.
ScscfsList(l, h) ==
    /\ Len(l) = 6
    /\ l[1] = Deletion(h, ViaTop)
    /\ l[2] = Addition(h, ServerNext)
    /\ l[3] = Addition(h, RouteBack)
    /\ l[4] = Deletion(h, RouteTop)
    /\ l[5] = Addition(h, IdentityTel)
    /\ l[6] = Addition(h, IdentitySip)

LEMMA ScscfsListed ==
    ASSUME NEW h, IsScscfsRequest(h), NEW dels, NEW g, Listing(g, h, dels, ToServer),
           Len(dels) = 2, dels[1] = ViaTop, dels[2] = RouteTop
    PROVE  ScscfsList(g[6], h)
<1> DEFINE dV == Deletion(h, ViaTop)
           dR == Deletion(h, RouteTop)
           aO == Addition(h, RouteBack)
           aA == Addition(h, ServerNext)
           iS == Addition(h, IdentitySip)
           iT == Addition(h, IdentityTel)
           T  == {dV, dR, aO, aA, iS, iT}
           q  == FirstLine(h, Route)
<1>1. /\ dV \in T /\ dR \in T /\ aO \in T /\ aA \in T /\ iS \in T /\ iT \in T
  OBVIOUS
<1>2. /\ FirstLine(h, Via) = 1 /\ q \in {2, 3} /\ Has(h, Route)
      /\ PlaceToAdd(h, Route) = q /\ PlaceToAdd(h, Identity) = 4
  BY ScscfsPlaces
<1>3. /\ dV.del = TRUE /\ dV.name = Via /\ dV.pos = 1
      /\ dR.del = TRUE /\ dR.name = Route /\ dR.pos = q
  BY <1>2 DEF Deletion, ViaTop, RouteTop
<1>4. /\ aO.del = FALSE /\ aO.name = Route /\ aO.pos = q
      /\ aA.del = FALSE /\ aA.name = Route /\ aA.pos = q
  BY <1>2 DEF Addition, RouteBack, ServerNext
<1>5. /\ iS.del = FALSE /\ iS.name = Identity /\ iS.pos = 4
      /\ iT.del = FALSE /\ iT.name = Identity /\ iT.pos = 4
  BY <1>2 DEF Addition, IdentitySip, IdentityTel
<1>6. /\ g[3] = Inserted(g[2], aO) /\ g[4] = Inserted(g[3], aA)
      /\ g[5] = Inserted(g[4], iS) /\ g[6] = Inserted(g[5], iT)
  <2>1. Len(ToServer) = 4 /\ 1 \in 1..4 /\ 2 \in 1..4 /\ 3 \in 1..4 /\ 4 \in 1..4
    BY FourAdditions
  <2>2. \A i \in 1..4 : g[2 + i] = Inserted(g[2 + i - 1], Addition(h, ToServer[i]))
    BY <2>1 DEF Listing
  <2>3. g[2 + 1] = Inserted(g[2 + 1 - 1], aO) /\ g[2 + 2] = Inserted(g[2 + 2 - 1], aA)
    BY <2>1, <2>2, FourAdditions
  <2>4. g[2 + 3] = Inserted(g[2 + 3 - 1], iS) /\ g[2 + 4] = Inserted(g[2 + 4 - 1], iT)
    BY <2>1, <2>2, FourAdditions
  <2>5. 2 + 1 = 3 /\ 2 + 1 - 1 = 2 /\ 2 + 2 = 4 /\ 2 + 2 - 1 = 3 /\ 2 + 3 = 5 /\ 2 + 3 - 1 = 4
        /\ 2 + 4 = 6 /\ 2 + 4 - 1 = 5
    OBVIOUS
  <2> HIDE DEF aO, aA, iS, iT
  <2> QED
    BY <2>3, <2>4, <2>5
<1> HIDE DEF T
<1>7. g[2] \in Seq(T) /\ Len(g[2]) = 2 /\ g[2][1] = dV /\ g[2][2] = dR
  <2>1. h \in Seq(HeaderLines) /\ h # <<>> /\ h[1].name = Via
    BY EmptySeq DEF IsScscfsRequest
  <2> QED
    BY <1>1, <1>2, <2>1, DeletionsListed
<1> HIDE DEF dV, dR, aO, aA, iS, iT, q
<1>8. /\ ~GoesBefore(aO, dV) /\ GoesBefore(aO, dR)
      /\ ~GoesBefore(aA, dV) /\ GoesBefore(aA, aO)
  BY <1>2, <1>3, <1>4, NamesApart DEF GoesBefore
<1>9. /\ ~GoesBefore(iS, dV) /\ ~GoesBefore(iS, aA) /\ ~GoesBefore(iS, aO) /\ ~GoesBefore(iS, dR)
  BY <1>2, <1>3, <1>4, <1>5, NamesApart DEF GoesBefore
<1>10. /\ ~GoesBefore(iT, dV) /\ ~GoesBefore(iT, aA) /\ ~GoesBefore(iT, aO) /\ ~GoesBefore(iT, dR)
       /\ GoesBefore(iT, iS)
  BY <1>2, <1>3, <1>4, <1>5, NamesApart DEF GoesBefore
<1>11. g[3] \in Seq(T) /\ Len(g[3]) = 3 /\ g[3][1] = dV /\ g[3][2] = aO /\ g[3][3] = dR
  <2>1. 2 \in 1..Len(g[2]) /\ GoesBefore(aO, g[2][2])
    BY <1>7, <1>8
  <2>2. NotBefore(aO, g[2], 2 - 1)
    BY <1>7, <1>8 DEF NotBefore
  <2>3. PutAt(T, g[3], g[2], 2, aO)
    BY <1>1, <1>6, <1>7, <2>1, <2>2, InsertedAt
  <2> QED
    BY <1>7, <2>3 DEF PutAt
<1>12. /\ g[4] \in Seq(T) /\ Len(g[4]) = 4
       /\ g[4][1] = dV /\ g[4][2] = aA /\ g[4][3] = aO /\ g[4][4] = dR
  <2>1. 2 \in 1..Len(g[3]) /\ GoesBefore(aA, g[3][2])
    BY <1>8, <1>11
  <2>2. NotBefore(aA, g[3], 2 - 1)
    BY <1>8, <1>11 DEF NotBefore
  <2>3. PutAt(T, g[4], g[3], 2, aA)
    BY <1>1, <1>6, <1>11, <2>1, <2>2, InsertedAt
  <2> QED
    BY <1>11, <2>3 DEF PutAt
<1>13. /\ g[5] \in Seq(T) /\ Len(g[5]) = 5
       /\ g[5][1] = dV /\ g[5][2] = aA /\ g[5][3] = aO /\ g[5][4] = dR /\ g[5][5] = iS
  <2>1. NotBefore(iS, g[4], Len(g[4]))
    BY <1>9, <1>12 DEF NotBefore
  <2>2. Appended(T, g[5], g[4], iS)
    BY <1>1, <1>6, <1>12, <2>1, InsertedLast
  <2> QED
    BY <1>12, <2>2 DEF Appended
<1>14. /\ Len(g[6]) = 6
       /\ g[6][1] = dV /\ g[6][2] = aA /\ g[6][3] = aO /\ g[6][4] = dR
       /\ g[6][5] = iT /\ g[6][6] = iS
  <2>1. 5 \in 1..Len(g[5]) /\ GoesBefore(iT, g[5][5])
    BY <1>10, <1>13
  <2>2. NotBefore(iT, g[5], 5 - 1)
    BY <1>10, <1>13 DEF NotBefore
  <2>3. PutAt(T, g[6], g[5], 5, iT)
    BY <1>1, <1>6, <1>13, <2>1, <2>2, InsertedAt
  <2> QED
    BY <1>13, <2>3 DEF PutAt
<1> QED
  BY <1>14 DEF ScscfsList, dV, dR, aO, aA, iS, iT

\* Lines that are neither a Route nor a Record-Route nor cut off.
Plain(s) ==
    /\ s \in Seq(HeaderLines)
    /\ \A name \in {Route, RecordRoute, Fragment} : LinesOf(s, name) = <<>>

BothRoutes == Singles(Route, <<AppServer, Odi>>)
Routed(s) ==
    /\ s \in Seq(HeaderLines)
    /\ LinesOf(s, Route) = BothRoutes
    /\ \A name \in {RecordRoute, Fragment} : LinesOf(s, name) = <<>>

\* Is a line of the name on either of two parts?
LEMMA HasJoined ==
    ASSUME NEW a \in Seq(HeaderLines), NEW b \in Seq(HeaderLines), NEW name
    PROVE  Has(a \o b, name) <=> Has(a, name) \/ Has(b, name)
<1>1. Joined(HeaderLines, a \o b, a, b)
  BY JoinIs
<1> DEFINE c == a \o b
           u == LinesOf(a, name)
           v == LinesOf(b, name)
<1> HIDE DEF c
<1>2. c \in Seq(HeaderLines) /\ LinesOf(c, name) = u \o v
  BY <1>1 DEF Joined, c
<1>3. u \in Seq(HeaderLines) /\ v \in Seq(HeaderLines)
  BY HasLines
<1>4. /\ Has(a, name) <=> u # <<>>
      /\ Has(b, name) <=> v # <<>>
      /\ Has(c, name) <=> u \o v # <<>>
  BY <1>2, HasLines
<1> HIDE DEF u, v
<1>5. u \o v \in Seq(HeaderLines) /\ Len(u \o v) = Len(u) + Len(v) /\ Len(u) \in Nat /\ Len(v) \in Nat
  BY <1>3, ConcatProperties, LenProperties
<1>6. (u = <<>> <=> Len(u) = 0) /\ (v = <<>> <=> Len(v) = 0) /\ (u \o v = <<>> <=> Len(u \o v) = 0)
  BY <1>3, <1>5, EmptySeq
<1>7. Has(c, name) <=> Has(a, name) \/ Has(b, name)
  BY <1>4, <1>5, <1>6
<1> QED
  BY <1>7 DEF c

LEMMA RoutedStays ==
    ASSUME NEW s, Routed(s)
    PROVE  /\ \A r : Plain(r) => Routed(s \o r)
           /\ \A l \in HeaderLines : l.name = Identity => Routed(s \o <<l>>)
<1>1. ASSUME NEW r, Plain(r)
      PROVE  Routed(s \o r)
  <2>1. s \in Seq(HeaderLines) /\ r \in Seq(HeaderLines)
    BY <1>1 DEF Routed, Plain
  <2>2. Joined(HeaderLines, s \o r, s, r)
    BY <2>1, JoinIs
  <2> DEFINE t == s \o r
  <2> HIDE DEF t
  <2>3. t \in Seq(HeaderLines) /\ \A name : LinesOf(t, name) = LinesOf(s, name) \o LinesOf(r, name)
    BY <2>2 DEF Joined, t
  <2>4. ASSUME NEW name \in {Route, RecordRoute, Fragment}
        PROVE  LinesOf(t, name) = LinesOf(s, name)
    <3>1. LinesOf(t, name) = LinesOf(s, name) \o <<>>
      BY <1>1, <2>3 DEF Plain
    <3>2. LinesOf(s, name) \in Seq(HeaderLines)
      BY <2>1, LinesAre
    <3> QED
      BY <3>1, <3>2, ConcatEmptySeq
  <2>5. Routed(t)
    BY <2>3, <2>4 DEF Routed
  <2> QED
    BY <2>5 DEF t
<1>2. ASSUME NEW l \in HeaderLines, l.name = Identity
      PROVE  Routed(s \o <<l>>)
  <2> DEFINE r == <<l>>
  <2>1. r \in Seq(HeaderLines) /\ \A name : LinesOf(r, name) = IF name = Identity THEN r ELSE <<>>
    BY <1>2, OneLine
  <2> HIDE DEF r
  <2>3. Plain(r)
    BY <2>1, NamesApart DEF Plain
  <2>4. Routed(s \o r)
    BY <1>1, <2>3
  <2> QED
    BY <2>4 DEF r
<1> QED
  BY <1>1, <1>2

\* Around the Route nothing else of the kind stands.
LEMMA ScscfsRest ==
    ASSUME NEW h, IsScscfsRequest(h)
    PROVE  /\ \A k \in FirstLine(h, Route) + 1..Len(h) + 1 : Plain(SubSeq(h, k, Len(h)))
           /\ Plain(SubSeq(h, 2, FirstLine(h, Route) - 1))
           /\ FirstLine(h, Route) = 2 => Has(SubSeq(h, 3, Len(h)), CallId)
           /\ FirstLine(h, Route) = 3 => Has(SubSeq(h, 2, 2), CallId)
<1> DEFINE q == FirstLine(h, Route)
<1>1. /\ h \in Seq(HeaderLines) /\ Len(h) \in {3, 4} /\ q \in {2, 3}
      /\ q = 2 => h[3].name = CallId
      /\ q = 3 => h[2].name = CallId
      /\ Len(h) = 4 => h[4].name = Length
  BY ScscfsPlaces DEF IsScscfsRequest
<1> HIDE DEF q
<1>2. \A i \in 1..Len(h) : h[i] \in HeaderLines
  BY <1>1, ElementOfSeq
<1>3. ASSUME NEW k \in 1..Len(h) + 1, NEW n \in 0..Len(h), n + 1 - k >= 0
      PROVE  /\ SubSeq(h, k, n) \in Seq(HeaderLines) /\ Len(SubSeq(h, k, n)) = n + 1 - k
             /\ \A i \in 1..n + 1 - k : SubSeq(h, k, n)[i] = h[k + i - 1]
  <2> DEFINE s == SubSeq(h, k, n)
  <2>1. k \in Nat /\ n \in Nat /\ n + 1 - k \in Nat
    BY <1>1, <1>3
  <2>2. s = [i \in 1..(n + 1 - k) |-> h[k + i - 1]]
    BY <1>1, <2>1
  <2>3. \A i \in 1..n + 1 - k : k + i - 1 \in 1..Len(h)
    BY <1>1
  <2>5. s \in [1..(n + 1 - k) -> HeaderLines]
    BY <1>2, <2>2, <2>3
  <2> QED
    BY <2>1, <2>2, <2>5, SeqOfFun
<1>4. ASSUME NEW s \in Seq(HeaderLines), \A i \in 1..Len(s) : s[i].name \in {CallId, Length}
      PROVE  Plain(s)
  <2>1. ASSUME NEW name \in {Route, RecordRoute, Fragment}
        PROVE  LinesOf(s, name) = <<>>
    <3>1. \A i \in 1..Len(s) : s[i].name # name
      BY <1>4, NamesApart
    <3> QED
      BY <3>1, NoLines
  <2> QED
    BY <2>1 DEF Plain
<1>5. ASSUME NEW k \in q + 1..Len(h) + 1
      PROVE  Plain(SubSeq(h, k, Len(h)))
  <2> DEFINE s == SubSeq(h, k, Len(h))
             N == Len(h)
  <2>1. k \in 1..Len(h) + 1 /\ Len(h) \in 0..Len(h) /\ Len(h) + 1 - k >= 0
    BY <1>1
  <2>2. s \in Seq(HeaderLines) /\ Len(s) = N + 1 - k /\ \A i \in 1..N + 1 - k : s[i] = h[k + i - 1]
    BY <1>3, <2>1
  <2>3. ASSUME NEW i \in 1..N + 1 - k
        PROVE  s[i].name \in {CallId, Length}
    <3>0. N \in {3, 4} /\ q \in {2, 3} /\ k \in q + 1..N + 1
      BY <1>1
    <3>2. s[i] = h[k + i - 1]
      BY <2>2
    <3> HIDE DEF s, N
    <3>1. \/ k + i - 1 = 3 /\ q = 2
          \/ k + i - 1 = 4 /\ N = 4
      BY <3>0
    <3> QED
      BY <1>1, <3>1, <3>2 DEF N
  <2> HIDE DEF s
  <2>4. \A i \in 1..Len(s) : s[i].name \in {CallId, Length}
    BY <2>2, <2>3
  <2>5. Plain(s)
    BY <1>4, <2>2, <2>4
  <2> QED
    BY <2>5 DEF s
<1>6. ASSUME NEW k, NEW n, k \in 1..Len(h), n \in 1..Len(h), k <= n, h[k].name = CallId
      PROVE  Has(SubSeq(h, k, n), CallId)
  <2> DEFINE s == SubSeq(h, k, n)
  <2>1. k \in 1..Len(h) + 1 /\ n \in 0..Len(h) /\ n + 1 - k >= 0 /\ 1 \in 1..n + 1 - k /\ k + 1 - 1 = k
    BY <1>1, <1>6
  <2>2. s \in Seq(HeaderLines) /\ Len(s) = n + 1 - k /\ s[1] = h[k]
    BY <1>3, <2>1
  <2> HIDE DEF s
  <2>3. 1 \in DOMAIN s
    BY <2>1, <2>2, LenProperties
  <2>4. Has(s, CallId)
    BY <1>6, <2>2, <2>3 DEF Has
  <2> QED
    BY <2>4 DEF s
<1>7. q = 2 => Has(SubSeq(h, 3, Len(h)), CallId)
  BY <1>1, <1>6
<1>8. q = 3 => Has(SubSeq(h, 2, 2), CallId)
  BY <1>1, <1>6
<1>9. Plain(SubSeq(h, 2, q - 1))
  <2> DEFINE s == SubSeq(h, 2, q - 1)
  <2>1. 2 \in 1..Len(h) + 1 /\ q - 1 \in 0..Len(h) /\ q - 1 + 1 - 2 >= 0
    BY <1>1
  <2>2. s \in Seq(HeaderLines) /\ Len(s) = q - 1 + 1 - 2 /\ \A i \in 1..q - 1 + 1 - 2 : s[i] = h[2 + i - 1]
    BY <1>3, <2>1
  <2>3. ASSUME NEW i \in 1..q - 1 + 1 - 2
        PROVE  s[i].name = CallId
    <3>1. i = 1 /\ q = 3 /\ 2 + i - 1 = 2
      BY <1>1
    <3>2. s[i] = h[2]
      BY <2>2, <3>1
    <3> QED
      BY <1>1, <3>1, <3>2
  <2> HIDE DEF s
  <2>4. Plain(s)
    BY <1>4, <2>2, <2>3
  <2> QED
    BY <2>4 DEF s
<1> QED
  BY <1>5, <1>7, <1>8, <1>9 DEF q

\* The copy from the Route on.
RoutedCopy(h, c) ==
    /\ IsCopy(c) /\ Routed(c.out) /\ c.from \in FirstLine(h, Route) + 1..Len(h) + 1
    /\ Has(c.out, CallId) \/ (c.from = 3 /\ FirstLine(h, Route) = 2)

LEMMA RoutedStep ==
    ASSUME NEW h, IsScscfsRequest(h), NEW x, x.name = Identity, x.val \in {"sip", "tel"},
           x.ends = FALSE, NEW b, NEW a, RoutedCopy(h, b),
           IF x.pos < Eof(h) THEN Writes(x, b, a) ELSE Loses(h, b, a)
    PROVE  RoutedCopy(h, a)
<1>3. b.out \in Seq(HeaderLines) /\ Routed(b.out)
  BY DEF RoutedCopy, Routed
<1>4. FirstLine(h, Route) \in {2, 3} /\ Len(h) \in {3, 4}
  BY ScscfsPlaces DEF IsScscfsRequest
<1>1. CASE x.pos < Eof(h)
  <2> DEFINE l == Line(x.name, <<x.val>>)
             r == <<l>>
  <2>1. IsCopy(a) /\ a.out = b.out \o r /\ a.from = b.from
    BY <1>1 DEF Writes
  <2>2. l \in HeaderLines /\ l.name = Identity
    BY LineTypes, LineFields
  <2>5. r \in Seq(HeaderLines)
    BY <2>2
  <2>3. Routed(a.out)
    <3> HIDE DEF l
    <3> QED
      BY <1>3, <2>1, <2>2, RoutedStays
  <2> HIDE DEF r
  <2>4. Has(b.out, CallId) => Has(a.out, CallId)
    BY <1>3, <2>1, <2>5, HasJoined
  <2> QED
    BY <2>1, <2>3, <2>4 DEF RoutedCopy
<1>2. CASE ~(x.pos < Eof(h))
  <2> DEFINE r == SubSeq(h, b.from, Len(h))
  <2>1. IsCopy(a) /\ a.out = b.out \o r /\ a.from = Len(h) + 1
    BY <1>2 DEF Loses, Eof
  <2>2. Plain(r)
    BY ScscfsRest DEF RoutedCopy
  <2>5. Has(b.out, CallId) \/ Has(r, CallId)
    BY ScscfsRest DEF RoutedCopy
  <2> HIDE DEF r
  <2>3. Routed(a.out)
    BY <1>3, <2>1, <2>2, RoutedStays
  <2>6. Has(a.out, CallId)
    BY <1>3, <2>1, <2>2, <2>5, HasJoined DEF Plain
  <2>4. a.from \in FirstLine(h, Route) + 1..Len(h) + 1
    <3> DEFINE N == Len(h)
               q == FirstLine(h, Route)
               f == a.from
    <3>1. N \in {3, 4} /\ q \in {2, 3} /\ f = N + 1
      BY <1>4, <2>1
    <3> HIDE DEF N, q, f
    <3>2. f \in q + 1..N + 1
      BY <3>1
    <3> QED
      BY <3>2 DEF N, q, f
  <2> QED
    BY <2>1, <2>3, <2>4, <2>6 DEF RoutedCopy
<1> QED
  BY <1>1, <1>2

LEMMA ScscfsCopy ==
    ASSUME NEW h, IsScscfsRequest(h), NEW l, ScscfsList(l, h), NEW c, Copying(c, h, l)
    PROVE  RoutedCopy(h, c[6])
<1>1. h \in Seq(HeaderLines) /\ h # <<>> /\ h[1].name = Via /\ Len(h) \in {3, 4}
  BY EmptySeq DEF IsScscfsRequest
<1>2. WithoutFirst(h[1].vals) = <<>>
  BY <1>1, OneVia
<1> DEFINE q == FirstLine(h, Route)
           N == Len(h)
<1>3. /\ q \in {2, 3} /\ Has(h, Route)
      /\ PlaceToAdd(h, Route) = q /\ PlaceToAdd(h, Identity) = 4
      /\ WithoutFirst(h[q].vals) = <<>>
  BY ScscfsPlaces
<1>4. Len(h) \in Int /\ q \in Int
  BY <1>1, <1>3
<1> DEFINE A == Line(Route, <<AppServer>>)
           O == Line(Route, <<Odi>>)
           p == <<A>>
           r == <<O>>
<1>5. Len(l) = 6 /\ Len(l) \in Nat \ {0}
  BY DEF ScscfsList
<1>6. IsCopy(c[1]) /\ c[1].out = <<>> /\ c[1].from = 2
  BY <1>1, <1>2, <1>5, ViaSkipped DEF ScscfsList
<1>7. /\ l[2].del = FALSE /\ l[2].name = Route /\ l[2].val = AppServer /\ l[2].pos < Eof(h)
      /\ l[3].del = FALSE /\ l[3].name = Route /\ l[3].val = Odi /\ l[3].pos < Eof(h)
      /\ l[2].ends = FALSE /\ l[3].ends = FALSE
  <2>1. l[2] = Addition(h, ServerNext) /\ l[3] = Addition(h, RouteBack)
    BY DEF ScscfsList
  <2>2. /\ Addition(h, ServerNext).del = FALSE /\ Addition(h, ServerNext).name = Route
        /\ Addition(h, ServerNext).val = AppServer /\ Addition(h, ServerNext).pos = q
        /\ Addition(h, ServerNext).ends = FALSE
    BY <1>3 DEF Addition, ServerNext
  <2>3. /\ Addition(h, RouteBack).del = FALSE /\ Addition(h, RouteBack).name = Route
        /\ Addition(h, RouteBack).val = Odi /\ Addition(h, RouteBack).pos = q
        /\ Addition(h, RouteBack).ends = FALSE
    BY <1>3 DEF Addition, RouteBack
  <2>4. q < Eof(h)
    <3> HIDE DEF q
    <3> QED
      BY <1>1, <1>3 DEF Eof
  <2> QED
    BY <2>1, <2>2, <2>3, <2>4
<1>8. /\ l[5].del = FALSE /\ l[5].name = Identity /\ l[5].val = "tel" /\ l[5].ends = FALSE
      /\ l[6].del = FALSE /\ l[6].name = Identity /\ l[6].val = "sip" /\ l[6].ends = FALSE
  BY DEF ScscfsList, Addition, IdentitySip, IdentityTel
<1>9. IsCopy(c[2]) /\ c[2].out = p /\ c[2].from = 2
  <2>1. 2 \in 1..Len(l) /\ 2 - 1 = 1
    BY <1>5
  <2>2. IF l[2].pos < Eof(h) THEN Writes(l[2], c[2 - 1], c[2]) ELSE Loses(h, c[2 - 1], c[2])
    BY <1>4, <1>5, <1>6, <1>7, <2>1, CopyWrites
  <2>3. Writes(l[2], c[1], c[2])
    BY <1>7, <2>1, <2>2
  <2>4. Line(l[2].name, <<l[2].val>>) = A
    BY <1>7
  <2>5. <<>> \o p = p
    OBVIOUS
  <2> HIDE DEF A, p
  <2>6. c[2].out = c[1].out \o <<A>> /\ c[2].from = c[1].from /\ IsCopy(c[2])
    BY <1>7, <2>3, <2>4 DEF Writes
  <2> QED
    BY <1>6, <2>5, <2>6 DEF p
<1>10. IsCopy(c[3]) /\ c[3].out = p \o r /\ c[3].from = 2
  <2>1. 3 \in 1..Len(l) /\ 3 - 1 = 2
    BY <1>5
  <2>2. IF l[3].pos < Eof(h) THEN Writes(l[3], c[3 - 1], c[3]) ELSE Loses(h, c[3 - 1], c[3])
    BY <1>4, <1>5, <1>7, <1>9, <2>1, CopyWrites
  <2>3. Writes(l[3], c[2], c[3])
    BY <1>7, <2>1, <2>2
  <2>4. Line(l[3].name, <<l[3].val>>) = O
    BY <1>7
  <2> HIDE DEF O, p
  <2>5. c[3].out = c[2].out \o <<O>> /\ c[3].from = c[2].from /\ IsCopy(c[3])
    BY <1>7, <2>3, <2>4 DEF Writes
  <2> QED
    BY <1>9, <2>5
<1> DEFINE mid == SubSeq(h, 2, q - 1)
<1>11. IsCopy(c[4]) /\ c[4].out = c[3].out \o mid /\ c[4].from = q + 1
  <2>1. 4 \in 1..Len(l) /\ 4 - 1 = 3 /\ Len(l) \in Nat
    BY <1>5
  <2>2. l[4] = Deletion(h, RouteTop)
    BY DEF ScscfsList
  <2>4. IsCopy(c[4 - 1]) /\ c[4 - 1].from = 2
    BY <1>10, <2>1
  <2>3. /\ IsCopy(c[4])
        /\ c[4].out = c[4 - 1].out \o SubSeq(h, 2, FirstLine(h, Route) - 1)
        /\ c[4].from = FirstLine(h, Route) + 1
    BY SMTT(20), <1>3, <1>4, <2>1, <2>2, <2>4, RouteSkipped
  <2> QED
    BY <2>1, <2>3
<1>12. Routed(c[3].out)
  <2>1. A \in HeaderLines /\ O \in HeaderLines /\ A.name = Route /\ O.name = Route
    <3>1. <<AppServer>> \in Seq(Hops) /\ <<Odi>> \in Seq(Hops) /\ <<AppServer>> # <<>> /\ <<Odi>> # <<>>
      BY DEF Hops, Nodes
    <3> QED
      BY <3>1, LineTypes, LineFields
  <2> DEFINE both == <<A, O>>
  <2>4. BothRoutes = both
    BY SinglesTuples DEF BothRoutes
  <2> HIDE DEF A, O
  <2>2. p \o r = both
    BY TwoLong
  <2>3. both \in Seq(HeaderLines) /\ Len(both) = 2 /\ both[1] = A /\ both[2] = O
    BY <2>1
  <2> HIDE DEF both, p, r
  <2>7. \A i \in 1..Len(both) : both[i].name = Route
    BY <2>1, <2>3
  <2>8. LinesOf(both, Route) = both /\ \A name : name # Route => LinesOf(both, name) = <<>>
    BY <2>3, <2>7, AllLines, OtherLines
  <2>9. Routed(both)
    BY <2>3, <2>4, <2>8, NamesApart DEF Routed
  <2> QED
    BY <1>10, <2>2, <2>9
<1>13. RoutedCopy(h, c[4])
  <2>1. Plain(mid)
    BY ScscfsRest
  <2>2. q = 3 => Has(mid, CallId)
    <3>1. q = 3 => Has(SubSeq(h, 2, 2), CallId)
      BY ScscfsRest
    <3>2. q = 3 => q - 1 = 2
      OBVIOUS
    <3> HIDE DEF q
    <3> QED
      BY <3>1, <3>2
  <2> HIDE DEF mid
  <2>3. Routed(c[4].out)
    BY <1>11, <1>12, <2>1, RoutedStays
  <2>4. Has(mid, CallId) => Has(c[4].out, CallId)
    BY <1>11, <1>12, <2>1, HasJoined DEF Routed, Plain
  <2>5. c[4].from \in q + 1..N + 1 /\ (q = 2 => c[4].from = 3)
    <3> HIDE DEF q, N
    <3> QED
      BY <1>1, <1>3, <1>11 DEF N
  <2> QED
    BY <1>3, <1>11, <2>2, <2>3, <2>4, <2>5 DEF RoutedCopy
<1>14. RoutedCopy(h, c[5])
  <2>1. 5 \in 1..Len(l) /\ 5 - 1 = 4 /\ IsCopy(c[5 - 1])
    BY <1>5, <1>11
  <2>2. IF l[5].pos < Eof(h) THEN Writes(l[5], c[5 - 1], c[5]) ELSE Loses(h, c[5 - 1], c[5])
    BY <1>4, <1>5, <1>8, <2>1, CopyWrites
  <2> QED
    BY <1>8, <1>13, <2>1, <2>2, RoutedStep
<1>15. RoutedCopy(h, c[6])
  <2>1. 6 \in 1..Len(l) /\ 6 - 1 = 5 /\ IsCopy(c[6 - 1])
    BY <1>5, <1>14 DEF RoutedCopy
  <2>2. IF l[6].pos < Eof(h) THEN Writes(l[6], c[6 - 1], c[6]) ELSE Loses(h, c[6 - 1], c[6])
    BY <1>4, <1>5, <1>8, <2>1, CopyWrites
  <2> QED
    BY <1>8, <1>14, <2>1, <2>2, RoutedStep
<1> QED
  BY <1>15

ToServerSent(f, h, peer) ==
    /\ \E e : Passed(f, h, Scscf, peer, e)
    /\ RoutesAre(f, <<AppServer, Odi>>)
    /\ LinesOf(f, RecordRoute) = <<>> /\ Readable(f)

LEMMA ScscfSendsToServer ==
    ASSUME NEW h, IsScscfsRequest(h), NEW peer \in Addresses
    PROVE  ToServerSent(Forwarded(h, TopRoute, ToServer, AddrOf(Scscf), peer), h, peer)
<1> DEFINE dels == <<[name |-> Via, top |-> TRUE]>> \o TopRoute
           adds == ToServer
           list == ModifyList(h, dels, adds)
           e == Edited(h, dels, adds)
           f == Forwarded(h, TopRoute, adds, AddrOf(Scscf), peer)
<1>1. h \in Seq(HeaderLines) /\ IsRequest(h)
  BY EmptySeq DEF IsScscfsRequest, IsRequest
<1>2. Len(dels) = 2 /\ dels[1] = ViaTop /\ dels[2] = RouteTop /\ Len(adds) = 4
  BY TwoDeletions, FourAdditions
<1> HIDE DEF dels, adds
<1>3. Len(dels) \in Nat /\ Len(adds) \in Nat /\ Len(dels) + Len(adds) = 6
  BY <1>2
<1>4. PICK g : Listing(g, h, dels, adds) /\ list = g[6]
  BY <1>3, ListingIs
<1>5. ScscfsList(list, h)
  BY <1>2, <1>4, ScscfsListed DEF adds
<1>6. Len(list) = 6 /\ Len(list) \in Nat
  BY <1>5 DEF ScscfsList
<1>7. PICK c : Copying(c, h, list) /\ e = CopiedTo(h, c[6], Len(h))
  <2> DEFINE k == Len(list)
  <2>1. \E c : Copying(c, h, list) /\ e = CopiedTo(h, c[k], Len(h))
    BY <1>3, <1>6, CopyingIs
  <2> QED
    BY <1>6, <2>1
<1>8. RoutedCopy(h, c[6])
  BY <1>5, <1>7, ScscfsCopy
<1> DEFINE o == c[6].out
           t == SubSeq(h, c[6].from, Len(h))
<1>16. e = o \o t
  BY <1>1, <1>7, <1>8, CopiedToEnd DEF RoutedCopy
<1>17. Routed(o) /\ Plain(t) /\ (Has(o, CallId) \/ Has(t, CallId))
  BY <1>8, ScscfsRest DEF RoutedCopy
<1> HIDE DEF e, o, t
<1>9. Routed(e) /\ Has(e, CallId)
  BY <1>16, <1>17, RoutedStays, HasJoined DEF Routed, Plain
<1>10. e \in Seq(HeaderLines)
  BY <1>9 DEF Routed
<1>11. Passed(f, h, Scscf, peer, e)
  <2>1. Scscf \in Nodes
    BY DEF Nodes
  <2>2. e = Edited(h, <<[name |-> Via, top |-> TRUE]>> \o TopRoute, adds)
    BY DEF e, dels
  <2> QED
    BY <1>1, <1>10, <2>1, <2>2, ForwardedPassed
<1> HIDE DEF e, f
<1>12. f \in Seq(HeaderLines) /\ \A name : name # Via => LinesOf(f, name) = LinesOf(e, name)
  BY <1>11 DEF Passed
<1>13. LinesOf(f, Route) = BothRoutes /\ LinesOf(f, RecordRoute) = <<>> /\ LinesOf(f, Fragment) = <<>>
  BY <1>9, <1>12, NamesApart DEF Routed
<1>14. Readable(f)
  <2>1. LinesOf(f, CallId) = LinesOf(e, CallId) /\ LinesOf(e, CallId) # <<>>
    BY <1>9, <1>10, <1>12, HasLines, NamesApart
  <2> QED
    BY <1>12, <1>13, <2>1, HasLines DEF Readable
<1>15. ToServerSent(f, h, peer)
  BY <1>11, <1>13, <1>14 DEF ToServerSent, RoutesAre, BothRoutes
<1> QED
  BY <1>15 DEF f, adds

------------------------------------------------------------------------------
(* The proxies that recorded themselves, and the way a dialog takes.           *)

\* The values that reach the callee, one at the most.
LEMMA RouteSetIs ==
    ASSUME NEW r \in Seq(Proxies), setup.length \in BOOLEAN
    PROVE  /\ RouteSetOf(r) \in Seq(Proxies)
           /\ RouteSetOf(r) # <<>> => /\ setup.length = TRUE /\ r # <<>> /\ Len(r) \in 1..Len(r)
                                      /\ r[Len(r)] \in Proxies /\ RouteSetOf(r) = <<r[Len(r)]>>
                                      /\ RouteSetOf(r)[1] = r[Len(r)] /\ Len(RouteSetOf(r)) = 1
           /\ Reverse(RouteSetOf(r)) = RouteSetOf(r)
           /\ setup.length = FALSE => RouteSetOf(r) = <<>> /\ RecordsOf(r) = <<>>
           /\ setup.length = TRUE /\ r # <<>> => RecordsOf(r) # <<>>
<1>1. Len(r) \in Nat /\ (r # <<>> => Len(r) \in 1..Len(r))
  BY LenProperties, EmptySeq
<1>2. r # <<>> => r[Len(r)] \in Proxies
  BY <1>1, ElementOfSeq
<1>3. Reverse(<<>>) = <<>> /\ \A a : Reverse(<<a>>) = <<a>>
  <2>1. Reverse(<<>>) = <<>>
    BY DEF Reverse
  <2>2. ASSUME NEW a
        PROVE  Reverse(<<a>>) = <<a>>
    <3> DEFINE s == <<a>>
    <3>1. Len(s) = 1 /\ s[1] = a
      OBVIOUS
    <3> HIDE DEF s
    <3>2. Reverse(s) = [i \in 1..1 |-> s[(1 - i) + 1]]
      BY <3>1 DEF Reverse
    <3>3. \A i \in 1..1 : s[(1 - i) + 1] = a
      BY <3>1
    <3>4. Reverse(s) = [i \in 1..1 |-> a]
      BY <3>2, <3>3
    <3>5. <<a>> = [i \in 1..1 |-> a]
      OBVIOUS
    <3> QED
      BY <3>4, <3>5 DEF s
  <2> QED
    BY <2>1, <2>2
<1>4. <<>> \in Seq(Proxies)
  BY EmptySeq
<1>5. CASE setup.length = TRUE /\ r # <<>>
  <2> DEFINE x == r[Len(r)]
  <2>1. RouteSetOf(r) = <<x>> /\ x \in Proxies
    BY <1>2, <1>5 DEF RouteSetOf
  <2>2. RecordsOf(r) = <<Line(RecordRoute, <<x>>)>>
    BY <2>1, SinglesTuples DEF RecordsOf
  <2> HIDE DEF x
  <2>3. <<x>> \in Seq(Proxies)
    BY <2>1
  <2>4. Reverse(<<x>>) = <<x>>
    BY <1>3
  <2>5. <<Line(RecordRoute, <<x>>)>> # <<>> /\ <<x>>[1] = x /\ Len(<<x>>) = 1
    OBVIOUS
  <2> QED
    BY <1>1, <1>5, <2>1, <2>2, <2>3, <2>4, <2>5 DEF x
<1>6. CASE ~(setup.length = TRUE /\ r # <<>>)
  <2>1. RouteSetOf(r) = <<>>
    BY <1>6 DEF RouteSetOf
  <2>2. RecordsOf(r) = <<>>
    BY <2>1, SinglesTuples DEF RecordsOf
  <2> QED
    BY <1>3, <1>4, <1>6, <2>1, <2>2
<1> QED
  BY <1>5, <1>6

LEMMA NobodyRecorded == RecordsOf(<<>>) = <<>>
<1>1. RouteSetOf(<<>>) = <<>>
  BY DEF RouteSetOf
<1> QED
  BY <1>1, SinglesTuples DEF RecordsOf

\* One more proxy on record.
LEMMA LastRecorded ==
    ASSUME NEW r \in Seq(Proxies), NEW n \in Proxies
    PROVE  RecordsOf(Append(r, n)) =
               IF setup.length THEN <<Line(RecordRoute, <<n>>)>> ELSE <<>>
<1> DEFINE a == Append(r, n)
<1>1. a \in Seq(Proxies) /\ Len(a) = Len(r) + 1 /\ a[Len(r) + 1] = n /\ Len(r) \in Nat
  BY AppendProperties, LenProperties
<1> HIDE DEF a
<1>2. a # <<>> /\ a[Len(a)] = n
  BY <1>1, EmptySeq
<1>3. RouteSetOf(a) = IF setup.length THEN <<n>> ELSE <<>>
  BY <1>2 DEF RouteSetOf
<1>4. RecordsOf(a) = IF setup.length THEN <<Line(RecordRoute, <<n>>)>> ELSE <<>>
  BY <1>3, SinglesTuples DEF RecordsOf
<1> QED
  BY <1>4 DEF a

------------------------------------------------------------------------------
(* What a step has to establish.                                               *)

Msgs == [uri : Nodes \cup {NoUri}, limit : Int, hdrs : Seq(HeaderLines)]

\* GetsThrough, of a request of the kind k, the proxies r on record and the node a.
Excused(k, r, a) ==
    IsServed => \/ k = "initial" /\ \E i \in DOMAIN r : r[i] = a
                \/ setup.source # AddrOf(Caller)

\* Every proxy is on record once.
Once(r) == \A i, j \in DOMAIN r : r[i] = r[j] => i = j

LEMMA TypeIs ==
    TypeInv <=>
        /\ setup \in Setups
        /\ phase \in {"idle", "request", "answer", "lost", "heard", "asks", "over"}
        /\ kind \in {"initial", "fromCaller", "fromCallee"}
        /\ at \in Nodes \cup {Nowhere} /\ src \in Addresses
        /\ m \in Msgs
        /\ trail \in Seq(Nodes)
        /\ recorded \in Seq(Proxies) /\ Once(recorded)
        /\ routeSet \in Seq(Proxies)
        /\ answered \in BOOLEAN
<1>1. ASSUME m \in Msgs
      PROVE  /\ m.uri \in Nodes \cup {NoUri} /\ m.limit \in Int
             /\ \A i \in DOMAIN m.hdrs : m.hdrs[i].name \in Names \cup {Fragment}
  <2>1. m.uri \in Nodes \cup {NoUri} /\ m.limit \in Int /\ m.hdrs \in Seq(HeaderLines)
    BY <1>1 DEF Msgs
  <2>2. ASSUME NEW i \in DOMAIN m.hdrs
        PROVE  m.hdrs[i].name \in Names \cup {Fragment}
    <3>1. m.hdrs[i] \in HeaderLines
      BY <2>1
    <3> QED
      BY <3>1, LineIs
  <2> QED
    BY <2>1, <2>2
<1> QED
  BY <1>1 DEF TypeInv, TypeOK, Msgs, Once

LEMMA MsgIs ==
    ASSUME m \in Msgs
    PROVE  /\ m.uri \in Nodes \cup {NoUri} /\ m.limit \in Int /\ m.hdrs \in Seq(HeaderLines)
           /\ \A l \in Int, h \in Seq(HeaderLines) :
                 LET n == [m EXCEPT !.limit = l, !.hdrs = h]
                 IN  n \in Msgs /\ n.uri = m.uri /\ n.hdrs = h
  BY DEF Msgs

LEMMA MsgFrom ==
    ASSUME NEW u \in Nodes \cup {NoUri}, NEW l \in Int, NEW h \in Seq(HeaderLines)
    PROVE  LET n == [uri |-> u, limit |-> l, hdrs |-> h]
           IN  n \in Msgs /\ n.uri = u /\ n.hdrs = h
  BY DEF Msgs

LEMMA DecrementedType == \A l \in Int : Decremented(l) \in Int
  BY DEF Decremented, MaxU32

\* The parts of the invariant after a step that leaves the setup as it is.
LEMMA TypeNext ==
    ASSUME TypeInv, setup' = setup,
           phase' \in {"request", "answer", "lost", "heard", "asks", "over"},
           kind' \in {"initial", "fromCaller", "fromCallee"},
           at' \in Nodes \cup {Nowhere}, src' \in Addresses, m' \in Msgs,
           trail' \in Seq(Nodes), recorded' \in Seq(Proxies), Once(recorded'),
           routeSet' \in Seq(Proxies), answered' \in BOOLEAN
    PROVE  TypeInv' /\ IdleInv'
<1>1. setup' \in Setups
  BY DEF TypeInv, TypeOK
<1>2. TypeInv'
  <2>1. ASSUME m' \in Msgs
        PROVE  /\ m'.uri \in Nodes \cup {NoUri} /\ m'.limit \in Int
               /\ \A i \in DOMAIN m'.hdrs : m'.hdrs[i].name \in Names \cup {Fragment}
    <3>1. m'.uri \in Nodes \cup {NoUri} /\ m'.limit \in Int /\ m'.hdrs \in Seq(HeaderLines)
      BY <2>1 DEF Msgs
    <3>2. ASSUME NEW i \in DOMAIN m'.hdrs
          PROVE  m'.hdrs[i].name \in Names \cup {Fragment}
      <4>1. m'.hdrs[i] \in HeaderLines
        BY <3>1
      <4> QED
        BY <4>1, LineIs
    <3> QED
      BY <3>1, <3>2
  <2>2. TypeOK'
    BY <1>1, <2>1 DEF TypeOK, Once
  <2> QED
    BY <2>2 DEF TypeInv, Msgs
<1>3. IdleInv'
  BY DEF IdleInv
<1> QED
  BY <1>2, <1>3

LEMMA RequestNext ==
    ASSUME setup' = setup,
           phase' = "request" /\ kind' = "initial" =>
               answered' = FALSE /\ Initial(m'.hdrs, trail', at', src', m'.uri, recorded')
    PROVE  RequestInv'
<1>1. ASSUME NEW h, NEW t, NEW a, NEW s, NEW u, NEW r
      PROVE  Initial(h, t, a, s, u, r)' <=> Initial(h, t, a, s, u, r)
  BY DEF Initial, RecordsOf, RouteSetOf, ViaPath, AmongProxies, AmongServers,
         Remains, IsServed, KeepsHeaders, CallerVia, CallerMarked, Request, RouteLines
<1> QED
  BY <1>1 DEF RequestInv

LEMMA AnswerNext ==
    ASSUME setup' = setup, answered' = answered \/ at' # Nowhere,
           phase' = "answer" =>
               /\ kind' = "initial" /\ Returning(m'.hdrs, trail')
               /\ \/ at' = Last(trail')
                  \/ at' = Nowhere /\ Last(trail') = Caller /\ ~Reachable
    PROVE  AnswerInv'
<1>1. ASSUME NEW h, NEW t
      PROVE  Returning(h, t)' <=> Returning(h, t)
  BY DEF Returning, ViaPath, CallerVia, CallerMarked
<1>2. answered' = answered => (Reachable' <=> Reachable)
  BY DEF Reachable
<1> QED
  BY <1>1, <1>2 DEF AnswerInv

LEMMA AnsweredNext ==
    ASSUME setup' = setup,
           answered' =>
               /\ routeSet' = RouteSetOf(recorded')
               /\ phase' \in {"answer", "heard"} =>
                      LinesOf(m'.hdrs, RecordRoute) = RecordsOf(recorded')
    PROVE  AnsweredInv'
  BY DEF AnsweredInv, RecordsOf, RouteSetOf

LEMMA AsksNext ==
    ASSUME setup' = setup,
           phase' = "asks" =>
               /\ kind' # "initial" /\ trail' = <<>>
               /\ at' = From(kind') /\ m'.uri = To(kind')
               /\ Starts(m'.hdrs, RouteSetOf(recorded'))
    PROVE  AsksInv'
<1>1. \A h, plan : Starts(h, plan)' <=> Starts(h, plan)
  BY DEF Starts, Request, RouteLines
<1>2. \A r : RouteSetOf(r)' = RouteSetOf(r)
  BY DEF RouteSetOf
<1> QED
  BY <1>1, <1>2 DEF AsksInv

LEMMA DialogNext ==
    ASSUME setup' = setup,
           kind' # "initial" =>
               /\ answered' /\ setup.through = "proxies"
               /\ phase' = "request" =>
                     m'.uri = To(kind')
                         /\ InDialog(m'.hdrs, trail', at', kind', RouteSetOf(recorded'))
               /\ phase' = "over" => Append(trail', at') =
                     <<From(kind')>> \o RouteSetOf(recorded') \o <<To(kind')>>
    PROVE  DialogInv'
<1>1. ASSUME NEW h, NEW t, NEW a, NEW k, NEW plan
      PROVE  InDialog(h, t, a, k, plan)' <=> InDialog(h, t, a, k, plan)
  BY DEF InDialog, Starts, Request, RouteLines
<1>2. \A r : RouteSetOf(r)' = RouteSetOf(r)
  BY DEF RouteSetOf
<1> QED
  BY <1>1, <1>2 DEF DialogInv

LEMMA LostNext ==
    ASSUME setup' = setup, phase' = "lost" => Excused(kind', recorded', at')
    PROVE  GetsThrough'
<1>1. KeepsHeaders' <=> KeepsHeaders
  BY DEF KeepsHeaders
<1> QED
  BY <1>1 DEF GetsThrough, Excused, IsServed, called

------------------------------------------------------------------------------
(* The steps that drop a message.                                              *)

LEMMA DroppedStep ==
    ASSUME IInv, Dropped, Excused(kind, recorded, at)
    PROVE  IInv'
<1>1. /\ phase' = "lost" /\ setup' = setup /\ kind' = kind /\ recorded' = recorded
      /\ routeSet' = routeSet /\ answered' = answered
      /\ at' = at /\ src' = src /\ m' = m /\ trail' = trail
  BY DEF Dropped, Unread
<1>2. TypeInv /\ AnsweredInv /\ DialogInv
  BY DEF IInv
<1>3. TypeInv' /\ IdleInv'
  BY <1>1, <1>2, TypeIs, TypeNext
<1>4. RequestInv' /\ AnswerInv' /\ AsksInv'
  BY <1>1 DEF RequestInv, AnswerInv, AsksInv
<1>5. AnsweredInv'
  BY <1>1, <1>2, AnsweredNext DEF AnsweredInv
<1>6. DialogInv'
  BY <1>1, <1>2, DialogNext DEF DialogInv
<1>7. GetsThrough'
  BY <1>1, LostNext
<1> QED
  BY <1>3, <1>4, <1>5, <1>6, <1>7 DEF IInv

LEMMA SeenBeforeStep ==
    ASSUME IInv, SeenBefore
    PROVE  IInv'
<1>1. Dropped /\ at \in called /\ kind = "initial"
  BY DEF SeenBefore
<1>2. Excused(kind, recorded, at)
  BY <1>1 DEF Excused, called
<1> QED
  BY <1>1, <1>2, DroppedStep

LEMMA AnswerMissedStep ==
    ASSUME IInv, AnswerMissed
    PROVE  IInv'
<1>1. Dropped /\ phase = "answer" /\ at = Nowhere
  BY DEF AnswerMissed
<1>2. IsTrail(trail) /\ (at = Last(trail) \/ ~Reachable)
  BY <1>1 DEF IInv, AnswerInv, Returning
<1>3. Last(trail) \in Nodes
  BY <1>2, TrailIs DEF Passers, Nodes
<1>4. at # Last(trail)
  BY <1>1, <1>3, NodesApart DEF Nodes
<1>5. Excused(kind, recorded, at)
  BY <1>2, <1>4 DEF Excused, Reachable
<1> QED
  BY <1>1, <1>5, DroppedStep

\* The first request of the caller, with one of the routes that it may write.
LEMMA FirstRequestIs ==
    ASSUME setup \in Setups, NEW routes \in Seq(Hops)
    PROVE  IsFirstRequest(Request(CallerVia, routes), CallerVia, routes)
  BY SetupIs, CallerViaIs, RequestIs

LEMMA ProxiesAreHops == \A s \in Seq(Proxies) : s \in Seq(Hops)
<1> TAKE s \in Seq(Proxies)
<1>1. \A i \in 1..Len(s) : s[i] \in Hops
  BY ElementOfSeq DEF Hops, Nodes
<1> QED
  BY <1>1

LEMMA StartIs ==
    ASSUME setup \in Setups, NEW plan \in Seq(Proxies), NEW h, Starts(h, plan)
    PROVE  /\ h \in Seq(HeaderLines) /\ IsRequest(h) /\ Readable(h)
           /\ LinesOf(h, Route) = RouteLines(plan)
           /\ Has(h, Length) <=> setup.length = TRUE
           /\ plan \in Seq(Hops)
<1>1. setup.folded \in BOOLEAN /\ setup.length \in BOOLEAN
  BY SetupIs
<1>2. plan \in Seq(Hops)
  BY ProxiesAreHops
<1>3. PICK via \in ViaValues : h = Request(via, plan)
  BY DEF Starts
<1>4. IsFirstRequest(h, via, plan)
  BY <1>1, <1>2, <1>3, RequestIs
<1> QED
  BY <1>2, <1>4 DEF IsFirstRequest

\* Only headers that were cut off, or a next hop that was taken from a place
\* without one, keep a message from being read.
LEMMA CannotReadStep ==
    ASSUME IInv, CannotRead
    PROVE  IInv'
<1>1. Dropped
  BY DEF CannotRead
<1>2. /\ TypeInv /\ RequestInv /\ AnswerInv /\ DialogInv /\ setup \in Setups
      /\ setup.through \in {"proxies", "scscf"} /\ setup.length \in BOOLEAN
      /\ recorded \in Seq(Proxies)
  BY TypeIs, SetupIs DEF IInv
<1>3. CASE phase = "request" /\ kind = "initial"
  <2>1. Initial(m.hdrs, trail, at, src, m.uri, recorded)
    BY <1>2, <1>3 DEF RequestInv
  <2> SUFFICES ASSUME IsServed
               PROVE  FALSE
    BY <1>1, DroppedStep DEF Excused
  <2>2. AmongProxies(m.hdrs, trail, at, m.uri, recorded)
    BY <2>1 DEF Initial, IsServed
  <2>3. m.uri # NoUri
    BY <2>2 DEF AmongProxies, IsServed
  <2>4. ~Readable(m.hdrs)
    BY <1>3, <2>3 DEF CannotRead
  <2>5. Len(trail) # 1
    <3>2. setup.routes \in Seq(Hops)
      BY <1>2, SetupIs, ProxiesAreHops
    <3>1. Readable(Request(CallerVia, setup.routes))
      BY <1>2, <3>2, FirstRequestIs DEF IsFirstRequest
    <3> QED
      BY <2>2, <2>4, <3>1 DEF AmongProxies
  <2>6. Remains(m.hdrs, recorded) /\ (setup.length => recorded = <<First>>)
    BY <2>2, <2>5 DEF AmongProxies
  <2>7. setup.length => Len(recorded) = 1
    <3>1. Len(<<First>>) = 1
      OBVIOUS
    <3> QED
      BY <2>6, <3>1
  <2> QED
    BY <1>2, <2>4, <2>6, <2>7 DEF Remains, Readable
<1>4. CASE phase = "request" /\ kind # "initial"
  <2> DEFINE plan == RouteSetOf(recorded)
  <2>1. m.uri = To(kind) /\ InDialog(m.hdrs, trail, at, kind, plan)
    BY <1>2, <1>4 DEF DialogInv
  <2>2. m.uri # NoUri
    BY <2>1, NodesApart DEF To
  <2>3. ~Readable(m.hdrs)
    BY <1>4, <2>2 DEF CannotRead
  <2>4. plan \in Seq(Proxies) /\ (plan # <<>> => setup.length = TRUE)
    BY <1>2, RouteSetIs
  <2> HIDE DEF plan
  <2>5. ~Starts(m.hdrs, plan)
    BY <1>2, <2>3, <2>4, StartIs
  <2>6. ~setup.routesLast /\ setup.length = TRUE
    BY <2>1, <2>3, <2>4, <2>5 DEF InDialog
  <2>7. Excused(kind, recorded, at)
    BY <2>6 DEF Excused, IsServed, KeepsHeaders
  <2> QED
    BY <1>1, <2>7, DroppedStep
<1>5. CASE phase = "answer"
  <2>1. Readable(m.hdrs)
    BY <1>2, <1>5 DEF AnswerInv, Returning
  <2> QED
    BY <1>5, <2>1 DEF CannotRead
<1> QED
  BY <1>3, <1>4, <1>5 DEF CannotRead

------------------------------------------------------------------------------
(* The steps that pass a request on.                                           *)

LEMMA PassedTo ==
    ASSUME TypeInv, at \in Nodes, NEW to, NEW msg, PassTo(to, msg),
           Hop(to) \in Nodes \cup {Nowhere}
    PROVE  /\ at' = Hop(to) /\ at' \in Nodes \cup {Nowhere}
           /\ phase' = IF Hop(to) = Nowhere THEN "lost" ELSE "request"
           /\ phase' \in {"request", "lost"}
           /\ src' = IF at = Caller THEN setup.source ELSE AddrOf(at)
           /\ src' \in Addresses
           /\ m' = msg
           /\ trail' = Append(trail, at) /\ trail' \in Seq(Nodes)
<1>1. trail \in Seq(Nodes) /\ setup.source \in Addresses
  BY TypeIs, SetupIs
<1>2. AddrOf(at) \in Addresses
  BY NodeViaIs
<1>3. Append(trail, at) \in Seq(Nodes)
  BY <1>1, AppendProperties
<1> QED
  BY <1>1, <1>2, <1>3 DEF PassTo

LEMMA PassedStep ==
    ASSUME IInv, setup' = setup, kind' = kind, routeSet' = routeSet, answered' = answered,
           phase' \in {"request", "lost"},
           at' \in Nodes \cup {Nowhere}, src' \in Addresses, m' \in Msgs,
           trail' \in Seq(Nodes), recorded' \in Seq(Proxies), Once(recorded'),
           answered => recorded' = recorded,
           phase' = "request" /\ kind = "initial" =>
               ~answered /\ Initial(m'.hdrs, trail', at', src', m'.uri, recorded'),
           phase' = "request" /\ kind # "initial" =>
               m'.uri = To(kind) /\ InDialog(m'.hdrs, trail', at', kind, RouteSetOf(recorded)),
           phase' = "lost" => Excused(kind, recorded', at')
    PROVE  IInv'
<1>1. TypeInv /\ AnsweredInv /\ DialogInv
  BY DEF IInv
<1>2. TypeInv' /\ IdleInv'
  BY <1>1, TypeIs, TypeNext
<1>3. answered \in BOOLEAN
  BY <1>1, TypeIs
<1>4. RequestInv'
  BY <1>3, RequestNext
<1>5. AnswerInv' /\ AsksInv'
  BY DEF AnswerInv, AsksInv
<1>6. AnsweredInv'
  BY <1>1, AnsweredNext DEF AnsweredInv
<1>7. DialogInv'
  BY <1>1, DialogNext DEF DialogInv
<1>8. GetsThrough'
  BY LostNext
<1> QED
  BY <1>2, <1>4, <1>5, <1>6, <1>7, <1>8 DEF IInv

LEMMA SendStep ==
    ASSUME IInv, Send
    PROVE  IInv'
<1>1. TypeInv /\ phase = "idle"
  BY DEF IInv, Send
<1>2. kind = "initial" /\ at = Caller /\ trail = <<>> /\ recorded = <<>> /\ ~answered
  BY <1>1 DEF IInv, IdleInv
<1>3. /\ setup \in Setups /\ setup.through \in {"proxies", "scscf"}
      /\ setup.folded \in BOOLEAN /\ setup.length \in BOOLEAN /\ setup.limit \in Int
      /\ setup.routes \in Seq(Proxies)
  BY <1>1, TypeIs, SetupIs
<1> DEFINE scscf == setup.through = "scscf"
           to == IF scscf THEN Scscf ELSE First
           routes == IF scscf THEN <<Scscf>> ELSE setup.routes
           h == Request(CallerVia, routes)
           msg == [uri |-> Callee, limit |-> setup.limit, hdrs |-> h]
           t == <<Caller>>
<1>4. PassTo(to, msg) /\ Unread
  BY DEF Send
<1>5. to \in Nodes /\ to # Caller /\ Hop(to) = to /\ to # Nowhere
  <2>1. to \in Nodes /\ to # Caller /\ to # Nowhere
    BY NodesApart DEF Nodes
  <2> QED
    BY <1>3, <2>1, HopNode
<1>6. routes \in Seq(Hops)
  <2>1. <<Scscf>> \in Seq(Hops)
    BY DEF Hops, Nodes
  <2>2. \A i \in 1..Len(setup.routes) : setup.routes[i] \in Hops
    BY <1>3, ElementOfSeq DEF Hops, Nodes
  <2>3. setup.routes \in Seq(Hops)
    BY <1>3, <2>2
  <2> QED
    BY <2>1, <2>3
<1>7. scscf => to = Scscf /\ h = Request(CallerVia, <<Scscf>>)
  OBVIOUS
<1>8. ~scscf => to = First /\ h = Request(CallerVia, setup.routes)
  OBVIOUS
<1> HIDE DEF to, routes
<1>9. IsFirstRequest(h, CallerVia, routes)
  BY <1>3, <1>6, CallerViaIs, RequestIs
<1> HIDE DEF h
<1>10. h \in Seq(HeaderLines) /\ IsRequest(h) /\ Readable(h) /\ LinesOf(h, RecordRoute) = <<>>
       /\ (Has(h, Length) <=> setup.length = TRUE)
  BY <1>9 DEF IsFirstRequest
<1>11. msg \in Msgs /\ msg.uri = Callee /\ msg.hdrs = h
  BY <1>3, <1>10, MsgFrom DEF Nodes
<1> HIDE DEF msg
<1>12. at \in Nodes
  BY <1>2 DEF Nodes
<1>13. /\ at' = to /\ phase' = "request" /\ src' = setup.source /\ src' \in Addresses /\ m' = msg
       /\ trail' = Append(trail, at) /\ trail' \in Seq(Nodes)
  BY <1>1, <1>2, <1>4, <1>5, <1>12, PassedTo
<1>14. trail' = t /\ IsTrail(t) /\ Len(t) = 1
  <2>1. Append(<<>>, Caller) = t
    OBVIOUS
  <2>2. t \in Seq(Nodes) /\ Len(t) = 1 /\ t[1] = Caller /\ t # <<>>
    BY DEF Nodes
  <2> QED
    BY <1>2, <1>13, <2>1, <2>2 DEF IsTrail
<1> HIDE DEF t
<1>15. AmongProxies(h, t, to, Callee, recorded) \/ scscf
  <2> SUFFICES ASSUME ~scscf
               PROVE  AmongProxies(h, t, to, Callee, recorded)
    OBVIOUS
  <2> QED
    BY <1>2, <1>3, <1>8, <1>10, <1>14, NodesApart DEF AmongProxies
<1>16. scscf => AmongServers(h, t, to)
  BY <1>7, <1>10, <1>14 DEF AmongServers
<1>17. Initial(h, t, to, setup.source, Callee, recorded)
  <2>2. RecordsOf(recorded) = <<>>
    BY <1>2, NobodyRecorded
  <2> QED
    BY <1>3, <1>10, <1>14, <1>15, <1>16, <2>2 DEF Initial
<1>18. /\ setup' = setup /\ kind' = kind /\ recorded' = recorded
       /\ routeSet' = routeSet /\ answered' = answered
  BY <1>4 DEF Unread
<1>19. recorded \in Seq(Proxies) /\ Once(recorded)
  BY <1>1, TypeIs
<1> QED
  BY <1>2, <1>5, <1>11, <1>13, <1>14, <1>17, <1>18, <1>19, PassedStep

\* What the steps of the S-CSCF and of the server start from.
LEMMA ServersOnly ==
    ASSUME IInv, phase = "request", at \in {Scscf, AppServer}
    PROVE  /\ TypeInv /\ setup \in Setups /\ setup.folded \in BOOLEAN /\ m \in Msgs
           /\ src \in Addresses /\ at \in Passers /\ at \in Nodes
           /\ kind = "initial" /\ setup.through = "scscf" /\ ~answered
           /\ recorded \in Seq(Proxies) /\ Once(recorded)
           /\ Initial(m.hdrs, trail, at, src, m.uri, recorded)
           /\ AmongServers(m.hdrs, trail, at)
<1>1. /\ TypeInv /\ setup \in Setups /\ setup.folded \in BOOLEAN /\ m \in Msgs
      /\ setup.through \in {"proxies", "scscf"}
      /\ src \in Addresses /\ recorded \in Seq(Proxies) /\ Once(recorded)
  BY TypeIs, SetupIs DEF IInv
<1>2. kind = "initial"
  <2> SUFFICES ASSUME kind # "initial"
               PROVE  FALSE
    OBVIOUS
  <2> DEFINE plan == RouteSetOf(recorded)
  <2>1. InDialog(m.hdrs, trail, at, kind, plan)
    BY DEF IInv, DialogInv
  <2>2. setup.length \in BOOLEAN
    BY <1>1, SetupIs
  <2>3. plan # <<>> => plan[1] \in Proxies
    BY <1>1, <2>2, RouteSetIs
  <2> HIDE DEF plan
  <2> QED
    BY <2>1, <2>3, NodesApart DEF InDialog, To
<1>3. ~answered /\ Initial(m.hdrs, trail, at, src, m.uri, recorded)
  BY <1>2 DEF IInv, RequestInv
<1>4. setup.through = "scscf"
  BY <1>1, <1>3, NodesApart DEF Initial, AmongProxies
<1> QED
  BY <1>1, <1>2, <1>3, <1>4 DEF Initial, Passers, Nodes

\* The request as the S-CSCF or the server has passed it on.
LEMMA ServersStep ==
    ASSUME IInv, phase = "request", at \in {Scscf, AppServer},
           NEW to, NEW msg \in Msgs, PassTo(to, msg), Unread,
           Hop(to) \in {Scscf, AppServer, Callee},
           IsRequest(msg.hdrs), Readable(msg.hdrs),
           LinesOf(msg.hdrs, RecordRoute) = LinesOf(m.hdrs, RecordRoute),
           ViaPath(msg.hdrs, Append(trail, at)),
           \/ Hop(to) = AppServer /\ RoutesAre(msg.hdrs, <<AppServer, Odi>>)
           \/ Hop(to) = Scscf     /\ RoutesAre(msg.hdrs, <<Odi>>)
           \/ Hop(to) = Callee    /\ RoutesAre(msg.hdrs, <<>>)
    PROVE  IInv'
<1>1. /\ TypeInv /\ src \in Addresses /\ at \in Passers /\ at \in Nodes
      /\ kind = "initial" /\ setup.through = "scscf" /\ ~answered
      /\ recorded \in Seq(Proxies) /\ Once(recorded)
      /\ Initial(m.hdrs, trail, at, src, m.uri, recorded)
  BY ServersOnly
<1>2. Hop(to) \in Nodes \cup {Nowhere} /\ Hop(to) # Nowhere
  BY NodesApart DEF Nodes
<1>3. /\ at' = Hop(to) /\ at' \in Nodes \cup {Nowhere} /\ phase' = "request" /\ src' \in Addresses
      /\ m' = msg /\ trail' = Append(trail, at) /\ trail' \in Seq(Nodes)
  BY <1>1, <1>2, PassedTo
<1> DEFINE t == Append(trail, at)
<1>4. IsTrail(t) /\ Len(t) # 1
  <2>1. IsTrail(trail)
    BY <1>1 DEF Initial
  <2>2. IsTrail(t) /\ Len(t) = Len(trail) + 1 /\ Len(trail) \in Nat \ {0}
    BY <1>1, <2>1, TrailOn, TrailIs
  <2> QED
    BY <2>2
<1> HIDE DEF t
<1>5. AmongServers(msg.hdrs, t, Hop(to))
  BY <1>4 DEF AmongServers
<1>6. Initial(msg.hdrs, t, Hop(to), src', msg.uri, recorded)
  BY <1>1, <1>4, <1>5 DEF Initial, t
<1>7. /\ setup' = setup /\ kind' = kind /\ recorded' = recorded
      /\ routeSet' = routeSet /\ answered' = answered
  BY DEF Unread
<1> QED
  BY <1>1, <1>3, <1>6, <1>7, PassedStep DEF t

LEMMA OneRoute ==
    ASSUME NEW routes, Len(routes) = 1, routes \in Seq(Hops), setup.folded \in BOOLEAN
    PROVE  RouteLines(routes) = Singles(Route, routes)
<1> DEFINE a == routes[1]
<1>1. routes # <<>> /\ routes = <<a>>
  OBVIOUS
<1>2. Singles(Route, <<a>>) = <<Line(Route, <<a>>)>>
  BY SinglesTuples
<1> HIDE DEF a
<1>3. Singles(Route, routes) = <<Line(Route, routes)>>
  BY <1>1, <1>2
<1>4. CASE setup.folded = TRUE
  BY <1>1, <1>3, <1>4, RoutesFolded
<1>5. CASE setup.folded = FALSE
  BY <1>5, RoutesUnfolded
<1> QED
  BY <1>4, <1>5

LEMMA InitialCame ==
    ASSUME setup \in Setups, NEW h, NEW t, NEW a, NEW s, NEW u, NEW r,
           Initial(h, t, a, s, u, r)
    PROVE  CameAlong(h, t, s)
<1>1. /\ setup.through \in {"proxies", "scscf"}
      /\ setup.routes \in Seq(Proxies)
  BY SetupIs
<1>2. setup.routes \in Seq(Hops) /\ <<Scscf>> \in Seq(Hops)
  <2>1. \A i \in 1..Len(setup.routes) : setup.routes[i] \in Hops
    BY <1>1, ElementOfSeq DEF Hops, Nodes
  <2>2. setup.routes \in Seq(Hops)
    BY <1>1, <2>1
  <2>3. <<Scscf>> \in Seq(Hops)
    BY DEF Hops, Nodes
  <2> QED
    BY <2>2, <2>3
<1>3. ASSUME Len(t) = 1
      PROVE  s = setup.source /\ LinesOf(h, Via) = <<Line(Via, <<CallerVia>>)>>
  <2>1. s = setup.source
    BY <1>3 DEF Initial
  <2>2. CASE setup.through = "proxies"
    <3>1. h = Request(CallerVia, setup.routes)
      BY <1>3, <2>2 DEF Initial, AmongProxies
    <3>2. IsFirstRequest(h, CallerVia, setup.routes)
      BY <1>2, <3>1, FirstRequestIs
    <3> QED
      BY <2>1, <3>2 DEF IsFirstRequest
  <2>3. CASE setup.through = "scscf"
    <3> DEFINE routes == <<Scscf>>
    <3>1. h = Request(CallerVia, routes)
      BY <1>3, <2>3 DEF Initial, AmongServers
    <3>2. routes \in Seq(Hops)
      BY <1>2
    <3> HIDE DEF routes
    <3>3. IsFirstRequest(h, CallerVia, routes)
      BY <3>1, <3>2, FirstRequestIs
    <3> QED
      BY <2>1, <3>3 DEF IsFirstRequest
  <2> QED
    BY <1>1, <2>2, <2>3
<1>4. Len(t) # 1 => ViaPath(h, t)
  BY DEF Initial
<1> QED
  BY <1>3, <1>4 DEF CameAlong

\* What the S-CSCF and the server read from the Routes.
LEMMA SinglesRead ==
    ASSUME NEW h \in Seq(HeaderLines), NEW routes \in Seq(Hops), RoutesAre(h, routes)
    PROVE  Values(h, Route) = routes
  BY RoutesFit, ValuesOfSingles DEF RoutesAre

LEMMA ToAppServerStep ==
    ASSUME IInv, ToAppServer
    PROVE  IInv'
<1> DEFINE f == Forwarded(m.hdrs, TopRoute, ToServer, AddrOf(Scscf), src)
           msg == [m EXCEPT !.limit = Decremented(m.limit), !.hdrs = f]
<1>1. /\ phase = "request" /\ at = Scscf /\ Values(m.hdrs, Route)[1] # Odi
      /\ PassTo(AppServer, msg) /\ Unread
  BY DEF ToAppServer, AtScscf, ScscfForwards, ToServer
<1>2. /\ setup \in Setups /\ m \in Msgs /\ src \in Addresses /\ at \in Passers
      /\ setup.folded \in BOOLEAN
      /\ Initial(m.hdrs, trail, at, src, m.uri, recorded)
      /\ AmongServers(m.hdrs, trail, at)
  BY <1>1, ServersOnly
<1>3. m.hdrs \in Seq(HeaderLines) /\ m.limit \in Int
  BY <1>2, MsgIs
<1>4. ~RoutesAre(m.hdrs, <<Odi>>)
  <2> SUFFICES ASSUME RoutesAre(m.hdrs, <<Odi>>)
               PROVE  FALSE
    OBVIOUS
  <2> DEFINE routes == <<Odi>>
  <2>1. routes \in Seq(Hops) /\ routes[1] = Odi
    BY DEF Hops
  <2>2. RoutesAre(m.hdrs, routes)
    OBVIOUS
  <2> HIDE DEF routes
  <2>3. Values(m.hdrs, Route) = routes
    BY <1>3, <2>1, <2>2, SinglesRead
  <2> QED
    BY <1>1, <2>1, <2>3
<1>5. m.hdrs = Request(CallerVia, <<Scscf>>)
  BY <1>1, <1>2, <1>4, NodesApart DEF AmongServers
<1>6. IsScscfsRequest(m.hdrs)
  BY <1>2, <1>5, CallerViaIs, ScscfsRequest
<1>7. ToServerSent(f, m.hdrs, src)
  BY <1>2, <1>6, ScscfSendsToServer
<1> HIDE DEF f
<1>8. PICK e : Passed(f, m.hdrs, Scscf, src, e)
  BY <1>7 DEF ToServerSent
<1>9. ViaPath(f, Append(trail, at))
  <2>1. IsTrail(trail) /\ CameAlong(m.hdrs, trail, src)
    BY <1>2, InitialCame DEF Initial
  <2> QED
    BY <1>1, <1>2, <1>8, <2>1, PassedPath
<1>10. f \in Seq(HeaderLines) /\ IsRequest(f)
  BY <1>8 DEF Passed
<1>11. msg \in Msgs /\ msg.hdrs = f
  BY <1>2, <1>3, <1>10, MsgIs, DecrementedType
<1> HIDE DEF msg
<1>12. LinesOf(m.hdrs, RecordRoute) = <<>>
  <2> DEFINE routes == <<Scscf>>
  <2>1. routes \in Seq(Hops)
    BY DEF Hops, Nodes
  <2>2. m.hdrs = Request(CallerVia, routes)
    BY <1>5
  <2> HIDE DEF routes
  <2>3. IsFirstRequest(m.hdrs, CallerVia, routes)
    BY <1>2, <2>1, <2>2, FirstRequestIs
  <2> QED
    BY <2>3 DEF IsFirstRequest
<1>13. Hop(AppServer) = AppServer
  BY <1>2, HopNode, NodesApart DEF Nodes
<1>14. RoutesAre(f, <<AppServer, Odi>>) /\ LinesOf(f, RecordRoute) = <<>> /\ Readable(f)
  BY <1>7 DEF ToServerSent
<1> QED
  BY <1>1, <1>9, <1>10, <1>11, <1>12, <1>13, <1>14, ServersStep

LEMMA ToUeStep ==
    ASSUME IInv, ToUe
    PROVE  IInv'
<1> DEFINE f == Forwarded(m.hdrs, TopRoute, <<>>, AddrOf(Scscf), src)
           msg == [m EXCEPT !.limit = Decremented(m.limit), !.hdrs = f]
<1>1. /\ phase = "request" /\ at = Scscf /\ Values(m.hdrs, Route)[1] = Odi
      /\ PassTo(Callee, msg) /\ Unread
  BY DEF ToUe, AtScscf, ScscfForwards
<1>2. /\ setup \in Setups /\ m \in Msgs /\ src \in Addresses /\ at \in Passers
      /\ setup.folded \in BOOLEAN
      /\ Initial(m.hdrs, trail, at, src, m.uri, recorded)
      /\ AmongServers(m.hdrs, trail, at)
  BY <1>1, ServersOnly
<1>3. m.hdrs \in Seq(HeaderLines) /\ m.limit \in Int
  BY <1>2, MsgIs
<1>4. m.hdrs # Request(CallerVia, <<Scscf>>)
  <2> SUFFICES ASSUME m.hdrs = Request(CallerVia, <<Scscf>>)
               PROVE  FALSE
    OBVIOUS
  <2> DEFINE routes == <<Scscf>>
  <2>1. routes \in Seq(Hops) /\ routes[1] = Scscf
    BY DEF Hops, Nodes
  <2>2. m.hdrs = Request(CallerVia, routes)
    OBVIOUS
  <2> HIDE DEF routes
  <2>3. IsFirstRequest(m.hdrs, CallerVia, routes)
    BY <1>2, <2>1, <2>2, FirstRequestIs
  <2>4. ReadsRoutes(m.hdrs, routes)
    BY <1>2, <1>3, <2>1, <2>3, RoutesRead DEF IsFirstRequest
  <2>5. Values(m.hdrs, Route) = routes
    BY <2>4 DEF ReadsRoutes
  <2> QED
    BY <1>1, <2>1, <2>5, NodesApart
<1>5. RoutesAre(m.hdrs, <<Odi>>)
  BY <1>1, <1>2, <1>4, NodesApart DEF AmongServers
<1>6. Whole(m.hdrs) /\ Rest(LinesOf(m.hdrs, Route)) = <<>>
  <2> DEFINE routes == <<Odi>>
  <2>1. routes \in Seq(Hops) /\ Len(routes) = 1
    BY DEF Hops
  <2>2. RoutesAre(m.hdrs, routes)
    BY <1>5
  <2> HIDE DEF routes
  <2>3. LinesOf(m.hdrs, Route) = RouteLines(routes)
    BY <1>2, <2>1, <2>2, OneRoute DEF RoutesAre
  <2>4. Whole(m.hdrs)
    <3>1. ASSUME Has(m.hdrs, Route)
          PROVE  WithoutFirst(m.hdrs[FirstLine(m.hdrs, Route)].vals) = <<>>
      <4> DEFINE hs == m.hdrs
      <4>1. hs \in Seq(HeaderLines) /\ Has(hs, Route) /\ LinesOf(hs, Route) = RouteLines(routes)
        BY <1>3, <2>3, <3>1
      <4> HIDE DEF hs
      <4>2. ~(setup.folded = TRUE /\ Len(routes) > 1)
        BY <2>1
      <4>3. WithoutFirst(hs[FirstLine(hs, Route)].vals) = <<>>
        BY <1>2, <2>1, <4>1, <4>2, TopRouteWhole
      <4> QED
        BY <4>3 DEF hs
    <3> QED
      BY <3>1 DEF Whole
  <2>5. AreSingles(HeaderLines, Singles(Route, routes), Route, routes)
    BY <2>1, RouteSingles
  <2> DEFINE s == Singles(Route, routes)
  <2> HIDE DEF s
  <2>6. s \in Seq(HeaderLines) /\ Len(s) = 1
    BY <2>1, <2>5 DEF AreSingles, s
  <2>7. Rest(s) \in Seq(HeaderLines) /\ Len(Rest(s)) = IF s = <<>> THEN 0 ELSE Len(s) - 1
    BY <2>6, RestOf
  <2>8. Rest(s) = <<>>
    BY <2>6, <2>7, EmptySeq
  <2> QED
    BY <2>2, <2>4, <2>8 DEF RoutesAre, s
<1>7. IsRequest(m.hdrs) /\ Readable(m.hdrs)
  BY <1>2 DEF Initial, AmongServers
<1>8. ScscfSent(f, m.hdrs, src)
  BY <1>2, <1>3, <1>6, <1>7, ScscfSends
<1> HIDE DEF f
<1>9. PICK e : Passed(f, m.hdrs, Scscf, src, e)
  BY <1>8 DEF ScscfSent
<1>10. ViaPath(f, Append(trail, at))
  <2>1. IsTrail(trail) /\ CameAlong(m.hdrs, trail, src)
    BY <1>2, InitialCame DEF Initial
  <2> QED
    BY <1>1, <1>2, <1>9, <2>1, PassedPath
<1>11. f \in Seq(HeaderLines) /\ IsRequest(f)
  BY <1>9 DEF Passed
<1>12. msg \in Msgs /\ msg.hdrs = f
  BY <1>2, <1>3, <1>11, MsgIs, DecrementedType
<1> HIDE DEF msg
<1>13. /\ LinesOf(f, Route) = <<>>
       /\ LinesOf(f, RecordRoute) = LinesOf(m.hdrs, RecordRoute)
       /\ LinesOf(f, Fragment) = LinesOf(m.hdrs, Fragment)
       /\ LinesOf(f, CallId) = LinesOf(m.hdrs, CallId)
  BY <1>6, <1>8, NamesApart DEF ScscfSent, Kept
<1>14. Readable(f)
  BY <1>3, <1>7, <1>11, <1>13, HasLines DEF Readable
<1>15. RoutesAre(f, <<>>)
  BY <1>13, SinglesTuples DEF RoutesAre
<1>16. Hop(Callee) = Callee
  BY <1>2, HopNode, NodesApart DEF Nodes
<1> QED
  BY <1>1, <1>10, <1>11, <1>12, <1>13, <1>14, <1>15, <1>16, ServersStep

LEMMA ServerForwardsStep ==
    ASSUME IInv, ServerForwards
    PROVE  IInv'
<1> DEFINE f == ServersRequest(m.hdrs)
           msg == [m EXCEPT !.limit = m.limit - 1, !.hdrs = f]
           to == Values(m.hdrs, Route)[2]
<1>1. phase = "request" /\ at = AppServer /\ PassTo(to, msg) /\ Unread
  BY DEF ServerForwards
<1>2. /\ setup \in Setups /\ m \in Msgs /\ src \in Addresses /\ at \in Passers
      /\ Initial(m.hdrs, trail, at, src, m.uri, recorded)
      /\ AmongServers(m.hdrs, trail, at)
  BY <1>1, ServersOnly
<1>3. m.hdrs \in Seq(HeaderLines) /\ m.limit \in Int
  BY <1>2, MsgIs
<1>4. Len(trail) # 1 /\ RoutesAre(m.hdrs, <<AppServer, Odi>>)
  BY <1>1, <1>2, NodesApart DEF AmongServers
<1>5. to = Odi
  <2> DEFINE routes == <<AppServer, Odi>>
  <2>1. routes \in Seq(Hops) /\ routes[2] = Odi
    BY DEF Hops, Nodes
  <2>2. RoutesAre(m.hdrs, routes)
    BY <1>4
  <2> HIDE DEF routes
  <2>3. Values(m.hdrs, Route) = routes
    BY <1>3, <2>1, <2>2, SinglesRead
  <2> QED
    BY <2>1, <2>3
<1>6. IsTrail(trail) /\ IsRequest(m.hdrs) /\ Readable(m.hdrs) /\ ViaPath(m.hdrs, trail)
  BY <1>2, <1>4 DEF Initial, AmongServers
<1>7. ServerSent(f, m.hdrs)
  BY <1>2, <1>3, <1>4, <1>6, ServerSends
<1> HIDE DEF f, to
<1>8. /\ f \in Seq(HeaderLines) /\ IsRequest(f) /\ RoutesAre(f, <<Odi>>)
      /\ LinesOf(f, RecordRoute) = LinesOf(m.hdrs, RecordRoute)
      /\ LinesOf(f, Fragment) = LinesOf(m.hdrs, Fragment)
      /\ LinesOf(f, CallId) = LinesOf(m.hdrs, CallId)
  BY <1>7, NamesApart DEF ServerSent
<1>9. Readable(f)
  BY <1>3, <1>6, <1>8, HasLines DEF Readable
<1>10. ViaPath(f, Append(trail, at))
  <2>1. PutOnTop(f, LinesOf(m.hdrs, Via), NodeVia(AppServer), TopOfPath(m.hdrs, trail))
    BY <1>4, <1>7 DEF ServerSent, TopOfPath
  <2>2. Len(LinesOf(m.hdrs, Via)) \in Nat \ {0}
    BY <1>7 DEF ServerSent
  <2> QED
    BY <1>1, <1>2, <1>6, <2>1, <2>2, PathOn
<1>11. m.limit - 1 \in Int
  BY <1>3
<1>12. msg \in Msgs /\ msg.hdrs = f
  BY <1>2, <1>8, <1>11, MsgIs
<1> HIDE DEF msg
<1>13. Hop(to) = Scscf
  BY <1>2, <1>5, HopOther
<1> QED
  BY <1>1, <1>8, <1>9, <1>10, <1>12, <1>13, ServersStep

------------------------------------------------------------------------------
(* The steps of the proxies with an initial request.                           *)

\* A proxy passes on a request without any Route, unless it has several.
LEMMA InitialRoutes ==
    ASSUME setup \in Setups, NEW h \in Seq(HeaderLines), NEW t, NEW a, NEW u, NEW r,
           AmongProxies(h, t, a, u, r)
    PROVE  /\ IsMulti(h, Route) => Len(setup.routes) > 1
           /\ ~IsMulti(h, Route) => Whole(h) /\ Rest(LinesOf(h, Route)) = <<>>
<1>1. setup.routes \in Seq(Proxies) /\ setup.folded \in BOOLEAN
  BY SetupIs
<1>2. setup.routes \in Seq(Hops)
  BY <1>1, ProxiesAreHops
<1> DEFINE none == <<>>
<1>3. none \in Seq(Hops) /\ Len(none) = 0 /\ RouteLines(none) = <<>> /\ none = <<>>
  <2>1. RouteLines(none) = <<>>
    BY DEF RouteLines
  <2> QED
    BY <2>1
<1> HIDE DEF none
<1>4. PICK routes \in Seq(Hops) :
          LinesOf(h, Route) = RouteLines(routes) /\ (Len(routes) > 1 => Len(setup.routes) > 1)
  <2>1. CASE Len(t) = 1
    <3>1. h = Request(CallerVia, setup.routes)
      BY <2>1 DEF AmongProxies
    <3>2. IsFirstRequest(h, CallerVia, setup.routes)
      BY <1>2, <3>1, FirstRequestIs
    <3> QED
      BY <1>2, <3>2 DEF IsFirstRequest
  <2>2. CASE Len(t) # 1
    <3>1. LinesOf(h, Route) = <<>>
      BY <2>2 DEF AmongProxies
    <3>2. LinesOf(h, Route) = RouteLines(none) /\ ~(Len(none) > 1)
      BY <1>3, <3>1
    <3> QED
      BY <1>3, <3>2
  <2> QED
    BY <2>1, <2>2
<1>5. ReadsRoutes(h, routes)
  BY <1>1, <1>4, RoutesRead
<1>6. IsMulti(h, Route) <=> Len(routes) > 1
  BY <1>5 DEF ReadsRoutes
<1>7. ASSUME ~(Len(routes) > 1)
      PROVE  Whole(h) /\ Rest(LinesOf(h, Route)) = <<>>
  <2>1. Len(routes) \in Nat /\ Len(routes) <= 1
    BY <1>7, LenProperties
  <2>2. Whole(h)
    <3>1. ASSUME Has(h, Route)
          PROVE  WithoutFirst(h[FirstLine(h, Route)].vals) = <<>>
      BY <1>1, <1>4, <1>7, <3>1, TopRouteWhole
    <3> QED
      BY <3>1 DEF Whole
  <2>3. Rest(RouteLines(routes)) = RouteLines(Rest(routes))
    BY <1>1, <2>1, RestOfRoutes
  <2>4. Rest(routes) \in Seq(Hops) /\ Len(Rest(routes)) = IF routes = <<>> THEN 0 ELSE Len(routes) - 1
    BY RestOf
  <2>5. Len(Rest(routes)) = 0
    <3> DEFINE n == Len(routes)
    <3>1. routes # <<>> => n # 0
      BY EmptySeq
    <3>2. n \in Nat /\ n <= 1
      BY <2>1
    <3>3. Len(Rest(routes)) = IF routes = <<>> THEN 0 ELSE n - 1
      BY <2>4
    <3> HIDE DEF n
    <3>4. CASE routes = <<>>
      BY <3>3, <3>4
    <3>5. CASE routes # <<>>
      <4>1. n = 1
        BY <3>1, <3>2, <3>5
      <4> QED
        BY <3>3, <3>5, <4>1
    <3> QED
      BY <3>4, <3>5
  <2>6. Rest(routes) = none
    BY <1>3, <2>4, <2>5, EmptySeq
  <2> QED
    BY <1>3, <1>4, <2>2, <2>3, <2>6
<1> QED
  BY <1>4, <1>6, <1>7

\* There is a place for its Record-Route when the caller writes a Content-Length.
LEMMA PlaceIs ==
    ASSUME setup \in Setups, NEW h \in Seq(HeaderLines), NEW t, NEW a, NEW u, NEW s,
           NEW r \in Seq(Proxies), AmongProxies(h, t, a, u, r),
           Initial(h, t, a, s, u, r)
    PROVE  HasPlace(h) <=> setup.length = TRUE
<1>1. setup.length \in BOOLEAN /\ setup.routes \in Seq(Hops)
  BY SetupIs, ProxiesAreHops
<1>2. LinesOf(h, RecordRoute) = RecordsOf(r)
  BY DEF Initial
<1>3. CASE Len(t) = 1
  <2>1. IsFirstRequest(h, CallerVia, setup.routes)
    BY <1>1, <1>3, FirstRequestIs DEF AmongProxies
  <2> QED
    BY <2>1, HasLines DEF IsFirstRequest, HasPlace
<1>4. CASE Len(t) # 1 /\ setup.length = TRUE
  <2>1. RecordsOf(r) # <<>>
    BY <1>4, RouteSetIs DEF AmongProxies
  <2>2. Has(h, RecordRoute)
    BY <1>2, <2>1, HasLines
  <2> QED
    BY <1>4, <2>2 DEF HasPlace
<1>5. CASE Len(t) # 1 /\ setup.length = FALSE
  <2>1. RecordsOf(r) = <<>>
    BY <1>5, RouteSetIs
  <2>2. ~Has(h, RecordRoute)
    BY <1>2, <2>1, HasLines
  <2> QED
    BY <1>5, <2>2 DEF HasPlace, AmongProxies
<1> QED
  BY <1>1, <1>3, <1>4, <1>5

LEMMA SentOnIs ==
    ASSUME TypeInv, at \in Proxies, IsRequest(m.hdrs), NEW u \in Nodes \cup {NoUri}
    PROVE  /\ SentOn(u) \in Msgs /\ SentOn(u).uri = u
           /\ IsRequest(SentOn(u).hdrs) /\ SentOn(u).hdrs \in Seq(HeaderLines)
           /\ ProxySent(SentOn(u).hdrs, m.hdrs, at, src)
<1> DEFINE h == m.hdrs
           f == Forwarded(h, TopRoute, OnRecord(at), AddrOf(at), src)
<1>1. h \in Seq(HeaderLines) /\ m.limit \in Int /\ src \in Addresses
  BY TypeIs, MsgIs
<1>2. SentOn(u) = [uri |-> u, limit |-> Decremented(m.limit), hdrs |-> f]
  BY DEF SentOn, OwnRecord, OnRecord
<1>3. ProxySent(f, h, at, src)
  BY <1>1, ProxySends
<1> HIDE DEF f
<1>5. f \in Seq(HeaderLines) /\ IsRequest(f)
  BY <1>3 DEF ProxySent, Passed
<1>6. Decremented(m.limit) \in Int
  BY <1>1, DecrementedType
<1>7. SentOn(u) \in Msgs /\ SentOn(u).uri = u /\ SentOn(u).hdrs = f
  BY <1>2, <1>5, <1>6, MsgFrom
<1> QED
  BY <1>3, <1>5, <1>7

\* What the steps of a proxy with an initial request start from.
LEMMA ProxiesOnly ==
    ASSUME IInv, Arrived, kind = "initial"
    PROVE  /\ TypeInv /\ setup \in Setups /\ m \in Msgs /\ src \in Addresses
           /\ at \in Proxies /\ at \in Passers /\ at \in Nodes /\ phase = "request"
           /\ setup.through = "proxies" /\ ~answered
           /\ recorded \in Seq(Proxies) /\ Once(recorded)
           /\ Initial(m.hdrs, trail, at, src, m.uri, recorded)
           /\ AmongProxies(m.hdrs, trail, at, m.uri, recorded)
<1>1. /\ TypeInv /\ setup \in Setups /\ m \in Msgs /\ setup.through \in {"proxies", "scscf"}
      /\ src \in Addresses /\ recorded \in Seq(Proxies) /\ Once(recorded)
  BY TypeIs, SetupIs DEF IInv
<1>2. ~answered /\ Initial(m.hdrs, trail, at, src, m.uri, recorded) /\ at \in Proxies
      /\ phase = "request"
  BY DEF IInv, RequestInv, Arrived
<1>3. setup.through = "proxies"
  BY <1>1, <1>2, NodesApart DEF Initial, AmongServers
<1> QED
  BY <1>1, <1>2, <1>3 DEF Initial, Passers, Nodes

\* Where it goes, with which URI.
Turn(to, u) ==
    /\ u \in Proxies \cup {Callee, NoUri}
    /\ u = NoUri => \E p \in Proxies : setup.build[p] = "nextHop"
    /\ \/ /\ Hop(to) \in Proxies \cup {Callee} /\ ~IsMulti(m.hdrs, Route)
          /\ setup.build[at] = "registrar" => Hop(to) = setup.target[at]
       \/ /\ Hop(to) = Nowhere
          /\ \/ Len(setup.routes) > 1
             \/ \E p \in Proxies : setup.build[p] # "registrar"

LEMMA HopAhead ==
    ASSUME setup \in Setups, NEW n \in Proxies \cup {Callee}
    PROVE  Hop(n) = n /\ Hop(n) \in Proxies \cup {Callee}
<1>1. n \in Nodes /\ n # Caller
  BY NodesApart DEF Nodes
<1> QED
  BY <1>1, HopNode

LEMMA HopNone ==
    ASSUME setup \in Setups
    PROVE  Hop(None) = Nowhere
<1>1. None # Odi /\ AddrOf(None).ip = None /\ None \notin Nodes
  BY NodesApart DEF AddrOf, Nodes
<1>2. NodeAt(AddrOf(None)) = IF AddrOf(None) = setup.source THEN Caller ELSE Nowhere
  BY <1>1, NodeAtCaller
<1>3. AddrOf(None) # setup.source
  BY <1>1, SetupIs, NodesApart
<1> QED
  BY <1>1, <1>2, <1>3 DEF Hop

LEMMA ProxyTurns ==
    ASSUME IInv, ProxyInitial
    PROVE  \E to, u : Turn(to, u) /\ PassTo(to, SentOn(u))
<1> DEFINE target == setup.target[at]
<1>1. Arrived /\ kind = "initial"
  BY DEF ProxyInitial
<1>2. /\ setup \in Setups /\ m \in Msgs /\ at \in Proxies
      /\ AmongProxies(m.hdrs, trail, at, m.uri, recorded)
  BY <1>1, ProxiesOnly
<1>3. m.hdrs \in Seq(HeaderLines)
  BY <1>2, MsgIs
<1>4. /\ m.uri \in Proxies \cup {Callee, NoUri}
      /\ m.uri = NoUri => \E p \in Proxies : setup.build[p] = "nextHop"
  BY <1>2 DEF AmongProxies
<1>5. target \in Proxies \cup {Callee, None}
  BY <1>2, SetupIs
<1>6. NoUri \notin Proxies \cup {Callee}
  BY NodesApart
<1> HIDE DEF target
<1>7. CASE IsMulti(m.hdrs, Route)
  <2>1. PassTo(Nowhere, SentOn(m.uri))
    BY <1>7 DEF ProxyInitial
  <2>2. Len(setup.routes) > 1
    BY <1>2, <1>3, <1>7, InitialRoutes
  <2>3. Hop(Nowhere) = Nowhere
    BY <1>2, HopOther
  <2> QED
    BY <1>4, <2>1, <2>2, <2>3 DEF Turn
<1>8. CASE ~IsMulti(m.hdrs, Route) /\ setup.build[at] = "registrar"
  <2>1. target # None /\ PassTo(target, SentOn(target))
    BY <1>8 DEF ProxyInitial, target
  <2>2. Hop(target) = target /\ Hop(target) \in Proxies \cup {Callee}
    BY <1>2, <1>5, <2>1, HopAhead
  <2> QED
    BY <1>5, <1>6, <1>8, <2>1, <2>2 DEF Turn, target
<1>9. CASE ~IsMulti(m.hdrs, Route) /\ setup.build[at] = "nextHop"
  <2>1. PassTo(target, SentOn(NoUri))
    BY <1>9 DEF ProxyInitial, target
  <2>2. Hop(target) \in Proxies \cup {Callee} \/ Hop(target) = Nowhere
    BY <1>2, <1>5, HopAhead, HopNone
  <2>3. \E p \in Proxies : setup.build[p] = "nextHop" /\ setup.build[p] # "registrar"
    BY <1>2, <1>9
  <2>4. Turn(target, NoUri)
    BY <1>9, <2>2, <2>3 DEF Turn
  <2> QED
    BY <2>1, <2>4
<1>10. CASE ~IsMulti(m.hdrs, Route) /\ setup.build[at] \notin {"registrar", "nextHop"}
  <2>1. PassTo(m.uri, SentOn(m.uri))
    BY <1>10 DEF ProxyInitial
  <2>2. Hop(m.uri) \in Proxies \cup {Callee} \/ Hop(m.uri) = Nowhere
    BY <1>2, <1>4, HopAhead, HopOther
  <2>3. \E p \in Proxies : setup.build[p] # "registrar"
    BY <1>2, <1>10
  <2>4. Turn(m.uri, m.uri)
    BY <1>4, <1>10, <2>2, <2>3 DEF Turn
  <2> QED
    BY <2>1, <2>4
<1> QED
  BY <1>7, <1>8, <1>9, <1>10

\* One more proxy that records itself.
LEMMA OnceMore ==
    ASSUME NEW r \in Seq(Proxies), Once(r), NEW n \in Proxies, \A i \in DOMAIN r : r[i] # n
    PROVE  Append(r, n) \in Seq(Proxies) /\ Once(Append(r, n))
<1> DEFINE s == Append(r, n)
           k == Len(r)
<1>1. k \in Nat /\ s \in Seq(Proxies) /\ Len(s) = k + 1 /\ s[k + 1] = n /\ \A i \in 1..k : s[i] = r[i]
  BY AppendProperties, LenProperties
<1>2. DOMAIN r = 1..k /\ DOMAIN s = 1..Len(s)
  BY <1>1
<1> HIDE DEF s, k
<1>3. \A i \in 1..k + 1 : i \in 1..k \/ i = k + 1
  BY <1>1
<1>4. \A i \in 1..k : r[i] # n
  BY <1>2
<1>5. \A i, j \in 1..k : r[i] = r[j] => i = j
  BY <1>2 DEF Once
<1>6. ASSUME NEW i \in 1..k + 1, NEW j \in 1..k + 1, s[i] = s[j]
      PROVE  i = j
  <2>1. CASE i \in 1..k /\ j \in 1..k
    BY <1>1, <1>5, <1>6, <2>1
  <2>2. CASE i = k + 1 /\ j \in 1..k
    BY <1>1, <1>4, <1>6, <2>2
  <2>3. CASE i \in 1..k /\ j = k + 1
    BY <1>1, <1>4, <1>6, <2>3
  <2> QED
    BY <1>3, <2>1, <2>2, <2>3
<1>7. Once(s)
  BY <1>1, <1>2, <1>6 DEF Once
<1> QED
  BY <1>1, <1>7 DEF s

\* What it sends on is what the next node may find.
LEMMA ProxyPasses ==
    ASSUME IInv, ProxyInitial, NEW to, NEW u, Turn(to, u), Hop(to) # Nowhere
    PROVE  Initial(SentOn(u).hdrs, Append(trail, at), Hop(to), AddrOf(at), u, Append(recorded, at))
<1>1. Arrived /\ kind = "initial" /\ at \notin called
  BY DEF ProxyInitial
<1>3. /\ TypeInv /\ setup \in Setups /\ m \in Msgs /\ src \in Addresses
      /\ at \in Proxies /\ at \in Passers
      /\ setup.through = "proxies"
      /\ recorded \in Seq(Proxies)
      /\ Initial(m.hdrs, trail, at, src, m.uri, recorded)
      /\ AmongProxies(m.hdrs, trail, at, m.uri, recorded)
  BY <1>1, ProxiesOnly
<1>2. setup.length \in BOOLEAN /\ setup.folded \in BOOLEAN /\ setup.routes \in Seq(Hops)
  BY <1>3, SetupIs, ProxiesAreHops
<1> DEFINE h == m.hdrs
           t == Append(trail, at)
           r == Append(recorded, at)
           f == SentOn(u).hdrs
<1>4. /\ h \in Seq(HeaderLines) /\ IsRequest(h) /\ Readable(h) /\ IsTrail(trail)
      /\ LinesOf(h, RecordRoute) = RecordsOf(recorded)
  BY <1>1, <1>3, MsgIs DEF Initial, Arrived
<1>5. u \in Nodes \cup {NoUri} /\ u \in Proxies \cup {Callee, NoUri}
  BY DEF Turn, Nodes
<1>6. IsRequest(f) /\ f \in Seq(HeaderLines) /\ ProxySent(f, h, at, src)
  BY <1>3, <1>4, <1>5, SentOnIs
<1>7. HasPlace(h) <=> setup.length = TRUE
  BY <1>3, <1>4, PlaceIs
<1>8. ~IsMulti(h, Route) /\ Hop(to) \in Proxies \cup {Callee}
  BY DEF Turn
<1>9. Whole(h) /\ Rest(LinesOf(h, Route)) = <<>>
  BY <1>3, <1>4, <1>8, InitialRoutes
<1>10. IsTrail(t) /\ Len(t) # 1
  <2>1. IsTrail(t) /\ Len(t) = Len(trail) + 1 /\ Len(trail) \in Nat \ {0}
    BY <1>3, <1>4, TrailOn, TrailIs
  <2> QED
    BY <2>1
<1>11. ViaPath(f, t)
  <2>1. PICK e : Passed(f, h, at, src, e)
    BY <1>6 DEF ProxySent
  <2>2. CameAlong(h, trail, src)
    BY <1>3, InitialCame
  <2> QED
    BY <1>3, <1>4, <2>1, <2>2, PassedPath
<1>12. r \in Seq(Proxies) /\ r # <<>> /\ Len(r) = Len(recorded) + 1 /\ Len(recorded) \in Nat
  <2>1. r \in Seq(Proxies) /\ Len(r) = Len(recorded) + 1 /\ Len(recorded) \in Nat
    BY <1>3, AppendProperties, LenProperties
  <2> HIDE DEF r
  <2> QED
    BY <2>1, EmptySeq
<1>13. RecordsOf(r) = IF setup.length THEN <<Line(RecordRoute, <<at>>)>> ELSE <<>>
  BY <1>3, LastRecorded
<1>14. u = NoUri => \E p \in Proxies : setup.build[p] = "nextHop"
  BY DEF Turn
<1>15. IsServed /\ setup.length => /\ Len(trail) = 1 /\ at = First /\ recorded = <<>>
                                  /\ Hop(to) \in {First, Callee}
  <2> SUFFICES ASSUME IsServed, setup.length
               PROVE  Len(trail) = 1 /\ at = First /\ recorded = <<>> /\ Hop(to) \in {First, Callee}
    OBVIOUS
  <2>1. Len(trail) = 1
    <3> SUFFICES ASSUME Len(trail) # 1
                 PROVE  FALSE
      OBVIOUS
    <3>1. recorded = <<First>> /\ at \in {First, Callee}
      BY <1>3 DEF AmongProxies
    <3>2. at = First
      BY <1>3, <3>1, NodesApart
    <3>3. 1 \in DOMAIN <<First>> /\ <<First>>[1] = First
      OBVIOUS
    <3>4. at \in called
      BY <3>1, <3>2, <3>3 DEF called
    <3> QED
      BY <1>1, <3>4
  <2>2. at = First /\ recorded = <<>>
    BY <1>3, <2>1 DEF AmongProxies
  <2>3. setup.build[First] = "registrar" /\ setup.target[First] \notin Proxies \ {First}
    BY NodesApart DEF IsServed, KeepsHeaders
  <2>4. Hop(to) = setup.target[First]
    BY <2>2, <2>3 DEF Turn
  <2> QED
    BY <1>8, <2>1, <2>2, <2>3, <2>4
<1> HIDE DEF f, t, r, h
<1>16. CASE setup.length = FALSE
  <2>1. \A name : name # Via => LinesOf(f, name) = Kept(h, name)
    BY <1>6, <1>7, <1>9, <1>16 DEF ProxySent
  <2>2. /\ LinesOf(f, Route) = <<>> /\ LinesOf(f, RecordRoute) = LinesOf(h, RecordRoute)
        /\ LinesOf(f, CallId) = LinesOf(h, CallId) /\ LinesOf(f, Fragment) = LinesOf(h, Fragment)
        /\ LinesOf(f, Length) = LinesOf(h, Length)
    BY <1>9, <2>1, NamesApart DEF Kept
  <2>3. RecordsOf(recorded) = <<>>
    BY <1>3, <1>16, RouteSetIs
  <2>4. LinesOf(f, RecordRoute) = RecordsOf(r)
    BY <1>4, <1>13, <1>16, <2>2, <2>3
  <2>5. Readable(f)
    BY <1>4, <1>6, <2>2, HasLines DEF Readable
  <2>6. ~Has(f, Length)
    BY <1>4, <1>6, <1>7, <1>16, <2>2, HasLines DEF HasPlace
  <2>7. Remains(f, r)
    BY <2>5 DEF Remains, Readable
  <2>8. AmongProxies(f, t, Hop(to), u, r)
    BY <1>5, <1>8, <1>10, <1>12, <1>14, <1>16, <2>2, <2>6, <2>7 DEF AmongProxies
  <2>9. Initial(f, t, Hop(to), AddrOf(at), u, r)
    BY <1>3, <1>6, <1>10, <1>11, <2>4, <2>8 DEF Initial
  <2> QED
    BY <2>9 DEF f, t, r
<1>17. CASE setup.length = TRUE
  <2>1. /\ LinesOf(f, Route) = <<>> /\ LinesOf(f, RecordRoute) = <<Line(RecordRoute, <<at>>)>>
        /\ ~Has(h, Fragment) => ~Has(f, Fragment)
        /\ Has(h, Route) /\ CallIdFirst(h) => Has(f, CallId)
    BY <1>6, <1>7, <1>17 DEF ProxySent
  <2>2. LinesOf(f, RecordRoute) = RecordsOf(r)
    BY <1>13, <1>17, <2>1
  <2>3. ~Has(f, Fragment)
    BY <1>4, <2>1 DEF Readable
  <2>4. IsServed => Has(f, CallId)
    <3> SUFFICES ASSUME IsServed
                 PROVE  Has(f, CallId)
      OBVIOUS
    <3> DEFINE routes == setup.routes
    <3>1. h = Request(CallerVia, routes)
      BY <1>3, <1>15, <1>17 DEF AmongProxies, h
    <3>2. routes # <<>> /\ setup.routesLast = TRUE
      BY <1>3, <1>17, SetupIs DEF IsServed, KeepsHeaders
    <3>3. CallerVia \in ViaValues
      BY <1>3, CallerViaIs
    <3>7. routes \in Seq(Hops)
      BY <1>2
    <3> HIDE DEF routes
    <3>4. CallIdFirst(h)
      BY <1>2, <1>17, <3>1, <3>2, <3>3, <3>7, RequestLast DEF CallIdFirst
    <3>5. Has(h, Route)
      <4>1. IsFirstRequest(h, CallerVia, routes)
        BY <1>3, <3>1, <3>7, FirstRequestIs
      <4>2. ReadsRoutes(h, routes)
        BY <1>2, <1>4, <3>7, <4>1, RoutesRead DEF IsFirstRequest
      <4> QED
        BY <3>2, <4>2 DEF ReadsRoutes
    <3> QED
      BY <2>1, <3>4, <3>5
  <2>5. Remains(f, r)
    BY <1>17, <2>3, <2>4 DEF Remains
  <2>6. IsServed => r = <<First>> /\ Hop(to) \in {First, Callee}
    <3> SUFFICES ASSUME IsServed
                 PROVE  r = <<First>> /\ Hop(to) \in {First, Callee}
      OBVIOUS
    <3>1. Append(<<>>, First) = <<First>>
      OBVIOUS
    <3> QED
      BY <1>15, <1>17, <3>1 DEF r
  <2>7. AmongProxies(f, t, Hop(to), u, r)
    BY <1>5, <1>8, <1>10, <1>12, <1>14, <1>17, <2>1, <2>5, <2>6 DEF AmongProxies
  <2>8. Initial(f, t, Hop(to), AddrOf(at), u, r)
    BY <1>3, <1>6, <1>10, <1>11, <2>2, <2>7 DEF Initial
  <2> QED
    BY <2>8 DEF f, t, r
<1> QED
  BY <1>2, <1>16, <1>17

LEMMA ProxyInitialStep ==
    ASSUME IInv, ProxyInitial
    PROVE  IInv'
<1>1. Arrived /\ kind = "initial" /\ at \notin called
  BY DEF ProxyInitial
<1>2. /\ recorded' = Append(recorded, at)
      /\ setup' = setup /\ kind' = kind /\ routeSet' = routeSet /\ answered' = answered
  BY DEF ProxyInitial
<1>3. /\ TypeInv /\ setup \in Setups /\ at \in Proxies /\ at \in Nodes /\ ~answered
      /\ recorded \in Seq(Proxies) /\ Once(recorded) /\ IsRequest(m.hdrs)
  BY <1>1, ProxiesOnly DEF Initial
<1> DEFINE t == Append(trail, at)
           r == Append(recorded, at)
<1>5. PICK to, u : Turn(to, u) /\ PassTo(to, SentOn(u))
  BY ProxyTurns
<1> DEFINE f == SentOn(u).hdrs
<1>6. u \in Nodes \cup {NoUri}
  BY <1>5 DEF Turn, Nodes
<1>7. Hop(to) \in Nodes \cup {Nowhere}
  BY <1>5 DEF Turn, Nodes
<1>8. SentOn(u) \in Msgs /\ SentOn(u).uri = u
  BY <1>3, <1>6, SentOnIs
<1>9. /\ at' = Hop(to) /\ at' \in Nodes \cup {Nowhere}
      /\ phase' = IF Hop(to) = Nowhere THEN "lost" ELSE "request"
      /\ phase' \in {"request", "lost"} /\ src' \in Addresses /\ src' = AddrOf(at)
      /\ m' = SentOn(u) /\ trail' = t /\ trail' \in Seq(Nodes)
  BY <1>3, <1>5, <1>7, PassedTo, NodesApart
<1>10. r \in Seq(Proxies) /\ Once(r)
  BY <1>1, <1>3, OnceMore DEF called
<1>12. Hop(to) # Nowhere => Initial(f, t, Hop(to), AddrOf(at), u, r)
  BY <1>5, ProxyPasses
<1>13. ASSUME Hop(to) = Nowhere
       PROVE  Excused(kind, r, Nowhere)
  <2>1. Len(setup.routes) > 1 \/ \E p \in Proxies : setup.build[p] # "registrar"
    BY <1>5, <1>13, NodesApart DEF Turn
  <2>2. setup.routes \in Seq(Proxies)
    BY <1>3, SetupIs
  <2>3. Len(setup.routes) > 1 => ~(Len(setup.routes) < 2)
    BY <2>2, LenProperties
  <2> QED
    BY <2>1, <2>3 DEF Excused, IsServed
<1> HIDE DEF t, r
<1>14. phase' = "request" => Hop(to) # Nowhere
  BY <1>9
<1>15. phase' = "lost" => Hop(to) = Nowhere
  BY <1>9
<1>16. recorded' = r
  BY <1>2 DEF r
<1>17. phase' = "request" => Initial(m'.hdrs, trail', at', src', m'.uri, recorded')
  BY <1>8, <1>9, <1>12, <1>14, <1>16 DEF f
<1>18. phase' = "lost" => Excused(kind, recorded', at')
  BY <1>9, <1>13, <1>15, <1>16
<1> QED
  BY <1>1, <1>2, <1>3, <1>8, <1>9, <1>10, <1>16, <1>17, <1>18, PassedStep

\* The answers of the ends and of the proxies go where the trail leads.
LEMMA AnsweringStep ==
    ASSUME IInv, setup' = setup, kind' = kind, kind = "initial", phase' = "answer",
           answered' \in BOOLEAN, routeSet' \in Seq(Proxies), recorded' = recorded,
           answered' = answered \/ at' # Nowhere,
           src' \in Addresses, m' \in Msgs, trail' \in Seq(Nodes),
           Returning(m'.hdrs, trail'),
           \/ at' = Last(trail')
           \/ at' = Nowhere /\ Last(trail') = Caller /\ ~Reachable,
           answered' => /\ routeSet' = RouteSetOf(recorded)
                        /\ LinesOf(m'.hdrs, RecordRoute) = RecordsOf(recorded)
    PROVE  IInv'
<1>1. TypeInv /\ recorded \in Seq(Proxies) /\ Once(recorded)
  BY TypeIs DEF IInv
<1>2. at' \in Nodes \cup {Nowhere}
  <2>1. Last(trail') \in Nodes
    BY TrailIs DEF Returning, Passers, Nodes
  <2> QED
    BY <2>1
<1>3. TypeInv' /\ IdleInv'
  BY <1>1, <1>2, TypeNext
<1>4. RequestInv' /\ AsksInv'
  BY DEF RequestInv, AsksInv
<1>5. AnswerInv'
  BY AnswerNext
<1>6. AnsweredInv'
  BY AnsweredNext
<1>7. DialogInv'
  BY DialogNext
<1>8. GetsThrough'
  BY LostNext
<1> QED
  BY <1>3, <1>4, <1>5, <1>6, <1>7, <1>8 DEF IInv

\* Only the Vias matter to the way back.
LEMMA SamePath ==
    ASSUME NEW h, NEW f, NEW t, LinesOf(f, Via) = LinesOf(h, Via), ViaPath(h, t)
    PROVE  ViaPath(f, t)
  BY DEF ViaPath

LEMMA NotFoundStep ==
    ASSUME IInv, NotFound
    PROVE  IInv'
<1> DEFINE h == m.hdrs
           f == OwnAnswer(h, src)
<1>1. /\ Arrived /\ kind = "initial" /\ phase' = "answer"
      /\ at' = NodeAt(PeerOfTop(h)) /\ src' = AddrOf(at)
      /\ m' = [m EXCEPT !.hdrs = f]
      /\ trail' = trail /\ setup' = setup /\ kind' = kind /\ recorded' = recorded
      /\ routeSet' = routeSet /\ answered' = answered
  BY DEF NotFound, Unread
<1>2. /\ TypeInv /\ setup \in Setups /\ m \in Msgs /\ src \in Addresses /\ at \in Nodes
      /\ ~answered /\ Initial(h, trail, at, src, m.uri, recorded)
  BY <1>1, ProxiesOnly
<1>3. /\ h \in Seq(HeaderLines) /\ IsTrail(trail) /\ IsRequest(h)
      /\ Len(trail) # 1 => ViaPath(h, trail)
  BY <1>2, MsgIs DEF Initial
<1>4. answered \in BOOLEAN /\ routeSet \in Seq(Proxies) /\ trail \in Seq(Nodes) /\ answered = FALSE
  BY <1>2, TypeIs
<1>5. CameAlong(h, trail, src)
  BY <1>2, InitialCame
<1>6. LinesOf(h, Via) # <<>>
  BY <1>3, HasLines DEF IsRequest, Has
<1>7. Answered(f, h, ViasEncoded(h, src))
  BY <1>1, <1>2, <1>3, <1>6, ProxysAnswer DEF Arrived
<1> HIDE DEF f
<1>8. f \in Seq(HeaderLines) /\ LinesOf(f, Via) = ViasEncoded(h, src) /\ Readable(f)
  BY <1>7 DEF Answered
<1>9. m' \in Msgs /\ m'.hdrs = f
  BY <1>1, <1>2, <1>8 DEF Msgs
<1>10. Len(trail) # 1 => ViaPath(f, trail)
  <2> SUFFICES ASSUME Len(trail) # 1
               PROVE  ViaPath(f, trail)
    OBVIOUS
  <2>1. LinesOf(h, Via)[1] = NodeVia(Last(trail))
    BY <1>3, PathTop
  <2>2. Last(trail) \in Nodes
    BY <1>3, TrailIs DEF Passers, Nodes
  <2>3. ViasEncoded(h, src) = LinesOf(h, Via)
    BY <1>2, <1>3, <1>6, <2>1, <2>2, EncodedSame
  <2> QED
    BY <1>3, <1>8, <2>3, SamePath
<1>11. Returning(m'.hdrs, trail')
  BY <1>1, <1>3, <1>8, <1>9, <1>10 DEF Returning
<1>12. BackTo(PeerOfTop(h), Last(trail))
  BY <1>2, <1>3, <1>4, <1>5, PeerTop DEF CameAlong
<1>13. at' = Last(trail') \/ (at' = Nowhere /\ Last(trail') = Caller /\ ~Reachable)
  BY <1>1, <1>12 DEF BackTo
<1>14. src' \in Addresses
  BY <1>1, <1>2, NodeViaIs
<1> QED
  BY <1>1, <1>2, <1>4, <1>9, <1>11, <1>13, <1>14, AnsweringStep

LEMMA CalleeAnswersStep ==
    ASSUME IInv, CalleeAnswers
    PROVE  IInv'
<1> DEFINE h == m.hdrs
           f == Answer(h)
<1>1. /\ phase = "request" /\ at = Callee /\ kind = "initial" /\ phase' = "answer"
      /\ at' = NodeAt(PeerOfTop(h)) /\ src' = AddrOf(Callee)
      /\ m' = [m EXCEPT !.hdrs = f]
      /\ routeSet' = Values(h, RecordRoute) /\ answered' = TRUE
      /\ trail' = trail /\ setup' = setup /\ kind' = kind /\ recorded' = recorded
      /\ Readable(h)
  BY DEF CalleeAnswers
<1>2. /\ TypeInv /\ setup \in Setups /\ m \in Msgs /\ setup.through \in {"proxies", "scscf"}
      /\ trail \in Seq(Nodes) /\ recorded \in Seq(Proxies)
  BY TypeIs, SetupIs DEF IInv
<1>3. Initial(h, trail, at, src, m.uri, recorded)
  BY <1>1 DEF IInv, RequestInv
<1>4. /\ h \in Seq(HeaderLines) /\ IsTrail(trail) /\ Readable(h)
      /\ LinesOf(h, RecordRoute) = RecordsOf(recorded)
  BY <1>1, <1>2, <1>3, MsgIs DEF Initial
<1>5. Len(trail) # 1
  BY <1>1, <1>2, <1>3, NodesApart DEF Initial, AmongProxies, AmongServers
<1>6. ViaPath(h, trail)
  BY <1>3, <1>5 DEF Initial
<1>7. Answered(f, h, LinesOf(h, Via)) /\ LinesOf(f, RecordRoute) = LinesOf(h, RecordRoute)
  BY <1>4, CalleesAnswer
<1> HIDE DEF f
<1>8. f \in Seq(HeaderLines) /\ LinesOf(f, Via) = LinesOf(h, Via) /\ Readable(f)
  BY <1>7 DEF Answered
<1>9. m' \in Msgs /\ m'.hdrs = f
  BY <1>1, <1>2, <1>8 DEF Msgs
<1>10. ViaPath(f, trail)
  BY <1>6, <1>8, SamePath
<1>11. Returning(m'.hdrs, trail')
  BY <1>1, <1>4, <1>8, <1>9, <1>10 DEF Returning
<1>12. BackTo(PeerOfTop(h), Last(trail))
  BY <1>2, <1>4, <1>5, <1>6, PeerTop
<1>13. Last(trail) # Caller /\ Last(trail) # Nowhere
  BY <1>4, <1>5, TrailIs, NodesApart DEF Passers
<1>14. at' = Last(trail') /\ at' # Nowhere
  BY <1>1, <1>12, <1>13 DEF BackTo
<1>15. routeSet' = RouteSetOf(recorded) /\ routeSet' \in Seq(Proxies)
  <2> DEFINE v == RouteSetOf(recorded)
  <2>1. v \in Seq(Proxies)
    BY <1>2, SetupIs, RouteSetIs
  <2>2. LinesOf(h, RecordRoute) = Singles(RecordRoute, v)
    BY <1>4 DEF RecordsOf
  <2> HIDE DEF v
  <2>3. Values(h, RecordRoute) = v
    BY <2>1, <2>2, ValuesOfSingles
  <2> QED
    BY <1>1, <2>1, <2>3 DEF v
<1>16. src' \in Addresses
  BY <1>1, NodeViaIs DEF Nodes
<1>17. LinesOf(m'.hdrs, RecordRoute) = RecordsOf(recorded)
  BY <1>4, <1>7, <1>9
<1> QED
  BY <1>1, <1>2, <1>9, <1>11, <1>14, <1>15, <1>16, <1>17, AnsweringStep

LEMMA ForwardsAnswerStep ==
    ASSUME IInv, ForwardsAnswer
    PROVE  IInv'
<1> DEFINE h == m.hdrs
           f == AnswerForwarded(h)
<1>1. /\ phase = "answer" /\ at \in Passers /\ phase' = "answer"
      /\ at' = NodeAt(PeerOfSecond(h)) /\ src' = AddrOf(at)
      /\ m' = [m EXCEPT !.hdrs = f]
      /\ trail' = Front(trail) /\ setup' = setup /\ kind' = kind /\ recorded' = recorded
      /\ routeSet' = routeSet /\ answered' = answered
  BY DEF ForwardsAnswer, Unread, Passers
<1>2. /\ TypeInv /\ setup \in Setups /\ m \in Msgs /\ answered \in BOOLEAN
      /\ routeSet \in Seq(Proxies)
  BY TypeIs DEF IInv
<1>3. kind = "initial" /\ Returning(h, trail) /\ (at = Last(trail) \/ at = Nowhere)
  BY <1>1 DEF IInv, AnswerInv
<1>4. IsTrail(trail) /\ Readable(h) /\ at = Last(trail)
  BY <1>1, <1>3, NodesApart DEF Returning, Passers
<1>5. Len(trail) # 1
  BY <1>1, <1>4, TrailIs, NodesApart DEF Passers
<1>6. ViaPath(h, trail) /\ h \in Seq(HeaderLines)
  BY <1>2, <1>3, <1>5, MsgIs DEF Returning
<1>7. LinesOf(h, Via) # <<>>
  <2>1. Len(LinesOf(h, Via)) > 1
    BY <1>4, <1>5, <1>6, PathSecond
  <2> QED
    BY <2>1
<1>8. AnswerOn(f, h)
  BY <1>6, <1>7, AnswerGoesOn
<1> HIDE DEF f
<1>9. /\ f \in Seq(HeaderLines) /\ LinesOf(f, Via) = Tail(LinesOf(h, Via))
      /\ LinesOf(f, RecordRoute) = LinesOf(h, RecordRoute)
      /\ LinesOf(f, Fragment) = LinesOf(h, Fragment) /\ LinesOf(f, CallId) = LinesOf(h, CallId)
  BY <1>8, NamesApart DEF AnswerOn
<1>10. Readable(f)
  BY <1>4, <1>6, <1>9, HasLines DEF Readable
<1>11. m' \in Msgs /\ m'.hdrs = f
  BY <1>1, <1>2, <1>9 DEF Msgs
<1>12. ViaPath(f, Front(trail)) /\ IsTrail(Front(trail))
  BY <1>4, <1>5, <1>6, <1>9, PathBack, TrailBack
<1>13. Returning(m'.hdrs, trail') /\ trail' \in Seq(Nodes)
  BY <1>1, <1>10, <1>11, <1>12 DEF Returning, IsTrail
<1>14. BackTo(PeerOfSecond(h), Last(Front(trail)))
  BY <1>2, <1>4, <1>5, <1>6, PeerSecond
<1>15. at' = Last(trail') \/ (at' = Nowhere /\ Last(trail') = Caller /\ ~Reachable)
  BY <1>1, <1>14 DEF BackTo
<1>16. src' \in Addresses
  BY <1>1, NodeViaIs DEF Passers, Nodes
<1>17. answered' => /\ routeSet' = RouteSetOf(recorded)
                    /\ LinesOf(m'.hdrs, RecordRoute) = RecordsOf(recorded)
  BY <1>1, <1>9, <1>11 DEF IInv, AnsweredInv
<1> QED
  BY <1>1, <1>2, <1>3, <1>11, <1>13, <1>15, <1>16, <1>17, AnsweringStep

LEMMA CallerHearsStep ==
    ASSUME IInv, CallerHears
    PROVE  IInv'
<1>1. /\ phase = "answer" /\ phase' = "heard"
      /\ at' = at /\ src' = src /\ m' = m /\ trail' = trail
      /\ setup' = setup /\ kind' = kind /\ recorded' = recorded
      /\ routeSet' = routeSet /\ answered' = answered
  BY DEF CallerHears, Unread
<1>2. TypeInv /\ AnsweredInv /\ DialogInv
  BY DEF IInv
<1>3. TypeInv' /\ IdleInv'
  BY <1>1, <1>2, TypeIs, TypeNext
<1>4. RequestInv' /\ AnswerInv' /\ AsksInv'
  BY <1>1 DEF RequestInv, AnswerInv, AsksInv
<1>5. AnsweredInv'
  BY <1>1, <1>2, AnsweredNext DEF AnsweredInv
<1>6. DialogInv'
  BY <1>1, <1>2, DialogNext DEF DialogInv
<1>7. GetsThrough'
  BY <1>1, LostNext
<1> QED
  BY <1>3, <1>4, <1>5, <1>6, <1>7 DEF IInv

------------------------------------------------------------------------------
(* The steps of a dialog.                                                      *)

\* An end is found where it is, unless the caller seems to be somewhere else.
LEMMA HopEnd ==
    ASSUME setup \in Setups, NEW k
    PROVE  \/ Hop(To(k)) = To(k)
           \/ Hop(To(k)) = Nowhere /\ setup.source # AddrOf(Caller)
<1>1. Hop(Callee) = Callee
  BY HopNode, NodesApart DEF Nodes
<1> QED
  BY <1>1, HopCaller DEF To

LEMMA AsksStep ==
    ASSUME IInv, NEW k \in {"fromCaller", "fromCallee"}, NEW via \in ViaValues,
           NEW routes, routes = RouteSetOf(recorded), Asks(k, From(k), To(k), via, routes)
    PROVE  IInv'
<1> DEFINE h == Request(via, routes)
<1>1. /\ answered /\ setup.through = "proxies"
      /\ kind' = k /\ at' = From(k) /\ trail' = <<>> /\ src' = AddrOf(From(k))
      /\ m' = [uri |-> To(k), limit |-> setup.limit, hdrs |-> h]
      /\ phase' = "asks" /\ setup' = setup /\ recorded' = recorded
      /\ routeSet' = routeSet /\ answered' = answered
  BY DEF Asks
<1>2. /\ TypeInv /\ AnsweredInv /\ setup \in Setups /\ setup.limit \in Int
      /\ recorded \in Seq(Proxies) /\ Once(recorded) /\ routeSet \in Seq(Proxies)
  BY TypeIs, SetupIs DEF IInv
<1>3. routes \in Seq(Proxies)
  BY <1>2, SetupIs, RouteSetIs
<1>4. Starts(h, routes)
  BY DEF Starts
<1> HIDE DEF h
<1>6. h \in Seq(HeaderLines)
  BY <1>2, <1>3, <1>4, StartIs
<1>7. From(k) \in Nodes /\ To(k) \in Nodes
  BY DEF From, To, Nodes
<1>8. m' \in Msgs /\ m'.uri = To(k) /\ m'.hdrs = h
  BY <1>1, <1>2, <1>6, <1>7, MsgFrom
<1>9. src' \in Addresses
  BY <1>1, <1>7, NodeViaIs
<1>10. trail' \in Seq(Nodes)
  BY <1>1, EmptySeq
<1>11. TypeInv' /\ IdleInv'
  BY <1>1, <1>2, <1>7, <1>8, <1>9, <1>10, TypeIs, TypeNext
<1>12. RequestInv' /\ AnswerInv'
  BY <1>1 DEF RequestInv, AnswerInv
<1>13. AnsweredInv'
  BY <1>1, <1>2, AnsweredNext DEF AnsweredInv
<1>14. AsksInv'
  <2>1. k # "initial"
    OBVIOUS
  <2>2. Starts(m'.hdrs, RouteSetOf(recorded'))
    BY <1>1, <1>4, <1>8
  <2> QED
    BY <1>1, <1>8, <2>1, <2>2, AsksNext
<1>15. DialogInv'
  BY <1>1, DialogNext
<1>16. GetsThrough'
  BY <1>1, LostNext
<1> QED
  BY <1>11, <1>12, <1>13, <1>14, <1>15, <1>16 DEF IInv

LEMMA CallerAsksStep ==
    ASSUME IInv, CallerAsks
    PROVE  IInv'
<1> DEFINE v == RouteSetOf(recorded)
           k == "fromCaller"
<1>1. /\ Asks(k, Caller, Callee, CallerVia, Reverse(Values(m.hdrs, RecordRoute)))
      /\ phase = "heard" /\ answered
  BY DEF CallerAsks, Asks
<1>2. recorded \in Seq(Proxies) /\ setup \in Setups
  BY TypeIs DEF IInv
<1>3. v \in Seq(Proxies) /\ Reverse(v) = v
  BY <1>2, SetupIs, RouteSetIs
<1>4. LinesOf(m.hdrs, RecordRoute) = Singles(RecordRoute, v)
  BY <1>1 DEF IInv, AnsweredInv, RecordsOf
<1> HIDE DEF v
<1>5. Values(m.hdrs, RecordRoute) = v
  BY <1>3, <1>4, ValuesOfSingles
<1>6. From(k) = Caller /\ To(k) = Callee
  BY DEF From, To
<1>7. CallerVia \in ViaValues
  BY <1>2, CallerViaIs
<1>8. k \in {"fromCaller", "fromCallee"}
  OBVIOUS
<1> HIDE DEF k
<1>9. Asks(k, From(k), To(k), CallerVia, v)
  BY <1>1, <1>3, <1>5, <1>6
<1> QED
  BY <1>7, <1>8, <1>9, AsksStep DEF v

LEMMA CalleeAsksStep ==
    ASSUME IInv, CalleeAsks
    PROVE  IInv'
<1> DEFINE k == "fromCallee"
           via == ViaOf(AddrOf(Callee))
<1>1. Asks(k, Callee, Caller, via, routeSet) /\ answered
  BY DEF CalleeAsks, Asks
<1>2. routeSet = RouteSetOf(recorded) /\ From(k) = Callee /\ To(k) = Caller
  BY <1>1 DEF IInv, AnsweredInv, From, To
<1>3. via \in ViaValues
  BY DEF ViaValues, ViaOf, AddrOf, Addresses, IPs, Nodes
<1>4. k \in {"fromCaller", "fromCallee"}
  OBVIOUS
<1> HIDE DEF k, via
<1>5. Asks(k, From(k), To(k), via, routeSet)
  BY <1>1, <1>2
<1> QED
  BY <1>2, <1>3, <1>4, <1>5, AsksStep

LEMMA LeavesStep ==
    ASSUME IInv, Leaves
    PROVE  IInv'
<1> DEFINE h == m.hdrs
           plan == RouteSetOf(recorded)
           to == IF Has(h, Route) THEN Values(h, Route)[1] ELSE m.uri
           t == <<From(kind)>>
<1>1. phase = "asks" /\ PassTo(to, m) /\ Unread
  BY DEF Leaves
<1>2. /\ TypeInv /\ setup \in Setups /\ setup.folded \in BOOLEAN
      /\ m \in Msgs /\ recorded \in Seq(Proxies) /\ Once(recorded)
  BY TypeIs, SetupIs DEF IInv
<1>3. /\ kind # "initial" /\ trail = <<>> /\ at = From(kind) /\ m.uri = To(kind)
      /\ Starts(h, plan)
  BY <1>1 DEF IInv, AsksInv
<1>4. /\ plan \in Seq(Proxies)
      /\ plan # <<>> => plan[1] \in Proxies
  BY <1>2, SetupIs, RouteSetIs
<1> HIDE DEF plan
<1>5. h \in Seq(HeaderLines) /\ LinesOf(h, Route) = RouteLines(plan) /\ plan \in Seq(Hops)
  BY <1>2, <1>3, <1>4, StartIs
<1>6. ReadsRoutes(h, plan)
  BY <1>2, <1>5, RoutesRead
<1>7. to = IF plan # <<>> THEN plan[1] ELSE To(kind)
  BY <1>3, <1>6 DEF ReadsRoutes
<1>8. \/ Hop(to) = to /\ to \in Nodes
      \/ Hop(to) = Nowhere /\ setup.source # AddrOf(Caller)
  <2>1. CASE plan = <<>>
    <3>1. to = To(kind) /\ To(kind) \in Nodes
      BY <1>7, <2>1 DEF To, Nodes
    <3> QED
      BY <1>2, <3>1, HopEnd
  <2>2. CASE plan # <<>>
    <3>1. to \in Nodes /\ to # Caller
      BY <1>4, <1>7, <2>2, NodesApart DEF Nodes
    <3> QED
      BY <1>2, <3>1, HopNode
  <2> QED
    BY <2>1, <2>2
<1> HIDE DEF to
<1>9. at \in Nodes
  BY <1>3 DEF From, Nodes
<1>10. Hop(to) \in Nodes \cup {Nowhere}
  BY <1>8
<1>11. /\ at' = Hop(to) /\ at' \in Nodes \cup {Nowhere}
       /\ phase' = IF Hop(to) = Nowhere THEN "lost" ELSE "request"
       /\ phase' \in {"request", "lost"} /\ src' \in Addresses
       /\ m' = m /\ trail' = Append(trail, at) /\ trail' \in Seq(Nodes)
  BY <1>1, <1>2, <1>9, <1>10, PassedTo
<1>12. trail' = t
  <2>1. Append(<<>>, From(kind)) = t
    OBVIOUS
  <2> QED
    BY <1>3, <1>11, <2>1
<1> HIDE DEF t, h
<1>13. Hop(to) # Nowhere => InDialog(h, t, Hop(to), kind, plan)
  BY <1>3, <1>7, <1>8 DEF InDialog, t
<1>14. Hop(to) = Nowhere => Excused(kind, recorded, at')
  <2>1. Hop(to) = Nowhere => setup.source # AddrOf(Caller)
    BY <1>8, NodesApart DEF Nodes
  <2> QED
    BY <2>1 DEF Excused
<1>15. /\ setup' = setup /\ kind' = kind /\ recorded' = recorded
       /\ routeSet' = routeSet /\ answered' = answered
  BY <1>1 DEF Unread
<1>16. phase' = "request" => m'.uri = To(kind) /\ InDialog(m'.hdrs, trail', at', kind, plan)
  BY <1>3, <1>11, <1>12, <1>13 DEF h
<1>17. phase' = "lost" => Excused(kind, recorded', at')
  BY <1>11, <1>14, <1>15
<1> QED
  BY <1>2, <1>3, <1>11, <1>15, <1>16, <1>17, PassedStep DEF plan

\* A proxy takes its own Route off; its Record-Route cuts off what stands behind.
LEMMA ProxyInDialogStep ==
    ASSUME IInv, ProxyInDialog
    PROVE  IInv'
<1> DEFINE h == m.hdrs
           plan == RouteSetOf(recorded)
           second == SecondValue(h, Route)
           to == IF second # None THEN second ELSE m.uri
           f == SentOn(m.uri).hdrs
           t == Append(trail, at)
<1>1. /\ phase = "request" /\ at \in Proxies /\ kind # "initial"
      /\ PassTo(to, SentOn(m.uri)) /\ Unread
  BY DEF ProxyInDialog, Arrived
<1>2. /\ TypeInv /\ setup \in Setups /\ setup.folded \in BOOLEAN
      /\ m \in Msgs /\ recorded \in Seq(Proxies) /\ Once(recorded) /\ trail \in Seq(Nodes)
  BY TypeIs, SetupIs DEF IInv
<1>3. m.uri = To(kind) /\ InDialog(h, trail, at, kind, plan)
  BY <1>1 DEF IInv, DialogInv
<1>4. /\ plan \in Seq(Proxies)
      /\ plan # <<>> => setup.length = TRUE /\ Len(plan) = 1
  BY <1>2, SetupIs, RouteSetIs
<1> HIDE DEF plan
<1>5. To(kind) \in {Caller, Callee} /\ To(kind) \notin Proxies
  BY NodesApart DEF To
<1>6. plan # <<>> /\ trail = <<From(kind)>> /\ at = plan[1] /\ Starts(h, plan)
  BY <1>1, <1>3, <1>5 DEF InDialog
<1>7. /\ h \in Seq(HeaderLines) /\ IsRequest(h) /\ Readable(h)
      /\ LinesOf(h, Route) = RouteLines(plan) /\ plan \in Seq(Hops)
      /\ Has(h, Length) <=> setup.length = TRUE
  BY <1>2, <1>4, <1>6, StartIs
<1>8. ReadsRoutes(h, plan)
  BY <1>2, <1>7, RoutesRead
<1>9. to = To(kind)
  <2>1. Len(plan) = 1
    BY <1>4, <1>6
  <2> HIDE DEF h, second
  <2>2. SecondValue(h, Route) = None
    BY <1>8, <2>1 DEF ReadsRoutes
  <2> QED
    BY <1>3, <2>2 DEF second
<1>10. Has(h, Route) /\ HasPlace(h)
  BY <1>4, <1>6, <1>7, <1>8 DEF ReadsRoutes, HasPlace
<1> HIDE DEF to, second
<1>11. \/ Hop(to) = To(kind) /\ To(kind) \in Nodes
       \/ Hop(to) = Nowhere /\ setup.source # AddrOf(Caller)
  BY <1>2, <1>5, <1>9, HopEnd DEF Nodes
<1>12. Hop(to) \in Nodes \cup {Nowhere} /\ at \in Nodes
  BY <1>1, <1>11 DEF Nodes
<1>13. m.uri \in Nodes \cup {NoUri}
  BY <1>2, MsgIs
<1>14. SentOn(m.uri) \in Msgs /\ SentOn(m.uri).uri = m.uri /\ ProxySent(f, h, at, src)
  BY <1>1, <1>2, <1>7, <1>13, SentOnIs
<1>15. f \in Seq(HeaderLines)
  BY <1>14 DEF Msgs
<1> HIDE DEF f
<1>16. /\ at' = Hop(to) /\ at' \in Nodes \cup {Nowhere}
       /\ phase' = IF Hop(to) = Nowhere THEN "lost" ELSE "request"
       /\ phase' \in {"request", "lost"} /\ src' \in Addresses
       /\ m' = SentOn(m.uri) /\ trail' = t /\ trail' \in Seq(Nodes)
  BY <1>1, <1>2, <1>12, PassedTo
<1>17. t = <<From(kind), plan[1]>>
  <2>1. \A a, b : Append(<<a>>, b) = <<a>> \o <<b>>
    OBVIOUS
  <2>2. Append(<<From(kind)>>, plan[1]) = <<From(kind), plan[1]>>
    BY <2>1, TwoLong
  <2> QED
    BY <1>6, <2>2
<1> HIDE DEF t
<1>18. LinesOf(f, Route) = <<>>
  BY <1>10, <1>14 DEF ProxySent
<1>19. setup.routesLast => Readable(f)
  <2> SUFFICES ASSUME setup.routesLast
               PROVE  Readable(f)
    OBVIOUS
  <2>1. setup.routesLast = TRUE /\ setup.length = TRUE
    BY <1>2, <1>4, <1>6, SetupIs
  <2>2. PICK via \in ViaValues : h = Request(via, plan)
    BY <1>6 DEF Starts
  <2> HIDE DEF h
  <2>3. CallIdFirst(h)
    BY <1>2, <1>6, <1>7, <2>1, <2>2, RequestLast DEF CallIdFirst
  <2>4. ~Has(h, Fragment)
    BY <1>7 DEF Readable
  <2> QED
    BY <1>10, <1>14, <2>3, <2>4 DEF ProxySent, Readable
<1> HIDE DEF h
<1>20. Hop(to) # Nowhere => InDialog(f, t, Hop(to), kind, plan)
  BY <1>6, <1>11, <1>17, <1>18, <1>19 DEF InDialog
<1>21. Hop(to) = Nowhere => Excused(kind, recorded, at')
  <2>1. To(kind) # Nowhere
    BY <1>5, NodesApart
  <2> QED
    BY <1>11, <2>1 DEF Excused
<1>22. /\ setup' = setup /\ kind' = kind /\ recorded' = recorded
       /\ routeSet' = routeSet /\ answered' = answered
  BY <1>1 DEF Unread
<1>23. phase' = "request" => m'.uri = To(kind) /\ InDialog(m'.hdrs, trail', at', kind, plan)
  BY <1>3, <1>14, <1>16, <1>20 DEF f
<1>24. phase' = "lost" => Excused(kind, recorded', at')
  BY <1>16, <1>21, <1>22
<1>25. m' \in Msgs
  BY <1>14, <1>16
<1> QED
  BY <1>1, <1>2, <1>16, <1>22, <1>23, <1>24, <1>25, PassedStep DEF plan

LEMMA ArrivesStep ==
    ASSUME IInv, Arrives
    PROVE  IInv'
<1> DEFINE plan == RouteSetOf(recorded)
<1>1. /\ phase = "request" /\ kind # "initial" /\ at \in {Caller, Callee}
      /\ phase' = "over" /\ at' = at /\ src' = src /\ m' = m /\ trail' = trail
      /\ setup' = setup /\ kind' = kind /\ recorded' = recorded
      /\ routeSet' = routeSet /\ answered' = answered
  BY DEF Arrives, Unread
<1>2. TypeInv /\ AnsweredInv /\ DialogInv /\ setup \in Setups /\ recorded \in Seq(Proxies)
  BY TypeIs DEF IInv
<1>3. /\ answered /\ setup.through = "proxies"
      /\ InDialog(m.hdrs, trail, at, kind, plan)
  BY <1>1, <1>2 DEF DialogInv
<1>4. plan # <<>> => plan = <<plan[1]>> /\ plan[1] \in Proxies
  BY <1>2, SetupIs, RouteSetIs
<1> HIDE DEF plan
<1>5. Append(trail, at) = <<From(kind)>> \o plan \o <<To(kind)>>
  <2>1. CASE plan = <<>>
    <3>1. trail = <<From(kind)>> /\ at = To(kind)
      BY <1>3, <2>1 DEF InDialog
    <3>2. Append(<<From(kind)>>, To(kind)) = <<From(kind)>> \o <<>> \o <<To(kind)>>
      OBVIOUS
    <3> QED
      BY <2>1, <3>1, <3>2
  <2>2. CASE plan # <<>>
    <3>1. at # plan[1]
      BY <1>1, <1>4, <2>2, NodesApart
    <3>2. trail = <<From(kind), plan[1]>> /\ at = To(kind)
      BY <1>3, <2>2, <3>1 DEF InDialog
    <3>3. \A a : Append(<<From(kind), a>>, To(kind)) = <<From(kind)>> \o <<a>> \o <<To(kind)>>
      OBVIOUS
    <3> QED
      BY <1>4, <2>2, <3>2, <3>3
  <2> QED
    BY <2>1, <2>2
<1>11. TypeInv' /\ IdleInv'
  BY <1>1, <1>2, TypeIs, TypeNext
<1>12. RequestInv' /\ AnswerInv' /\ AsksInv'
  BY <1>1 DEF RequestInv, AnswerInv, AsksInv
<1>13. AnsweredInv'
  BY <1>1, <1>2, AnsweredNext DEF AnsweredInv
<1>14. DialogInv'
  BY <1>1, <1>3, <1>5, DialogNext DEF plan
<1>15. GetsThrough'
  BY <1>1, LostNext
<1> QED
  BY <1>11, <1>12, <1>13, <1>14, <1>15 DEF IInv

------------------------------------------------------------------------------
(* The invariant, and what follows from it.                                    *)

LEMMA InitIsInv == Init => IInv
<1> SUFFICES ASSUME Init
             PROVE  IInv
  OBVIOUS
<1>1. /\ setup \in Setups /\ phase = "idle" /\ kind = "initial" /\ at = Caller
      /\ src = AddrOf(Caller) /\ m = [uri |-> Callee, limit |-> 0, hdrs |-> <<>>]
      /\ trail = <<>> /\ recorded = <<>> /\ routeSet = <<>> /\ answered = FALSE
  BY DEF Init
<1>2. Caller \in Nodes /\ Callee \in Nodes
  BY DEF Nodes
<1>3. m \in Msgs
  <2> DEFINE none == <<>>
  <2>1. none \in Seq(HeaderLines)
    BY EmptySeq
  <2>2. m = [uri |-> Callee, limit |-> 0, hdrs |-> none]
    BY <1>1
  <2>3. Callee \in Nodes \cup {NoUri} /\ 0 \in Int
    BY <1>2
  <2> HIDE DEF none
  <2>4. [uri |-> Callee, limit |-> 0, hdrs |-> none] \in Msgs
    BY <2>1, <2>3, MsgFrom
  <2> QED
    BY <2>2, <2>4
<1>4. src \in Addresses
  BY <1>1, <1>2, NodeViaIs
<1>5. trail \in Seq(Nodes) /\ recorded \in Seq(Proxies) /\ routeSet \in Seq(Proxies)
  BY <1>1, EmptySeq
<1>6. Once(recorded)
  BY <1>1 DEF Once
<1>7. TypeInv
  BY <1>1, <1>2, <1>3, <1>4, <1>5, <1>6, TypeIs
<1> QED
  BY <1>1, <1>7 DEF IInv, IdleInv, RequestInv, AnswerInv, AnsweredInv, AsksInv, DialogInv, GetsThrough

LEMMA StutterStep ==
    ASSUME IInv, UNCHANGED vars
    PROVE  IInv'
<1>1. /\ setup' = setup /\ phase' = phase /\ kind' = kind /\ at' = at /\ src' = src /\ m' = m
      /\ trail' = trail /\ recorded' = recorded /\ routeSet' = routeSet /\ answered' = answered
  BY DEF vars
<1>2. /\ TypeInv /\ IdleInv /\ RequestInv /\ AnswerInv /\ AnsweredInv
      /\ AsksInv /\ DialogInv /\ GetsThrough
  BY DEF IInv
<1>3. TypeInv'
  BY <1>1, <1>2 DEF TypeInv, TypeOK
<1>4. IdleInv'
  BY <1>1, <1>2 DEF IdleInv
<1>5. RequestInv'
  BY <1>1, <1>2, TypeIs, RequestNext DEF RequestInv
<1>6. AnswerInv'
  BY <1>1, <1>2, AnswerNext DEF AnswerInv
<1>7. AnsweredInv'
  BY <1>1, <1>2, AnsweredNext DEF AnsweredInv
<1>8. AsksInv'
  BY <1>1, <1>2, AsksNext DEF AsksInv
<1>9. DialogInv'
  BY <1>1, <1>2, DialogNext DEF DialogInv
<1>10. GetsThrough'
  BY <1>1, <1>2 DEF GetsThrough, KeepsHeaders, called
<1> QED
  BY <1>3, <1>4, <1>5, <1>6, <1>7, <1>8, <1>9, <1>10 DEF IInv

LEMMA NextKeepsInv == IInv /\ [Next]_vars => IInv'
<1> SUFFICES ASSUME IInv, [Next]_vars
             PROVE  IInv'
  OBVIOUS
<1>1. CASE Send
  BY <1>1, SendStep
<1>2. CASE ProxyInitial
  BY <1>2, ProxyInitialStep
<1>3. CASE NotFound
  BY <1>3, NotFoundStep
<1>4. CASE SeenBefore
  BY <1>4, SeenBeforeStep
<1>5. CASE ProxyInDialog
  BY <1>5, ProxyInDialogStep
<1>6. CASE CannotRead
  BY <1>6, CannotReadStep
<1>7. CASE ToAppServer
  BY <1>7, ToAppServerStep
<1>8. CASE ToUe
  BY <1>8, ToUeStep
<1>9. CASE ServerForwards
  BY <1>9, ServerForwardsStep
<1>10. CASE CalleeAnswers
  BY <1>10, CalleeAnswersStep
<1>11. CASE ForwardsAnswer
  BY <1>11, ForwardsAnswerStep
<1>12. CASE AnswerMissed
  BY <1>12, AnswerMissedStep
<1>13. CASE CallerHears
  BY <1>13, CallerHearsStep
<1>14. CASE CallerAsks
  BY <1>14, CallerAsksStep
<1>15. CASE CalleeAsks
  BY <1>15, CalleeAsksStep
<1>16. CASE Leaves
  BY <1>16, LeavesStep
<1>17. CASE Arrives
  BY <1>17, ArrivesStep
<1>18. CASE UNCHANGED vars
  BY <1>18, StutterStep
<1> QED
  BY <1>1, <1>2, <1>3, <1>4, <1>5, <1>6, <1>7, <1>8, <1>9, <1>10, <1>11, <1>12, <1>13,
     <1>14, <1>15, <1>16, <1>17, <1>18 DEF Next

\* The invariant holds for any number of proxies, whatever they are set up to do:
\* what the headers of a message say agrees with the way it has come at every hop,
\* as the functions of sipTUHelper.c and sipHdrVia.c rewrite them.
THEOREM PathInvariant == Spec => []IInv
<1>1. Init => IInv
  BY InitIsInv
<1>2. IInv /\ [Next]_vars => IInv'
  BY NextKeepsInv
<1> QED
  BY <1>1, <1>2, PTL DEF Spec

LEMMA InvRetraces == IInv => AnswerRetraces
  BY DEF IInv, AnswerInv, AnswerRetraces

\* An answer goes back through the nodes that the request came through
\* (sipProxy_forwardResp), though every hop writes the Vias below its own twice.
THEOREM AnswersGoBack == Spec => []AnswerRetraces
<1>1. IInv => AnswerRetraces
  BY InvRetraces
<1> QED
  BY <1>1, PathInvariant, PTL

\* The first Route of the request that the caller starts with.
LEMMA FirstRouteIs ==
    ASSUME setup \in Setups, setup.routes # <<>>
    PROVE  setup.routes[1] = First
<1>1. setup.routes \in {<<>>, <<First>>} \cup {<<First, p>> : p \in Proxies \ {First}}
  BY DEF Setups
<1> QED
  BY <1>1

LEMMA InvTopRoute == IInv => TopRouteIsOwn
<1> SUFFICES ASSUME IInv, phase = "request", Readable(m.hdrs)
             PROVE  IF at \in {Caller, Callee} THEN Values(m.hdrs, Route) = <<>>
                    ELSE Values(m.hdrs, Route) # <<>> => Hop(Values(m.hdrs, Route)[1]) = at
  BY DEF TopRouteIsOwn, IInv, TypeInv
<1> DEFINE h == m.hdrs
<1>1. /\ TypeInv /\ setup \in Setups /\ setup.folded \in BOOLEAN /\ m \in Msgs
      /\ setup.through \in {"proxies", "scscf"} /\ trail \in Seq(Nodes)
      /\ setup.routes \in Seq(Proxies)
  BY TypeIs, SetupIs DEF IInv
<1>2. h \in Seq(HeaderLines)
  BY <1>1, MsgIs
<1> DEFINE none == <<>>
<1>3. none \in Seq(Hops) /\ none = <<>>
  BY EmptySeq
<1>4. LinesOf(h, Route) = <<>> => Values(h, Route) = <<>>
  BY ValuesOfNone
<1> HIDE DEF none
<1>5. CASE kind = "initial" /\ setup.through = "proxies"
  <2>1. AmongProxies(h, trail, at, m.uri, recorded)
    BY <1>5 DEF IInv, RequestInv, Initial
  <2>2. CASE Len(trail) = 1
    <3>1. at = First /\ h = Request(CallerVia, setup.routes)
      BY <2>1, <2>2 DEF AmongProxies
    <3>2. setup.routes \in Seq(Hops)
      BY <1>1, ProxiesAreHops
    <3>3. IsFirstRequest(h, CallerVia, setup.routes)
      BY <1>1, <3>1, <3>2, FirstRequestIs
    <3>4. ReadsRoutes(h, setup.routes)
      BY <1>1, <1>2, <3>2, <3>3, RoutesRead DEF IsFirstRequest
    <3>5. Values(h, Route) = setup.routes
      BY <3>4 DEF ReadsRoutes
    <3>6. First \in Nodes /\ First # Caller /\ First # Callee
      BY NodesApart DEF Nodes
    <3>7. Hop(First) = First
      BY <1>1, <3>6, HopNode
    <3>8. setup.routes # <<>> => setup.routes[1] = First
      BY <1>1, FirstRouteIs
    <3> QED
      BY <3>1, <3>5, <3>6, <3>7, <3>8
  <2>3. CASE Len(trail) # 1
    <3>1. LinesOf(h, Route) = <<>>
      BY <2>1, <2>3 DEF AmongProxies
    <3> QED
      BY <1>4, <3>1
  <2> QED
    BY <2>2, <2>3
<1>6. CASE kind = "initial" /\ setup.through = "scscf"
  <2>1. AmongServers(h, trail, at)
    BY <1>6 DEF IInv, RequestInv, Initial
  <2>2. CASE at = Scscf /\ h = Request(CallerVia, <<Scscf>>)
    <3> DEFINE routes == <<Scscf>>
    <3>1. routes \in Seq(Hops) /\ routes[1] = Scscf
      BY DEF Hops, Nodes
    <3>2. h = Request(CallerVia, routes)
      BY <2>2
    <3> HIDE DEF routes
    <3>3. IsFirstRequest(h, CallerVia, routes)
      BY <1>1, <3>1, <3>2, FirstRequestIs
    <3>4. ReadsRoutes(h, routes)
      BY <1>1, <1>2, <3>1, <3>3, RoutesRead DEF IsFirstRequest
    <3>5. Values(h, Route) = routes
      BY <3>4 DEF ReadsRoutes
    <3>6. Hop(Scscf) = Scscf
      BY <1>1, HopNode, NodesApart DEF Nodes
    <3> QED
      BY <2>2, <3>1, <3>5, <3>6, NodesApart
  <2>3. CASE at = AppServer /\ RoutesAre(h, <<AppServer, Odi>>)
    <3> DEFINE routes == <<AppServer, Odi>>
    <3>1. routes \in Seq(Hops) /\ routes[1] = AppServer
      BY DEF Hops, Nodes
    <3>2. RoutesAre(h, routes)
      BY <2>3
    <3> HIDE DEF routes
    <3>3. Values(h, Route) = routes
      BY <1>2, <3>1, <3>2, SinglesRead
    <3>4. Hop(AppServer) = AppServer
      BY <1>1, HopNode, NodesApart DEF Nodes
    <3> QED
      BY <2>3, <3>1, <3>3, <3>4, NodesApart
  <2>4. CASE at = Scscf /\ RoutesAre(h, <<Odi>>)
    <3> DEFINE routes == <<Odi>>
    <3>1. routes \in Seq(Hops) /\ routes[1] = Odi
      BY DEF Hops
    <3>2. RoutesAre(h, routes)
      BY <2>4
    <3> HIDE DEF routes
    <3>3. Values(h, Route) = routes
      BY <1>2, <3>1, <3>2, SinglesRead
    <3>4. Hop(Odi) = Scscf
      BY <1>1, HopOther
    <3> QED
      BY <2>4, <3>1, <3>3, <3>4, NodesApart
  <2>5. CASE at = Callee /\ RoutesAre(h, <<>>)
    <3>1. LinesOf(h, Route) = <<>>
      BY <2>5, SinglesTuples DEF RoutesAre
    <3> QED
      BY <1>4, <2>5, <3>1
  <2> QED
    BY <2>1, <2>2, <2>3, <2>4, <2>5 DEF AmongServers
<1>7. CASE kind # "initial"
  <2> DEFINE plan == RouteSetOf(recorded)
  <2>1. InDialog(h, trail, at, kind, plan)
    BY <1>7 DEF IInv, DialogInv
  <2>2. plan \in Seq(Proxies) /\ (plan # <<>> => plan[1] \in Proxies)
    BY <1>1, TypeIs, SetupIs, RouteSetIs
  <2>3. To(kind) \in {Caller, Callee}
    BY DEF To
  <2> HIDE DEF plan
  <2>4. CASE Starts(h, plan)
    <3>1. LinesOf(h, Route) = RouteLines(plan) /\ plan \in Seq(Hops)
      BY <1>1, <2>2, <2>4, StartIs
    <3>2. Values(h, Route) = plan
      BY <1>1, <1>2, <3>1, RoutesRead DEF ReadsRoutes
    <3>3. CASE plan = <<>>
      <4>1. at = To(kind)
        BY <2>1, <3>3 DEF InDialog
      <4> QED
        BY <2>3, <3>2, <3>3, <4>1
    <3>4. CASE plan # <<>> /\ at = plan[1]
      <4>1. at \in Nodes /\ at # Caller /\ at # Callee
        BY <2>2, <3>4, NodesApart DEF Nodes
      <4>2. Hop(at) = at
        BY <1>1, <4>1, HopNode
      <4> QED
        BY <3>2, <3>4, <4>1, <4>2
    <3>5. CASE plan # <<>> /\ at # plan[1]
      <4>1. at = To(kind) /\ LinesOf(h, Route) = <<>>
        BY <2>1, <3>5 DEF InDialog
      <4> QED
        BY <1>4, <2>3, <4>1
    <3> QED
      BY <3>3, <3>4, <3>5
  <2>5. CASE ~Starts(h, plan)
    <3>1. at = To(kind) /\ LinesOf(h, Route) = <<>>
      BY <2>1, <2>5 DEF InDialog
    <3> QED
      BY <1>4, <2>3, <3>1
  <2> QED
    BY <2>4, <2>5
<1> QED
  BY <1>1, <1>5, <1>6, <1>7

\* The types, and: the Route that a node takes off without looking at it
\* (callProxy.c) is the one that led to it; the ends get nobody's Route.
THEOREM RoutesAreOwn == Spec => []TopRouteIsOwn
<1>1. IInv => TopRouteIsOwn
  BY InvTopRoute
<1> QED
  BY <1>1, PathInvariant, PTL

LEMMA InvOnPath == IInv => InDialogOnPath
<1> SUFFICES ASSUME IInv, kind # "initial"
             PROVE  /\ \A i \in DOMAIN routeSet : routeSet[i] \in called
                    /\ phase = "request" => IsPrefix(Append(trail, at), Path)
                    /\ phase = "over"    => Append(trail, at) = Path
  BY DEF InDialogOnPath
<1> DEFINE plan == RouteSetOf(recorded)
           path == <<From(kind)>> \o plan \o <<To(kind)>>
<1>1. /\ setup \in Setups /\ setup.length \in BOOLEAN /\ recorded \in Seq(Proxies)
      /\ kind \in {"initial", "fromCaller", "fromCallee"}
  BY TypeIs, SetupIs DEF IInv
<1>2. routeSet = plan
  BY DEF IInv, AnsweredInv, DialogInv
<1>3. /\ Reverse(plan) = plan
      /\ plan # <<>> => /\ plan = <<plan[1]>> /\ plan[1] = recorded[Len(recorded)]
                        /\ Len(recorded) \in 1..Len(recorded)
  BY <1>1, RouteSetIs
<1>4. Path = path
  BY <1>1, <1>2, <1>3 DEF Path, From, To
<1> HIDE DEF plan
<1>5. \A i \in DOMAIN routeSet : routeSet[i] \in called
  <2> SUFFICES ASSUME NEW i \in DOMAIN plan
               PROVE  plan[i] \in called
    BY <1>2
  <2>1. plan # <<>>
    OBVIOUS
  <2>2. i = 1
    BY <1>3, <2>1
  <2>3. Len(recorded) \in DOMAIN recorded
    BY <1>1, <1>3, <2>1
  <2> QED
    BY <1>3, <2>1, <2>2, <2>3 DEF called
<1>6. CASE phase = "over"
  BY <1>4, <1>5, <1>6 DEF IInv, DialogInv, plan
<1>7. CASE phase = "request"
  <2>1. InDialog(m.hdrs, trail, at, kind, plan)
    BY <1>7 DEF IInv, DialogInv, plan
  <2>2. CASE plan = <<>>
    <3>1. trail = <<From(kind)>> /\ at = To(kind)
      BY <2>1, <2>2 DEF InDialog
    <3>2. \A a, b : IsPrefix(Append(<<a>>, b), <<a>> \o <<>> \o <<b>>)
      BY DEF IsPrefix
    <3> QED
      BY <1>4, <1>5, <1>7, <2>2, <3>1, <3>2
  <2>3. CASE plan # <<>> /\ trail = <<From(kind)>> /\ at = plan[1]
    <3>1. \A a, b, c : IsPrefix(Append(<<a>>, c), <<a>> \o <<c>> \o <<b>>)
      BY DEF IsPrefix
    <3> QED
      BY <1>3, <1>4, <1>5, <1>7, <2>3, <3>1
  <2>4. CASE plan # <<>> /\ trail = <<From(kind), plan[1]>> /\ at = To(kind)
    <3>1. \A a, b, c : IsPrefix(Append(<<a, c>>, b), <<a>> \o <<c>> \o <<b>>)
      BY DEF IsPrefix
    <3> QED
      BY <1>3, <1>4, <1>5, <1>7, <2>4, <3>1
  <2> QED
    BY <2>1, <2>2, <2>3, <2>4 DEF InDialog
<1> QED
  BY <1>5, <1>6, <1>7

\* A request inside the dialog passes the proxy that the callee heard of, which has
\* the call, and reaches the other end (sipProxy_forwardReq by the Routes that the
\* ends heard).
THEOREM DialogsStayOnPath == Spec => []InDialogOnPath
<1>1. IInv => InDialogOnPath
  BY InvOnPath
<1> QED
  BY <1>1, PathInvariant, PTL

\* A call as the code is built to route it is not lost, nor is what follows in its
\* dialog, unless it comes back to a proxy or the caller cannot be reached.
THEOREM CallsGetThrough == Spec => []GetsThrough
<1>1. IInv => GetsThrough
  BY DEF IInv
<1> QED
  BY <1>1, PathInvariant, PTL
===============================================================================
