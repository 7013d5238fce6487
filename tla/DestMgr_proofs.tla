---------------------------- MODULE DestMgr_proofs ----------------------------
(***************************************************************************)
(* The destination manager, for every set of answers, however many records *)
(* and destinations they make and whatever the weights and the random      *)
(* number: a next hop is found exactly when there is one, it is of the     *)
(* best priority, and a quarantine is seen by everybody and lasts.         *)
(***************************************************************************)
EXTENDS DestMgr, FiniteSetTheorems, SequenceTheorems, WellFoundedInduction, TLAPS

Ips     == {"unset"} \cup UNION {{a.hosts[h].ip : h \in DOMAIN a.hosts} : a \in Answers}
Ports   == {0} \cup UNION {{a.srvs[i].port : i \in DOMAIN a.srvs} : a \in Answers}
TpTypes == {"ANY"} \cup UNION {{a.srvs[i].tpType : i \in DOMAIN a.srvs} : a \in Answers}
Addrs   == [ip : Ips, port : Ports, order : {"net", "host"}] \cup {l.addr : l \in Local}

DestType == [addr : Addrs, tpType : TpTypes, priority : Nat, weight : Nat,
             quarantined : BOOLEAN, qTimer : BOOLEAN]
RecType  == [name : Names, ka : BOOLEAN, dests : Seq(DestType)]

\* No destination is in front of one that goes in front of it.
Ordered(dests) ==
    \A d \in DOMAIN dests : \A e \in 1..(d - 1) : ~Behind(dests[e], dests[d])

\* No timer runs.
Untimed(dests) == \A d \in DOMAIN dests : ~dests[d].qTimer

\* What an answer makes.
Fresh == {dests \in Seq(DestType) : Ordered(dests) /\ Untimed(dests)}

\* A timer is that of a destination that is quarantined, and of the first with its
\* address.  Records of the configuration have priorities and weights of 0.
RecOk(r) ==
    /\ Ordered(r.dests)
    /\ \A d \in DOMAIN r.dests : r.dests[d].qTimer =>
          /\ r.dests[d].quarantined
          /\ \A e \in 1..(d - 1) : r.dests[e].addr # r.dests[d].addr
    /\ ~r.ka => \A d \in DOMAIN r.dests : r.dests[d].priority = 0 /\ r.dests[d].weight = 0

\* Timers run in the first record of a name only.
FirstTimed(l) ==
    \A i \in DOMAIN l : ~Untimed(l[i].dests) => \A j \in 1..(i - 1) : l[j].name # l[i].name

ListOk(l) == l \in Seq(RecType) /\ (\A i \in DOMAIN l : RecOk(l[i])) /\ FirstTimed(l)

\* What was returned could be returned again.
HopOk(l, h) ==
    \/ h = NotAsked
    \/ /\ h.rec \in DOMAIN l /\ h.dest \in NextHops(l[h.rec].dests)
       /\ h = [rec |-> h.rec, dest |-> h.dest, found |-> h.dest # 0]

IInv == ListOk(list) /\ HopOk(list, hop)

-----------------------------------------------------------------------------
\* The first of some numbers.
LEMMA MinIs ==
    ASSUME NEW S \in SUBSET Nat, S # {}
    PROVE  Min(S) \in S /\ \A m \in S : Min(S) <= m
<1> DEFINE R == OpToRel(<, Nat)
<1>1. IsWellFoundedOn(R, Nat)
  BY NatLessThanWellFounded
<1> HIDE DEF R
<1>2. PICK n \in S : \A m \in S : ~(<<m, n>> \in R)
  BY <1>1, WFMin
<1>3. \A m \in S : n <= m
  <2> TAKE m \in S
  <2>1. ~(m < n)
    BY <1>2 DEF R, OpToRel
  <2> QED
    BY <2>1
<1> QED
  BY <1>3 DEF Min

\* A set of naturals with 0 that is closed under successor has all of them.
LEMMA Induction ==
    ASSUME NEW S, 0 \in S, \A n \in Nat : n \in S => n + 1 \in S
    PROVE  Nat \subseteq S
<1> DEFINE T == Nat \ S
<1>1. SUFFICES ASSUME T # {} PROVE FALSE
  OBVIOUS
<1>2. T \in SUBSET Nat
  OBVIOUS
<1> DEFINE x == Min(T)
<1>3. x \in T /\ \A m \in T : x <= m
  BY <1>1, <1>2, MinIs
<1> HIDE DEF x
<1>4. x \in Nat /\ x # 0 /\ x - 1 \in Nat /\ ~(x <= x - 1)
  BY <1>3
<1>5. x - 1 \in S
  BY <1>3, <1>4
<1> QED
  BY <1>3, <1>4, <1>5

\* What becomes of b in N steps g within a set D: there is such a thing.
Walks(N, D, b, g) ==
    {f \in [0..N -> D] : f[0] = b /\ \A n \in 1..N : f[n] = g[n][f[n - 1]]}

LEMMA Iterated ==
    ASSUME NEW N \in Nat, NEW D, NEW b \in D, NEW g \in [1..N -> [D -> D]]
    PROVE  Walks(N, D, b, g) # {}
<1> DEFINE Until(n, f) == f[0] = b /\ \A k \in 1..n : f[k] = g[k][f[k - 1]]
           S == {n \in Nat : n <= N => \E f \in [0..n -> D] : Until(n, f)}
<1>1. 0 \in S
  <2> DEFINE f == [k \in 0..0 |-> b]
  <2>1. f \in [0..0 -> D] /\ Until(0, f)
    OBVIOUS
  <2> QED
    BY <2>1
<1>2. ASSUME NEW n \in Nat, n \in S PROVE n + 1 \in S
  <2>1. SUFFICES ASSUME n + 1 <= N PROVE \E f \in [0..(n + 1) -> D] : Until(n + 1, f)
    OBVIOUS
  <2>2. PICK f \in [0..n -> D] : Until(n, f)
    BY <1>2, <2>1
  <2> DEFINE e == [k \in 0..(n + 1) |-> IF k <= n THEN f[k] ELSE g[n + 1][f[n]]]
  <2>3. f[n] \in D /\ n + 1 \in 1..N
    BY <2>1
  <2>4. g[n + 1][f[n]] \in D
    BY <2>3
  <2>5. e \in [0..(n + 1) -> D]
    BY <2>4
  <2>6. /\ \A k \in 0..n : e[k] = f[k]
        /\ e[n + 1] = g[n + 1][f[n]]
    OBVIOUS
  <2> HIDE DEF e
  <2>7. \A k \in 1..(n + 1) : e[k] = g[k][e[k - 1]]
    <3> TAKE k \in 1..(n + 1)
    <3>1. k - 1 \in 0..n /\ e[k - 1] = f[k - 1]
      BY <2>6
    <3>2. CASE k = n + 1
      <4>1. k - 1 = n
        BY <3>2
      <4> QED
        BY <2>6, <3>1, <3>2, <4>1
    <3>3. CASE k \in 1..n
      BY <2>2, <2>6, <3>1, <3>3
    <3> QED
      BY <3>2, <3>3
  <2>8. 0 \in 0..n
    OBVIOUS
  <2>9. Until(n + 1, e)
    BY <2>2, <2>6, <2>7, <2>8
  <2> QED
    BY <2>5, <2>9
<1>3. N \in S
  <2> HIDE DEF S
  <2> QED
    BY <1>1, <1>2, Induction
<1>4. PICK f \in [0..N -> D] : Until(N, f)
  BY <1>3
<1>5. f \in Walks(N, D, b, g)
  BY <1>4 DEF Walks
<1> QED
  BY <1>5

-----------------------------------------------------------------------------
\* The order.
LEMMA PlaceIs ==
    ASSUME NEW dests \in Seq(DestType), NEW d
    PROVE  /\ Place(dests, d) \in 1..(Len(dests) + 1)
           /\ \A k \in DOMAIN dests : k < Place(dests, d) => ~Behind(dests[k], d)
           /\ Place(dests, d) # Len(dests) + 1 => Behind(dests[Place(dests, d)], d)
<1> DEFINE S == {Len(dests) + 1} \cup {k \in DOMAIN dests : Behind(dests[k], d)}
           p == Min(S)
<1>1. DOMAIN dests = 1..Len(dests) /\ Len(dests) \in Nat
  OBVIOUS
<1>2. S \in SUBSET Nat /\ S # {} /\ Len(dests) + 1 \in S
  BY <1>1
<1>3. p \in S /\ \A m \in S : p <= m
  BY <1>2, MinIs
<1>4. p = Place(dests, d)
  BY DEF Place
<1> HIDE DEF p
<1>5. \A k \in DOMAIN dests : k < p => ~Behind(dests[k], d)
  BY <1>1, <1>3
<1> QED
  BY <1>1, <1>3, <1>4, <1>5

LEMMA OrderAppendOk ==
    ASSUME NEW dests \in Fresh, NEW d \in DestType, ~d.qTimer
    PROVE  OrderAppend(dests, d) \in Fresh
<1> DEFINE p == Place(dests, d)
           r == OrderAppend(dests, d)
<1>1. dests \in Seq(DestType) /\ Ordered(dests) /\ Untimed(dests)
  BY DEF Fresh
<1>2. DOMAIN dests = 1..Len(dests) /\ Len(dests) \in Nat /\ \A k \in DOMAIN dests : dests[k] \in DestType
  BY <1>1
<1>3. /\ p \in 1..(Len(dests) + 1)
      /\ \A k \in DOMAIN dests : k < p => ~Behind(dests[k], d)
      /\ p # Len(dests) + 1 => Behind(dests[p], d)
  BY <1>1, PlaceIs
<1>4. r = [k \in 1..(Len(dests) + 1) |->
             IF k < p THEN dests[k] ELSE IF k = p THEN d ELSE dests[k - 1]]
  BY DEF OrderAppend
<1> HIDE DEF p, r
<1>5. \A k \in 1..(Len(dests) + 1) :
         /\ k < p => k \in DOMAIN dests /\ r[k] = dests[k]
         /\ k = p => r[k] = d
         /\ k > p => k - 1 \in DOMAIN dests /\ r[k] = dests[k - 1]
  BY <1>2, <1>3, <1>4
<1>6. DOMAIN r = 1..(Len(dests) + 1) /\ \A k \in DOMAIN r : r[k] \in DestType
  <2>1. DOMAIN r = 1..(Len(dests) + 1)
    BY <1>4
  <2>2. ASSUME NEW k \in 1..(Len(dests) + 1) PROVE r[k] \in DestType
    <3>1. k < p \/ k = p \/ k > p
      BY <1>2, <1>3
    <3> QED
      BY <1>2, <1>5, <3>1
  <2> QED
    BY <2>1, <2>2
<1>7. r \in Seq(DestType)
  BY <1>2, <1>4, <1>6, IsASeq
<1>8. Untimed(r)
  BY <1>1, <1>2, <1>3, <1>5, <1>6 DEF Untimed
<1>9. ASSUME NEW k \in DOMAIN r, NEW e \in 1..(k - 1) PROVE ~Behind(r[e], r[k])
  <2>1. k \in 1..(Len(dests) + 1) /\ e \in 1..(Len(dests) + 1) /\ e < k
    BY <1>2, <1>6
  <2>2. \A i, j \in DOMAIN dests : i < j => ~Behind(dests[i], dests[j])
    BY <1>1, <1>2 DEF Ordered
  <2>3. CASE k < p
    BY <1>2, <1>3, <1>5, <2>1, <2>2, <2>3
  <2>4. CASE k = p
    BY <1>2, <1>3, <1>5, <2>1, <2>4
  <2>5. CASE k > p /\ e < p
    <3>1. e \in DOMAIN dests /\ k - 1 \in DOMAIN dests /\ e < k - 1
      BY <1>2, <1>3, <1>5, <2>1, <2>5
    <3> QED
      BY <1>5, <2>1, <2>2, <2>5, <3>1
  <2>6. CASE k > p /\ e = p
    <3>1. p \in DOMAIN dests /\ k - 1 \in DOMAIN dests /\ (p = k - 1 \/ p < k - 1)
      BY <1>2, <1>3, <1>5, <2>1, <2>6
    <3>2. Behind(dests[p], d) /\ ~Behind(dests[p], dests[k - 1])
      <4>1. p # Len(dests) + 1
        BY <1>2, <3>1
      <4>2. dests[p] \in DestType
        BY <1>2, <3>1
      <4>3. ~Behind(dests[p], dests[p])
        BY <4>2 DEF Behind, DestType
      <4> QED
        BY <1>3, <2>2, <3>1, <4>1, <4>3
    <3>3. dests[p] \in DestType /\ dests[k - 1] \in DestType
      BY <1>2, <3>1
    <3>4. ~Behind(d, dests[k - 1])
      BY <3>2, <3>3 DEF Behind, DestType
    <3> QED
      BY <1>5, <2>1, <2>6, <3>4
  <2>7. CASE k > p /\ e > p
    <3>1. e - 1 \in DOMAIN dests /\ k - 1 \in DOMAIN dests /\ e - 1 < k - 1
      BY <1>2, <1>3, <1>5, <2>1, <2>7
    <3> QED
      BY <1>5, <2>1, <2>2, <2>7, <3>1
  <2> QED
    BY <1>2, <1>3, <2>1, <2>3, <2>4, <2>5, <2>6, <2>7
<1>10. Ordered(r)
  BY <1>9 DEF Ordered
<1> QED
  BY <1>7, <1>8, <1>10 DEF Fresh, r

-----------------------------------------------------------------------------
\* What an answer makes.
LEMMA DestIs ==
    ASSUME NEW addr \in Addrs, NEW tp \in TpTypes, NEW p \in Nat, NEW w \in Nat,
           NEW wild \in BOOLEAN
    PROVE  Dest(addr, tp, p, w, wild) \in DestType /\ ~Dest(addr, tp, p, w, wild).qTimer
BY DEF Dest, DestType

LEMMA AddOrWidenOk ==
    ASSUME NEW dests \in Fresh, NEW ip \in Ips, NEW s, NEW order \in {"net", "host"},
           NEW wild \in BOOLEAN,
           s.port \in Ports, s.tpType \in TpTypes, s.priority \in Nat, s.weight \in Nat
    PROVE  AddOrWiden(dests, ip, s, order, wild) \in Fresh
<1> DEFINE same == {i \in DOMAIN dests :
                       /\ dests[i].addr = Addr(ip, s.port, "host")
                       /\ dests[i].priority = s.priority
                       /\ dests[i].weight = s.weight}
           new == Dest(Addr(ip, s.port, order), s.tpType, s.priority, s.weight, wild)
           m == Min(same)
<1>1. dests \in Seq(DestType) /\ Ordered(dests) /\ Untimed(dests) /\ DOMAIN dests = 1..Len(dests)
      /\ Len(dests) \in Nat
  BY DEF Fresh
<1>2. CASE same = {}
  <2>1. new \in DestType /\ ~new.qTimer
    <3>1. Addr(ip, s.port, order) \in Addrs
      BY DEF Addr, Addrs
    <3> QED
      BY <3>1, DestIs
  <2>2. OrderAppend(dests, new) \in Fresh
    <3> HIDE DEF new
    <3> QED
      BY <2>1, OrderAppendOk
  <2>3. AddOrWiden(dests, ip, s, order, wild) = OrderAppend(dests, new)
    BY <1>2 DEF AddOrWiden
  <2> QED
    BY <2>2, <2>3
<1>3. CASE same # {}
  <2>1. m \in DOMAIN dests
    <3>1. same \in SUBSET Nat
      BY <1>1
    <3>2. m \in same
      BY <1>3, <3>1, MinIs
    <3> QED
      BY <3>2
  <2> DEFINE tp == IF dests[m].tpType = s.tpType THEN dests[m].tpType ELSE "ANY"
             d == [dests[m] EXCEPT !.tpType = tp]
             r == [dests EXCEPT ![m] = d]
  <2>2. dests[m] \in DestType
    BY <1>1, <2>1
  <2>3. tp \in TpTypes
    BY <2>2 DEF DestType, TpTypes
  <2>4. d \in DestType /\ d.priority = dests[m].priority /\ d.weight = dests[m].weight
        /\ d.qTimer = dests[m].qTimer
    <3> HIDE DEF tp, m
    <3> QED
      BY <2>2, <2>3 DEF DestType
  <2>5. AddOrWiden(dests, ip, s, order, wild) = r
    BY <1>3 DEF AddOrWiden
  <2> HIDE DEF d, m
  <2>6. r \in Seq(DestType)
    BY <1>1, <2>1, <2>4, ExceptSeq
  <2>7. DOMAIN r = DOMAIN dests /\ \A k \in DOMAIN dests :
          /\ r[k].priority = dests[k].priority /\ r[k].weight = dests[k].weight
          /\ r[k].qTimer = dests[k].qTimer
    BY <2>1, <2>4
  <2> HIDE DEF r
  <2>8. Ordered(r) /\ Untimed(r)
    <3>1. \A k \in DOMAIN dests : \A e \in 1..(k - 1) : e \in DOMAIN dests
      BY <1>1
    <3> QED
      BY <1>1, <2>7, <3>1 DEF Ordered, Untimed, Behind
  <2> QED
    BY <2>5, <2>6, <2>8 DEF Fresh
<1> QED
  BY <1>2, <1>3

\* What the assumption says of an answer.
LEMMA AnswerIs ==
    ASSUME NEW a \in Answers
    PROVE  /\ a.name \in Names /\ a.form \in {"A", "SRV", "NAPTR", "LIST"}
           /\ Len(a.hosts) \in Nat /\ DOMAIN a.hosts = 1..Len(a.hosts)
           /\ Len(a.srvs) \in Nat /\ DOMAIN a.srvs = 1..Len(a.srvs)
           /\ \A h \in DOMAIN a.hosts : a.hosts[h].ip \in Ips
           /\ \A i \in DOMAIN a.srvs :
                 /\ a.srvs[i].port \in Ports /\ a.srvs[i].tpType \in TpTypes
                 /\ a.srvs[i].priority \in Nat /\ a.srvs[i].weight \in Nat
           /\ Steps(a) \in Nat /\ (a.form = "A" => Steps(a) = Len(a.hosts))
<1>1. /\ a.name \in Names /\ a.form \in {"A", "SRV", "NAPTR", "LIST"}
      /\ Len(a.hosts) \in Nat /\ DOMAIN a.hosts = 1..Len(a.hosts)
      /\ Len(a.srvs) \in Nat /\ DOMAIN a.srvs = 1..Len(a.srvs)
      /\ \A i \in DOMAIN a.srvs : a.srvs[i].priority \in Nat /\ a.srvs[i].weight \in Nat
  BY DestAssumption
<1>2. \A h \in DOMAIN a.hosts : a.hosts[h].ip \in Ips
  BY DEF Ips
<1>3. \A i \in DOMAIN a.srvs : a.srvs[i].port \in Ports /\ a.srvs[i].tpType \in TpTypes
  BY DEF Ports, TpTypes
<1>4. \A m, n \in Nat : m * n \in Nat
  OBVIOUS
<1>5. Steps(a) \in Nat /\ (a.form = "A" => Steps(a) = Len(a.hosts))
  BY <1>1, <1>4 DEF Steps
<1> QED
  BY <1>1, <1>2, <1>3, <1>5

LEMMA AddStepOk ==
    ASSUME NEW a \in Answers, NEW n \in 1..Steps(a), NEW dests \in Fresh, NEW wild
    PROVE  AddStep(dests, a, n, wild) \in Fresh
<1> DEFINE w == Len(dests) + 1 \in wild
           x == At(a, n)
<1>1. w \in BOOLEAN
  OBVIOUS
<1> HIDE DEF w
<1>2. CASE a.form = "A"
  <2> DEFINE d == Dest(Addr(a.hosts[n].ip, 0, "host"), "ANY", 0, 0, w)
  <2>1. n \in DOMAIN a.hosts
    BY <1>2, AnswerIs
  <2>2. Addr(a.hosts[n].ip, 0, "host") \in Addrs
    BY <2>1, AnswerIs DEF Addr, Addrs, Ports
  <2>3. d \in DestType /\ ~d.qTimer
    BY <1>1, <2>2, DestIs DEF TpTypes
  <2>4. AddStep(dests, a, n, wild) = OrderAppend(dests, d)
    BY <1>2 DEF AddStep, w
  <2> HIDE DEF d
  <2> QED
    BY <2>3, <2>4, OrderAppendOk
<1>3. CASE a.form # "A" /\ x \in Joined(a)
  <2> DEFINE ip == a.hosts[x[1]].ip
             s == a.srvs[x[2]]
             d == Dest(Addr("unset", s.port, "host"), s.tpType, s.priority, s.weight, w)
  <2>1. x[1] \in DOMAIN a.hosts /\ x[2] \in DOMAIN a.srvs
    BY <1>3 DEF Joined
  <2>2. /\ ip \in Ips /\ s.port \in Ports /\ s.tpType \in TpTypes
        /\ s.priority \in Nat /\ s.weight \in Nat
    BY <2>1, AnswerIs
  <2>3. AddStep(dests, a, n, wild) = AddJoined(dests, a, ip, s, w)
    BY <1>3 DEF AddStep, w
  <2>4. OrderAppend(dests, d) \in Fresh
    <3>1. Addr("unset", s.port, "host") \in Addrs
      BY <2>2 DEF Addr, Addrs, Ips
    <3>2. d \in DestType /\ ~d.qTimer
      BY <1>1, <2>2, <3>1, DestIs
    <3> HIDE DEF d
    <3> QED
      BY <3>2, OrderAppendOk
  <2> HIDE DEF ip, s
  <2>5. AddOrWiden(dests, ip, s, "net", w) \in Fresh /\ AddOrWiden(dests, ip, s, "host", w) \in Fresh
    BY <1>1, <2>2, AddOrWidenOk
  <2>6. a.form \in {"SRV", "NAPTR", "LIST"}
    BY <1>3, AnswerIs
  <2> QED
    BY <2>3, <2>4, <2>5, <2>6 DEF AddJoined
<1>4. CASE a.form # "A" /\ x \notin Joined(a)
  BY <1>4 DEF AddStep
<1> QED
  BY <1>2, <1>3, <1>4

LEMMA EmptyFresh == <<>> \in Fresh
BY DEF Fresh, Ordered, Untimed

\* The destinations of an answer.
LEMMA DestsOk ==
    ASSUME NEW a \in Answers, NEW wild
    PROVE  Dests(a, wild) \in Fresh
<1> DEFINE N == Steps(a)
           g == [n \in 1..N |-> [dests \in Fresh |-> AddStep(dests, a, n, wild)]]
           Is(f) == f = [n \in 0..N |-> IF n = 0 THEN <<>> ELSE AddStep(f[n - 1], a, n, wild)]
<1>1. N \in Nat
  BY AnswerIs
<1>2. \A n \in 1..N, dests \in Fresh : AddStep(dests, a, n, wild) \in Fresh
  BY AddStepOk
<1> HIDE DEF N
<1>3. g \in [1..N -> [Fresh -> Fresh]]
  BY <1>2
<1>4. \A n \in 1..N, dests \in Fresh : g[n][dests] = AddStep(dests, a, n, wild)
  OBVIOUS
<1> HIDE DEF g
<1>5. PICK f : f \in [0..N -> Fresh] /\ f[0] = <<>> /\ \A n \in 1..N : f[n] = g[n][f[n - 1]]
  <2>1. PICK f : f \in Walks(N, Fresh, <<>>, g)
    BY <1>1, <1>3, EmptyFresh, Iterated
  <2> QED
    BY <2>1 DEF Walks
<1>6. \A n \in 1..N : n - 1 \in 0..N /\ f[n - 1] \in Fresh /\ f[n] = AddStep(f[n - 1], a, n, wild)
  BY <1>1, <1>4, <1>5
<1>7. Is(f)
  <2>1. \A n \in 0..N : n = 0 \/ n \in 1..N
    BY <1>1
  <2>2. \A n \in 0..N : f[n] = IF n = 0 THEN <<>> ELSE AddStep(f[n - 1], a, n, wild)
    BY <1>5, <1>6, <2>1
  <2>3. f = [n \in 0..N |-> f[n]]
    BY <1>5
  <2> QED
    BY <2>2, <2>3
<1>8. Made(a, wild) = CHOOSE e : Is(e)
  BY DEF Made, N
<1>9. Is(Made(a, wild))
  BY <1>7, <1>8
<1> DEFINE m == Made(a, wild)
           S == {n \in Nat : n <= N => m[n] \in Fresh}
<1>10. 0 \in S
  BY <1>1, <1>9, EmptyFresh
<1>11. ASSUME NEW n \in Nat, n \in S PROVE n + 1 \in S
  <2>1. SUFFICES ASSUME n + 1 <= N PROVE m[n + 1] \in Fresh
    OBVIOUS
  <2>2. m[n] \in Fresh /\ n + 1 \in 1..N /\ n + 1 \in 0..N /\ n + 1 # 0 /\ (n + 1) - 1 = n
    BY <1>1, <1>11, <2>1
  <2>3. m[n + 1] = AddStep(m[n], a, n + 1, wild)
    BY <1>9, <2>2
  <2> QED
    BY <1>2, <2>2, <2>3
<1>12. N \in S
  <2> HIDE DEF S
  <2> QED
    BY <1>1, <1>10, <1>11, Induction
<1> QED
  BY <1>12 DEF Dests, N

-----------------------------------------------------------------------------
\* Sums of weights.
LEMMA SumsOk ==
    ASSUME NEW dests \in Seq(DestType), NEW S
    PROVE  /\ Sums(dests, S) \in [0..Len(dests) -> Nat]
           /\ Sums(dests, S)[0] = 0
           /\ \A n \in 1..Len(dests) : Sums(dests, S)[n] =
                 IF n \in S THEN Sums(dests, S)[n - 1] + dests[n].weight ELSE Sums(dests, S)[n - 1]
<1> DEFINE N == Len(dests)
           add(n, t) == IF n \in S THEN t + dests[n].weight ELSE t
           g == [n \in 1..N |-> [t \in Nat |-> add(n, t)]]
           Is(f) == f = [n \in 0..N |-> IF n = 0 THEN 0
                                         ELSE IF n \in S THEN f[n - 1] + dests[n].weight ELSE f[n - 1]]
<1>1. N \in Nat /\ DOMAIN dests = 1..N /\ \A n \in 1..N : dests[n].weight \in Nat
  <2>1. \A n \in 1..N : dests[n] \in DestType
    OBVIOUS
  <2> QED
    BY <2>1 DEF DestType
<1> HIDE DEF N
<1>2. g \in [1..N -> [Nat -> Nat]]
  BY <1>1
<1>3. \A n \in 1..N, t \in Nat : g[n][t] = add(n, t)
  OBVIOUS
<1> HIDE DEF g
<1>4. PICK f : f \in [0..N -> Nat] /\ f[0] = 0 /\ \A n \in 1..N : f[n] = g[n][f[n - 1]]
  <2>1. 0 \in Nat
    OBVIOUS
  <2>2. PICK f : f \in Walks(N, Nat, 0, g)
    BY <1>1, <1>2, <2>1, Iterated
  <2> QED
    BY <2>2 DEF Walks
<1>5. \A n \in 1..N : n - 1 \in 0..N /\ f[n - 1] \in Nat /\ f[n] = add(n, f[n - 1])
  BY <1>1, <1>3, <1>4
<1>6. Is(f)
  <2>1. \A n \in 0..N : n = 0 \/ n \in 1..N
    BY <1>1
  <2>2. \A n \in 0..N : f[n] = IF n = 0 THEN 0
                               ELSE IF n \in S THEN f[n - 1] + dests[n].weight ELSE f[n - 1]
    BY <1>4, <1>5, <2>1
  <2>3. f = [n \in 0..N |-> f[n]]
    BY <1>4
  <2> QED
    BY <2>2, <2>3
<1>7. Sums(dests, S) = CHOOSE e : Is(e)
  BY DEF Sums, N
<1>8. Is(Sums(dests, S))
  BY <1>6, <1>7
<1> DEFINE s == Sums(dests, S)
<1>9. s[0] = 0 /\ \A n \in 1..N : n \in 0..N /\ n # 0 /\ n - 1 \in 0..N /\ s[n] = add(n, s[n - 1])
  BY <1>1, <1>8
<1>10. DOMAIN s = 0..N /\ s = [n \in 0..N |-> s[n]]
  BY <1>8
<1> DEFINE T == {n \in Nat : n <= N => s[n] \in Nat}
<1>11. 0 \in T
  BY <1>9
<1>12. ASSUME NEW n \in Nat, n \in T PROVE n + 1 \in T
  <2>1. SUFFICES ASSUME n + 1 <= N PROVE s[n + 1] \in Nat
    OBVIOUS
  <2>2. s[n] \in Nat /\ n + 1 \in 1..N /\ (n + 1) - 1 = n
    BY <1>1, <1>12, <2>1
  <2>3. s[n + 1] = add(n + 1, s[n])
    BY <1>9, <2>2
  <2> QED
    BY <1>1, <2>2, <2>3
<1>13. Nat \subseteq T
  <2> HIDE DEF T
  <2> QED
    BY <1>11, <1>12, Induction
<1>14. \A n \in 0..N : s[n] \in Nat
  BY <1>1, <1>13
<1>15. s \in [0..N -> Nat]
  BY <1>10, <1>14
<1> QED
  BY <1>9, <1>15 DEF N

\* More destinations weigh no less.
LEMMA MoreWeighs ==
    ASSUME NEW dests \in Seq(DestType), NEW S, NEW T, S \subseteq T
    PROVE  SumOver(dests, S) <= SumOver(dests, T) /\ SumOver(dests, S) \in Nat
           /\ SumOver(dests, T) \in Nat
<1> DEFINE N == Len(dests)
           s == Sums(dests, S)
           t == Sums(dests, T)
           P == {n \in Nat : n <= N => s[n] <= t[n]}
<1>1. N \in Nat /\ \A n \in 1..N : dests[n].weight \in Nat
  <2>1. \A n \in 1..N : dests[n] \in DestType
    OBVIOUS
  <2> QED
    BY <2>1 DEF DestType
<1>2. /\ s \in [0..N -> Nat] /\ t \in [0..N -> Nat] /\ s[0] = 0 /\ t[0] = 0
      /\ \A n \in 1..N : s[n] = IF n \in S THEN s[n - 1] + dests[n].weight ELSE s[n - 1]
      /\ \A n \in 1..N : t[n] = IF n \in T THEN t[n - 1] + dests[n].weight ELSE t[n - 1]
  BY SumsOk
<1> HIDE DEF N, s, t
<1>3. 0 \in P
  BY <1>2
<1>4. ASSUME NEW n \in Nat, n \in P PROVE n + 1 \in P
  <2>1. SUFFICES ASSUME n + 1 <= N PROVE s[n + 1] <= t[n + 1]
    OBVIOUS
  <2>2. s[n] <= t[n] /\ n + 1 \in 1..N /\ (n + 1) - 1 = n /\ n \in 0..N
    BY <1>1, <1>4, <2>1
  <2>3. s[n] \in Nat /\ t[n] \in Nat /\ dests[n + 1].weight \in Nat
    BY <1>1, <1>2, <2>2
  <2>4. /\ s[n + 1] = IF n + 1 \in S THEN s[n] + dests[n + 1].weight ELSE s[n]
        /\ t[n + 1] = IF n + 1 \in T THEN t[n] + dests[n + 1].weight ELSE t[n]
    BY <1>2, <2>2
  <2>5. n + 1 \in S => n + 1 \in T
    OBVIOUS
  <2> QED
    BY <2>2, <2>3, <2>4, <2>5
<1>5. N \in P
  <2> HIDE DEF P
  <2> QED
    BY <1>1, <1>3, <1>4, Induction
<1>6. s[N] <= t[N] /\ s[N] \in Nat /\ t[N] \in Nat
  BY <1>1, <1>2, <1>5
<1> QED
  BY <1>6 DEF SumOver, N, s, t

-----------------------------------------------------------------------------
\* The choice of a next hop.
LEMMA FirstIs ==
    ASSUME NEW dests \in Seq(DestType), Ordered(dests), Usable(dests) # {}
    PROVE  /\ DOMAIN dests = 1..Len(dests) /\ Len(dests) \in Nat
           /\ \A i \in DOMAIN dests : dests[i] \in DestType
           /\ First(dests) \in Usable(dests) /\ Usable(dests) \subseteq DOMAIN dests
           /\ \A i \in Usable(dests) : First(dests) <= i
           /\ \A i, j \in DOMAIN dests : i <= j => dests[i].priority <= dests[j].priority
<1>1. /\ DOMAIN dests = 1..Len(dests) /\ Len(dests) \in Nat
      /\ \A i \in DOMAIN dests : dests[i] \in DestType
  OBVIOUS
<1>2. Usable(dests) \subseteq DOMAIN dests /\ Usable(dests) \in SUBSET Nat
  BY <1>1 DEF Usable
<1>3. First(dests) \in Usable(dests) /\ \A i \in Usable(dests) : First(dests) <= i
  BY <1>2, MinIs DEF First
<1>4. ASSUME NEW i \in DOMAIN dests, NEW j \in DOMAIN dests, i <= j
      PROVE  dests[i].priority <= dests[j].priority
  <2>1. dests[i].priority \in Nat /\ dests[j].priority \in Nat
    BY <1>1 DEF DestType
  <2>2. CASE i = j
    BY <2>1, <2>2
  <2>3. CASE i < j
    <3>1. i \in 1..(j - 1)
      BY <1>1, <2>3
    <3>2. ~Behind(dests[i], dests[j])
      BY <3>1 DEF Ordered
    <3> QED
      BY <2>1, <3>2 DEF Behind
  <2> QED
    BY <1>1, <1>4, <2>2, <2>3
<1> QED
  BY <1>1, <1>2, <1>3, <1>4

\* The destinations of the best priority that may be used are all of a priority
\* among those that may be used.
LEMMA SamePriorityIs ==
    ASSUME NEW dests \in Seq(DestType), Ordered(dests), Usable(dests) # {}
    PROVE  /\ SamePriorityUsable(dests) =
                 {i \in Usable(dests) : dests[i].priority = dests[First(dests)].priority}
           /\ \A i, j \in DOMAIN dests :
                 i \in SamePriority(dests) /\ First(dests) <= j /\ j <= i => j \in SamePriority(dests)
           /\ \A i \in SamePriority(dests) :
                 /\ i \in DOMAIN dests /\ First(dests) <= i
                 /\ dests[i].priority = dests[First(dests)].priority
           /\ First(dests) \in SamePriorityUsable(dests)
           /\ IsFiniteSet(SamePriorityUsable(dests)) /\ Cardinality(SamePriorityUsable(dests)) \in Nat \ {0}
<1> DEFINE f == First(dests)
           S == SamePriority(dests)
<1>1. /\ DOMAIN dests = 1..Len(dests) /\ Len(dests) \in Nat
      /\ \A i \in DOMAIN dests : dests[i].priority \in Nat
      /\ f \in Usable(dests) /\ Usable(dests) \subseteq DOMAIN dests
      /\ \A i \in Usable(dests) : f <= i
      /\ \A i, j \in DOMAIN dests : i <= j => dests[i].priority <= dests[j].priority
  BY FirstIs DEF DestType
<1>2. S = {i \in DOMAIN dests : i >= f /\ \A j \in f..i : dests[j].priority = dests[f].priority}
  BY DEF SamePriority
<1> HIDE DEF f, S
<1>3. \A i \in S : i \in DOMAIN dests /\ f <= i /\ dests[i].priority = dests[f].priority
  BY <1>1, <1>2
<1>4. ASSUME NEW i \in DOMAIN dests, NEW j \in DOMAIN dests, i \in S, f <= j, j <= i
      PROVE  j \in S
  BY <1>1, <1>2, <1>4
<1>5. ASSUME NEW i \in Usable(dests), dests[i].priority = dests[f].priority
      PROVE  i \in S
  <2>1. i \in DOMAIN dests /\ f \in DOMAIN dests /\ f <= i
    BY <1>1
  <2>2. ASSUME NEW j \in f..i PROVE dests[j].priority = dests[f].priority
    <3>1. j \in DOMAIN dests /\ f <= j /\ j <= i
      BY <1>1, <2>1
    <3>2. dests[f].priority <= dests[j].priority /\ dests[j].priority <= dests[i].priority
      BY <1>1, <2>1, <3>1
    <3> QED
      BY <1>1, <1>5, <2>1, <3>1, <3>2
  <2> QED
    BY <1>1, <1>2, <2>1, <2>2
<1>6. SamePriorityUsable(dests) = {i \in Usable(dests) : dests[i].priority = dests[f].priority}
  BY <1>3, <1>5 DEF SamePriorityUsable, S
<1>7. f \in SamePriorityUsable(dests)
  BY <1>1, <1>6
<1>8. IsFiniteSet(SamePriorityUsable(dests)) /\ Cardinality(SamePriorityUsable(dests)) \in Nat \ {0}
  <2>1. IsFiniteSet(1..Len(dests))
    BY <1>1, FS_Interval
  <2>2. SamePriorityUsable(dests) \subseteq 1..Len(dests)
    BY <1>1, <1>6
  <2>3. IsFiniteSet(SamePriorityUsable(dests))
    BY <2>1, <2>2, FS_Subset
  <2>4. Cardinality(SamePriorityUsable(dests)) \in Nat /\ Cardinality(SamePriorityUsable(dests)) # 0
    BY <1>7, <2>3, FS_CardinalityType, FS_EmptySet
  <2> QED
    BY <2>3, <2>4
<1> QED
  BY <1>3, <1>4, <1>6, <1>7, <1>8 DEF f, S

\* The walk over the weights ends among the destinations of the best priority: at
\* the last of them it has added up no less than the random number can be.
LEMMA WalkEnds ==
    ASSUME NEW dests \in Seq(DestType), Ordered(dests), Usable(dests) # {},
           NEW rand \in 0..WeightSum(dests)
    PROVE  LET ends == {i \in First(dests)..Len(dests) : Reaches(dests, i, rand)} IN
           ends # {} /\ Min(ends) \in SamePriority(dests)
<1> DEFINE f == First(dests)
           S == SamePriority(dests)
           U == SamePriorityUsable(dests)
           ends == {i \in f..Len(dests) : Reaches(dests, i, rand)}
           k == Min(ends)
<1>1. /\ DOMAIN dests = 1..Len(dests) /\ Len(dests) \in Nat /\ f \in DOMAIN dests
      /\ U \subseteq S /\ f \in S
      /\ \A i \in S : i \in DOMAIN dests /\ f <= i
      /\ \A i, j \in DOMAIN dests : i \in S /\ f <= j /\ j <= i => j \in S
  BY FirstIs, SamePriorityIs DEF SamePriorityUsable
<1>2. ASSUME NEW i \in f..Len(dests), U \subseteq f..i PROVE i \in ends
  <2>1. SumOver(dests, U) <= SumOver(dests, f..i)
        /\ SumOver(dests, U) \in Nat /\ SumOver(dests, f..i) \in Nat
    BY <1>2, MoreWeighs
  <2>2. RunSum(dests, i) >= rand
    BY <2>1 DEF RunSum, WeightSum
  <2> QED
    BY <2>2 DEF Reaches
<1>3. ends # {} /\ ends \in SUBSET Nat
  <2>1. Len(dests) \in f..Len(dests) /\ U \subseteq f..Len(dests)
    BY <1>1
  <2>2. Len(dests) \in ends
    BY <1>2, <2>1
  <2> QED
    BY <1>1, <2>2
<1>4. k \in ends /\ \A m \in ends : k <= m
  <2> HIDE DEF ends
  <2> QED
    BY <1>3, MinIs
<1>5. k \in f..Len(dests) /\ k \in DOMAIN dests
  BY <1>1, <1>4
<1> HIDE DEF k, ends
<1>6. ASSUME k \notin S PROVE FALSE
  <2>1. k # f /\ k - 1 \in f..Len(dests)
    BY <1>1, <1>5, <1>6
  <2>2. ASSUME NEW i \in U PROVE i \in f..(k - 1)
    <3>1. i \in S /\ i \in DOMAIN dests /\ f <= i
      BY <1>1
    <3>2. ~(k <= i)
      BY <1>1, <1>5, <1>6, <3>1
    <3> QED
      BY <1>1, <1>5, <3>1, <3>2
  <2>3. k - 1 \in ends
    BY <1>2, <2>1, <2>2
  <2> QED
    BY <1>1, <1>4, <1>5, <2>1, <2>3
<1> QED
  BY <1>3, <1>6 DEF k, ends

LEMMA NextHopsOk ==
    ASSUME NEW dests \in Seq(DestType), Ordered(dests), NEW d \in NextHops(dests)
    PROVE  /\ d \in 0..Len(dests)
           /\ d # 0 <=> Usable(dests) # {}
           /\ d # 0 =>
                 /\ \A e \in Usable(dests) : dests[d].priority <= dests[e].priority
                 /\ dests[d].quarantined =>
                       Cardinality({e \in Usable(dests) : dests[e].priority = dests[d].priority}) > 1
<1>1. CASE Usable(dests) = {}
  BY <1>1 DEF NextHops
<1>2. CASE Usable(dests) # {}
  <2> DEFINE f == First(dests)
             U == SamePriorityUsable(dests)
  <2>1. /\ DOMAIN dests = 1..Len(dests) /\ Len(dests) \in Nat
        /\ f \in Usable(dests) /\ Usable(dests) \subseteq DOMAIN dests
        /\ \A e \in Usable(dests) : dests[f].priority <= dests[e].priority
        /\ ~dests[f].quarantined
    BY <1>2, FirstIs DEF Usable
  <2>2. /\ U = {i \in Usable(dests) : dests[i].priority = dests[f].priority}
        /\ \A i \in SamePriority(dests) : i \in DOMAIN dests /\ dests[i].priority = dests[f].priority
        /\ Cardinality(U) \in Nat \ {0}
    BY <1>2, SamePriorityIs
  <2>3. CASE Cardinality(U) = 1
    <3>1. d = f
      BY <1>2, <2>3 DEF NextHops
    <3> QED
      BY <1>2, <2>1, <3>1
  <2>4. CASE Cardinality(U) # 1
    <3>1. PICK rand \in 0..WeightSum(dests) :
             d = LET ends == {i \in First(dests)..Len(dests) : Reaches(dests, i, rand)} IN
                 IF ends = {} THEN 0 ELSE Min(ends)
      BY <1>2, <2>4 DEF NextHops
    <3>2. d \in SamePriority(dests)
      BY <1>2, <3>1, WalkEnds
    <3>3. d \in DOMAIN dests /\ dests[d].priority = dests[f].priority
      BY <2>2, <3>2
    <3>4. Cardinality({e \in Usable(dests) : dests[e].priority = dests[d].priority}) > 1
      <4>1. {e \in Usable(dests) : dests[e].priority = dests[d].priority} = U
        BY <2>2, <3>3
      <4>2. \A n \in Nat \ {0} : n # 1 => n > 1
        OBVIOUS
      <4>3. Cardinality(U) > 1
        BY <2>2, <2>4, <4>2
      <4> QED
        BY <4>1, <4>3
    <3> QED
      BY <1>2, <2>1, <3>3, <3>4
  <2> QED
    BY <2>3, <2>4
<1> QED
  BY <1>1, <1>2

-----------------------------------------------------------------------------
\* The list of records.
LEMMA RecordIs ==
    ASSUME ListOk(list), NEW name
    PROVE  /\ RecordOf(name) # 0 =>
                 /\ RecordOf(name) \in DOMAIN list /\ list[RecordOf(name)].name = name
                 /\ \A j \in 1..(RecordOf(name) - 1) : list[j].name # name
           /\ RecordOf(name) = 0 => \A j \in DOMAIN list : list[j].name # name
<1> DEFINE recs == {i \in DOMAIN list : list[i].name = name}
           r == Min(recs)
<1>1. DOMAIN list = 1..Len(list) /\ Len(list) \in Nat
  BY DEF ListOk
<1>2. RecordOf(name) = IF recs = {} THEN 0 ELSE r
  BY DEF RecordOf
<1>3. CASE recs = {}
  BY <1>2, <1>3
<1>4. CASE recs # {}
  <2>1. recs \in SUBSET Nat
    BY <1>1
  <2>2. r \in recs /\ \A m \in recs : r <= m
    <3> HIDE DEF recs
    <3> QED
      BY <1>4, <2>1, MinIs
  <2> HIDE DEF r
  <2>3. r \in DOMAIN list /\ list[r].name = name /\ r # 0
    BY <1>1, <2>2
  <2>4. \A j \in 1..(r - 1) : list[j].name # name
    <3> TAKE j \in 1..(r - 1)
    <3>1. j \in DOMAIN list /\ ~(r <= j)
      BY <1>1, <2>3
    <3> QED
      BY <2>2, <3>1
  <2> QED
    BY <1>2, <1>4, <2>3, <2>4
<1> QED
  BY <1>3, <1>4

LEMMA PositionIs ==
    ASSUME ListOk(list), NEW i \in DOMAIN list, NEW addr
    PROVE  /\ Position(i, addr) # 0 =>
                 /\ Position(i, addr) \in DOMAIN list[i].dests
                 /\ list[i].dests[Position(i, addr)].addr = addr
                 /\ \A e \in 1..(Position(i, addr) - 1) : list[i].dests[e].addr # addr
           /\ Position(i, addr) = 0 => \A e \in DOMAIN list[i].dests : list[i].dests[e].addr # addr
<1> DEFINE dests == list[i].dests
           at == {d \in DOMAIN dests : dests[d].addr = addr}
           p == Min(at)
<1>1. DOMAIN dests = 1..Len(dests) /\ Len(dests) \in Nat
  BY DEF ListOk, RecType
<1>2. Position(i, addr) = IF at = {} THEN 0 ELSE p
  BY DEF Position
<1> HIDE DEF dests
<1>3. CASE at = {}
  BY <1>2, <1>3 DEF dests
<1>4. CASE at # {}
  <2>1. at \in SUBSET Nat
    BY <1>1
  <2>2. p \in at /\ \A m \in at : p <= m
    <3> HIDE DEF at
    <3> QED
      BY <1>4, <2>1, MinIs
  <2> HIDE DEF p
  <2>3. p \in DOMAIN dests /\ dests[p].addr = addr /\ p # 0
    BY <1>1, <2>2
  <2>4. \A j \in 1..(p - 1) : dests[j].addr # addr
    <3> TAKE j \in 1..(p - 1)
    <3>1. j \in DOMAIN dests /\ ~(p <= j)
      BY <1>1, <2>3
    <3> QED
      BY <2>2, <3>1
  <2> QED
    BY <1>2, <1>4, <2>3, <2>4 DEF dests
<1> QED
  BY <1>3, <1>4

\* The records that are left.
LEMMA RemovedIs ==
    ASSUME NEW l \in Seq(RecType), NEW i \in DOMAIN l
    PROVE  /\ Removed(l, i) \in Seq(RecType) /\ DOMAIN Removed(l, i) = 1..(Len(l) - 1)
           /\ \A k \in 1..(Len(l) - 1) : Removed(l, i)[k] = IF k < i THEN l[k] ELSE l[k + 1]
<1> DEFINE r == Removed(l, i)
           s == SubSeq(l, 1, i - 1)
           t == SubSeq(l, i + 1, Len(l))
<1>1. DOMAIN l = 1..Len(l) /\ Len(l) \in Nat /\ i \in 1..Len(l)
  OBVIOUS
<1>2. /\ s \in Seq(RecType) /\ Len(s) = i - 1 /\ \A k \in 1..(i - 1) : s[k] = l[k]
      /\ t \in Seq(RecType) /\ Len(t) = Len(l) - i /\ \A k \in 1..(Len(l) - i) : t[k] = l[k + i]
  <2>1. /\ s \in Seq(RecType) /\ Len(s) = i - 1 /\ \A k \in 1..(i - 1) : s[k] = l[k]
    BY <1>1
  <2>2. /\ t \in Seq(RecType) /\ Len(t) = Len(l) - i /\ \A k \in 1..(Len(l) - i) : t[k] = l[k + i]
    BY <1>1
  <2> QED
    BY <2>1, <2>2
<1>3. r = s \o t
  BY DEF Removed
<1> HIDE DEF s, t, r
<1>4. /\ r \in Seq(RecType) /\ Len(r) = Len(l) - 1
      /\ \A k \in 1..(Len(l) - 1) : r[k] = IF k <= i - 1 THEN s[k] ELSE t[k - (i - 1)]
  <2>1. /\ s \o t \in Seq(RecType) /\ Len(s \o t) = Len(s) + Len(t)
        /\ \A k \in 1..(Len(s) + Len(t)) : (s \o t)[k] = IF k <= Len(s) THEN s[k] ELSE t[k - Len(s)]
    BY <1>2, ConcatProperties
  <2>2. Len(s) + Len(t) = Len(l) - 1
    BY <1>1, <1>2
  <2> QED
    BY <1>2, <1>3, <2>1, <2>2
<1>5. \A k \in 1..(Len(l) - 1) : r[k] = IF k < i THEN l[k] ELSE l[k + 1]
  <2> TAKE k \in 1..(Len(l) - 1)
  <2>1. CASE k < i
    BY <1>1, <1>2, <1>4, <2>1
  <2>2. CASE ~(k < i)
    <3>1. k - (i - 1) \in 1..(Len(l) - i) /\ (k - (i - 1)) + i = k + 1
      BY <1>1, <2>2
    <3>2. r[k] = t[k - (i - 1)]
      BY <1>1, <1>4, <2>2
    <3> QED
      BY <1>2, <2>2, <3>1, <3>2
  <2> QED
    BY <2>1, <2>2
<1> QED
  BY <1>4, <1>5 DEF r

LEMMA RemovedOk ==
    ASSUME NEW l, ListOk(l), NEW i \in DOMAIN l
    PROVE  ListOk(Removed(l, i))
<1> DEFINE r == Removed(l, i)
<1>1. l \in Seq(RecType) /\ DOMAIN l = 1..Len(l) /\ Len(l) \in Nat
  BY DEF ListOk
<1>2. /\ r \in Seq(RecType) /\ DOMAIN r = 1..(Len(l) - 1)
      /\ \A k \in 1..(Len(l) - 1) : r[k] = IF k < i THEN l[k] ELSE l[k + 1]
  BY <1>1, RemovedIs
<1> HIDE DEF r
<1>3. ASSUME NEW k \in DOMAIN r PROVE RecOk(r[k])
  <2>1. \E j \in DOMAIN l : r[k] = l[j]
    BY <1>1, <1>2
  <2> QED
    BY <2>1 DEF ListOk
<1>4. ASSUME NEW k \in DOMAIN r, ~Untimed(r[k].dests), NEW j \in 1..(k - 1)
      PROVE  r[j].name # r[k].name
  <2> DEFINE old(n) == IF n < i THEN n ELSE n + 1
  <2>1. j \in 1..(Len(l) - 1) /\ k \in 1..(Len(l) - 1)
    BY <1>1, <1>2
  <2>2. r[j] = l[old(j)] /\ r[k] = l[old(k)]
    BY <1>2, <2>1
  <2>3. old(k) \in DOMAIN l /\ old(j) \in 1..(old(k) - 1)
    BY <1>1, <2>1
  <2>4. ~Untimed(l[old(k)].dests)
    BY <1>4, <2>2
  <2>5. l[old(j)].name # l[old(k)].name
    BY <2>3, <2>4 DEF ListOk, FirstTimed
  <2> QED
    BY <2>2, <2>5
<1> QED
  BY <1>2, <1>3, <1>4 DEF ListOk, FirstTimed, r

\* A record is changed, but for its name.
LEMMA ChangedOk ==
    ASSUME NEW l, ListOk(l), NEW i \in DOMAIN l, NEW r \in RecType, RecOk(r), r.name = l[i].name,
           ~Untimed(r.dests) => \A j \in 1..(i - 1) : l[j].name # r.name
    PROVE  ListOk([l EXCEPT ![i] = r])
<1> DEFINE n == [l EXCEPT ![i] = r]
<1>1. l \in Seq(RecType) /\ DOMAIN l = 1..Len(l) /\ Len(l) \in Nat
  BY DEF ListOk
<1>2. n \in Seq(RecType)
  BY <1>1, ExceptSeq
<1>3. DOMAIN n = DOMAIN l /\ n[i] = r /\ \A k \in DOMAIN l : k # i => n[k] = l[k]
  OBVIOUS
<1>4. \A k \in DOMAIN l : n[k].name = l[k].name
  BY <1>3
<1> HIDE DEF n
<1>5. \A k \in DOMAIN n : RecOk(n[k])
  BY <1>3 DEF ListOk
<1>6. ASSUME NEW k \in DOMAIN n, ~Untimed(n[k].dests), NEW j \in 1..(k - 1)
      PROVE  n[j].name # n[k].name
  <2>1. j \in DOMAIN l /\ k \in DOMAIN l
    BY <1>1, <1>3
  <2>2. CASE k = i
    BY <1>3, <1>4, <1>6, <2>1, <2>2
  <2>3. CASE k # i
    BY <1>3, <1>4, <1>6, <2>1, <2>3 DEF ListOk, FirstTimed
  <2> QED
    BY <2>2, <2>3
<1> QED
  BY <1>2, <1>5, <1>6 DEF ListOk, FirstTimed, n

\* A record is added whose timers do not run.
LEMMA AddedOk ==
    ASSUME NEW l, ListOk(l), NEW r \in RecType, RecOk(r), Untimed(r.dests)
    PROVE  ListOk(Append(l, r)) /\ Len(Append(l, r)) \in DOMAIN Append(l, r)
<1> DEFINE n == Append(l, r)
<1>1. l \in Seq(RecType) /\ DOMAIN l = 1..Len(l) /\ Len(l) \in Nat
  BY DEF ListOk
<1>2. /\ n \in Seq(RecType) /\ Len(n) = Len(l) + 1 /\ DOMAIN n = 1..(Len(l) + 1)
      /\ n[Len(l) + 1] = r /\ \A k \in 1..Len(l) : n[k] = l[k]
  BY <1>1
<1> HIDE DEF n
<1>3. \A k \in DOMAIN n : RecOk(n[k])
  BY <1>1, <1>2 DEF ListOk
<1>4. ASSUME NEW k \in DOMAIN n, ~Untimed(n[k].dests), NEW j \in 1..(k - 1)
      PROVE  n[j].name # n[k].name
  <2>1. k \in 1..Len(l) /\ j \in 1..Len(l)
    BY <1>1, <1>2, <1>4
  <2> QED
    BY <1>1, <1>2, <1>4, <2>1 DEF ListOk, FirstTimed
<1> QED
  BY <1>1, <1>2, <1>3, <1>4 DEF ListOk, FirstTimed, n

\* One destination is changed, in its quarantine only.
LEMMA DestChangedOk ==
    ASSUME NEW l, ListOk(l), NEW i \in DOMAIN l, NEW d \in DOMAIN l[i].dests,
           NEW q \in BOOLEAN, NEW t \in BOOLEAN,
           t => /\ q
                /\ \A e \in 1..(d - 1) : l[i].dests[e].addr # l[i].dests[d].addr
                /\ \A j \in 1..(i - 1) : l[j].name # l[i].name
    PROVE  ListOk([l EXCEPT ![i].dests[d].quarantined = q, ![i].dests[d].qTimer = t])
<1> DEFINE dests == l[i].dests
           new == [dests[d] EXCEPT !.quarantined = q, !.qTimer = t]
           after == [dests EXCEPT ![d] = new]
           r == [l[i] EXCEPT !.dests = after]
<1>1. l[i] \in RecType /\ RecOk(l[i]) /\ dests \in Seq(DestType) /\ DOMAIN dests = 1..Len(dests)
      /\ Len(dests) \in Nat
  <2>1. l[i] \in RecType /\ RecOk(l[i])
    BY DEF ListOk
  <2>2. dests \in Seq(DestType)
    BY <2>1 DEF RecType
  <2> QED
    BY <2>1, <2>2
<1>2. dests[d] \in DestType
  BY <1>1
<1>3. /\ new \in DestType /\ new.addr = dests[d].addr
      /\ new.priority = dests[d].priority /\ new.weight = dests[d].weight
      /\ new.quarantined = q /\ new.qTimer = t
  BY <1>2 DEF DestType
<1>4. after \in Seq(DestType)
  <2> HIDE DEF new
  <2> QED
    BY <1>1, <1>3, ExceptSeq
<1>5. r \in RecType /\ r.name = l[i].name /\ r.ka = l[i].ka /\ r.dests = after
  <2> HIDE DEF after
  <2> QED
    BY <1>1, <1>4 DEF RecType
<1>6. [l EXCEPT ![i].dests[d].quarantined = q, ![i].dests[d].qTimer = t] = [l EXCEPT ![i] = r]
  OBVIOUS
<1>7. /\ DOMAIN after = DOMAIN dests /\ after[d] = new
      /\ \A k \in DOMAIN dests : k # d => after[k] = dests[k]
      /\ \A k \in DOMAIN dests : /\ after[k].addr = dests[k].addr
                                /\ after[k].priority = dests[k].priority
                                /\ after[k].weight = dests[k].weight
  <2> HIDE DEF new
  <2> QED
    BY <1>3
<1> HIDE DEF after, new, r
<1>8. \A k \in DOMAIN dests : \A e \in 1..(k - 1) : e \in DOMAIN dests
  BY <1>1
<1>9. RecOk(r)
  <2>1. Ordered(after)
    BY <1>1, <1>7, <1>8 DEF RecOk, Ordered, Behind
  <2>2. ASSUME NEW k \in DOMAIN after, after[k].qTimer
        PROVE  after[k].quarantined /\ \A e \in 1..(k - 1) : after[e].addr # after[k].addr
    <3>1. CASE k = d
      BY <1>3, <1>7, <1>8, <2>2, <3>1
    <3>2. CASE k # d
      BY <1>1, <1>7, <1>8, <2>2, <3>2 DEF RecOk
    <3> QED
      BY <3>1, <3>2
  <2>3. ~r.ka => \A k \in DOMAIN after : after[k].priority = 0 /\ after[k].weight = 0
    BY <1>1, <1>5, <1>7 DEF RecOk
  <2> QED
    BY <1>5, <2>1, <2>2, <2>3 DEF RecOk
<1>10. ASSUME ~Untimed(r.dests), NEW j \in 1..(i - 1) PROVE l[j].name # r.name
  <2>1. CASE t
    BY <1>5, <2>1
  <2>2. CASE ~t
    <3>1. ~Untimed(dests)
      BY <1>3, <1>5, <1>7, <1>10, <2>2 DEF Untimed
    <3> QED
      BY <1>5, <3>1 DEF ListOk, FirstTimed
  <2> QED
    BY <2>1, <2>2
<1> HIDE DEF dests
<1> QED
  BY <1>5, <1>6, <1>9, <1>10, ChangedOk

-----------------------------------------------------------------------------
\* The actions.
LEMMA ReturnsOk ==
    ASSUME NEW l, NEW i \in DOMAIN l, Returns(l, i)
    PROVE  HopOk(l, hop')
<1>1. PICK d \in NextHops(l[i].dests) : hop' = [rec |-> i, dest |-> d, found |-> d # 0]
  BY DEF Returns
<1> QED
  BY <1>1 DEF HopOk

LEMMA Initial == Init => IInv
<1>1. <<>> \in Seq(RecType) /\ DOMAIN <<>> = {}
  OBVIOUS
<1> QED
  BY <1>1 DEF Init, IInv, ListOk, FirstTimed, HopOk

LEMMA KeptAnswerOk == ASSUME IInv, NEW a \in Answers, KeptAnswer(a) PROVE IInv'
<1> DEFINE i == RecordOf(a.name)
<1>1. ListOk(list) /\ i \in DOMAIN list
  BY RecordIs DEF IInv, KeptAnswer
<1>2. CASE a.noError
  <2>1. Returns(list, i) /\ list' = list
    BY <1>2 DEF KeptAnswer
  <2> HIDE DEF i
  <2>2. HopOk(list, hop')
    BY <1>1, <2>1, ReturnsOk
  <2> QED
    BY <1>1, <2>1, <2>2 DEF IInv
<1>3. CASE ~a.noError
  <2>1. list' = Removed(list, i) /\ hop' = NotAsked
    BY <1>3 DEF KeptAnswer
  <2> HIDE DEF i
  <2>2. ListOk(list')
    BY <1>1, <2>1, RemovedOk
  <2> QED
    BY <2>1, <2>2 DEF IInv, HopOk
<1> QED
  BY <1>2, <1>3

LEMMA NewAnswerOk == ASSUME IInv, NEW a \in Answers, NewAnswer(a) PROVE IInv'
<1>1. ListOk(list)
  BY DEF IInv
<1>2. CASE ~a.noError
  BY <1>2 DEF NewAnswer, IInv, HopOk
<1>3. CASE a.noError
  <2>1. PICK wild \in SUBSET (1..Size(a)) :
           list' = Append(list, [name |-> a.name, ka |-> TRUE, dests |-> Dests(a, wild)])
    BY <1>3 DEF NewAnswer
  <2> DEFINE dests == Dests(a, wild)
             r == [name |-> a.name, ka |-> TRUE, dests |-> dests]
  <2>2. dests \in Seq(DestType) /\ Ordered(dests) /\ Untimed(dests)
    BY DestsOk DEF Fresh
  <2> HIDE DEF dests
  <2>3. r \in RecType /\ r.dests = dests /\ r.ka
    BY <2>2, AnswerIs DEF RecType
  <2>4. RecOk(r) /\ Untimed(r.dests)
    BY <2>2, <2>3 DEF RecOk, Untimed
  <2>5. list' = Append(list, r)
    BY <2>1 DEF dests
  <2> HIDE DEF r
  <2>6. ListOk(list') /\ Len(list') \in DOMAIN list'
    BY <1>1, <2>3, <2>4, <2>5, AddedOk
  <2>7. Returns(list', Len(list'))
    BY <1>3 DEF NewAnswer
  <2>8. HopOk(list', hop')
    BY <2>6, <2>7, ReturnsOk
  <2> QED
    BY <2>6, <2>8 DEF IInv
<1> QED
  BY <1>2, <1>3

\* What a failure makes of the list: its destination, the first with the address in
\* the first record of the name, is quarantined and timed.
LEMMA QuarantinedOk ==
    ASSUME ListOk(list), NEW name, RecordOf(name) # 0, NEW addr
    PROVE  /\ ListOk(Quarantined(RecordOf(name), addr))
           /\ RecordOf(name) \in DOMAIN Quarantined(RecordOf(name), addr)
<1> DEFINE i == RecordOf(name)
           d == Position(i, addr)
<1>1. i \in DOMAIN list /\ list[i].name = name /\ \A j \in 1..(i - 1) : list[j].name # name
  BY RecordIs
<1> HIDE DEF i
<1>2. d # 0 => /\ d \in DOMAIN list[i].dests /\ list[i].dests[d].addr = addr
               /\ \A e \in 1..(d - 1) : list[i].dests[e].addr # addr
  BY <1>1, PositionIs
<1> HIDE DEF d
<1>3. CASE d = 0 \/ (d # 0 /\ list[i].dests[d].quarantined)
  BY <1>1, <1>3 DEF Quarantined, i, d
<1>4. CASE ~(d = 0 \/ (d # 0 /\ list[i].dests[d].quarantined))
  <2>1. Quarantined(i, addr) =
           [list EXCEPT ![i].dests[d].quarantined = TRUE, ![i].dests[d].qTimer = TRUE]
    BY <1>4 DEF Quarantined, d
  <2>2. ListOk([list EXCEPT ![i].dests[d].quarantined = TRUE, ![i].dests[d].qTimer = TRUE])
    BY <1>1, <1>2, <1>4, DestChangedOk
  <2>3. DOMAIN Quarantined(i, addr) = DOMAIN list
    BY <2>1
  <2> QED
    BY <1>1, <2>1, <2>2, <2>3 DEF i
<1> QED
  BY <1>3, <1>4

LEMMA SetDestFailureOk ==
    ASSUME IInv, NEW name, NEW addr, SetDestFailure(name, addr) PROVE IInv'
<1>1. ListOk(list')
  BY QuarantinedOk DEF IInv, SetDestFailure
<1> QED
  BY <1>1 DEF IInv, HopOk, SetDestFailure

LEMMA ReplaceDestOk ==
    ASSUME IInv, NEW name, NEW addr, ReplaceDest(name, addr) PROVE IInv'
<1> DEFINE i == RecordOf(name)
<1>1. ListOk(list') /\ i \in DOMAIN list' /\ Returns(list', i)
  BY QuarantinedOk DEF IInv, ReplaceDest
<1> HIDE DEF i
<1>2. HopOk(list', hop')
  BY <1>1, ReturnsOk
<1> QED
  BY <1>1, <1>2 DEF IInv

LEMMA ByNameOk == ASSUME IInv, NEW name, GetBestNextHopByName(name) PROVE IInv'
<1> DEFINE i == RecordOf(name)
<1>1. ListOk(list) /\ i \in DOMAIN list /\ Returns(list, i) /\ list' = list
  BY RecordIs DEF IInv, GetBestNextHopByName
<1> HIDE DEF i
<1>2. HopOk(list, hop')
  BY <1>1, ReturnsOk
<1> QED
  BY <1>1, <1>2 DEF IInv

LEMMA LocalSetOk == ASSUME IInv, NEW c \in Local, LocalSet(c) PROVE IInv'
<1> DEFINE d == Dest(c.addr, "ANY", 0, 0, FALSE)
           i == IF RecordOf(c.name) # 0 THEN RecordOf(c.name) ELSE Len(list)
<1>1. ListOk(list) /\ list \in Seq(RecType)
  BY DEF IInv, ListOk
<1>2. d \in DestType /\ d.priority = 0 /\ d.weight = 0 /\ ~d.qTimer
  BY DEF Dest, DestType, Addrs, TpTypes
<1>3. c.name \in Names
  BY DestAssumption
<1>4. \A r \in DOMAIN list : ~list[r].ka
  BY DEF LocalSet
<1>5. CASE list = <<>>
  <2> DEFINE r == [name |-> c.name, ka |-> FALSE, dests |-> <<d>>]
  <2>1. <<d>> \in Seq(DestType) /\ DOMAIN <<d>> = {1} /\ <<d>>[1] = d
    <3> HIDE DEF d
    <3> QED
      BY <1>2
  <2>2. r \in RecType /\ r.dests = <<d>> /\ ~r.ka
    <3> HIDE DEF d
    <3> QED
      BY <1>3, <2>1 DEF RecType
  <2>3. list' = <<r>>
    BY <1>5 DEF LocalSet
  <2> HIDE DEF r, d
  <2>4. RecOk(r) /\ Untimed(r.dests)
    BY <1>2, <2>1, <2>2 DEF RecOk, Ordered, Untimed
  <2>5. <<r>> \in Seq(RecType) /\ DOMAIN <<r>> = {1} /\ <<r>>[1] = r
    BY <2>2
  <2>6. ListOk(<<r>>)
    BY <2>4, <2>5 DEF ListOk, FirstTimed
  <2> QED
    BY <2>3, <2>6 DEF IInv, HopOk, LocalSet
<1>6. CASE list # <<>>
  <2> DEFINE dests == list[i].dests
             after == Append(dests, d)
             r == [list[i] EXCEPT !.dests = after]
  <2>1. i \in DOMAIN list
    <3>1. Len(list) \in DOMAIN list
      BY <1>1, <1>6
    <3> QED
      BY <1>1, <3>1, RecordIs
  <2>2. list' = [list EXCEPT ![i] = r]
    BY <1>6 DEF LocalSet
  <2> HIDE DEF i
  <2>3. list[i] \in RecType /\ RecOk(list[i]) /\ ~list[i].ka
    BY <1>1, <1>4, <2>1 DEF ListOk
  <2>4. dests \in Seq(DestType)
    BY <2>3 DEF RecType
  <2> HIDE DEF dests, d
  <2>5. /\ after \in Seq(DestType) /\ DOMAIN dests = 1..Len(dests) /\ Len(dests) \in Nat
        /\ DOMAIN after = 1..(Len(dests) + 1)
        /\ after[Len(dests) + 1] = d /\ \A k \in 1..Len(dests) : after[k] = dests[k]
    BY <1>2, <2>4
  <2> HIDE DEF after
  <2>6. r \in RecType /\ r.name = list[i].name /\ ~r.ka /\ r.dests = after
    BY <2>3, <2>5 DEF RecType
  <2>7. \A k \in DOMAIN dests : dests[k].priority = 0 /\ dests[k].weight = 0
    BY <2>3 DEF RecOk, dests
  <2>8. \A k \in DOMAIN after : after[k].priority = 0 /\ after[k].weight = 0
    BY <1>2, <2>5, <2>7
  <2>9. Ordered(after)
    <3>1. \A k \in DOMAIN after : \A e \in 1..(k - 1) : e \in DOMAIN after
      BY <2>5
    <3> QED
      BY <2>8, <3>1 DEF Ordered, Behind
  <2>10. \A k \in DOMAIN after : after[k].qTimer => k \in DOMAIN dests /\ after[k] = dests[k]
    BY <1>2, <2>5
  <2>11. ASSUME NEW k \in DOMAIN after, after[k].qTimer
         PROVE  after[k].quarantined /\ \A e \in 1..(k - 1) : after[e].addr # after[k].addr
    <3>1. k \in DOMAIN dests /\ after[k] = dests[k] /\ \A e \in 1..(k - 1) : after[e] = dests[e]
      BY <2>5, <2>10, <2>11
    <3>2. dests[k].quarantined /\ \A e \in 1..(k - 1) : dests[e].addr # dests[k].addr
      BY <2>3, <2>11, <3>1 DEF RecOk, dests
    <3> QED
      BY <3>1, <3>2
  <2> HIDE DEF r
  <2>12. RecOk(r)
    BY <2>6, <2>8, <2>9, <2>11 DEF RecOk
  <2>13. ~Untimed(r.dests) => \A j \in 1..(i - 1) : list[j].name # r.name
    <3>1. ~Untimed(after) => ~Untimed(dests)
      BY <2>10 DEF Untimed
    <3> QED
      BY <1>1, <2>1, <2>6, <3>1 DEF ListOk, FirstTimed, dests
  <2>14. ListOk(list')
    BY <1>1, <2>1, <2>2, <2>6, <2>12, <2>13, ChangedOk
  <2> QED
    BY <2>14 DEF IInv, HopOk, LocalSet
<1> QED
  BY <1>5, <1>6

LEMMA OnQTimeoutOk ==
    ASSUME IInv, NEW i \in DOMAIN list, NEW d \in DOMAIN list[i].dests, OnQTimeout(i, d)
    PROVE  IInv'
<1>1. ListOk(list)
  BY DEF IInv
<1>2. ListOk([list EXCEPT ![i].dests[d].quarantined = FALSE, ![i].dests[d].qTimer = FALSE])
  BY <1>1, DestChangedOk
<1> QED
  BY <1>2 DEF OnQTimeout, IInv, HopOk

LEMMA OnKATimeoutOk == ASSUME IInv, NEW i \in DOMAIN list, OnKATimeout(i) PROVE IInv'
<1>1. ListOk(Removed(list, i))
  BY RemovedOk DEF IInv
<1> QED
  BY <1>1 DEF OnKATimeout, IInv, HopOk

LEMMA NextOk == IInv /\ [Next]_vars => IInv'
<1> SUFFICES ASSUME IInv, [Next]_vars PROVE IInv'
  OBVIOUS
<1>1. ASSUME NEW a \in Answers, NEW b \in BOOLEAN, GetBestNextHop(a, b) PROVE IInv'
  BY <1>1, KeptAnswerOk, NewAnswerOk DEF GetBestNextHop
<1>2. ASSUME NEW name \in Names, NEW addr \in Tried, SetDestFailure(name, addr) PROVE IInv'
  BY <1>2, SetDestFailureOk
<1>3. ASSUME NEW name \in Names, GetBestNextHopByName(name) PROVE IInv'
  BY <1>3, ByNameOk
<1>4. ASSUME NEW name \in Names, NEW addr \in Tried, ReplaceDest(name, addr) PROVE IInv'
  BY <1>4, ReplaceDestOk
<1>5. ASSUME NEW c \in Local, LocalSet(c) PROVE IInv'
  BY <1>5, LocalSetOk
<1>6. ASSUME NEW i \in DOMAIN list, OnKATimeout(i) PROVE IInv'
  BY <1>6, OnKATimeoutOk
<1>7. ASSUME NEW i \in DOMAIN list, NEW d \in DOMAIN list[i].dests, OnQTimeout(i, d) PROVE IInv'
  BY <1>7, OnQTimeoutOk
<1>8. CASE UNCHANGED vars
  BY <1>8 DEF vars, IInv
<1> QED
  BY <1>1, <1>2, <1>3, <1>4, <1>5, <1>6, <1>7, <1>8 DEF Next

-----------------------------------------------------------------------------
\* The manager keeps its list in order, its timers on destinations that are
\* quarantined, and returns what the list has (sipTUDestMgr.c).
THEOREM Invariance == Spec => []IInv
<1>1. Init => IInv
  BY Initial
<1>2. IInv /\ [Next]_vars => IInv'
  BY NextOk
<1> QED
  BY <1>1, <1>2, PTL DEF Spec

\* The next hop that was returned, if one was asked for.
LEMMA HopIs ==
    ASSUME IInv, hop.rec # 0
    PROVE  /\ hop.rec \in DOMAIN list /\ hop.found = (hop.dest # 0)
           /\ hop = [rec |-> hop.rec, dest |-> hop.dest, found |-> hop.dest # 0]
           /\ hop.dest \in NextHops(Asked)
           /\ Asked \in Seq(DestType) /\ Ordered(Asked)
<1>1. hop # NotAsked
  BY DEF NotAsked
<1>2. /\ hop.rec \in DOMAIN list /\ hop.dest \in NextHops(list[hop.rec].dests)
      /\ hop = [rec |-> hop.rec, dest |-> hop.dest, found |-> hop.dest # 0]
  BY <1>1 DEF IInv, HopOk
<1>3. list[hop.rec] \in RecType /\ RecOk(list[hop.rec])
  BY <1>2 DEF IInv, ListOk
<1>4. hop.found = (hop.dest # 0)
  BY <1>2
<1> QED
  BY <1>2, <1>3, <1>4 DEF Asked, RecType, RecOk

LEMMA TypesOk == ASSUME IInv PROVE TypeOK
<1>1. list \in Seq(RecType) /\ DOMAIN list = 1..Len(list) /\ Len(list) \in Nat
  BY DEF IInv, ListOk
<1>2. hop \in [rec : Nat, dest : Nat, found : BOOLEAN] /\ hop.rec \in 0..Len(list)
  <2>1. CASE hop = NotAsked
    BY <1>1, <2>1 DEF NotAsked
  <2>2. CASE hop # NotAsked
    <3>1. /\ hop.rec \in DOMAIN list /\ hop = [rec |-> hop.rec, dest |-> hop.dest, found |-> hop.dest # 0]
      BY <2>2 DEF IInv, HopOk
    <3>2. hop.rec # 0
      BY <1>1, <3>1
    <3>3. hop.dest \in 0..Len(Asked) /\ Len(Asked) \in Nat
      <4>1. hop.dest \in NextHops(Asked) /\ Asked \in Seq(DestType) /\ Ordered(Asked)
        BY <3>2, HopIs
      <4>2. Len(Asked) \in Nat
        BY <4>1
      <4> QED
        BY <4>1, <4>2, NextHopsOk
    <3>4. hop.dest \in Nat /\ hop.rec \in Nat
      BY <1>1, <3>1, <3>3
    <3>5. \A r, d \in Nat, b \in BOOLEAN :
             [rec |-> r, dest |-> d, found |-> b] \in [rec : Nat, dest : Nat, found : BOOLEAN]
      OBVIOUS
    <3>6. hop \in [rec : Nat, dest : Nat, found : BOOLEAN]
      BY <3>1, <3>4, <3>5
    <3>7. hop.rec \in 0..Len(list)
      BY <1>1, <3>1
    <3> QED
      BY <3>6, <3>7
  <2> QED
    BY <2>1, <2>2
<1>3. ASSUME NEW i \in DOMAIN list
      PROVE  /\ list[i].name \in Names /\ list[i].ka \in BOOLEAN
             /\ \A d \in DOMAIN list[i].dests :
                   LET dest == list[i].dests[d] IN
                   /\ dest.quarantined \in BOOLEAN /\ dest.qTimer \in BOOLEAN
                   /\ dest.qTimer => dest.quarantined
                   /\ \A e \in 1..(d - 1) :
                         \/ list[i].dests[e].priority < dest.priority
                         \/ /\ list[i].dests[e].priority = dest.priority
                            /\ list[i].dests[e].weight <= dest.weight
  <2> DEFINE dests == list[i].dests
  <2>1. list[i] \in RecType /\ RecOk(list[i])
    BY DEF IInv, ListOk
  <2>2. dests \in Seq(DestType) /\ Ordered(dests)
    BY <2>1 DEF RecType, RecOk
  <2>3. \A d \in DOMAIN dests : dests[d].qTimer => dests[d].quarantined
    BY <2>1 DEF RecOk
  <2>4. list[i].name \in Names /\ list[i].ka \in BOOLEAN
    BY <2>1 DEF RecType
  <2> HIDE DEF dests
  <2>5. /\ DOMAIN dests = 1..Len(dests) /\ Len(dests) \in Nat
        /\ \A d \in DOMAIN dests : dests[d] \in DestType
    BY <2>2
  <2>6. ASSUME NEW d \in DOMAIN dests, NEW e \in 1..(d - 1)
        PROVE  \/ dests[e].priority < dests[d].priority
               \/ dests[e].priority = dests[d].priority /\ dests[e].weight <= dests[d].weight
    <3>1. e \in DOMAIN dests /\ ~Behind(dests[e], dests[d])
      BY <2>2, <2>5 DEF Ordered
    <3>2. dests[e] \in DestType /\ dests[d] \in DestType
      BY <2>5, <3>1
    <3> QED
      BY <3>1, <3>2 DEF Behind, DestType
  <2>7. \A d \in DOMAIN dests : dests[d].quarantined \in BOOLEAN /\ dests[d].qTimer \in BOOLEAN
    BY <2>5 DEF DestType
  <2> QED
    BY <2>3, <2>4, <2>6, <2>7 DEF dests
<1> QED
  BY <1>2, <1>3 DEF TypeOK

\* A next hop is found exactly when a destination of the record may be used: the walk
\* over weights always ends at one (sipTuDest_getNextHop, sipTUDestMgr.c:832).
THEOREM FoundWhenUsable == Spec => []FoundIffUsable
<1>1. IInv => FoundIffUsable
  BY TypesOk, HopIs, NextHopsOk DEF FoundIffUsable
<1> QED
  BY <1>1, Invariance, PTL

\* It is of the best priority that may be used, and one that is quarantined only if
\* there is a choice (sipTuDest_getSamePriorityNum).
THEOREM BestIsUsed == Spec => []BestPriority
<1>1. IInv => BestPriority
  <2> SUFFICES ASSUME IInv, hop.found PROVE BestPriority
    BY DEF BestPriority
  <2>1. hop.rec # 0
    <3>1. hop # NotAsked
      BY DEF NotAsked
    <3>2. hop.rec \in DOMAIN list /\ DOMAIN list = 1..Len(list)
      BY <3>1 DEF IInv, HopOk, ListOk
    <3> QED
      BY <3>2
  <2>2. hop.dest # 0 /\ hop.dest \in NextHops(Asked) /\ Asked \in Seq(DestType) /\ Ordered(Asked)
    BY <2>1, HopIs
  <2> DEFINE dests == Asked
  <2> HIDE DEF dests
  <2>3. /\ \A e \in Usable(Asked) : Asked[hop.dest].priority <= Asked[e].priority
        /\ Asked[hop.dest].quarantined =>
              Cardinality({e \in Usable(Asked) : Asked[e].priority = Asked[hop.dest].priority}) > 1
    BY <2>2, NextHopsOk
  <2> QED
    BY <2>3 DEF BestPriority
<1> QED
  BY <1>1, Invariance, PTL

\* A destination whose quarantine has a timer is the one that everybody finds who asks
\* about it: answers that come later add their records behind it (sipTuDest_getDestRec,
\* sipTuDest_isQuarantined).
THEOREM QuarantineSeen == Spec => []QuarantineIsSeen
<1>1. IInv => QuarantineIsSeen
  <2> SUFFICES ASSUME IInv, NEW i \in DOMAIN list, NEW d \in DOMAIN list[i].dests,
                      list[i].dests[d].qTimer
               PROVE  IsQuarantined(list[i].name, list[i].dests[d].addr)
    BY DEF QuarantineIsSeen
  <2> DEFINE name == list[i].name
             addr == list[i].dests[d].addr
             recs == {j \in DOMAIN list : list[j].name = name /\ Position(j, addr) # 0}
  <2>1. ListOk(list) /\ DOMAIN list = 1..Len(list) /\ Len(list) \in Nat
        /\ list[i] \in RecType /\ RecOk(list[i])
    BY DEF IInv, ListOk
  <2>2. \A j \in 1..(i - 1) : list[j].name # name
    BY <2>1 DEF ListOk, FirstTimed, Untimed
  <2>3. list[i].dests[d].quarantined /\ \A e \in 1..(d - 1) : list[i].dests[e].addr # addr
    BY <2>1 DEF RecOk
  <2>4. DOMAIN list[i].dests = 1..Len(list[i].dests) /\ Len(list[i].dests) \in Nat
    BY <2>1 DEF RecType
  <2>5. Position(i, addr) = d
    <3> DEFINE p == Position(i, addr)
    <3>1. /\ p # 0 => /\ p \in DOMAIN list[i].dests /\ list[i].dests[p].addr = addr
                      /\ \A e \in 1..(p - 1) : list[i].dests[e].addr # addr
          /\ p = 0 => \A e \in DOMAIN list[i].dests : list[i].dests[e].addr # addr
      BY <2>1, PositionIs
    <3> HIDE DEF p
    <3>2. p # 0 /\ ~(p < d) /\ ~(d < p)
      BY <2>3, <2>4, <3>1
    <3> QED
      BY <2>4, <3>1, <3>2 DEF p
  <2>6. i \in recs
    BY <2>4, <2>5
  <2>7. Min(recs) \in recs /\ Min(recs) <= i
    <3>1. recs \in SUBSET Nat
      BY <2>1
    <3> HIDE DEF recs
    <3> QED
      BY <2>6, <3>1, MinIs
  <2>8. Min(recs) = i
    BY <2>1, <2>2, <2>7
  <2> QED
    BY <2>3, <2>5, <2>8 DEF IsQuarantined
<1> QED
  BY <1>1, Invariance, PTL

-----------------------------------------------------------------------------
\* What has a timer in l has it in m, at the same place.
Carried(l, m) ==
    \A i \in DOMAIN l :
       /\ i \in DOMAIN m /\ m[i].name = l[i].name
       /\ \A d \in DOMAIN l[i].dests : l[i].dests[d].qTimer =>
             d \in DOMAIN m[i].dests /\ m[i].dests[d].addr = l[i].dests[d].addr /\ m[i].dests[d].qTimer

LEMMA CarriedIsTimed ==
    ASSUME NEW l, NEW m, Carried(l, m), NEW i \in DOMAIN l, NEW d \in DOMAIN l[i].dests,
           l[i].dests[d].qTimer
    PROVE  Timed(m, l[i].name, l[i].dests[d].addr)
BY DEF Carried, Timed

\* When a record goes, the timers of the others stay.
LEMMA OthersStay ==
    ASSUME NEW l, ListOk(l), NEW r \in DOMAIN l, NEW i \in DOMAIN l, i # r,
           NEW d \in DOMAIN l[i].dests, l[i].dests[d].qTimer
    PROVE  Timed(Removed(l, r), l[i].name, l[i].dests[d].addr)
<1> DEFINE m == Removed(l, r)
           j == IF i < r THEN i ELSE i - 1
<1>1. l \in Seq(RecType) /\ DOMAIN l = 1..Len(l) /\ Len(l) \in Nat
  BY DEF ListOk
<1>2. /\ DOMAIN m = 1..(Len(l) - 1)
      /\ \A k \in 1..(Len(l) - 1) : m[k] = IF k < r THEN l[k] ELSE l[k + 1]
  BY <1>1, RemovedIs
<1> HIDE DEF m
<1>3. j \in DOMAIN m /\ m[j] = l[i]
  BY <1>1, <1>2
<1> QED
  BY <1>3 DEF Timed, m

\* Adding a record, or a destination, and quarantining one change no timer that runs.
LEMMA AppendCarries ==
    ASSUME NEW l, ListOk(l), NEW r PROVE Carried(l, Append(l, r))
<1>1. l \in Seq(RecType) /\ DOMAIN l = 1..Len(l) /\ Len(l) \in Nat
  BY DEF ListOk
<1>2. DOMAIN Append(l, r) = 1..(Len(l) + 1) /\ \A k \in 1..Len(l) : Append(l, r)[k] = l[k]
  BY <1>1
<1> QED
  BY <1>1, <1>2 DEF Carried

LEMMA QuarantinedCarries ==
    ASSUME ListOk(list), NEW i \in DOMAIN list, NEW addr
    PROVE  Carried(list, Quarantined(i, addr))
<1> DEFINE d == Position(i, addr)
<1>1. d # 0 => d \in DOMAIN list[i].dests
  BY PositionIs
<1> HIDE DEF d
<1>2. CASE d = 0 \/ (d # 0 /\ list[i].dests[d].quarantined)
  BY <1>2 DEF Quarantined, Carried, d
<1>3. CASE ~(d = 0 \/ (d # 0 /\ list[i].dests[d].quarantined))
  <2> DEFINE old == list[i].dests
             new == [old[d] EXCEPT !.quarantined = TRUE, !.qTimer = TRUE]
             after == [old EXCEPT ![d] = new]
             m == [list EXCEPT ![i] = [@ EXCEPT !.dests = after]]
  <2>1. Quarantined(i, addr) = m
    <3>1. Quarantined(i, addr) =
             [list EXCEPT ![i].dests[d].quarantined = TRUE, ![i].dests[d].qTimer = TRUE]
      BY <1>3 DEF Quarantined, d
    <3>2. [list EXCEPT ![i].dests[d].quarantined = TRUE, ![i].dests[d].qTimer = TRUE] = m
      BY <1>1, <1>3
    <3> QED
      BY <3>1, <3>2
  <2>2. list[i] \in RecType /\ old \in Seq(DestType) /\ d \in DOMAIN old
    <3>1. list[i] \in RecType
      BY DEF ListOk
    <3> QED
      BY <1>1, <1>3, <3>1 DEF RecType
  <2>3. new.addr = old[d].addr /\ new.qTimer
    <3>1. old[d] \in DestType
      BY <2>2
    <3> QED
      BY <3>1 DEF DestType
  <2>4. /\ DOMAIN after = DOMAIN old
        /\ \A k \in DOMAIN old : /\ after[k].addr = old[k].addr
                                 /\ old[k].qTimer => after[k].qTimer
    <3> HIDE DEF new
    <3> QED
      BY <2>3
  <2>5. /\ DOMAIN m = DOMAIN list /\ m[i].name = list[i].name /\ m[i].dests = after
        /\ \A k \in DOMAIN list : k # i => m[k] = list[k]
    <3> HIDE DEF after
    <3> QED
      BY <2>2 DEF RecType
  <2> HIDE DEF after, m
  <2> QED
    BY <2>1, <2>4, <2>5 DEF Carried
<1> QED
  BY <1>2, <1>3

LEMMA LocalSetCarries ==
    ASSUME ListOk(list), NEW c \in Local, LocalSet(c) PROVE Carried(list, list')
<1> DEFINE d == Dest(c.addr, "ANY", 0, 0, FALSE)
           i == IF RecordOf(c.name) # 0 THEN RecordOf(c.name) ELSE Len(list)
<1>1. CASE list = <<>>
  BY <1>1 DEF Carried
<1>2. CASE list # <<>>
  <2> DEFINE old == list[i].dests
             after == Append(old, d)
  <2>1. i \in DOMAIN list
    <3>1. Len(list) \in DOMAIN list
      BY <1>2 DEF ListOk
    <3> QED
      BY <3>1, RecordIs
  <2>2. list' = [list EXCEPT ![i] = [@ EXCEPT !.dests = after]]
    BY <1>2 DEF LocalSet
  <2> HIDE DEF i, d
  <2>3. list[i] \in RecType /\ old \in Seq(DestType)
    <3>1. list[i] \in RecType
      BY <2>1 DEF ListOk
    <3> QED
      BY <3>1 DEF RecType
  <2>4. \A k \in DOMAIN old : k \in DOMAIN after /\ after[k] = old[k]
    <3> HIDE DEF old
    <3>1. DOMAIN old = 1..Len(old) /\ Len(old) \in Nat
      BY <2>3
    <3>2. DOMAIN after = 1..(Len(old) + 1) /\ \A k \in 1..Len(old) : after[k] = old[k]
      BY <2>3
    <3> QED
      BY <3>1, <3>2
  <2>5. /\ DOMAIN list' = DOMAIN list /\ list'[i].name = list[i].name /\ list'[i].dests = after
        /\ \A k \in DOMAIN list : k # i => list'[k] = list[k]
    <3> HIDE DEF after
    <3> QED
      BY <2>1, <2>2, <2>3 DEF RecType
  <2> HIDE DEF after
  <2> QED
    BY <2>4, <2>5 DEF Carried
<1> QED
  BY <1>1, <1>2

\* A timer that ends is that of one destination.
LEMMA OthersTimed ==
    ASSUME ListOk(list), NEW r \in DOMAIN list, NEW k \in DOMAIN list[r].dests, OnQTimeout(r, k),
           NEW i \in DOMAIN list, NEW d \in DOMAIN list[i].dests, <<i, d>> # <<r, k>>,
           list[i].dests[d].qTimer
    PROVE  Timed(list', list[i].name, list[i].dests[d].addr)
<1> DEFINE old == list[r].dests
           after == [old EXCEPT ![k] = [@ EXCEPT !.quarantined = FALSE, !.qTimer = FALSE]]
<1>1. list' = [list EXCEPT ![r] = [@ EXCEPT !.dests = after]]
  BY DEF OnQTimeout
<1>2. list[r] \in RecType
  BY DEF ListOk
<1>3. DOMAIN after = DOMAIN old /\ \A e \in DOMAIN old : e # k => after[e] = old[e]
  OBVIOUS
<1> HIDE DEF after
<1>4. /\ DOMAIN list' = DOMAIN list /\ list'[r].name = list[r].name /\ list'[r].dests = after
      /\ \A j \in DOMAIN list : j # r => list'[j] = list[j]
  BY <1>1, <1>2 DEF RecType
<1>5. list'[i].name = list[i].name /\ d \in DOMAIN list'[i].dests /\ list'[i].dests[d] = list[i].dests[d]
  <2>1. CASE i = r
    BY <1>3, <1>4, <2>1
  <2>2. CASE i # r
    BY <1>4, <2>2
  <2> QED
    BY <2>1, <2>2
<1> QED
  BY <1>4, <1>5 DEF Timed

\* A destination that was reported stays quarantined until its own timer ends, or its
\* record does, or DNS gives a new answer: no failure, question or other answer in
\* between sets it free, and <1>1 says that not even the new one does
\* (sipTuDest_onQTimeout, sipTuDest_onKATimeout, sipTu_getBestNextHop).
THEOREM QuarantineKept == Spec => QuarantineLasts
<1>1. ASSUME IInv, [Next]_vars, NEW i \in DOMAIN list, NEW d \in DOMAIN list[i].dests,
             list[i].dests[d].qTimer
      PROVE  \/ Timed(list', list[i].name, list[i].dests[d].addr)
             \/ OnQTimeout(i, d)
             \/ list' = Removed(list, i)
  <2> DEFINE Goal == \/ Timed(list', list[i].name, list[i].dests[d].addr)
                     \/ OnQTimeout(i, d)
                     \/ list' = Removed(list, i)
  <2>0. ListOk(list)
    BY <1>1 DEF IInv
  <2>1. ASSUME Carried(list, list') PROVE Goal
    BY <1>1, <2>1, CarriedIsTimed
  <2>2. ASSUME NEW r \in DOMAIN list, list' = Removed(list, r) PROVE Goal
    BY <1>1, <2>0, <2>2, OthersStay
  <2>3. ASSUME list' = list PROVE Goal
    BY <1>1, <2>3 DEF Timed
  <2> HIDE DEF Goal
  <2>4. ASSUME NEW a \in Answers, NEW b \in BOOLEAN, GetBestNextHop(a, b) PROVE Goal
    <3>1. CASE KeptAnswer(a)
      <4>1. RecordOf(a.name) \in DOMAIN list
        BY <2>0, <3>1, RecordIs DEF KeptAnswer
      <4> QED
        BY <2>2, <2>3, <3>1, <4>1 DEF KeptAnswer
    <3>2. CASE NewAnswer(a)
      <4>1. list' = list \/ \E r : list' = Append(list, r)
        BY <3>2 DEF NewAnswer
      <4> QED
        BY <2>0, <2>1, <2>3, <4>1, AppendCarries
    <3> QED
      BY <2>4, <3>1, <3>2 DEF GetBestNextHop
  <2>5. ASSUME NEW name \in Names, NEW addr \in Tried,
               SetDestFailure(name, addr) \/ ReplaceDest(name, addr)
        PROVE  Goal
    <3>1. RecordOf(name) \in DOMAIN list
      BY <2>0, <2>5, RecordIs DEF SetDestFailure, ReplaceDest
    <3>2. list' = Quarantined(RecordOf(name), addr)
      BY <2>5 DEF SetDestFailure, ReplaceDest
    <3> QED
      BY <2>0, <2>1, <3>1, <3>2, QuarantinedCarries
  <2>6. ASSUME NEW name \in Names, GetBestNextHopByName(name) PROVE Goal
    BY <2>3, <2>6 DEF GetBestNextHopByName
  <2>7. ASSUME NEW c \in Local, LocalSet(c) PROVE Goal
    BY <2>0, <2>1, <2>7, LocalSetCarries
  <2>8. ASSUME NEW r \in DOMAIN list, OnKATimeout(r) PROVE Goal
    BY <2>2, <2>8 DEF OnKATimeout
  <2>9. ASSUME NEW r \in DOMAIN list, NEW k \in DOMAIN list[r].dests, OnQTimeout(r, k) PROVE Goal
    <3>1. CASE <<i, d>> = <<r, k>>
      BY <2>9, <3>1 DEF Goal
    <3>2. CASE <<i, d>> # <<r, k>>
      BY <1>1, <2>0, <2>9, <3>2, OthersTimed DEF Goal
    <3> QED
      BY <3>1, <3>2
  <2>10. ASSUME UNCHANGED vars PROVE Goal
    BY <2>3, <2>10 DEF vars
  <2>11. Goal
    BY <1>1, <2>4, <2>5, <2>6, <2>7, <2>8, <2>9, <2>10 DEF Next
  <2> QED
    BY <2>11 DEF Goal
<1>2. IInv /\ [Next]_vars =>
         [\A i \in DOMAIN list : \A d \in DOMAIN list[i].dests :
             list[i].dests[d].qTimer =>
                \/ Timed(list', list[i].name, list[i].dests[d].addr)
                \/ OnQTimeout(i, d)
                \/ list' = Removed(list, i)
                \/ \E a \in Answers : a.name = list[i].name /\ NewAnswer(a)]_vars
  BY <1>1
<1> QED
  BY <1>2, Invariance, PTL DEF Spec, QuarantineLasts
================================================================================
