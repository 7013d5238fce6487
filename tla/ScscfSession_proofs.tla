-------------------------- MODULE ScscfSession_proofs --------------------------
(***************************************************************************)
(* One call through the S-CSCF, for every list of filter criteria, every   *)
(* profile and every number of requests that come back: a session is kept  *)
(* as long as something is open for it, and no application server that a   *)
(* request meets is passed over.                                           *)
(***************************************************************************)
EXTENDS ScscfSession, WellFoundedInduction, TLAPS

StateType == States \cup NoSession
HalfType  == {"MO", "MT"}
RegType   == {"NOT_REGISTERED", "UN_REGISTERED", "REGISTERED"}
IdsType   == Profiles \cup {{}}
MsgType   == Methods \cup {"none"}
IfcType   == 0..Len(Criteria)
ElemType  == {"none", "odi", "empty"}
StrayType == SUBSET {"odi", "empty"}
TriedType == SUBSET ({"MO", "MT"} \X DOMAIN Criteria)
DueType   == SUBSET DOMAIN Criteria

SessType ==
    [state : StateType, half : HalfType, reg : RegType, ids : IdsType, msg : MsgType,
     initial : BOOLEAN, ifc : IfcType, dh : BOOLEAN, odi : BOOLEAN,
     elem : ElemType, stray : StrayType,
     listed : Nat, left : Nat, failed : Nat, sars : Nat, lirs : Nat,
     enums : Nat, dns : Nat, tried : TriedType, due : DueType]

\* At most one answer of the HSS is awaited, and none while the criteria are gone
\* through: an answer to a SAR may change which of them the request meets.
Waits(s) ==
    /\ s.sars + s.lirs <= 1
    /\ s.state \in {"DNS_AS", "DNS_ENUM"} => s.sars + s.lirs = 0
    /\ s.state = "LIR" => s.sars = 0
    /\ s.sars + s.lirs > 0 \/ s.state = "DNS_ENUM" => s.ifc = 0

\* The ASs of the half that the request was in, as far as its criteria were
\* considered, and those of the halves it has left.
Asked(s) ==
    /\ s.msg # "other" /\ (s.ifc > 0 => s.msg = "invite")
    /\ \A j \in 1..s.ifc : j \in Met(s) => <<s.half, j>> \in s.tried
    /\ {"MO"} \X s.due \subseteq s.tried
    /\ s.state = "TO_UE" => s.msg = "invite" /\ {"MT"} \X Met(s) \subseteq s.tried

\* What is open for a session.
Open(s) ==
    /\ s.state = "SAR" => s.sars > 0
    /\ s.state = "CLOSING" => s.listed + s.left > 0
    /\ s.state = "FREED" => s.listed = 0

\* A session whose call is an INVITE's, if b.
Sound(s, b) == s \in SessType /\ Waits(s) /\ (b => Asked(s))

IInv ==
    /\ returns \in 0..MaxReturns /\ methods \subseteq Methods
    /\ Sound(sess, methods \subseteq {"invite"}) /\ Open(sess)

\* What an operator may make of a session.
Outcome(o, b) ==
    /\ o = [s |-> o.s, goes |-> o.goes, ok |-> o.ok]
    /\ o.goes \in BOOLEAN /\ o.ok \in BOOLEAN
    /\ Sound(o.s, b) /\ Open(o.s)

\* What one that starts a thread of events may leave: a status that is no success
\* closes the session.
Leaves(o, b) == o.ok \in BOOLEAN /\ Sound(o.s, b) /\ (o.ok => Open(o.s))

-----------------------------------------------------------------------------
\* A set of naturals with 0 that is closed under successor has all of them.
LEMMA Induction ==
    ASSUME NEW S, 0 \in S, \A n \in Nat : n \in S => n + 1 \in S
    PROVE  Nat \subseteq S
<1> DEFINE R == OpToRel(<, Nat)
           T == Nat \ S
<1>1. IsWellFoundedOn(R, Nat)
  BY NatLessThanWellFounded
<1>2. SUFFICES ASSUME T # {} PROVE FALSE
  OBVIOUS
<1> HIDE DEF R
<1>3. PICK x \in T : \A y \in T : ~ (<<y, x>> \in R)
  BY <1>1, <1>2, WFMin
<1>4. x \in Nat /\ x # 0 /\ x - 1 \in Nat /\ x - 1 < x
  BY <1>3
<1>5. <<x - 1, x>> \in R
  BY <1>4 DEF R, OpToRel
<1>6. x - 1 \in S
  BY <1>3, <1>4, <1>5
<1> QED
  BY <1>3, <1>4, <1>6

\* The loop over the criteria has an outcome after each of them.
LEMMA LoopIs ==
    ASSUME NEW s
    PROVE  /\ Considered(s)[0] = {Going(s)}
           /\ \A j \in 1..Len(Criteria) : Considered(s)[j] = Consider(Considered(s)[j - 1], j)
<1> DEFINE Until(n, c) ==
              c = [j \in 0..n |-> IF j = 0 THEN {Going(s)} ELSE Consider(c[j - 1], j)]
           S == {n \in Nat : \E c : Until(n, c)}
<1>1. 0 \in S
  <2> DEFINE c == [j \in 0..0 |-> {Going(s)}]
  <2>1. Until(0, c)
    OBVIOUS
  <2> QED
    BY <2>1
<1>2. ASSUME NEW n \in Nat, n \in S PROVE n + 1 \in S
  <2>1. PICK c : Until(n, c)
    BY <1>2
  <2> DEFINE d == [j \in 0..(n + 1) |-> IF j <= n THEN c[j] ELSE Consider(c[n], n + 1)]
  <2>2. \A j \in 0..n : d[j] = c[j]
    OBVIOUS
  <2>3. d[n + 1] = Consider(c[n], n + 1)
    OBVIOUS
  <2>4. \A j \in 0..(n + 1) : d[j] = IF j = 0 THEN {Going(s)} ELSE Consider(d[j - 1], j)
    <3> TAKE j \in 0..(n + 1)
    <3>1. CASE j = n + 1
      <4>1. j # 0 /\ j - 1 = n /\ n \in 0..n
        BY <3>1
      <4> QED
        BY <2>2, <2>3, <3>1, <4>1
    <3>2. CASE j \in 0..n
      <4>1. c[j] = IF j = 0 THEN {Going(s)} ELSE Consider(c[j - 1], j)
        BY <2>1, <3>2
      <4>2. j # 0 => j - 1 \in 0..n
        BY <3>2
      <4> QED
        BY <2>2, <3>2, <4>1, <4>2
    <3> QED
      BY <3>1, <3>2
  <2>5. d = [j \in 0..(n + 1) |-> d[j]]
    OBVIOUS
  <2> HIDE DEF d
  <2>6. Until(n + 1, d)
    BY <2>4, <2>5
  <2> QED
    BY <2>6
<1>3. Len(Criteria) \in S
  <2> HIDE DEF S
  <2> QED
    BY <1>1, <1>2, Induction, IfcAssumption
<1>4. \E c : Until(Len(Criteria), c)
  BY <1>3
<1>5. Considered(s) = CHOOSE c : Until(Len(Criteria), c)
  BY DEF Considered
<1>6. Until(Len(Criteria), Considered(s))
  BY <1>4, <1>5
<1>7. 0 \in 0..Len(Criteria) /\ \A j \in 1..Len(Criteria) : j \in 0..Len(Criteria) /\ j # 0
  BY IfcAssumption
<1> QED
  BY <1>6, <1>7

-----------------------------------------------------------------------------
\* t is s but for what the invariants do not speak of.
Alike(s, t) ==
    /\ t.half = s.half /\ t.reg = s.reg /\ t.ids = s.ids /\ t.msg = s.msg
    /\ t.ifc = s.ifc /\ t.tried = s.tried /\ t.due = s.due
    /\ t.sars = s.sars /\ t.lirs = s.lirs

LEMMA MetAlike ==
    ASSUME NEW s, NEW t, t.half = s.half, t.reg = s.reg, t.ids = s.ids, t.msg = s.msg
    PROVE  Met(t) = Met(s)
BY DEF Met, Event

LEMMA SoundAlike ==
    ASSUME NEW s, NEW t \in SessType, NEW b, Sound(s, b), Alike(s, t),
           t.state = s.state \/ t.state \notin {"DNS_AS", "DNS_ENUM", "LIR", "TO_UE"}
    PROVE  Sound(t, b)
<1>1. Met(t) = Met(s)
  BY MetAlike DEF Alike
<1>2. Waits(t)
  BY DEF Sound, Waits, Alike
<1>3. b => Asked(t)
  BY <1>1 DEF Sound, Asked, Alike
<1> QED
  BY <1>2, <1>3 DEF Sound

Elsewhere == {"SAR", "CLOSING", "FREED"}

LEMMA Shut == ASSUME NEW s, s.state \notin Elsewhere PROVE Open(s)
BY DEF Open, Elsewhere

LEMMA AbsentIs ==
    /\ Absent \in SessType /\ Absent.state = "ABSENT" /\ Absent.msg = "none"
    /\ Absent.sars = 0 /\ Absent.lirs = 0 /\ Absent.ifc = 0 /\ Absent.due = {}
    /\ Absent.listed = 0 /\ Absent.left = 0
BY IfcAssumption DEF Absent, SessType, StateType, HalfType, RegType, IdsType, MsgType, IfcType,
      ElemType, StrayType, TriedType, DueType, NoSession

LEMMA DoneOk ==
    ASSUME NEW s, NEW b, NEW ok \in BOOLEAN, Sound(s, b), Open(s)
    PROVE  Outcome(Done(s, ok), b)
BY DEF Outcome, Done

LEMMA EndedOk == ASSUME NEW b PROVE Outcome(Ended, b)
<1> DEFINE s == [Absent EXCEPT !.state = "ENDED"]
<1>1. /\ s \in SessType /\ s.state = "ENDED" /\ s.msg = "none" /\ s.ifc = 0
      /\ s.sars = 0 /\ s.lirs = 0 /\ s.due = {}
  BY AbsentIs DEF SessType, StateType, NoSession
<1> HIDE DEF s
<1>2. Waits(s) /\ Asked(s) /\ Open(s)
  BY <1>1 DEF Waits, Asked, Open
<1>3. Ended = Done(s, TRUE)
  BY DEF Ended, s
<1> QED
  BY <1>1, <1>2, <1>3, DoneOk DEF Sound

LEMMA AnsweredOk ==
    ASSUME NEW s, NEW b, NEW ok \in BOOLEAN, Sound(s, b), Open(s)
    PROVE  Outcome(Answered(s, ok), b)
BY DoneOk, EndedOk DEF Answered

LEMMA ListedAlike ==
    ASSUME NEW s \in SessType
    PROVE  Listed(s) \in SessType /\ Alike(s, Listed(s)) /\ Listed(s).state = s.state
<1> DEFINE e == IF s.odi THEN "odi" ELSE "empty"
           y == s.stray \cup ({s.elem} \ {"none"})
<1>1. s.listed + 1 \in Nat /\ e \in ElemType /\ y \in StrayType
  BY DEF SessType, ElemType, StrayType
<1>2. Listed(s) = [s EXCEPT !.listed = s.listed + 1, !.elem = e, !.stray = y]
  BY DEF Listed
<1> HIDE DEF e, y
<1>3. Listed(s) \in SessType
  BY <1>1, <1>2 DEF SessType
<1>4. Alike(s, Listed(s)) /\ Listed(s).state = s.state
  BY <1>2 DEF Alike, SessType
<1> QED
  BY <1>3, <1>4

LEMMA UnproxiedAlike ==
    ASSUME NEW s \in SessType
    PROVE  Unproxied(s) \in SessType /\ Alike(s, Unproxied(s)) /\ Unproxied(s).state = s.state
<1>1. s.failed + 1 \in Nat
  BY DEF SessType
<1>2. Unproxied(s) = [s EXCEPT !.failed = s.failed + 1] \/ Unproxied(s) = s
  BY DEF Unproxied
<1> QED
  BY <1>1, <1>2 DEF SessType, Alike

LEMMA ProxiedOk ==
    ASSUME NEW s, NEW b, Sound(s, b), s.state \notin Elsewhere, NEW o \in Proxied(s)
    PROVE  Outcome(o, b) /\ ~o.goes
<1>1. o = Done(Listed(s), TRUE)
  BY DEF Proxied
<1>2. Sound(Listed(s), b) /\ Open(Listed(s))
  BY ListedAlike, SoundAlike, Shut DEF Sound
<1> QED
  BY <1>1, <1>2, DoneOk DEF Done

LEMMA UnproxiedSound ==
    ASSUME NEW s, NEW b, Sound(s, b), s.state \notin Elsewhere
    PROVE  Sound(Unproxied(s), b) /\ Open(Unproxied(s)) /\ UnproxiedOk(s) \in BOOLEAN
BY UnproxiedAlike, SoundAlike, Shut DEF Sound, UnproxiedOk

-----------------------------------------------------------------------------
\* The call reaches the called user when no criterion is left.
LEMMA ToUeOk ==
    ASSUME NEW u, NEW b, Sound(u, b),
           b => u.msg = "invite" /\ {"MT"} \X Met(u) \subseteq u.tried
    PROVE  \A o \in ToUe(u) : Outcome(o, b)
<1> DEFINE s == [u EXCEPT !.state = "TO_UE"]
<1>1. s \in SessType /\ Alike(u, s) /\ s.state = "TO_UE"
  BY DEF Sound, SessType, StateType, Alike, States
<1>2. Sound(s, b)
  <2>1. Met(s) = Met(u)
    BY <1>1, MetAlike DEF Alike
  <2>2. Waits(s)
    BY <1>1 DEF Sound, Waits, Alike
  <2>3. b => Asked(s)
    BY <1>1, <2>1 DEF Sound, Asked, Alike
  <2> QED
    BY <1>1, <2>2, <2>3 DEF Sound
<1> HIDE DEF s
<1>3. s.state \notin Elsewhere /\ Open(s)
  BY <1>1, Shut DEF Elsewhere
<1>4. Outcome(Answered(s, TRUE), b) /\ Outcome(Answered(Unproxied(s), UnproxiedOk(s)), b)
  BY <1>2, <1>3, AnsweredOk, UnproxiedSound
<1>5. \A o \in Proxied(s) : Outcome(o, b)
  BY <1>2, <1>3, ProxiedOk
<1>6. \A o \in ToUe(u) : \/ o \in Proxied(s) \/ o = Ended \/ o = Answered(s, TRUE)
                         \/ o = Answered(Unproxied(s), UnproxiedOk(s))
  BY DEF ToUe, s
<1> QED
  BY <1>4, <1>5, <1>6, EndedOk

LEMMA ToBreakoutOk ==
    ASSUME NEW u, NEW b, Sound(u, b)
    PROVE  \A o \in ToBreakout(u) : Outcome(o, b)
<1> DEFINE s == [u EXCEPT !.state = "TO_BREAKOUT"]
<1>1. s \in SessType /\ Alike(u, s) /\ s.state = "TO_BREAKOUT"
  BY DEF Sound, SessType, StateType, Alike, States
<1>2. Sound(s, b)
  BY <1>1, SoundAlike
<1> HIDE DEF s
<1>3. s.state \notin Elsewhere /\ Open(s)
  BY <1>1, Shut DEF Elsewhere
<1>4. Outcome(Answered(s, FALSE), b) /\ Outcome(Answered(Unproxied(s), UnproxiedOk(s)), b)
  BY <1>2, <1>3, AnsweredOk, UnproxiedSound
<1>5. \A o \in Proxied(s) : Outcome(o, b)
  BY <1>2, <1>3, ProxiedOk
<1>6. \A o \in ToBreakout(u) : \/ o \in Proxied(s) \/ o = Ended \/ o = Answered(s, FALSE)
                               \/ o = Answered(Unproxied(s), UnproxiedOk(s))
  BY DEF ToBreakout, s
<1> QED
  BY <1>4, <1>5, <1>6, EndedOk

-----------------------------------------------------------------------------
\* After j criteria: the call has gone out, has failed, or goes on to the next AS.
Looped(o, b, half, j) ==
    /\ Outcome(o, b)
    /\ o.goes => /\ o.s.state = "DNS_AS" /\ o.s.half = half
                 /\ o.s.msg # "none" /\ o.s.ifc >= j

LEMMA AsFailsOk ==
    ASSUME NEW s, NEW b, NEW ok \in BOOLEAN, Sound(s, b), s.state = "DNS_AS",
           NEW o \in AsFails(s, ok)
    PROVE  Outcome(o, b) /\ (o.goes => o = Going(s))
<1>1. Open(s)
  BY Shut DEF Elsewhere
<1>2. CASE o = Answered(s, ok)
  <2>1. Outcome(o, b)
    BY <1>1, <1>2, AnsweredOk
  <2>2. ~o.goes
    BY <1>2 DEF Answered, Ended, Done
  <2> QED
    BY <2>1, <2>2
<1>3. CASE o = Going(s)
  BY <1>1, <1>3 DEF Going, Outcome
<1>4. o = Going(s) \/ o = Answered(s, ok)
  BY DEF AsFails
<1> QED
  BY <1>2, <1>3, <1>4

LEMMA AsFailsLooped ==
    ASSUME NEW s, NEW b, NEW ok \in BOOLEAN, Sound(s, b), s.state = "DNS_AS", s.msg # "none",
           NEW o \in AsFails(s, ok)
    PROVE  Looped(o, b, s.half, s.ifc)
<1>1. s.ifc \in Nat
  BY IfcAssumption DEF Sound, SessType, IfcType
<1>2. Outcome(o, b) /\ (o.goes => o.s = s)
  BY AsFailsOk DEF Going
<1> QED
  BY <1>1, <1>2 DEF Looped

\* The session once criterion j was considered.
LEMMA Considering ==
    ASSUME NEW u, NEW b, Sound(u, b), u.state = "DNS_AS", u.msg # "none",
           NEW j \in 1..Len(Criteria), u.ifc = j - 1,
           NEW s \in SessType, s.state = "DNS_AS", s.ifc = j, s.half = u.half, s.reg = u.reg,
           s.ids = u.ids, s.msg = u.msg, s.due = u.due, s.sars = u.sars, s.lirs = u.lirs,
           \/ s.tried = u.tried \cup {<<u.half, j>>}
           \/ s.tried = u.tried /\ j \notin Met(u)
    PROVE  Sound(s, b)
<1>1. Met(s) = Met(u)
  BY MetAlike
<1>2. Waits(s)
  BY DEF Sound, Waits, SessType
<1>3. ASSUME b PROVE Asked(s)
  <2>1. Asked(u) /\ u.msg = "invite"
    BY <1>3 DEF Sound, Asked, SessType, MsgType, Methods
  <2>2. \A i \in 1..j : i \in Met(s) => <<s.half, i>> \in s.tried
    <3> TAKE i \in 1..j
    <3>1. CASE i = j
      BY <1>1, <3>1
    <3>2. CASE i # j
      <4>1. i \in 1..u.ifc
        BY <3>2, IfcAssumption
      <4> QED
        BY <1>1, <2>1, <4>1 DEF Asked
    <3> QED
      BY <3>1, <3>2
  <2>3. {"MO"} \X s.due \subseteq s.tried
    BY <2>1 DEF Asked
  <2> QED
    BY <2>1, <2>2, <2>3 DEF Asked
<1> QED
  BY <1>2, <1>3 DEF Sound

LEMMA AskOk ==
    ASSUME NEW u, NEW b, Sound(u, b), u.state = "DNS_AS", u.msg # "none",
           NEW j \in 1..Len(Criteria), u.ifc = j - 1
    PROVE  \A o \in Ask(u, j) : Looped(o, b, u.half, j)
<1> DEFINE s == [u EXCEPT !.ifc = j, !.dh = Criteria[j].continued,
                          !.tried = @ \cup {<<u.half, j>>}]
           sent == [s EXCEPT !.odi = TRUE]
           asking == [s EXCEPT !.dns = @ + 1]
<1>1. u \in SessType /\ j \in IfcType /\ Criteria[j].continued \in BOOLEAN /\ Criteria[j].named \in BOOLEAN
  BY IfcAssumption DEF Sound, IfcType
<1>2. u.tried \cup {<<u.half, j>>} \in TriedType
  <2>1. u.tried \in TriedType /\ u.half \in HalfType /\ j \in DOMAIN Criteria
    BY <1>1, IfcAssumption DEF SessType
  <2> QED
    BY <2>1 DEF TriedType, HalfType
<1>3. /\ s \in SessType /\ s.state = "DNS_AS" /\ s.ifc = j /\ s.half = u.half /\ s.reg = u.reg
      /\ s.ids = u.ids /\ s.msg = u.msg /\ s.due = u.due /\ s.sars = u.sars /\ s.lirs = u.lirs
      /\ s.tried = u.tried \cup {<<u.half, j>>}
  BY <1>1, <1>2 DEF SessType
<1>4. Sound(s, b)
  BY <1>3, Considering
<1> HIDE DEF s
<1>5. sent \in SessType /\ Alike(s, sent) /\ sent.state = "DNS_AS"
  BY <1>3 DEF SessType, Alike
<1>6. asking \in SessType /\ Alike(s, asking) /\ asking.state = "DNS_AS"
  BY <1>3 DEF SessType, Alike
<1> HIDE DEF sent, asking
<1>7. Sound(sent, b) /\ Sound(asking, b) /\ sent.msg # "none" /\ sent.half = u.half /\ sent.ifc = j
  BY <1>3, <1>4, <1>5, <1>6, SoundAlike DEF Alike
<1>8. \A o \in Proxied(sent) : Looped(o, b, u.half, j)
  BY <1>5, <1>7, ProxiedOk DEF Looped, Elsewhere
<1>9. ASSUME NEW ok \in BOOLEAN PROVE \A o \in AsFails(Unproxied(sent), ok) : Looped(o, b, u.half, j)
  <2>1. /\ Sound(Unproxied(sent), b) /\ Unproxied(sent).state = "DNS_AS"
        /\ Unproxied(sent).msg # "none" /\ Unproxied(sent).half = u.half /\ Unproxied(sent).ifc = j
    BY <1>5, <1>7, UnproxiedAlike, UnproxiedSound DEF Alike, Elsewhere
  <2> QED
    BY <2>1, AsFailsLooped
<1>10. \A o \in AsFails(s, FALSE) : Looped(o, b, u.half, j)
  BY <1>3, <1>4, AsFailsLooped
<1>11. Looped(Done(asking, TRUE), b, u.half, j)
  BY <1>6, <1>7, DoneOk, Shut DEF Looped, Elsewhere, Done
<1>12. \A o \in Ask(u, j) : \/ o \in Proxied(sent) \/ o \in AsFails(s, FALSE)
                            \/ o = Done(asking, TRUE)
                            \/ \E ok \in BOOLEAN : o \in AsFails(Unproxied(sent), ok)
  <2>1. (UnproxiedOk(s) /\ ~Criteria[j].named) \in BOOLEAN
    BY <1>1 DEF UnproxiedOk
  <2> QED
    BY <2>1 DEF Ask, s, sent, asking
<1> QED
  BY <1>8, <1>9, <1>10, <1>11, <1>12

\* The loop ends with a call whose criteria were all considered.
LEMMA ChainOk ==
    ASSUME NEW u, NEW b, Sound(u, b), u.state = "DNS_AS"
    PROVE  \A o \in Chain(u) : Looped(o, b, u.half, Len(Criteria))
<1>1. CASE u.msg = "none"
  <2>1. ~Ended.goes
    BY DEF Ended, Done
  <2> QED
    BY <1>1, <2>1, EndedOk DEF Chain, Looped
<1>2. CASE u.msg # "none"
  <2> DEFINE N == Len(Criteria)
             Holds(n) == \A o \in Considered(u)[n] : Looped(o, b, u.half, n)
             S == {n \in Nat : n <= N => Holds(n)}
  <2>1. 0 \in S
    <3>1. u.ifc \in Nat
      BY IfcAssumption DEF Sound, SessType, IfcType
    <3>2. Looped(Going(u), b, u.half, 0)
      BY <1>2, <3>1, Shut DEF Looped, Going, Outcome, Elsewhere
    <3> QED
      BY <3>2, LoopIs
  <2>2. ASSUME NEW n \in Nat, n \in S PROVE n + 1 \in S
    <3> SUFFICES ASSUME n + 1 <= N, NEW o \in Considered(u)[n + 1]
                 PROVE  Looped(o, b, u.half, n + 1)
      OBVIOUS
    <3>1. n + 1 \in 1..N /\ n <= N /\ (n + 1) - 1 = n
      BY IfcAssumption
    <3>2. Considered(u)[n + 1] = Consider(Considered(u)[n], n + 1)
      BY <3>1, LoopIs
    <3>3. PICK q \in Considered(u)[n] :
             o \in IF ~q.goes \/ n + 1 <= q.s.ifc THEN {q}
                   ELSE IF n + 1 \in Met(q.s) THEN Ask(q.s, n + 1)
                   ELSE {Going([q.s EXCEPT !.ifc = n + 1])}
      BY <3>2 DEF Consider
    <3>4. Looped(q, b, u.half, n)
      BY <2>2, <3>1, <3>3
    <3>5. CASE ~q.goes \/ n + 1 <= q.s.ifc
      BY <3>3, <3>4, <3>5 DEF Looped
    <3>6. CASE q.goes /\ ~(n + 1 <= q.s.ifc)
      <4>1. /\ Sound(q.s, b) /\ q.s.state = "DNS_AS" /\ q.s.msg # "none"
            /\ q.s.half = u.half /\ q.s.ifc = (n + 1) - 1 /\ q.s \in SessType
        <5>1. q.s.ifc \in Nat
          BY <3>4, IfcAssumption DEF Looped, Outcome, Sound, SessType, IfcType
        <5> QED
          BY <3>4, <3>6, <5>1 DEF Looped, Outcome, Sound
      <4>2. CASE n + 1 \in Met(q.s)
        BY <3>1, <3>3, <3>6, <4>1, <4>2, AskOk
      <4>3. CASE n + 1 \notin Met(q.s)
        <5> DEFINE t == [q.s EXCEPT !.ifc = n + 1]
        <5>1. n + 1 \in IfcType
          BY <3>1 DEF IfcType
        <5>2. /\ t \in SessType /\ t.state = "DNS_AS" /\ t.ifc = n + 1 /\ t.half = q.s.half
              /\ t.reg = q.s.reg /\ t.ids = q.s.ids /\ t.msg = q.s.msg /\ t.due = q.s.due
              /\ t.sars = q.s.sars /\ t.lirs = q.s.lirs /\ t.tried = q.s.tried
          BY <4>1, <5>1 DEF SessType
        <5>3. o = Going(t)
          BY <3>3, <3>6, <4>3
        <5> HIDE DEF t
        <5>4. Sound(t, b)
          BY <3>1, <4>1, <4>3, <5>2, Considering
        <5> QED
          BY <4>1, <5>2, <5>3, <5>4, Shut DEF Looped, Going, Outcome, Elsewhere
      <4> QED
        BY <4>2, <4>3
    <3> QED
      BY <3>5, <3>6
  <2>3. N \in S
    <3> HIDE DEF S
    <3> QED
      BY <2>1, <2>2, Induction, IfcAssumption
  <2> QED
    BY <1>2, <2>3, IfcAssumption DEF Chain
<1> QED
  BY <1>1, <1>2

-----------------------------------------------------------------------------
\* The chain of the called user: it is left with every AS tried that is met.
LEMMA DnsAsMTOk ==
    ASSUME NEW u, NEW b, Sound(u, b), u.state = "DNS_AS", u.half = "MT"
    PROVE  \A o \in DnsAsMT(u) : Outcome(o, b)
<1> SUFFICES ASSUME NEW o \in DnsAsMT(u) PROVE Outcome(o, b)
  OBVIOUS
<1>1. PICK q \in Chain(u) : o \in IF q.goes THEN ToUe(q.s) ELSE {q}
  BY DEF DnsAsMT
<1>2. Looped(q, b, "MT", Len(Criteria))
  BY ChainOk
<1>3. CASE ~q.goes
  BY <1>1, <1>2, <1>3 DEF Looped
<1>4. CASE q.goes
  <2>1. Sound(q.s, b) /\ q.s \in SessType /\ q.s.half = "MT" /\ q.s.msg # "none"
    BY <1>2, <1>4 DEF Looped, Outcome, Sound
  <2>2. q.s.ifc = Len(Criteria)
    <3>1. q.s.ifc \in 0..Len(Criteria)
      BY <2>1 DEF SessType, IfcType
    <3> QED
      BY <1>2, <1>4, <3>1, IfcAssumption DEF Looped
  <2>3. ASSUME b PROVE q.s.msg = "invite" /\ {"MT"} \X Met(q.s) \subseteq q.s.tried
    <3>1. Asked(q.s)
      BY <2>1, <2>3 DEF Sound
    <3>2. q.s.msg = "invite"
      BY <2>1, <3>1 DEF Asked, SessType, MsgType, Methods
    <3>3. Met(q.s) \subseteq 1..q.s.ifc
      BY <2>2, IfcAssumption DEF Met
    <3> QED
      BY <2>1, <3>1, <3>2, <3>3 DEF Asked
  <2> QED
    BY <1>1, <1>4, <2>1, <2>3, ToUeOk
<1> QED
  BY <1>3, <1>4

\* The HSS is asked where the called user is.
LEMMA LirOk ==
    ASSUME NEW u, NEW b, Sound(u, b), u.sars + u.lirs = 0, u.ifc = 0
    PROVE  \A o \in Lir(u) : Outcome(o, b)
<1> DEFINE s == [u EXCEPT !.state = "LIR"]
           t == [s EXCEPT !.lirs = @ + 1]
<1>1. u \in SessType /\ u.sars = 0 /\ u.lirs = 0
  BY DEF Sound, SessType
<1>2. s \in SessType /\ Alike(u, s) /\ s.state = "LIR"
  BY <1>1 DEF SessType, StateType, Alike, States
<1>3. /\ t \in SessType /\ t.state = "LIR" /\ t.half = s.half /\ t.reg = s.reg /\ t.ids = s.ids
      /\ t.msg = s.msg /\ t.ifc = s.ifc /\ t.tried = s.tried /\ t.due = s.due
      /\ t.sars = 0 /\ t.lirs = 1
  <2> HIDE DEF s
  <2> QED
    BY <1>1, <1>2 DEF SessType, Alike
<1>4. \A o \in Lir(u) : o = Done(s, TRUE) \/ o = Done(t, TRUE)
  BY DEF Lir
<1> HIDE DEF s, t
<1>5. Waits(s) /\ Waits(t)
  BY <1>1, <1>2, <1>3 DEF Waits, Alike
<1>6. Met(s) = Met(u) /\ Met(t) = Met(u)
  BY <1>2, <1>3, MetAlike DEF Alike
<1>7. b => Asked(s) /\ Asked(t)
  BY <1>1, <1>2, <1>3, <1>6 DEF Sound, Asked, Alike
<1>8. Sound(s, b) /\ Sound(t, b) /\ Open(s) /\ Open(t)
  BY <1>2, <1>3, <1>5, <1>7, Shut DEF Sound, Elsewhere
<1> QED
  BY <1>4, <1>8, DoneOk

\* Before that, DNS is asked for the number that was called.
LEMMA DnsEnumOk ==
    ASSUME NEW u, NEW b, Sound(u, b), u.sars + u.lirs = 0, u.ifc = 0
    PROVE  \A o \in DnsEnum(u) : Outcome(o, b)
<1> DEFINE s == [u EXCEPT !.state = "DNS_ENUM"]
           t == [s EXCEPT !.enums = @ + 1]
<1>1. u \in SessType /\ u.sars = 0 /\ u.lirs = 0
  BY DEF Sound, SessType
<1>2. s \in SessType /\ Alike(u, s) /\ s.state = "DNS_ENUM"
  BY <1>1 DEF SessType, StateType, Alike, States
<1>3. t \in SessType /\ Alike(u, t) /\ t.state = "DNS_ENUM"
  <2> HIDE DEF s
  <2> QED
    BY <1>1, <1>2 DEF SessType, Alike
<1>4. \A o \in DnsEnum(u) : o = Answered(s, FALSE) \/ o = Done(t, TRUE) \/ o \in Lir(s)
  BY DEF DnsEnum
<1> HIDE DEF s, t
<1>5. Waits(s) /\ Waits(t)
  BY <1>1, <1>2, <1>3 DEF Waits, Alike
<1>6. Met(s) = Met(u) /\ Met(t) = Met(u)
  BY <1>2, <1>3, MetAlike DEF Alike
<1>7. b => Asked(s) /\ Asked(t)
  BY <1>1, <1>2, <1>3, <1>6 DEF Sound, Asked, Alike
<1>8. Sound(s, b) /\ Sound(t, b) /\ Open(s) /\ Open(t)
  BY <1>2, <1>3, <1>5, <1>7, Shut DEF Sound, Elsewhere
<1>9. \A o \in Lir(s) : Outcome(o, b)
  BY <1>1, <1>2, <1>8, LirOk DEF Alike
<1> QED
  BY <1>4, <1>8, <1>9, DoneOk, AnsweredOk

\* The call turns to the called user with every AS of the caller tried that is met.
LEMMA CalledOk ==
    ASSUME NEW u, NEW b, Sound(u, b), u.state = "DNS_AS", u.half = "MO", u.ifc = Len(Criteria)
    PROVE  /\ Sound(Called(u), b) /\ Called(u).state = "MO2MT_INIT" /\ Called(u).half = "MT"
           /\ Called(u).ifc = 0 /\ Called(u).sars + Called(u).lirs = 0
<1> DEFINE s == Called(u)
<1>1. u \in SessType /\ u.sars + u.lirs = 0 /\ Met(u) \subseteq 1..u.ifc /\ Met(u) \in DueType
  BY IfcAssumption DEF Sound, Waits, Met, DueType
<1>2. /\ s \in SessType /\ s.state = "MO2MT_INIT" /\ s.half = "MT" /\ s.ifc = 0 /\ s.msg = u.msg
      /\ s.sars = u.sars /\ s.lirs = u.lirs /\ s.tried = u.tried /\ s.due = Met(u)
  <2>1. /\ "MO2MT_INIT" \in StateType /\ "MT" \in HalfType /\ 0 \in IfcType
        /\ "UN_REGISTERED" \in RegType
    BY IfcAssumption DEF StateType, States, HalfType, IfcType, RegType
  <2> QED
    BY <1>1, <2>1 DEF SessType, Called
<1> HIDE DEF s
<1>3. Waits(s)
  BY <1>1, <1>2 DEF Waits
<1>4. b => Asked(s)
  BY <1>1, <1>2 DEF Sound, Asked
<1> QED
  BY <1>1, <1>2, <1>3, <1>4 DEF Sound, s

\* A session of which only fields changed that matter while its criteria are
\* considered.
LEMMA FreshSound ==
    ASSUME NEW s, NEW b, Sound(s, b), s.ifc = 0, NEW t \in SessType,
           t.ifc = 0, t.msg = s.msg, t.tried = s.tried, t.due = s.due,
           t.sars = s.sars, t.lirs = s.lirs,
           t.state \in {"DNS_AS", "DNS_ENUM"} => s.sars + s.lirs = 0,
           t.state = "LIR" => s.sars = 0, t.state # "TO_UE"
    PROVE  Sound(t, b)
BY DEF Sound, Waits, Asked

LEMMA MO2MTOk ==
    ASSUME NEW u, NEW b, Sound(u, b), u.state = "DNS_AS", u.half = "MO", u.ifc = Len(Criteria)
    PROVE  \A o \in MO2MT(u) : Outcome(o, b)
<1> DEFINE s == Called(u)
           x == [s EXCEPT !.reg = "NOT_REGISTERED"]
           y == [s EXCEPT !.state = "TO_LOCAL_CSCF"]
           z(ids) == [s EXCEPT !.reg = "REGISTERED", !.ids = ids, !.state = "DNS_AS"]
<1> SUFFICES ASSUME NEW o \in MO2MT(u) PROVE Outcome(o, b)
  OBVIOUS
<1>1. /\ Sound(s, b) /\ s.state = "MO2MT_INIT" /\ s.half = "MT" /\ s.ifc = 0
      /\ s.sars + s.lirs = 0
  BY CalledOk
<1>2. \/ o = Answered(s, FALSE) \/ o = Done(x, TRUE) \/ o = Done(y, TRUE)
      \/ o \in Ignoring(DnsEnum(s), TRUE)
      \/ \E ids \in Profiles : o \in Ignoring(DnsAsMT(z(ids)), TRUE)
  BY DEF MO2MT
<1> HIDE DEF s
<1>3. /\ "TO_LOCAL_CSCF" \in StateType /\ "DNS_AS" \in StateType /\ "REGISTERED" \in RegType
      /\ "NOT_REGISTERED" \in RegType /\ s \in SessType
  BY <1>1 DEF StateType, States, RegType, Sound
<1>4. /\ x \in SessType /\ x.ifc = 0 /\ x.msg = s.msg /\ x.tried = s.tried /\ x.due = s.due
      /\ x.sars = s.sars /\ x.lirs = s.lirs /\ x.state = "MO2MT_INIT"
  BY <1>1, <1>3 DEF SessType
<1>5. /\ y \in SessType /\ y.ifc = 0 /\ y.msg = s.msg /\ y.tried = s.tried /\ y.due = s.due
      /\ y.sars = s.sars /\ y.lirs = s.lirs /\ y.state = "TO_LOCAL_CSCF"
  BY <1>1, <1>3 DEF SessType
<1>6. ASSUME NEW ids \in Profiles
      PROVE  /\ z(ids) \in SessType /\ z(ids).ifc = 0 /\ z(ids).msg = s.msg /\ z(ids).tried = s.tried
             /\ z(ids).due = s.due /\ z(ids).sars = s.sars /\ z(ids).lirs = s.lirs
             /\ z(ids).state = "DNS_AS" /\ z(ids).half = "MT"
  <2>1. ids \in IdsType
    BY DEF IdsType
  <2> QED
    BY <1>1, <1>3, <2>1 DEF SessType
<1> HIDE DEF x, y, z
<1>7. Sound(x, b) /\ Sound(y, b) /\ Open(s) /\ Open(x) /\ Open(y)
  BY <1>1, <1>4, <1>5, FreshSound, Shut DEF Elsewhere
<1>8. ASSUME NEW ids \in Profiles PROVE \A q \in DnsAsMT(z(ids)) : Outcome(q, b)
  <2>1. Sound(z(ids), b)
    BY <1>1, <1>6, FreshSound
  <2> QED
    BY <1>6, <2>1, DnsAsMTOk
<1>9. \A q \in DnsEnum(s) : Outcome(q, b)
  BY <1>1, DnsEnumOk
<1>10. ASSUME NEW outs, \A q \in outs : Outcome(q, b), o \in Ignoring(outs, TRUE)
       PROVE  Outcome(o, b)
  <2>1. PICK q \in outs : o = [q EXCEPT !.ok = TRUE]
    BY <1>10 DEF Ignoring
  <2>2. Outcome(q, b)
    BY <1>10
  <2>3. o = [s |-> q.s, goes |-> q.goes, ok |-> TRUE]
    BY <2>1, <2>2 DEF Outcome
  <2> QED
    BY <2>2, <2>3 DEF Outcome
<1> QED
  BY <1>1, <1>2, <1>7, <1>8, <1>9, <1>10, DoneOk, AnsweredOk

\* The ASs are asked that are left.
LEMMA DnsAsOk ==
    ASSUME NEW u, NEW b, Sound([u EXCEPT !.state = "DNS_AS"], b),
           [u EXCEPT !.state = "DNS_AS"].state = "DNS_AS"
    PROVE  \A o \in DnsAs(u) : Outcome(o, b)
<1> DEFINE s == [u EXCEPT !.state = "DNS_AS"]
<1> SUFFICES ASSUME NEW o \in DnsAs(u) PROVE Outcome(o, b)
  OBVIOUS
<1>1. CASE s.half = "MT"
  BY <1>1, DnsAsMTOk DEF DnsAs
<1>2. CASE s.half # "MT"
  <2>1. PICK q \in Chain(s) : o \in IF q.goes THEN MO2MT(q.s) ELSE {q}
    BY <1>2 DEF DnsAs
  <2> HIDE DEF s
  <2>2. s.half = "MO"
    BY <1>2 DEF Sound, SessType, HalfType, s
  <2>3. Looped(q, b, "MO", Len(Criteria))
    BY <2>2, ChainOk DEF s
  <2>4. CASE ~q.goes
    BY <2>1, <2>3, <2>4 DEF Looped
  <2>5. CASE q.goes
    <3>1. Sound(q.s, b) /\ q.s.state = "DNS_AS" /\ q.s.half = "MO" /\ q.s.ifc >= Len(Criteria)
      BY <2>3, <2>5 DEF Looped, Outcome
    <3>2. q.s.ifc \in 0..Len(Criteria)
      BY <3>1 DEF Sound, SessType, IfcType
    <3>3. q.s.ifc = Len(Criteria)
      BY <3>1, <3>2, IfcAssumption
    <3> QED
      BY <2>1, <2>5, <3>1, <3>3, MO2MTOk
  <2> QED
    BY <2>4, <2>5
<1> QED
  BY <1>1, <1>2

-----------------------------------------------------------------------------
\* An outcome is a status and a session that is open for what it says.
LEMMA OutcomeLeaves == ASSUME NEW o, NEW b, Outcome(o, b) PROVE Leaves(o, b)
BY DEF Outcome, Leaves

\* What fails need not leave anything open.
LEMMA FailedLeaves ==
    ASSUME NEW s, NEW b, Sound(s, b)
    PROVE  Leaves(Answered(s, FALSE), b) /\ Leaves(Done(s, FALSE), b)
<1>1. Leaves(Done(s, FALSE), b)
  BY DEF Leaves, Done
<1> QED
  BY <1>1, EndedOk, OutcomeLeaves DEF Answered

LEMMA FreedOk ==
    ASSUME NEW s, NEW b, Sound(s, b), s.listed = 0
    PROVE  Sound(Freed(s), b) /\ Open(Freed(s))
<1> DEFINE t == Freed(s)
<1>1. s \in SessType /\ s.sars + s.lirs <= 1
  BY DEF Sound, Waits
<1>2. s.stray \cup ({s.elem} \ {"none"}) \in StrayType /\ "FREED" \in StateType
  BY <1>1 DEF SessType, StrayType, ElemType, StateType, NoSession
<1>3. /\ t \in SessType /\ t.state = "FREED" /\ t.msg = "none" /\ t.ifc = 0
      /\ t.due = {} /\ t.sars = s.sars /\ t.lirs = s.lirs /\ t.listed = 0
  <2>1. Absent \in SessType /\ Absent.msg = "none" /\ Absent.ifc = 0 /\ Absent.due = {}
    BY AbsentIs
  <2> QED
    BY <1>1, <1>2, <2>1 DEF SessType, Freed
<1> HIDE DEF t
<1>4. Waits(t) /\ Asked(t) /\ Open(t)
  BY <1>1, <1>3 DEF Waits, Asked, Open
<1> QED
  BY <1>3, <1>4 DEF Sound, t

LEMMA FreedIfUnusedOk ==
    ASSUME NEW s, NEW b, Sound(s, b), s.state = "CLOSING"
    PROVE  Sound(FreedIfUnused(s), b) /\ Open(FreedIfUnused(s))
<1>1. s.listed \in Nat /\ s.left \in Nat
  BY DEF Sound, SessType
<1>2. CASE s.listed + s.left = 0
  BY <1>1, <1>2, FreedOk DEF FreedIfUnused
<1>3. CASE s.listed + s.left # 0
  BY <1>1, <1>3 DEF FreedIfUnused, Open
<1> QED
  BY <1>2, <1>3

LEMMA CloseOk ==
    ASSUME NEW s, NEW b, Sound(s, b)
    PROVE  Sound(Close(s), b) /\ Open(Close(s))
<1> DEFINE t == [Cleaned(s) EXCEPT !.state = "CLOSING"]
<1>1. s \in SessType /\ s.stray \cup ({s.elem} \ {"none"}) \in StrayType
  BY DEF Sound, SessType, StrayType, ElemType
<1>2. "CLOSING" \in StateType /\ "none" \in MsgType /\ 0 \in IfcType /\ "none" \in ElemType
  BY IfcAssumption DEF StateType, States, MsgType, IfcType, ElemType
<1>3. /\ t \in SessType /\ t.state = "CLOSING" /\ t.msg = "none" /\ t.ifc = 0
      /\ t.due = s.due /\ t.tried = s.tried /\ t.sars = s.sars /\ t.lirs = s.lirs
  BY <1>1, <1>2 DEF SessType, Cleaned
<1>4. Close(s) = FreedIfUnused(t)
  BY DEF Close
<1> HIDE DEF t
<1>5. Waits(t)
  BY <1>3 DEF Sound, Waits
<1>6. b => Asked(t)
  BY <1>3, IfcAssumption DEF Sound, Asked
<1> QED
  BY <1>3, <1>4, <1>5, <1>6, FreedIfUnusedOk DEF Sound

\* A thread of events ends with its status.
LEMMA SettledOk ==
    ASSUME NEW o, NEW b, Leaves(o, b)
    PROVE  Sound(Settled(o), b) /\ Open(Settled(o))
BY CloseOk DEF Leaves, Settled

-----------------------------------------------------------------------------
\* The HSS is asked for the user's profile.
LEMMA SarOk ==
    ASSUME NEW u, NEW b, Sound(u, b),
           u.state \in {"MO_INIT", "MT_INIT", "LIR"} => u.sars + u.lirs = 0 /\ u.ifc = 0
    PROVE  \A o \in Sar(u) : Leaves(o, b)
<1> DEFINE s == [u EXCEPT !.state = "SAR"]
           t == [s EXCEPT !.sars = @ + 1]
<1>1. u \in SessType
  BY DEF Sound
<1>2. s \in SessType /\ Alike(u, s) /\ s.state = "SAR"
  BY <1>1 DEF SessType, StateType, States, Alike
<1>3. Sound(s, b)
  BY <1>2, SoundAlike
<1>4. CASE u.state \notin {"MO_INIT", "MT_INIT", "LIR"}
  BY <1>3, <1>4, FailedLeaves DEF Sar
<1>5. CASE u.state \in {"MO_INIT", "MT_INIT", "LIR"}
  <2>1. \A o \in Sar(u) : o = Answered(s, FALSE) \/ o = Done(t, TRUE)
    BY <1>5 DEF Sar
  <2> HIDE DEF s
  <2>2. s.sars = 0 /\ s.lirs = 0 /\ s.ifc = 0
    BY <1>1, <1>2, <1>5 DEF SessType, Alike
  <2>3. /\ t \in SessType /\ t.state = "SAR" /\ t.msg = s.msg /\ t.ifc = 0 /\ t.tried = s.tried
        /\ t.due = s.due /\ t.sars = 1 /\ t.lirs = 0
    BY <1>2, <2>2 DEF SessType
  <2> HIDE DEF t
  <2>4. Waits(t) /\ Open(t)
    BY <2>3 DEF Waits, Open
  <2>5. b => Asked(t)
    BY <1>3, <2>3 DEF Sound, Asked
  <2>6. Outcome(Done(t, TRUE), b)
    BY <2>3, <2>4, <2>5, DoneOk DEF Sound
  <2> QED
    BY <1>3, <2>1, <2>6, FailedLeaves, OutcomeLeaves
<1> QED
  BY <1>4, <1>5

\* The ASs of the user are asked, whose profile is known from now on.
LEMMA ProfiledOk ==
    ASSUME NEW u, NEW b, Sound(u, b), u.sars = 0, u.lirs = 0, u.ifc = 0,
           NEW s \in SessType, s.ifc = 0, s.msg = u.msg, s.tried = u.tried, s.due = u.due,
           s.sars = 0, s.lirs = 0
    PROVE  \A o \in DnsAs(s) : Leaves(o, b)
<1> DEFINE t == [s EXCEPT !.state = "DNS_AS"]
<1>1. /\ t \in SessType /\ t.state = "DNS_AS" /\ t.ifc = 0 /\ t.msg = u.msg /\ t.tried = u.tried
      /\ t.due = u.due /\ t.sars = u.sars /\ t.lirs = u.lirs
  BY DEF SessType, StateType, States
<1>2. Sound(t, b)
  <2> HIDE DEF t
  <2>1. u.sars + u.lirs = 0
    OBVIOUS
  <2> QED
    BY <1>1, <2>1, FreshSound
<1> QED
  BY <1>1, <1>2, DnsAsOk, OutcomeLeaves

LEMMA UserInitOk ==
    ASSUME NEW s, NEW b, Sound(s, b), s.sars + s.lirs = 0, s.ifc = 0
    PROVE  \A o \in UserInit(s) : Leaves(o, b)
<1> DEFINE y == [s EXCEPT !.state = "TO_LOCAL_CSCF"]
<1>1. \A o \in Sar(s) : Leaves(o, b)
  BY SarOk
<1>2. Leaves(Done(y, TRUE), b)
  <2>1. y \in SessType /\ Alike(s, y) /\ y.state = "TO_LOCAL_CSCF"
    BY DEF Sound, SessType, StateType, States, Alike
  <2> HIDE DEF y
  <2> QED
    BY <2>1, SoundAlike, DoneOk, OutcomeLeaves, Shut DEF Elsewhere
<1>3. Leaves(Answered(s, FALSE), b)
  BY FailedLeaves
<1>4. ASSUME NEW ids \in Profiles
      PROVE  \A o \in DnsAs([s EXCEPT !.reg = "REGISTERED", !.ids = ids]) : Leaves(o, b)
  <2> DEFINE t == [s EXCEPT !.reg = "REGISTERED", !.ids = ids]
  <2>1. "REGISTERED" \in RegType /\ ids \in IdsType /\ s \in SessType
    BY DEF RegType, IdsType, Sound
  <2>2. s.sars = 0 /\ s.lirs = 0
    BY <2>1 DEF SessType
  <2>3. /\ t \in SessType /\ t.ifc = 0 /\ t.msg = s.msg /\ t.tried = s.tried
        /\ t.due = s.due /\ t.sars = 0 /\ t.lirs = 0
    BY <2>1, <2>2 DEF SessType
  <2> HIDE DEF t
  <2>4. \A o \in DnsAs(t) : Leaves(o, b)
    BY <2>2, <2>3, ProfiledOk
  <2> QED
    BY <2>4 DEF t
<1>5. \A o \in UserInit(s) : \/ o \in Sar(s) \/ o = Done(y, TRUE) \/ o = Answered(s, FALSE)
         \/ \E ids \in Profiles : o \in DnsAs([s EXCEPT !.reg = "REGISTERED", !.ids = ids])
  BY DEF UserInit
<1> QED
  BY <1>1, <1>2, <1>3, <1>4, <1>5

\* A request that comes back.
LEMMA OnwardOk ==
    ASSUME NEW u, NEW b, Sound(u, b), Open(u), NEW t \in Onward(u)
    PROVE  Sound(t, b) /\ Open(t)
<1> DEFINE s == [u EXCEPT !.elem = "none", !.initial = FALSE]
<1>1. /\ s \in SessType /\ Alike(u, s) /\ s.state = u.state
      /\ s.listed = u.listed /\ s.left = u.left
  BY DEF Sound, SessType, ElemType, Alike
<1>2. t \in IF s.state = "DNS_AS" THEN {Settled(o) : o \in DnsAs(s)} ELSE {s}
  BY DEF Onward
<1> HIDE DEF s
<1>3. Sound(s, b) /\ Open(s)
  BY <1>1, SoundAlike DEF Open, Alike
<1>4. CASE s.state = "DNS_AS"
  <2>1. [s EXCEPT !.state = "DNS_AS"] = s
    BY <1>1, <1>4 DEF SessType
  <2>2. PICK o \in DnsAs(s) : t = Settled(o)
    BY <1>2, <1>4
  <2> QED
    BY <1>3, <1>4, <2>1, <2>2, DnsAsOk, OutcomeLeaves, SettledOk
<1>5. CASE s.state # "DNS_AS"
  BY <1>2, <1>3, <1>5
<1> QED
  BY <1>4, <1>5

\* A request is for the session what the one before was.
LEMMA RequestedSound ==
    ASSUME NEW u, NEW b, NEW c, Sound(u, b), Open(u), NEW method \in Methods,
           c => b /\ method = "invite", NEW s, s = [u EXCEPT !.msg = method]
    PROVE  Sound(s, c) /\ Open(s)
<1>1. u \in SessType /\ method \in MsgType
  BY DEF Sound, MsgType
<1>2. /\ s \in SessType /\ s.state = u.state /\ s.half = u.half /\ s.reg = u.reg /\ s.ids = u.ids
      /\ s.msg = method /\ s.ifc = u.ifc /\ s.tried = u.tried /\ s.due = u.due
      /\ s.sars = u.sars /\ s.lirs = u.lirs /\ s.listed = u.listed /\ s.left = u.left
  BY <1>1 DEF SessType
<1>3. Waits(s) /\ Open(s)
  BY <1>2 DEF Sound, Waits, Open
<1>4. ASSUME c PROVE Asked(s)
  <2>1. Asked(u) /\ s.msg = "invite"
    BY <1>2, <1>4 DEF Sound
  <2>2. u.msg = "invite" => Met(s) = Met(u)
    BY <1>2, <2>1, MetAlike
  <2>3. u.ifc \in 0..Len(Criteria)
    BY <1>1 DEF SessType, IfcType
  <2>4. \A j \in 1..s.ifc : j \in Met(s) => <<s.half, j>> \in s.tried
    <3>1. CASE u.ifc = 0
      BY <1>2, <3>1
    <3>2. CASE u.ifc # 0
      BY <1>2, <2>1, <2>2, <2>3, <3>2, IfcAssumption DEF Asked
    <3> QED
      BY <3>1, <3>2
  <2> QED
    BY <1>2, <2>1, <2>2, <2>4 DEF Asked
<1> QED
  BY <1>2, <1>3, <1>4 DEF Sound

-----------------------------------------------------------------------------
\* The session with one answer less to come, or one call less.
Fewer(u, s) ==
    /\ s \in SessType /\ Alike(u, s) /\ s.state = u.state
    /\ u.sars = s.sars /\ u.listed = s.listed /\ u.left = s.left

LEMMA FewerOk ==
    ASSUME NEW u, NEW s, NEW b, Sound(u, b), Open(u), Fewer(u, s)
    PROVE  Sound(s, b) /\ Open(s)
BY SoundAlike DEF Fewer, Open

LEMMA InitOk == Init => IInv
<1> SUFFICES ASSUME Init PROVE IInv
  OBVIOUS
<1>1. Waits(sess) /\ Asked(sess) /\ Open(sess)
  BY AbsentIs DEF Init, Waits, Asked, Open
<1> QED
  BY <1>1, AbsentIs, SessionAssumption DEF Init, IInv, Sound

\* The methods of the requests, of which there is one more.
LEMMA CountedOk ==
    ASSUME IInv, NEW method \in Methods, Counted(method)
    PROVE  /\ returns' \in 0..MaxReturns /\ methods' \subseteq Methods
           /\ methods' \subseteq {"invite"} => methods \subseteq {"invite"} /\ method = "invite"
BY SessionAssumption DEF IInv, Counted

LEMMA FirstRequestOk ==
    ASSUME IInv, NEW method \in Methods, NEW half \in HalfType, FirstRequest(method, half)
    PROVE  IInv'
<1> DEFINE b == methods' \subseteq {"invite"}
           s == [Absent EXCEPT !.state = "INIT", !.half = half, !.msg = method, !.initial = TRUE]
           t == [s EXCEPT !.state = IF half = "MO" THEN "MO_INIT" ELSE "MT_INIT"]
<1>1. PICK o \in {Ended, Answered(s, FALSE)} \cup UserInit(t) : sess' = Settled(o)
  BY DEF FirstRequest
<1>2. returns' = returns /\ methods' = {method}
  BY DEF FirstRequest
<1>3. /\ s \in SessType /\ s.state = "INIT" /\ s.msg = method /\ s.ifc = 0
      /\ s.sars = 0 /\ s.lirs = 0 /\ s.due = {}
  BY AbsentIs DEF SessType, StateType, States, MsgType
<1> HIDE DEF s
<1>4. t \in SessType /\ Alike(s, t) /\ t.state \in {"MO_INIT", "MT_INIT"}
  BY <1>3 DEF SessType, StateType, States, Alike
<1> HIDE DEF t
<1>5. Sound(s, b)
  BY <1>2, <1>3 DEF Sound, Waits, Asked
<1>6. Sound(t, b)
  BY <1>4, <1>5, SoundAlike
<1> HIDE DEF b
<1>7. \A q \in UserInit(t) : Leaves(q, b)
  BY <1>3, <1>4, <1>6, UserInitOk DEF Alike
<1>8. Leaves(o, b)
  BY <1>1, <1>5, <1>7, EndedOk, OutcomeLeaves, FailedLeaves
<1>9. Sound(sess', b) /\ Open(sess')
  BY <1>1, <1>8, SettledOk
<1> QED
  BY <1>2, <1>9 DEF IInv, b

LEMMA SameCallOk ==
    ASSUME IInv, NEW method \in Methods, NEW user, SameCall(method, user)
    PROVE  IInv'
<1> DEFINE b == methods' \subseteq {"invite"}
           s == [sess EXCEPT !.msg = method]
<1>1. sess' \in Onward(s) \/ sess' = Close(s)
  BY DEF SameCall
<1>2. Sound(s, b) /\ Open(s)
  BY CountedOk, RequestedSound DEF IInv, SameCall
<1> HIDE DEF b, s
<1>3. Sound(sess', b) /\ Open(sess')
  BY <1>1, <1>2, OnwardOk, CloseOk
<1> QED
  BY <1>3, CountedOk DEF IInv, SameCall, b

LEMMA OtherCallOk ==
    ASSUME IInv, NEW method \in Methods, NEW user, OtherCall(method, user)
    PROVE  IInv'
<1> DEFINE b == methods' \subseteq {"invite"}
           s == [sess EXCEPT !.msg = method]
<1>1. sess' \in Onward(s)
  BY DEF OtherCall
<1>2. Sound(s, b) /\ Open(s)
  BY CountedOk, RequestedSound DEF IInv, OtherCall
<1> HIDE DEF b, s
<1>3. Sound(sess', b) /\ Open(sess')
  BY <1>1, <1>2, OnwardOk
<1> QED
  BY <1>3, CountedOk DEF IInv, OtherCall, b

\* What does not bring a request keeps the invariant if it keeps the session's part.
LEMMA Quiet ==
    ASSUME IInv, Requested, \A b : Sound(sess, b) => Sound(sess', b) /\ Open(sess')
    PROVE  IInv'
BY DEF IInv, Requested

LEMMA SaaOk == ASSUME IInv, Saa PROVE IInv'
<1> SUFFICES ASSUME NEW b, Sound(sess, b) PROVE Sound(sess', b) /\ Open(sess')
  BY Quiet DEF Saa
<1> DEFINE s == [sess EXCEPT !.sars = @ - 1]
<1>1. sess.sars > 0 /\ sess \in SessType /\ sess.sars + sess.lirs <= 1 /\ Open(sess)
  BY DEF Saa, Sound, Waits, IInv
<1>2. sess.sars = 1 /\ sess.lirs = 0 /\ sess.ifc = 0
  BY <1>1 DEF SessType, Sound, Waits
<1>3. /\ s \in SessType /\ s.state = sess.state /\ s.half = sess.half /\ s.reg = sess.reg
      /\ s.ids = sess.ids /\ s.msg = sess.msg /\ s.ifc = 0 /\ s.tried = sess.tried
      /\ s.due = sess.due /\ s.sars = 0 /\ s.lirs = 0 /\ s.listed = sess.listed
  BY <1>1, <1>2 DEF SessType
<1>4. IF ~Live THEN sess' = s
      ELSE \E o \in {Answered(s, FALSE)}
                    \cup UNION {DnsAs([s EXCEPT !.ids = ids]) : ids \in Profiles} :
              sess' = Settled(o)
  BY DEF Saa
<1> HIDE DEF s
<1>5. Sound(s, b)
  <2>1. Met(s) = Met(sess)
    BY <1>3, MetAlike
  <2>2. Waits(s)
    BY <1>2, <1>3 DEF Sound, Waits
  <2>3. b => Asked(s)
    BY <1>2, <1>3, <2>1 DEF Sound, Asked
  <2> QED
    BY <1>3, <2>2, <2>3 DEF Sound
<1>6. CASE ~Live
  BY <1>1, <1>3, <1>4, <1>5, <1>6 DEF Live, NoSession, Open
<1>7. CASE Live
  <2>1. PICK o \in {Answered(s, FALSE)}
                   \cup UNION {DnsAs([s EXCEPT !.ids = ids]) : ids \in Profiles} :
           sess' = Settled(o)
    BY <1>4, <1>7
  <2>2. Leaves(Answered(s, FALSE), b)
    BY <1>5, FailedLeaves
  <2>3. ASSUME NEW ids \in Profiles PROVE \A q \in DnsAs([s EXCEPT !.ids = ids]) : Leaves(q, b)
    <3> DEFINE t == [s EXCEPT !.ids = ids]
    <3>1. ids \in IdsType
      BY DEF IdsType
    <3>2. /\ t \in SessType /\ t.ifc = 0 /\ t.msg = s.msg /\ t.tried = s.tried
          /\ t.due = s.due /\ t.sars = 0 /\ t.lirs = 0
      BY <1>3, <3>1 DEF SessType
    <3> HIDE DEF t
    <3>3. \A q \in DnsAs(t) : Leaves(q, b)
      BY <1>3, <1>5, <3>2, ProfiledOk
    <3> QED
      BY <3>3 DEF t
  <2>4. Leaves(o, b)
    BY <2>1, <2>2, <2>3
  <2> QED
    BY <2>1, <2>4, SettledOk
<1> QED
  BY <1>6, <1>7

LEMMA LiaOk == ASSUME IInv, Lia PROVE IInv'
<1> SUFFICES ASSUME NEW b, Sound(sess, b) PROVE Sound(sess', b) /\ Open(sess')
  BY Quiet DEF Lia
<1> DEFINE s == [sess EXCEPT !.lirs = @ - 1]
           x == [s EXCEPT !.state = "TO_GEO_SCSCF"]
           y == [s EXCEPT !.state = "TO_LOCAL_CSCF"]
<1>1. sess.lirs > 0 /\ sess \in SessType /\ sess.sars + sess.lirs <= 1 /\ Open(sess)
  BY DEF Lia, Sound, Waits, IInv
<1>2. sess.lirs = 1 /\ sess.sars = 0 /\ sess.ifc = 0
  BY <1>1 DEF SessType, Sound, Waits
<1>3. /\ s \in SessType /\ s.state = sess.state /\ s.half = sess.half /\ s.reg = sess.reg
      /\ s.ids = sess.ids /\ s.msg = sess.msg /\ s.ifc = 0 /\ s.tried = sess.tried
      /\ s.due = sess.due /\ s.sars = 0 /\ s.lirs = 0
      /\ s.listed = sess.listed /\ s.left = sess.left
  BY <1>1, <1>2 DEF SessType
<1>4. IF ~Live THEN sess' = s
      ELSE \E o \in {Answered(s, FALSE), Done(s, FALSE), Done(x, TRUE), Done(y, TRUE)} \cup Sar(s) :
              sess' = Settled(o)
  BY DEF Lia
<1> HIDE DEF s
<1>5. Sound(s, b)
  <2>1. Met(s) = Met(sess)
    BY <1>3, MetAlike
  <2>2. Waits(s)
    BY <1>2, <1>3 DEF Sound, Waits
  <2>3. b => Asked(s)
    BY <1>2, <1>3, <2>1 DEF Sound, Asked
  <2> QED
    BY <1>3, <2>2, <2>3 DEF Sound
<1>6. /\ x \in SessType /\ Alike(s, x) /\ x.state = "TO_GEO_SCSCF"
      /\ y \in SessType /\ Alike(s, y) /\ y.state = "TO_LOCAL_CSCF"
  BY <1>3 DEF SessType, StateType, States, Alike
<1> HIDE DEF x, y
<1>7. CASE ~Live
  BY <1>1, <1>2, <1>3, <1>4, <1>5, <1>7 DEF Live, NoSession, Open
<1>8. CASE Live
  <2>1. PICK o \in {Answered(s, FALSE), Done(s, FALSE), Done(x, TRUE), Done(y, TRUE)} \cup Sar(s) :
           sess' = Settled(o)
    BY <1>4, <1>8
  <2>2. Leaves(Answered(s, FALSE), b) /\ Leaves(Done(s, FALSE), b)
    BY <1>5, FailedLeaves
  <2>3. Leaves(Done(x, TRUE), b) /\ Leaves(Done(y, TRUE), b)
    <3>1. Sound(x, b) /\ Sound(y, b) /\ Open(x) /\ Open(y)
      BY <1>5, <1>6, SoundAlike, Shut DEF Elsewhere
    <3> QED
      BY <3>1, DoneOk, OutcomeLeaves
  <2>4. \A q \in Sar(s) : Leaves(q, b)
    BY <1>3, <1>5, SarOk
  <2>5. Leaves(o, b)
    BY <2>1, <2>2, <2>3, <2>4
  <2> QED
    BY <2>1, <2>5, SettledOk
<1> QED
  BY <1>7, <1>8

\* DNS has the answer to a query of an AS.
LEMMA FwdRequestOk ==
    ASSUME NEW s, NEW b, Sound(s, b), s.state = "DNS_AS", NEW o \in FwdRequest(s)
    PROVE  Outcome(o, b) /\ (o.goes => Sound([o.s EXCEPT !.state = "DNS_AS"], b)
                                       /\ [o.s EXCEPT !.state = "DNS_AS"].state = "DNS_AS")
<1> DEFINE sent == [s EXCEPT !.odi = TRUE]
<1>1. o \in AsFails(s, FALSE) \/ o \in Proxied(sent) \/ o \in AsFails(Unproxied(sent), FALSE)
  BY DEF FwdRequest
<1>2. sent \in SessType /\ Alike(s, sent) /\ sent.state = "DNS_AS"
  BY DEF Sound, SessType, Alike
<1> HIDE DEF sent
<1>3. Sound(sent, b)
  BY <1>2, SoundAlike
<1>4. Sound(Unproxied(sent), b) /\ Unproxied(sent).state = "DNS_AS"
  BY <1>2, <1>3, UnproxiedAlike, UnproxiedSound DEF Elsewhere
<1>5. ASSUME NEW t, Sound(t, b), t.state = "DNS_AS"
      PROVE  Sound([t EXCEPT !.state = "DNS_AS"], b) /\ [t EXCEPT !.state = "DNS_AS"].state = "DNS_AS"
  <2>1. t \in SessType
    BY <1>5 DEF Sound
  <2>2. [t EXCEPT !.state = "DNS_AS"] = t
    BY <1>5, <2>1 DEF SessType
  <2> QED
    BY <1>5, <2>2
<1>6. ASSUME NEW t, Sound(t, b), t.state = "DNS_AS", o \in AsFails(t, FALSE)
      PROVE  Outcome(o, b) /\ (o.goes => o.s = t)
  <2>1. Outcome(o, b) /\ (o.goes => o = Going(t))
    BY <1>6, AsFailsOk
  <2> QED
    BY <2>1 DEF Going
<1>7. CASE o \in AsFails(s, FALSE)
  BY <1>5, <1>6, <1>7
<1>8. CASE o \in Proxied(sent)
  BY <1>2, <1>3, <1>8, ProxiedOk DEF Elsewhere
<1>9. CASE o \in AsFails(Unproxied(sent), FALSE)
  BY <1>4, <1>5, <1>6, <1>9
<1> QED
  BY <1>1, <1>7, <1>8, <1>9

LEMMA DnsOutcomesOk ==
    ASSUME NEW s, NEW b, Sound(s, b)
    PROVE  \A o \in DnsOutcomes(s) : Leaves(o, b)
<1> SUFFICES ASSUME NEW o \in DnsOutcomes(s) PROVE Leaves(o, b)
  OBVIOUS
<1>1. CASE s.state = "DNS_ENUM"
  <2>1. o = Answered(s, FALSE) \/ o \in Ignoring(Lir(s), TRUE) \/ o \in ToBreakout(s)
    BY <1>1 DEF DnsOutcomes
  <2>2. s.sars + s.lirs = 0 /\ s.ifc = 0
    BY <1>1 DEF Sound, Waits
  <2>3. CASE o = Answered(s, FALSE)
    BY <2>3, FailedLeaves
  <2>4. CASE o \in Ignoring(Lir(s), TRUE)
    <3>1. PICK q \in Lir(s) : o = [q EXCEPT !.ok = TRUE]
      BY <2>4 DEF Ignoring
    <3>2. Outcome(q, b)
      BY <2>2, LirOk
    <3>3. o = [s |-> q.s, goes |-> q.goes, ok |-> TRUE]
      BY <3>1, <3>2 DEF Outcome
    <3> QED
      BY <3>2, <3>3 DEF Outcome, Leaves
  <2>5. CASE o \in ToBreakout(s)
    BY <2>5, ToBreakoutOk, OutcomeLeaves
  <2> QED
    BY <2>1, <2>3, <2>4, <2>5
<1>2. CASE s.state = "DNS_AS"
  <2>1. PICK q \in FwdRequest(s) : o \in IF q.goes THEN DnsAs(q.s) ELSE {q}
    BY <1>2 DEF DnsOutcomes
  <2>2. Outcome(q, b) /\ (q.goes => Sound([q.s EXCEPT !.state = "DNS_AS"], b)
                                    /\ [q.s EXCEPT !.state = "DNS_AS"].state = "DNS_AS")
    BY <1>2, FwdRequestOk
  <2>3. q.goes => \A p \in DnsAs(q.s) : Outcome(p, b)
    BY <2>2, DnsAsOk
  <2> QED
    BY <2>1, <2>2, <2>3, OutcomeLeaves
<1>3. CASE s.state \notin {"DNS_ENUM", "DNS_AS"}
  <2>1. o = Done(s, FALSE)
    BY <1>3 DEF DnsOutcomes
  <2> QED
    BY <2>1, FailedLeaves
<1> QED
  BY <1>1, <1>2, <1>3

LEMMA DnsAnsweredOk ==
    ASSUME IInv, NEW s, DnsAnswered(s), Fewer(sess, s)
    PROVE  IInv'
<1> SUFFICES ASSUME NEW b, Sound(sess, b) PROVE Sound(sess', b) /\ Open(sess')
  BY Quiet DEF DnsAnswered
<1>1. Sound(s, b) /\ Open(s)
  BY FewerOk DEF IInv
<1> QED
  BY <1>1, DnsOutcomesOk, SettledOk DEF DnsAnswered

LEMMA DnsAsAnswerOk == ASSUME IInv, DnsAsAnswer PROVE IInv'
<1>1. Fewer(sess, [sess EXCEPT !.dns = @ - 1])
  BY DEF IInv, Sound, SessType, DnsAsAnswer, Fewer, Alike
<1> QED
  BY <1>1, DnsAnsweredOk DEF DnsAsAnswer

LEMMA EnumAnswerOk == ASSUME IInv, EnumAnswer PROVE IInv'
<1>1. Fewer(sess, [sess EXCEPT !.enums = @ - 1])
  BY DEF IInv, Sound, SessType, EnumAnswer, Fewer, Alike
<1> QED
  BY <1>1, DnsAnsweredOk DEF EnumAnswer

LEMMA ListedGoneOk == ASSUME IInv, ListedGone PROVE IInv'
<1> SUFFICES ASSUME NEW b, Sound(sess, b) PROVE Sound(sess', b) /\ Open(sess')
  BY Quiet DEF ListedGone
<1> DEFINE s == [sess EXCEPT !.listed = @ - 1]
           t == [s EXCEPT !.left = @ + 1]
<1>1. sess \in SessType /\ sess.listed > 0 /\ Open(sess)
  BY DEF Sound, IInv, ListedGone
<1>2. s \in SessType /\ Alike(sess, s) /\ s.state = sess.state
  BY <1>1 DEF SessType, Alike
<1>3. sess' = CASE ~Live -> s
                [] sess.state = "CLOSING" -> FreedIfUnused(s)
                [] OTHER -> Close(t)
  BY DEF ListedGone
<1> HIDE DEF s
<1>4. t \in SessType /\ Alike(s, t) /\ t.state = s.state
  BY <1>2 DEF SessType, Alike
<1> HIDE DEF t
<1>5. Sound(s, b) /\ Sound(t, b)
  BY <1>2, <1>4, SoundAlike
<1>6. CASE ~Live
  <2>1. s.state # "FREED"
    BY <1>1, <1>2, IInv DEF Open
  <2> QED
    BY <1>2, <1>3, <1>5, <1>6, <2>1 DEF Live, NoSession, Open
<1>7. CASE Live /\ sess.state = "CLOSING"
  BY <1>2, <1>3, <1>5, <1>7, FreedIfUnusedOk
<1>8. CASE Live /\ sess.state # "CLOSING"
  BY <1>3, <1>5, <1>8, CloseOk
<1> QED
  BY <1>6, <1>7, <1>8

LEMMA FailedGoneOk == ASSUME IInv, FailedGone PROVE IInv'
<1> SUFFICES ASSUME NEW b, Sound(sess, b) PROVE Sound(sess', b) /\ Open(sess')
  BY Quiet DEF FailedGone
<1> DEFINE s == [sess EXCEPT !.failed = @ - 1]
<1>1. Fewer(sess, s)
  BY DEF IInv, Sound, SessType, FailedGone, Fewer, Alike
<1>2. sess' = CASE ~Live -> s
                [] sess.state = "CLOSING" -> FreedIfUnused(s)
                [] OTHER -> Close(s)
  BY DEF FailedGone
<1> HIDE DEF s
<1>3. Sound(s, b) /\ Open(s) /\ s.state = sess.state
  BY <1>1, FewerOk DEF IInv, Fewer
<1>4. CASE ~Live
  BY <1>2, <1>3, <1>4 DEF Live, NoSession
<1>5. CASE Live /\ sess.state = "CLOSING"
  BY <1>2, <1>3, <1>5, FreedIfUnusedOk
<1>6. CASE Live /\ sess.state # "CLOSING"
  BY <1>2, <1>3, <1>6, CloseOk
<1> QED
  BY <1>4, <1>5, <1>6

-----------------------------------------------------------------------------
LEMMA NextOk == ASSUME IInv, [Next]_vars PROVE IInv'
<1>1. ASSUME NEW method \in Methods, NEW half \in {"MO", "MT"}, FirstRequest(method, half)
      PROVE  IInv'
  BY <1>1, FirstRequestOk DEF HalfType
<1>2. ASSUME NEW method \in Methods, NEW user \in {"odi", "empty", "other"}, SameCall(method, user)
      PROVE  IInv'
  BY <1>2, SameCallOk
<1>3. ASSUME NEW method \in Methods, NEW user \in {"odi", "empty"}, OtherCall(method, user)
      PROVE  IInv'
  BY <1>3, OtherCallOk
<1>4. CASE Saa
  BY <1>4, SaaOk
<1>5. CASE Lia
  BY <1>5, LiaOk
<1>6. CASE DnsAsAnswer
  BY <1>6, DnsAsAnswerOk
<1>7. CASE EnumAnswer
  BY <1>7, EnumAnswerOk
<1>8. CASE ListedGone
  BY <1>8, ListedGoneOk
<1>9. CASE FailedGone
  BY <1>9, FailedGoneOk
<1>10. CASE UNCHANGED vars
  BY <1>10 DEF vars, IInv
<1> QED
  BY <1>1, <1>2, <1>3, <1>4, <1>5, <1>6, <1>7, <1>8, <1>9, <1>10 DEF Next

\* The inductive invariant holds of every call, whatever comes for it and in whatever
\* order (scscfSession.c).
THEOREM Invariance == Spec => []IInv
<1>1. Init => IInv
  BY InitOk
<1>2. IInv /\ [Next]_vars => IInv'
  BY NextOk
<1> QED
  BY <1>1, <1>2, PTL DEF Spec

\* A session stays as long as something is open for it: one in SAR has an answer of
\* the HSS to come, one that is closing has a proxy left, and none is freed while a
\* proxy of its list has a call (scscfSess_enterState, scscfSess_onProxyStatus).
THEOREM SessionsAreKept == Spec => []Kept
<1>1. IInv => Kept
  <2>1. IInv => TypeOK
    BY DEF IInv, Sound, TypeOK, SessType, StateType, HalfType, RegType, IdsType, MsgType, IfcType,
           ElemType, StrayType, TriedType, DueType
  <2> QED
    BY <2>1 DEF IInv, Kept, Open
<1> QED
  BY <1>1, Invariance, PTL

\* A call comes to the called user only after each AS of the caller that it meets,
\* and to the user's phone only after each of the called user (scscfIfc_getNextAS and
\* the threads of events that start it again): for every list of criteria.
THEOREM NobodyIsPassedOver == Spec => []NobodyPassedOver
<1>1. IInv => NobodyPassedOver
  BY DEF IInv, Sound, Asked, NobodyPassedOver
<1> QED
  BY <1>1, Invariance, PTL

================================================================================
