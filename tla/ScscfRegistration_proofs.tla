---------------------- MODULE ScscfRegistration_proofs ----------------------
(***************************************************************************)
(* Invariants of the S-CSCF's registrations, for every set of blocks,      *)
(* every number of filter criteria and every profile, without a bound on   *)
(* what is open for a block.                                               *)
(***************************************************************************)
EXTENDS ScscfRegistration, FiniteSetTheorems, TLAPS

Hashes == [Ids -> Blocks \cup {"none"}]

\* What holds of one block.  The answer to the first REGISTER is awaited only
\* while the user is not registered: a failure then forgets the profile.
Lasting(r) ==
    /\ r.expiry => r.state = "REGISTERED"
    /\ r.state = "REGISTERED" => r.known
    /\ r.sar = "REGISTER" =>
          r.sars = 0 \/ (r.sars = 1 /\ r.state = "NOT_REGISTERED")

Sound(r) ==
    /\ Lasting(r)
    /\ r.work = "WAIT_3RD" => r.as + r.dns > 0

\* The references of the blocks regs are the keys of the hash h.
Keyed(h, regs) ==
    \A c \in Blocks :
       /\ regs[c].refs \in {Held(h, c, Ids), Held(h, c, Ids) + 1}
       /\ regs[c].refs = 0 => regs[c] = Freed(regs[c])

IInv == /\ hash \in Hashes
        /\ session \in BOOLEAN
        /\ profile \in Profiles
        /\ reg \in [Blocks -> Regs]
        /\ \A c \in Blocks : Sound(reg[c])
        /\ Keyed(hash, reg)

-----------------------------------------------------------------------------
\* Counting the keys of a block one by one.
Bit(h, c, ids, i) == IF i \in ids /\ h[i] = c THEN 1 ELSE 0

LEMMA HeldIsSum ==
    ASSUME NEW h, NEW c, NEW ids \in SUBSET Ids
    PROVE  Held(h, c, ids) = Bit(h, c, ids, "key") + Bit(h, c, ids, "impi")
                                + Bit(h, c, ids, "impu")
<1> DEFINE S == {i \in ids : h[i] = c}
           S1 == S \ {"key"}
           S2 == S1 \ {"impi"}
           S3 == S2 \ {"impu"}
<1>1. IsFiniteSet(Ids)
  <2>1. IsFiniteSet({"key"})
    BY FS_Singleton
  <2>2. IsFiniteSet({"key"} \cup {"impi"})
    BY <2>1, FS_AddElement
  <2>3. IsFiniteSet(({"key"} \cup {"impi"}) \cup {"impu"})
    BY <2>2, FS_AddElement
  <2>4. Ids = ({"key"} \cup {"impi"}) \cup {"impu"}
    BY DEF Ids
  <2> QED
    BY <2>3, <2>4
<1>2. IsFiniteSet(S)
  BY <1>1, FS_Subset
<1>3. IsFiniteSet(S1) /\ Cardinality(S1) = IF "key" \in S THEN Cardinality(S) - 1
                                                            ELSE Cardinality(S)
  BY <1>2, FS_RemoveElement
<1>4. IsFiniteSet(S2) /\ Cardinality(S2) = IF "impi" \in S1 THEN Cardinality(S1) - 1
                                                             ELSE Cardinality(S1)
  BY <1>3, FS_RemoveElement
<1>5. IsFiniteSet(S3) /\ Cardinality(S3) = IF "impu" \in S2 THEN Cardinality(S2) - 1
                                                             ELSE Cardinality(S2)
  BY <1>4, FS_RemoveElement
<1>6. S3 = {}
  BY DEF Ids
<1>7. Cardinality(S3) = 0
  BY <1>6, FS_EmptySet
<1>8. Cardinality(S) \in Nat
  BY <1>2, FS_CardinalityType
<1>9. /\ "key" \in S <=> Bit(h, c, ids, "key") = 1
      /\ "impi" \in S1 <=> Bit(h, c, ids, "impi") = 1
      /\ "impu" \in S2 <=> Bit(h, c, ids, "impu") = 1
      /\ \A i \in Ids : Bit(h, c, ids, i) \in {0, 1}
  BY DEF Bit
<1>10. Cardinality(S1) \in Nat /\ Cardinality(S2) \in Nat
  BY <1>3, <1>4, FS_CardinalityType
<1>11. Cardinality(S) = Bit(h, c, ids, "key") + Bit(h, c, ids, "impi")
                           + Bit(h, c, ids, "impu")
  <2> HIDE DEF S, S1, S2, S3
  <2>1. \A i \in {"key", "impi", "impu"} : Bit(h, c, ids, i) \in {0, 1}
    BY <1>9 DEF Ids
  <2> QED
    BY <1>3, <1>4, <1>5, <1>7, <1>8, <1>9, <1>10, <2>1
<1> QED
  BY <1>11 DEF Held

\* The subscription of a profile has two identities.
LEMMA CardinalityOfIds ==
    ASSUME NEW ids \in {{"key", "impu"}, {"impi", "impu"}}
    PROVE  Cardinality(ids) = 2
<1>1. IsFiniteSet({"key"}) /\ Cardinality({"key"}) = 1
      /\ IsFiniteSet({"impi"}) /\ Cardinality({"impi"}) = 1
  BY FS_Singleton
<1>2. Cardinality({"key"} \cup {"impu"}) = 2 /\ Cardinality({"impi"} \cup {"impu"}) = 2
  BY <1>1, FS_AddElement
<1>3. {"key", "impu"} = {"key"} \cup {"impu"} /\ {"impi", "impu"} = {"impi"} \cup {"impu"}
  OBVIOUS
<1> QED
  BY <1>2, <1>3

\* The keys of the hash h when the elements ids lead to v instead.
Led(h, ids, v) == [i \in Ids |-> IF i \in ids THEN v ELSE h[i]]

\* A count is a natural number.
LEMMA HeldInNat ==
    ASSUME NEW h, NEW c, NEW ids \in SUBSET Ids
    PROVE  Held(h, c, ids) \in Nat
<1>1. \A i \in Ids : Bit(h, c, ids, i) \in {0, 1}
  BY DEF Bit
<1> QED
  BY <1>1, HeldIsSum DEF Ids

\* Another block loses the keys that are led elsewhere.
LEMMA HeldByOthers ==
    ASSUME NEW h \in Hashes, NEW v, NEW c \in Blocks, c # v, NEW ids \in SUBSET Ids
    PROVE  Held(Led(h, ids, v), c, Ids) = Held(h, c, Ids) - Held(h, c, ids)
<1>1. \A i \in Ids : /\ Bit(Led(h, ids, v), c, Ids, i) = Bit(h, c, Ids, i) - Bit(h, c, ids, i)
                     /\ Bit(h, c, Ids, i) \in {0, 1} /\ Bit(h, c, ids, i) \in {0, 1}
  BY DEF Bit, Led
<1>2. Held(Led(h, ids, v), c, Ids) = Bit(Led(h, ids, v), c, Ids, "key")
         + Bit(Led(h, ids, v), c, Ids, "impi") + Bit(Led(h, ids, v), c, Ids, "impu")
  BY HeldIsSum
<1>3. Held(h, c, Ids) = Bit(h, c, Ids, "key") + Bit(h, c, Ids, "impi") + Bit(h, c, Ids, "impu")
  BY HeldIsSum
<1>4. Held(h, c, ids) = Bit(h, c, ids, "key") + Bit(h, c, ids, "impi") + Bit(h, c, ids, "impu")
  BY HeldIsSum
<1> QED
  BY <1>1, <1>2, <1>3, <1>4 DEF Ids

\* A block gains the two keys of a profile that are led to it.
LEMMA HeldByNew ==
    ASSUME NEW h \in Hashes, NEW v, NEW ids \in {{"key", "impu"}, {"impi", "impu"}},
           \A i \in ids : h[i] # v
    PROVE  Held(Led(h, ids, v), v, Ids) = Held(h, v, Ids) + 2
<1>1. \A i \in Ids : /\ Bit(Led(h, ids, v), v, Ids, i) =
                            IF i \in ids THEN 1 ELSE Bit(h, v, Ids, i)
                     /\ Bit(h, v, Ids, i) \in {0, 1}
                     /\ i \in ids => Bit(h, v, Ids, i) = 0
  BY DEF Bit, Led
<1>2. Held(Led(h, ids, v), v, Ids) = Bit(Led(h, ids, v), v, Ids, "key")
         + Bit(Led(h, ids, v), v, Ids, "impi") + Bit(Led(h, ids, v), v, Ids, "impu")
  BY HeldIsSum
<1>3. Held(h, v, Ids) = Bit(h, v, Ids, "key") + Bit(h, v, Ids, "impi") + Bit(h, v, Ids, "impu")
  BY HeldIsSum
<1>4. CASE ids = {"key", "impu"}
  BY <1>1, <1>2, <1>3, <1>4 DEF Ids
<1>5. CASE ids = {"impi", "impu"}
  BY <1>1, <1>2, <1>3, <1>5 DEF Ids
<1> QED
  BY <1>4, <1>5

-----------------------------------------------------------------------------
\* A freed block is in order.
LEMMA FreedIsSound ==
    ASSUME NEW r \in Regs
    PROVE  Freed(r) \in Regs /\ Sound(Freed(r)) /\ Freed(r).refs = 0
           /\ Freed(Freed(r)) = Freed(r) /\ Freed(r).work = "NONE"
<1>1. r.sars \in Nat /\ r.as \in Nat /\ r.dns \in Nat /\ 0 \in 0..N
  BY RegAssumption DEF Regs
<1>2. Freed(r).sars = r.sars /\ Freed(r).as = r.as /\ Freed(r).dns = r.dns
  BY DEF Freed, Unused
<1>3. Freed(r) \in Regs
  BY <1>1 DEF Freed, Unused, Regs, States
<1>4. Sound(Freed(r)) /\ Freed(r).refs = 0 /\ Freed(r).work = "NONE"
  BY DEF Freed, Unused, Sound, Lasting
<1>5. Freed(Freed(r)) = Freed(r)
  BY <1>2 DEF Freed
<1> QED
  BY <1>3, <1>4, <1>5

\* A freed block, field by field.
Blank(r) ==
    /\ r.refs = 0 /\ r.state = "NOT_REGISTERED" /\ r.known = FALSE /\ r.les = {}
    /\ r.keyLE = FALSE /\ r.sar = "INVALID" /\ r.work = "NONE" /\ r.ifc = 0
    /\ r.dh = FALSE /\ r.expiry = FALSE /\ r.listed = 0

LEMMA FreedIsBlank ==
    ASSUME NEW r \in Regs
    PROVE  r = Freed(r) <=> Blank(r)
<1> DEFINE f == Freed(r)
<1>1. f \in Regs
  BY FreedIsSound
<1>2. f.sars = r.sars /\ f.as = r.as /\ f.dns = r.dns /\ Blank(f)
  BY DEF Freed, Unused, Blank
<1> HIDE DEF f
<1>3. r = f => Blank(r)
  BY <1>2
<1>4. Blank(r) => r = f
  BY <1>1, <1>2 DEF Blank, Regs
<1> QED
  BY <1>3, <1>4 DEF f

\* Giving back n references.
LEMMA UnrefEffect ==
    ASSUME NEW r \in Regs, Sound(r), r.refs = 0 => r = Freed(r), NEW n \in Nat
    PROVE  /\ Unref(r, n) \in Regs /\ Sound(Unref(r, n))
           /\ Unref(r, n).refs = r.refs - n
           /\ n <= r.refs => (Unref(r, n).refs = 0 => Unref(r, n) = Freed(Unref(r, n)))
           /\ Unref(r, n).work = "WAIT_3RD" =>
                 /\ r.work = "WAIT_3RD" /\ Unref(r, n).ifc = r.ifc
                 /\ Unref(r, n).dns = r.dns /\ Unref(r, n).as = r.as
                 /\ Unref(r, n).listed = r.listed
<1>1. CASE n > 0 /\ r.refs = n
  BY <1>1, FreedIsSound DEF Unref
<1>2. CASE ~(n > 0 /\ r.refs = n)
  <2>1. Unref(r, n) = [r EXCEPT !.refs = r.refs - n]
    BY <1>2 DEF Unref
  <2>2. Unref(r, n) \in Regs /\ Sound(Unref(r, n)) /\ Unref(r, n).refs = r.refs - n
    BY <2>1 DEF Regs, Sound, Lasting
  <2>3. ASSUME n <= r.refs, Unref(r, n).refs = 0
        PROVE  Unref(r, n) = Freed(Unref(r, n))
    <3>1. r.refs \in Int
      BY DEF Regs
    <3>2. r.refs = 0 /\ n = 0
      BY <1>2, <2>2, <2>3, <3>1
    <3>3. Unref(r, n) = r
      BY <2>1, <3>2 DEF Regs
    <3> QED
      BY <3>2, <3>3
  <2> QED
    BY <2>1, <2>2, <2>3 DEF Regs
<1> QED
  BY <1>1, <1>2

\* Every block is nearer its end, or where it was.
Progress == \A c \in Blocks : Nearer(reg[c], reg'[c])

\* Deleting the keys ids gives every block back the references it had for them.
LEMMA Deletion ==
    ASSUME NEW h \in Hashes, NEW regs \in [Blocks -> Regs], Keyed(h, regs),
           \A c \in Blocks : Sound(regs[c]), NEW ids \in SUBSET Ids
    PROVE  /\ Led(h, ids, "none") \in Hashes
           /\ Released(h, regs, ids) \in [Blocks -> Regs]
           /\ Keyed(Led(h, ids, "none"), Released(h, regs, ids))
           /\ \A c \in Blocks :
                 /\ Sound(Released(h, regs, ids)[c])
                 /\ Released(h, regs, ids)[c].work = "WAIT_3RD" =>
                       /\ regs[c].work = "WAIT_3RD"
                       /\ Released(h, regs, ids)[c].ifc = regs[c].ifc
                       /\ Released(h, regs, ids)[c].dns = regs[c].dns
                       /\ Released(h, regs, ids)[c].as = regs[c].as
                       /\ Released(h, regs, ids)[c].listed = regs[c].listed
<1>1. Led(h, ids, "none") \in Hashes
  BY DEF Led, Hashes
<1>2. ASSUME NEW c \in Blocks
      PROVE  LET s == Released(h, regs, ids)[c] IN
             /\ s \in Regs /\ Sound(s)
             /\ s.refs \in {Held(Led(h, ids, "none"), c, Ids), Held(Led(h, ids, "none"), c, Ids) + 1}
             /\ s.refs = 0 => s = Freed(s)
             /\ s.work = "WAIT_3RD" =>
                   /\ regs[c].work = "WAIT_3RD" /\ s.ifc = regs[c].ifc
                   /\ s.dns = regs[c].dns /\ s.as = regs[c].as
                   /\ s.listed = regs[c].listed
  <2> DEFINE r == [regs[c] EXCEPT !.les = @ \ ids, !.keyLE = @ /\ "key" \notin ids]
             n == Held(h, c, ids)
  <2>1. regs[c] \in Regs /\ Sound(regs[c])
    OBVIOUS
  <2>2. /\ r \in Regs /\ r.refs = regs[c].refs /\ r.work = regs[c].work
        /\ r.ifc = regs[c].ifc /\ r.dns = regs[c].dns /\ r.as = regs[c].as
        /\ r.listed = regs[c].listed /\ r.expiry = regs[c].expiry
        /\ r.state = regs[c].state /\ r.known = regs[c].known
        /\ r.sar = regs[c].sar /\ r.sars = regs[c].sars
        /\ r.les = regs[c].les \ ids /\ r.keyLE = (regs[c].keyLE /\ "key" \notin ids)
    BY <2>1 DEF Regs
  <2>3. Sound(r)
    BY <2>1, <2>2 DEF Sound, Lasting
  <2>4. r.refs = 0 => r = Freed(r)
    <3>1. SUFFICES ASSUME r.refs = 0 PROVE r = Freed(r)
      OBVIOUS
    <3>2. regs[c] = Freed(regs[c])
      BY <2>2, <3>1 DEF Keyed
    <3>3. regs[c].les = {} /\ regs[c].keyLE = FALSE
      BY <3>2 DEF Freed, Unused
    <3>4. r = regs[c]
      BY <2>1, <3>3 DEF Regs
    <3> QED
      BY <3>2, <3>4
  <2>5. n \in Nat /\ Held(h, c, Ids) \in Nat /\ Held(Led(h, ids, "none"), c, Ids) \in Nat
    BY HeldInNat
  <2>6. Held(Led(h, ids, "none"), c, Ids) = Held(h, c, Ids) - n
    BY HeldByOthers, RegAssumption
  <2>7. r.refs \in {Held(h, c, Ids), Held(h, c, Ids) + 1}
    BY <2>2 DEF Keyed
  <2>8. n <= r.refs
    BY <2>5, <2>6, <2>7
  <2>9. Released(h, regs, ids)[c] = Unref(r, n)
    BY DEF Released
  <2>10. /\ Unref(r, n) \in Regs /\ Sound(Unref(r, n))
         /\ Unref(r, n).refs = r.refs - n
         /\ Unref(r, n).refs = 0 => Unref(r, n) = Freed(Unref(r, n))
         /\ Unref(r, n).work = "WAIT_3RD" =>
               /\ r.work = "WAIT_3RD" /\ Unref(r, n).ifc = r.ifc
               /\ Unref(r, n).dns = r.dns /\ Unref(r, n).as = r.as
               /\ Unref(r, n).listed = r.listed
    <3> HIDE DEF r, n
    <3> QED
      BY <2>2, <2>3, <2>4, <2>5, <2>8, UnrefEffect
  <2>11. Unref(r, n).refs \in {Held(Led(h, ids, "none"), c, Ids), Held(Led(h, ids, "none"), c, Ids) + 1}
    <3> HIDE DEF r, n
    <3> QED
      BY <2>5, <2>6, <2>7, <2>10
  <2> HIDE DEF r, n
  <2> QED
    BY <2>2, <2>9, <2>10, <2>11
<1>3. Released(h, regs, ids) \in [Blocks -> Regs]
  <2>1. Released(h, regs, ids) = [c \in Blocks |-> Released(h, regs, ids)[c]]
    BY DEF Released
  <2> QED
    BY <1>2, <2>1
<1> QED
  BY <1>1, <1>2, <1>3 DEF Keyed

\* What an event of block b leaves of it, s, and of the hash, h, is right: then
\* the step is, whether the subscription goes on or is deleted.
LEMMA Outcome ==
    ASSUME IInv, NEW b \in Blocks, NEW h \in Hashes, NEW s \in Regs, Sound(s),
           Keyed(h, [reg EXCEPT ![b] = s]), Nearer(reg[b], s),
           Put(h, b, s) \/ DeleteSub(h, b, s), UNCHANGED <<session, profile>>
    PROVE  IInv' /\ Progress
<1> DEFINE regs == [reg EXCEPT ![b] = s]
<1>1. regs \in [Blocks -> Regs] /\ \A c \in Blocks : Sound(regs[c])
  BY DEF IInv
<1>2. \A c \in Blocks : Nearer(reg[c], regs[c])
  <2>1. \A c \in Blocks : Nearer(reg[c], reg[c])
    BY DEF Nearer
  <2> QED
    BY <2>1 DEF IInv
<1>3. CASE Put(h, b, s)
  BY <1>1, <1>2, <1>3 DEF Put, IInv, Progress, Keyed
<1>4. CASE DeleteSub(h, b, s)
  <2>1. Doomed(s) \in SUBSET Ids
    BY DEF Doomed, Regs, Ids
  <2>2. hash' = Led(h, Doomed(s), "none") /\ reg' = Released(h, regs, Doomed(s))
    BY <1>4 DEF DeleteSub, Led
  <2> HIDE DEF regs
  <2>3. /\ hash' \in Hashes /\ reg' \in [Blocks -> Regs] /\ Keyed(hash, reg)'
        /\ \A c \in Blocks : Sound(reg'[c])
        /\ \A c \in Blocks : reg'[c].work = "WAIT_3RD" =>
              /\ regs[c].work = "WAIT_3RD" /\ reg'[c].ifc = regs[c].ifc
              /\ reg'[c].dns = regs[c].dns /\ reg'[c].as = regs[c].as
              /\ reg'[c].listed = regs[c].listed
    <3>1. Keyed(h, regs)
      BY DEF regs
    <3>2. Keyed(hash, reg)' <=> Keyed(hash', reg')
      BY DEF Keyed
    <3> QED
      BY <1>1, <2>1, <2>2, <3>1, <3>2, Deletion
  <2>4. IInv'
    BY <2>3 DEF IInv
  <2>5. Progress
    BY <1>2, <2>3 DEF Progress, Nearer
  <2> QED
    BY <2>4, <2>5
<1> QED
  BY <1>3, <1>4

\* Nothing is registered and nothing is open when the process starts.
LEMMA Empty ==
    /\ NoHash \in Hashes /\ NoReg \in [Blocks -> Regs]
    /\ \A c \in Blocks : Sound(NoReg[c]) /\ NoReg[c].work = "NONE"
    /\ Keyed(NoHash, NoReg)
<1>1. Free \in Regs /\ Sound(Free) /\ Free.refs = 0 /\ Free.work = "NONE"
      /\ Free = Freed(Free)
  BY RegAssumption DEF Free, Freed, Unused, Regs, Sound, Lasting, States
<1>2. \A c \in Blocks : Held(NoHash, c, Ids) = 0
  <2>1. \A c \in Blocks, i \in Ids : Bit(NoHash, c, Ids, i) = 0
    BY RegAssumption DEF Bit, NoHash
  <2>2. \A c \in Blocks : Held(NoHash, c, Ids) =
           Bit(NoHash, c, Ids, "key") + Bit(NoHash, c, Ids, "impi") + Bit(NoHash, c, Ids, "impu")
    BY HeldIsSum
  <2> QED
    BY <2>1, <2>2 DEF Ids
<1> QED
  BY <1>1, <1>2 DEF NoHash, NoReg, Hashes, Keyed

\* A wild address ends the process, which starts as it first did.
LEMMA RestartStep ==
    ASSUME IInv, Restart
    PROVE  IInv' /\ Progress
<1>1. IInv'
  BY Empty DEF Restart, IInv, Keyed
<1>2. Progress
  BY Empty DEF Restart, Progress, Nearer
<1> QED
  BY <1>1, <1>2

\* The start of the process satisfies the inductive invariant.
THEOREM Initial == Init => IInv
BY Empty DEF Init, IInv, Keyed

-----------------------------------------------------------------------------
\* What the chain of third-party REGISTERs makes of a block r: if it waits on, it
\* waits for an AS further down, and something is open for it.
Continues(r, s) ==
    /\ s \in Regs /\ Lasting(s) /\ s.refs = r.refs
    /\ s.work = "WAIT_3RD" =>
          r.work = "WAIT_3RD" /\ s.as + s.dns > 0 /\ s.ifc > r.ifc

Chains(h, b, r) ==
    /\ UNCHANGED <<session, profile>>
    /\ \E s \in Regs : Continues(r, s) /\ (Put(h, b, s) \/ DeleteSub(h, b, s))

\* What the HSS has for the user is as the constants say.
LEMMA ProfileKnown ==
    ASSUME IInv
    PROVE  /\ profile.continued \in SUBSET (1..N) /\ profile.barred \in BOOLEAN
           /\ profile.ids \in {{"key", "impu"}, {"impi", "impu"}}
BY RegAssumption DEF IInv

\* The end of the work is an outcome of the chain.
LEMMA CleanedContinues ==
    ASSUME NEW r \in Regs, NEW t \in Regs, t.refs = r.refs, Lasting(t)
    PROVE  Continues(r, Cleaned(t))
<1>1. 0 \in 0..N
  BY RegAssumption
<1>2. [t EXCEPT !.work = "NONE", !.sar = "INVALID"] \in Regs
  BY DEF Regs
<1>3. [[t EXCEPT !.work = "NONE", !.sar = "INVALID"] EXCEPT !.keyLE = FALSE, !.ifc = 0] \in Regs
  BY <1>1, <1>2 DEF Regs
<1>4. Cleaned(t) = [[t EXCEPT !.work = "NONE", !.sar = "INVALID"] EXCEPT !.keyLE = FALSE, !.ifc = 0]
  BY DEF Cleaned
<1>5. /\ Cleaned(t).refs = t.refs /\ Cleaned(t).work = "NONE" /\ Cleaned(t).sar = "INVALID"
      /\ Cleaned(t).state = t.state /\ Cleaned(t).known = t.known
      /\ Cleaned(t).expiry = t.expiry
  BY DEF Cleaned, Regs
<1> QED
  BY <1>3, <1>4, <1>5 DEF Continues, Lasting

\* So is what the caller of perform3rdPartyReg does when it is done.
LEMMA FinishChains ==
    ASSUME NEW h, NEW b, NEW r \in Regs, NEW t \in Regs, Lasting(t), t.refs = r.refs,
           NEW end \in {"clean", "cleanDelete", "delete", "leave"},
           Finish(h, b, t, end), UNCHANGED <<session, profile>>
    PROVE  Chains(h, b, r)
<1> DEFINE u == [t EXCEPT !.work = "NONE"]
<1>1. Continues(r, Cleaned(t))
  BY CleanedContinues
<1>2. Continues(r, u)
  BY DEF Continues, Regs, Lasting
<1>3. Cleaned(t) \in Regs /\ u \in Regs
  BY <1>1, <1>2 DEF Continues
<1>4. CASE end = "clean"
  BY <1>1, <1>3, <1>4 DEF Finish, Chains
<1>5. CASE end = "cleanDelete"
  BY <1>1, <1>3, <1>5 DEF Finish, Chains
<1>6. CASE end = "delete"
  BY <1>2, <1>3, <1>6 DEF Finish, Chains
<1>7. CASE end = "leave"
  BY <1>2, <1>3, <1>7 DEF Finish, Chains
<1> QED
  BY <1>4, <1>5, <1>6, <1>7

\* And so is the next deregistration of an AS.
LEMMA NextDeregChains ==
    ASSUME NEW h, NEW b, NEW r \in Regs, NEW t \in Regs, Lasting(t), t.refs = r.refs,
           t.work = "WAIT_NW", NEW more \in Nat,
           NextDereg(h, b, t, more), UNCHANGED <<session, profile>>
    PROVE  Chains(h, b, r)
<1>1. CASE \E left \in 0..(t.listed - 1) :
              Put(h, b, [t EXCEPT !.listed = left + more, !.as = @ + 1])
  <2>1. PICK left \in 0..(t.listed - 1) :
              Put(h, b, [t EXCEPT !.listed = left + more, !.as = @ + 1])
    BY <1>1
  <2> DEFINE u == [t EXCEPT !.listed = left + more, !.as = @ + 1]
  <2>2. t.listed \in Nat /\ t.as \in Nat
    BY DEF Regs
  <2>3. left + more \in Nat /\ t.as + 1 \in Nat
    BY <2>2
  <2>4. u \in Regs
    BY <2>3 DEF Regs
  <2>5. Continues(r, u)
    BY <2>4 DEF Continues, Regs, Lasting
  <2> QED
    BY <2>1, <2>4, <2>5 DEF Chains
<1>2. CASE DeleteSub(h, b, [t EXCEPT !.listed = more])
  <2> DEFINE u == [t EXCEPT !.listed = more]
  <2>1. u \in Regs
    BY DEF Regs
  <2>2. Continues(r, u)
    BY <2>1 DEF Continues, Regs, Lasting
  <2> QED
    BY <1>2, <2>1, <2>2 DEF Chains
<1> QED
  BY <1>1, <1>2 DEF NextDereg

\* Criterion j and m more ASs are noted.
LEMMA AtEffect ==
    ASSUME NEW r \in Regs, Lasting(r), NEW j \in 1..N, NEW m \in Nat
    PROVE  /\ At(r, j, m) \in Regs /\ Lasting(At(r, j, m))
           /\ At(r, j, m).refs = r.refs /\ At(r, j, m).work = r.work
           /\ At(r, j, m).ifc = j /\ At(r, j, m).as = r.as /\ At(r, j, m).dns = r.dns
<1>1. r.listed \in Nat
  BY DEF Regs
<1>2. j \in 0..N /\ r.listed + m \in Nat /\ (j \in profile.continued) \in BOOLEAN
  BY <1>1, RegAssumption
<1>3. At(r, j, m) \in Regs
  BY <1>2 DEF At, Regs
<1>4. /\ At(r, j, m).refs = r.refs /\ At(r, j, m).work = r.work
      /\ At(r, j, m).ifc = j /\ At(r, j, m).as = r.as /\ At(r, j, m).dns = r.dns
      /\ At(r, j, m).state = r.state /\ At(r, j, m).known = r.known
      /\ At(r, j, m).expiry = r.expiry /\ At(r, j, m).sar = r.sar
      /\ At(r, j, m).sars = r.sars
  BY DEF At, Regs
<1> QED
  BY <1>3, <1>4 DEF Lasting

\* One more transaction, or one more query, is open.
LEMMA OneMore ==
    ASSUME NEW t \in Regs, Lasting(t)
    PROVE  /\ [t EXCEPT !.as = @ + 1] \in Regs /\ Lasting([t EXCEPT !.as = @ + 1])
           /\ [t EXCEPT !.as = @ + 1].refs = t.refs /\ [t EXCEPT !.as = @ + 1].ifc = t.ifc
           /\ [t EXCEPT !.as = @ + 1].work = t.work
           /\ [t EXCEPT !.as = @ + 1].as + [t EXCEPT !.as = @ + 1].dns > 0
           /\ [t EXCEPT !.dns = @ + 1] \in Regs /\ Lasting([t EXCEPT !.dns = @ + 1])
           /\ [t EXCEPT !.dns = @ + 1].refs = t.refs /\ [t EXCEPT !.dns = @ + 1].ifc = t.ifc
           /\ [t EXCEPT !.dns = @ + 1].work = t.work
           /\ [t EXCEPT !.dns = @ + 1].as + [t EXCEPT !.dns = @ + 1].dns > 0
<1>1. t.as \in Nat /\ t.dns \in Nat
  BY DEF Regs
<1>2. t.as + 1 \in Nat /\ t.dns + 1 \in Nat
  BY <1>1
<1>3. [t EXCEPT !.as = @ + 1] \in Regs /\ [t EXCEPT !.dns = @ + 1] \in Regs
  BY <1>2 DEF Regs
<1> QED
  BY <1>1, <1>3 DEF Regs, Lasting

\* The chain as it asks an AS.
LEMMA AsksChains ==
    ASSUME IInv, NEW h, NEW b, NEW r \in Regs, Lasting(r),
           NEW end \in {"clean", "cleanDelete", "delete", "leave"}, Asks(h, b, r, end)
    PROVE  Chains(h, b, r)
<1>1. UNCHANGED <<session, profile>>
  BY DEF Asks
<1>2. PICK j \in Reach(r.ifc), n \in 0..N :
         LET t == At(r, j, n)
             sent == At(r, j, n + 1) IN
         \/ Put(h, b, [sent EXCEPT !.as = @ + 1])
         \/ Put(h, b, [t EXCEPT !.dns = @ + 1])
         \/ Finish(h, b, t, end)
         \/ r.work = "WAIT_3RD" /\ Put(h, b, Cleaned(sent))
         \/ r.work = "WAIT_NW" /\ NextDereg(h, b, t, 1)
         \/ r.work = "NONE" /\ Put(h, b, sent)
  <2>1. r.work \in {"NONE", "WAIT_3RD", "WAIT_NW"}
    BY DEF Regs
  <2> QED
    BY <2>1 DEF Asks
<1> DEFINE t == At(r, j, n)
           sent == At(r, j, n + 1)
<1>3. j \in 1..N /\ j > r.ifc /\ n \in Nat /\ n + 1 \in Nat
  <2>1. r.ifc \in 0..N /\ N \in Nat
    BY RegAssumption DEF Regs
  <2> QED
    BY <2>1 DEF Reach
<1>4. /\ t \in Regs /\ Lasting(t) /\ t.refs = r.refs /\ t.work = r.work /\ t.ifc = j
      /\ sent \in Regs /\ Lasting(sent) /\ sent.refs = r.refs /\ sent.work = r.work
      /\ sent.ifc = j
  BY <1>3, AtEffect
<1> HIDE DEF t, sent
<1>5. CASE Put(h, b, [sent EXCEPT !.as = @ + 1])
  <2>1. Continues(r, [sent EXCEPT !.as = @ + 1])
    BY <1>3, <1>4, OneMore DEF Continues
  <2> QED
    BY <1>1, <1>5, <2>1 DEF Chains, Continues
<1>6. CASE Put(h, b, [t EXCEPT !.dns = @ + 1])
  <2>1. Continues(r, [t EXCEPT !.dns = @ + 1])
    BY <1>3, <1>4, OneMore DEF Continues
  <2> QED
    BY <1>1, <1>6, <2>1 DEF Chains, Continues
<1>7. CASE Finish(h, b, t, end)
  BY <1>1, <1>4, <1>7, FinishChains
<1>8. CASE Put(h, b, Cleaned(sent))
  <2>1. Continues(r, Cleaned(sent))
    BY <1>4, CleanedContinues
  <2> QED
    BY <1>1, <1>8, <2>1 DEF Chains, Continues
<1>9. CASE r.work = "WAIT_NW" /\ NextDereg(h, b, t, 1)
  BY <1>1, <1>4, <1>9, NextDeregChains
<1>10. CASE r.work = "NONE" /\ Put(h, b, sent)
  <2>1. Continues(r, sent)
    BY <1>4, <1>10 DEF Continues
  <2> QED
    BY <1>1, <1>4, <1>10, <2>1 DEF Chains
<1> QED
  BY <1>2, <1>5, <1>6, <1>7, <1>8, <1>9, <1>10 DEF t, sent

\* The chain as it finds no AS any more.
LEMMA NoneLeftChains ==
    ASSUME IInv, NEW h, NEW b, NEW r \in Regs, Lasting(r),
           NEW end \in {"clean", "cleanDelete", "delete", "leave"}, NoneLeft(h, b, r, end)
    PROVE  Chains(h, b, r)
<1> DEFINE t == IF r.known THEN Exhausted(r) ELSE r
<1>1. N \in 0..N /\ r.dh \in BOOLEAN
  BY RegAssumption DEF Regs
<1>2. Exhausted(r) \in Regs
  BY <1>1 DEF Exhausted, Regs
<1>3. /\ Exhausted(r).refs = r.refs /\ Exhausted(r).state = r.state
      /\ Exhausted(r).known = r.known /\ Exhausted(r).expiry = r.expiry
      /\ Exhausted(r).sar = r.sar /\ Exhausted(r).sars = r.sars
  BY DEF Exhausted, Regs
<1>4. t \in Regs /\ Lasting(t) /\ t.refs = r.refs
  BY <1>2, <1>3 DEF Lasting
<1>5. Finish(h, b, t, end) /\ UNCHANGED <<session, profile>>
  BY DEF NoneLeft
<1> HIDE DEF t
<1> QED
  BY <1>4, <1>5, FinishChains

\* The chain either way, or the end of the process on the address NULL.
LEMMA ThirdPartyChains ==
    ASSUME IInv, NEW h, NEW b, NEW r \in Regs, Lasting(r),
           NEW end \in {"clean", "cleanDelete", "delete", "leave"}, ThirdParty(h, b, r, end)
    PROVE  Chains(h, b, r) \/ Restart
BY AsksChains, NoneLeftChains DEF ThirdParty, LastFails

\* A chain that started at r, as block b was when the event came, is right.
LEMMA ChainsStep ==
    ASSUME IInv, NEW b \in Blocks, NEW h \in Hashes, NEW r \in Regs,
           Keyed(h, [reg EXCEPT ![b] = r]), r.refs # 0, r.ifc = reg[b].ifc,
           Chains(h, b, r)
    PROVE  IInv' /\ Progress
<1>1. PICK s \in Regs : Continues(r, s) /\ (Put(h, b, s) \/ DeleteSub(h, b, s))
  BY DEF Chains
<1>2. Sound(s) /\ Nearer(reg[b], s)
  BY <1>1 DEF Continues, Sound, Nearer
<1>3. Keyed(h, [reg EXCEPT ![b] = s])
  BY <1>1 DEF IInv, Keyed, Continues
<1> QED
  BY <1>1, <1>2, <1>3, Outcome DEF Chains

-----------------------------------------------------------------------------
\* A step that changes neither the references of the block nor the hash.
LEMMA OwnStep ==
    ASSUME IInv, NEW b \in Blocks, NEW s \in Regs, Sound(s), s.refs = reg[b].refs,
           s.refs = 0 => s = Freed(s), Nearer(reg[b], s),
           Put(hash, b, s) \/ DeleteSub(hash, b, s), UNCHANGED <<session, profile>>
    PROVE  IInv' /\ Progress
<1>1. Keyed(hash, [reg EXCEPT ![b] = s])
  BY DEF IInv, Keyed
<1>2. hash \in Hashes
  BY DEF IInv
<1> QED
  BY <1>1, <1>2, Outcome

\* A chain of a block whose keys stay as they are.
LEMMA OwnChains ==
    ASSUME IInv, NEW b \in Blocks, NEW r \in Regs, r.refs = reg[b].refs,
           r.refs # 0, r.ifc = reg[b].ifc, Chains(hash, b, r)
    PROVE  IInv' /\ Progress
<1>1. Keyed(hash, [reg EXCEPT ![b] = r])
  BY DEF IInv, Keyed
<1>2. hash \in Hashes
  BY DEF IInv
<1> QED
  BY <1>1, <1>2, ChainsStep

\* A block without references is free, idle and led to by no key.
LEMMA BlockKnown ==
    ASSUME IInv, NEW b \in Blocks
    PROVE  /\ reg[b] \in Regs /\ Sound(reg[b]) /\ Lasting(reg[b])
           /\ reg[b].refs = 0 =>
                 /\ reg[b] = Freed(reg[b]) /\ reg[b].work = "NONE" /\ reg[b].expiry = FALSE
                 /\ \A i \in Ids : hash[i] # b
<1>1. reg[b] \in Regs /\ Sound(reg[b]) /\ Lasting(reg[b])
  BY DEF IInv, Sound
<1>2. ASSUME reg[b].refs = 0
      PROVE  reg[b] = Freed(reg[b]) /\ reg[b].work = "NONE" /\ reg[b].expiry = FALSE
  <2>1. reg[b] = Freed(reg[b])
    BY <1>2 DEF IInv, Keyed
  <2> QED
    BY <2>1 DEF Freed, Unused
<1>3. ASSUME reg[b].refs = 0
      PROVE  \A i \in Ids : hash[i] # b
  <2>1. Held(hash, b, Ids) = 0
    BY <1>3, HeldInNat DEF IInv, Keyed
  <2>2. Bit(hash, b, Ids, "key") + Bit(hash, b, Ids, "impi") + Bit(hash, b, Ids, "impu") = 0
    BY <2>1, HeldIsSum
  <2>3. \A i \in Ids : Bit(hash, b, Ids, i) \in {0, 1} /\ (hash[i] = b => Bit(hash, b, Ids, i) = 1)
    BY DEF Bit
  <2> QED
    BY <2>2, <2>3 DEF Ids
<1> QED
  BY <1>1, <1>2, <1>3

\* A block that a REGISTER finds has references.
LEMMA KeyIsReferenced ==
    ASSUME IInv, NEW b \in Blocks, hash["key"] = b
    PROVE  reg[b].refs # 0
BY BlockKnown DEF Ids

\* No key leads to it, so none is counted.
LEMMA HeldByNone ==
    ASSUME NEW h, NEW c, NEW ids \in SUBSET Ids, \A i \in ids : h[i] # c
    PROVE  Held(h, c, ids) = 0
<1>1. {i \in ids : h[i] = c} = {}
  OBVIOUS
<1> QED
  BY <1>1, FS_EmptySet DEF Held

\* The first REGISTER of a user: a new block with one key.
LEMMA RegisterNewStep ==
    ASSUME IInv, NEW b \in Blocks, RegisterNew(b)
    PROVE  IInv' /\ Progress
<1> DEFINE h == [hash EXCEPT !["key"] = b]
           s == [[Free EXCEPT !.refs = 1, !.keyLE = TRUE, !.sar = "REGISTER"] EXCEPT !.sars = @ + 1]
<1>1. hash["key"] = "none" /\ reg[b] = Free /\ Put(h, b, s) /\ UNCHANGED <<session, profile>>
  BY DEF RegisterNew, Allocated, AskHss
<1>2. /\ s.refs = 1 /\ s.sar = "REGISTER" /\ s.sars = 1 /\ s.state = "NOT_REGISTERED"
      /\ s.work = "NONE" /\ s.expiry = FALSE
  BY DEF Free, Unused
<1>3. s \in Regs
  <2>1. Free \in Regs
    BY RegAssumption DEF Free, Unused, Regs, States
  <2>2. ASSUME NEW f \in Regs
        PROVE  [[f EXCEPT !.refs = 1, !.keyLE = TRUE, !.sar = "REGISTER"] EXCEPT !.sars = @ + 1] \in Regs
    <3> DEFINE t == [f EXCEPT !.refs = 1, !.keyLE = TRUE, !.sar = "REGISTER"]
    <3>1. t \in Regs
      <4> DEFINE g == [f EXCEPT !.refs = 1]
      <4>1. g \in Regs
        BY DEF Regs
      <4> DEFINE k == [g EXCEPT !.keyLE = TRUE]
      <4> HIDE DEF g
      <4>2. k \in Regs
        BY <4>1 DEF Regs
      <4> HIDE DEF k
      <4>3. [k EXCEPT !.sar = "REGISTER"] \in Regs
        BY <4>2 DEF Regs
      <4> QED
        BY <4>3 DEF g, k
    <3> HIDE DEF t
    <3>2. t.sars + 1 \in Nat
      BY <3>1 DEF Regs
    <3>3. [t EXCEPT !.sars = @ + 1] \in Regs
      BY <3>1, <3>2 DEF Regs
    <3> QED
      BY <3>3 DEF t
  <2> QED
    BY <2>1, <2>2
<1>4. Sound(s) /\ Nearer(reg[b], s)
  BY <1>2 DEF Sound, Lasting, Nearer
<1>5. h = Led(hash, {"key"}, b) /\ h \in Hashes
  BY DEF IInv, Hashes, Led, Ids
<1>6. Held(h, b, Ids) = 1
  <2>1. \A i \in Ids : hash[i] # b
    <3>1. reg[b].refs = 0
      BY <1>1 DEF Free, Unused
    <3> QED
      BY <3>1, BlockKnown
  <2>2. Bit(h, b, Ids, "key") = 1 /\ Bit(h, b, Ids, "impi") = 0 /\ Bit(h, b, Ids, "impu") = 0
    BY <1>5, <2>1 DEF Bit, Led, Ids
  <2> QED
    BY <2>2, HeldIsSum
<1>7. \A c \in Blocks \ {b} : Held(h, c, Ids) = Held(hash, c, Ids)
  <2> SUFFICES ASSUME NEW c \in Blocks \ {b} PROVE Held(h, c, Ids) = Held(hash, c, Ids)
    OBVIOUS
  <2>1. {"key"} \in SUBSET Ids /\ \A i \in {"key"} : hash[i] # c
    BY <1>1, RegAssumption DEF Ids
  <2>2. Held(hash, c, {"key"}) = 0
    BY <2>1, HeldByNone
  <2>3. Held(Led(hash, {"key"}, b), c, Ids) = Held(hash, c, Ids) - Held(hash, c, {"key"})
    BY <2>1, HeldByOthers DEF IInv
  <2> QED
    BY <1>5, <2>2, <2>3, HeldInNat
<1>8. Keyed(h, [reg EXCEPT ![b] = s])
  <2> HIDE DEF s, h
  <2> QED
    BY <1>2, <1>6, <1>7 DEF IInv, Keyed
<1> HIDE DEF s, h
<1> QED
  BY <1>1, <1>3, <1>4, <1>5, <1>8, Outcome

\* The last REGISTER of a block is noted as another than the first.
LEMMA Noted ==
    ASSUME IInv, NEW b \in Blocks, NEW sar \in {"RE", "DE"},
           NEW work \in {reg[b].work, "WAIT_3RD"}
    PROVE  LET r == [reg[b] EXCEPT !.sar = sar, !.work = work] IN
           /\ r \in Regs /\ Lasting(r) /\ r.refs = reg[b].refs /\ r.ifc = reg[b].ifc
           /\ r.dns = reg[b].dns /\ r.as = reg[b].as /\ r.listed = reg[b].listed
           /\ r.work = work /\ r.sar = sar /\ r.state = reg[b].state
           /\ r.sars = reg[b].sars /\ r.known = reg[b].known /\ r.expiry = reg[b].expiry
BY BlockKnown DEF Regs, Lasting

\* Noting it, asking the HSS or giving the user up changes nothing else.
LEMMA NotedStep ==
    ASSUME IInv, NEW b \in Blocks, hash["key"] = b, NEW sar \in {"RE", "DE"},
           UNCHANGED <<session, profile>>,
           \/ Put(hash, b, [reg[b] EXCEPT !.sar = sar])
           \/ DeleteSub(hash, b, [reg[b] EXCEPT !.sar = sar])
           \/ AskHss(hash, b, [reg[b] EXCEPT !.sar = sar])
    PROVE  IInv' /\ Progress
<1> DEFINE r == [reg[b] EXCEPT !.sar = sar]
           u == [r EXCEPT !.sars = @ + 1]
<1>1. reg[b] \in Regs /\ Sound(reg[b]) /\ reg[b].refs # 0
  BY BlockKnown, KeyIsReferenced
<1>2. r \in Regs /\ Sound(r) /\ r.refs = reg[b].refs /\ Nearer(reg[b], r)
  BY <1>1 DEF Regs, Sound, Lasting, Nearer
<1>3. u \in Regs /\ Sound(u) /\ u.refs = reg[b].refs /\ Nearer(reg[b], u)
  <2>1. /\ r.ifc = reg[b].ifc /\ r.dns = reg[b].dns /\ r.as = reg[b].as
        /\ r.listed = reg[b].listed /\ r.work = reg[b].work /\ r.sar # "REGISTER"
    BY <1>1 DEF Regs
  <2> HIDE DEF r
  <2>2. r.sars + 1 \in Nat
    BY <1>2 DEF Regs
  <2>3. u \in Regs
    BY <1>2, <2>2 DEF Regs
  <2>4. /\ u.ifc = r.ifc /\ u.dns = r.dns /\ u.as = r.as /\ u.listed = r.listed
        /\ u.work = r.work /\ u.sar = r.sar /\ u.refs = r.refs /\ u.state = r.state
        /\ u.expiry = r.expiry /\ u.known = r.known
    BY <1>2 DEF Regs
  <2> QED
    BY <1>2, <2>1, <2>3, <2>4 DEF Sound, Lasting, Nearer
<1>4. \/ Put(hash, b, r) \/ DeleteSub(hash, b, r) \/ Put(hash, b, u)
  BY DEF AskHss
<1> HIDE DEF r, u
<1> QED
  BY <1>1, <1>2, <1>3, <1>4, OwnStep

\* What was open for a block comes back.
LEMMA Consumed ==
    ASSUME IInv, NEW b \in Blocks
    PROVE  /\ reg[b].sars > 0 =>
                 LET r == [reg[b] EXCEPT !.sars = @ - 1] IN
                 /\ r \in Regs /\ Sound(r) /\ Nearer(reg[b], r)
                 /\ r.refs = reg[b].refs /\ r.ifc = reg[b].ifc /\ r.state = reg[b].state
                 /\ r.sar = "REGISTER" => r.sars = 0 /\ r.state = "NOT_REGISTERED"
                 /\ r.refs = 0 => r = Freed(r)
           /\ reg[b].as > 0 =>
                 LET r == [reg[b] EXCEPT !.as = @ - 1] IN
                 /\ r \in Regs /\ Lasting(r) /\ r.work = reg[b].work
                 /\ r.refs = reg[b].refs /\ r.ifc = reg[b].ifc
                 /\ r.refs = 0 => r = Freed(r)
           /\ reg[b].dns > 0 =>
                 LET r == [reg[b] EXCEPT !.dns = @ - 1] IN
                 /\ r \in Regs /\ Lasting(r) /\ r.work = reg[b].work
                 /\ r.refs = reg[b].refs /\ r.ifc = reg[b].ifc
                 /\ r.as = reg[b].as /\ r.dns = reg[b].dns - 1 /\ r.listed = reg[b].listed
                 /\ r.refs = 0 => r = Freed(r)
<1>1. reg[b] \in Regs /\ Sound(reg[b]) /\ (reg[b].refs = 0 => Blank(reg[b]))
  BY BlockKnown, FreedIsBlank
<1>2. reg[b].sars \in Nat /\ reg[b].as \in Nat /\ reg[b].dns \in Nat
  BY <1>1 DEF Regs
<1>3. ASSUME reg[b].sars > 0
      PROVE  LET r == [reg[b] EXCEPT !.sars = @ - 1] IN
             /\ r \in Regs /\ Sound(r) /\ Nearer(reg[b], r)
             /\ r.refs = reg[b].refs /\ r.ifc = reg[b].ifc /\ r.state = reg[b].state
             /\ r.sar = "REGISTER" => r.sars = 0 /\ r.state = "NOT_REGISTERED"
             /\ r.refs = 0 => r = Freed(r)
  <2> DEFINE r == [reg[b] EXCEPT !.sars = @ - 1]
  <2>1. reg[b].sars - 1 \in Nat
    BY <1>2, <1>3
  <2>2. r \in Regs
    BY <1>1, <2>1 DEF Regs
  <2>3. /\ r.sars = reg[b].sars - 1 /\ r.as = reg[b].as /\ r.dns = reg[b].dns
        /\ r.refs = reg[b].refs /\ r.ifc = reg[b].ifc /\ r.state = reg[b].state
        /\ r.sar = reg[b].sar /\ r.work = reg[b].work /\ r.expiry = reg[b].expiry
        /\ r.known = reg[b].known /\ r.listed = reg[b].listed
        /\ r.les = reg[b].les /\ r.keyLE = reg[b].keyLE /\ r.dh = reg[b].dh
    BY <1>1 DEF Regs
  <2> HIDE DEF r
  <2>4. r.refs = 0 => r = Freed(r)
    BY <1>1, <2>2, <2>3, FreedIsBlank DEF Blank
  <2>5. Sound(r) /\ Nearer(reg[b], r) /\ (r.sar = "REGISTER" => r.sars = 0 /\ r.state = "NOT_REGISTERED")
    BY <1>1, <1>2, <1>3, <2>3 DEF Sound, Lasting, Nearer
  <2> QED
    BY <2>2, <2>3, <2>4, <2>5 DEF r
<1>4. ASSUME reg[b].as > 0
      PROVE  LET r == [reg[b] EXCEPT !.as = @ - 1] IN
             /\ r \in Regs /\ Lasting(r) /\ r.work = reg[b].work
             /\ r.refs = reg[b].refs /\ r.ifc = reg[b].ifc
             /\ r.refs = 0 => r = Freed(r)
  <2> DEFINE r == [reg[b] EXCEPT !.as = @ - 1]
  <2>1. reg[b].as - 1 \in Nat
    BY <1>2, <1>4
  <2>2. r \in Regs
    BY <1>1, <2>1 DEF Regs
  <2>3. /\ r.refs = reg[b].refs /\ r.ifc = reg[b].ifc /\ r.state = reg[b].state
        /\ r.sar = reg[b].sar /\ r.work = reg[b].work /\ r.expiry = reg[b].expiry
        /\ r.known = reg[b].known /\ r.listed = reg[b].listed /\ r.sars = reg[b].sars
        /\ r.les = reg[b].les /\ r.keyLE = reg[b].keyLE /\ r.dh = reg[b].dh
    BY <1>1 DEF Regs
  <2> HIDE DEF r
  <2>4. r.refs = 0 => r = Freed(r)
    BY <1>1, <2>2, <2>3, FreedIsBlank DEF Blank
  <2>5. Lasting(r)
    BY <1>1, <2>3 DEF Sound, Lasting
  <2> QED
    BY <2>2, <2>3, <2>4, <2>5 DEF r
<1>5. ASSUME reg[b].dns > 0
      PROVE  LET r == [reg[b] EXCEPT !.dns = @ - 1] IN
             /\ r \in Regs /\ Lasting(r) /\ r.work = reg[b].work
             /\ r.refs = reg[b].refs /\ r.ifc = reg[b].ifc
             /\ r.as = reg[b].as /\ r.dns = reg[b].dns - 1 /\ r.listed = reg[b].listed
             /\ r.refs = 0 => r = Freed(r)
  <2> DEFINE r == [reg[b] EXCEPT !.dns = @ - 1]
  <2>1. reg[b].dns - 1 \in Nat
    BY <1>2, <1>5
  <2>2. r \in Regs
    BY <1>1, <2>1 DEF Regs
  <2>3. /\ r.refs = reg[b].refs /\ r.ifc = reg[b].ifc /\ r.state = reg[b].state
        /\ r.sar = reg[b].sar /\ r.work = reg[b].work /\ r.expiry = reg[b].expiry
        /\ r.known = reg[b].known /\ r.listed = reg[b].listed /\ r.sars = reg[b].sars
        /\ r.les = reg[b].les /\ r.keyLE = reg[b].keyLE /\ r.dh = reg[b].dh
        /\ r.as = reg[b].as /\ r.dns = reg[b].dns - 1
    BY <1>1 DEF Regs
  <2> HIDE DEF r
  <2>4. r.refs = 0 => r = Freed(r)
    BY <1>1, <2>2, <2>3, FreedIsBlank DEF Blank
  <2>5. Lasting(r)
    BY <1>1, <2>3 DEF Sound, Lasting
  <2> QED
    BY <2>2, <2>3, <2>4, <2>5 DEF r
<1> QED
  BY <1>3, <1>4, <1>5

-----------------------------------------------------------------------------
\* A later REGISTER, which may start the chain anew while another runs.
LEMMA ReregisterStep ==
    ASSUME IInv, NEW b \in Blocks, Reregister(b)
    PROVE  IInv' /\ Progress
<1> DEFINE r == [reg[b] EXCEPT !.sar = "RE"]
           w == [r EXCEPT !.work = "WAIT_3RD"]
<1>1. hash["key"] = b /\ reg[b].refs # 0
  BY KeyIsReferenced DEF Reregister
<1>2. \/ /\ UNCHANGED <<session, profile>>
         /\ Put(hash, b, r) \/ DeleteSub(hash, b, r) \/ AskHss(hash, b, r)
      \/ ThirdParty(hash, b, w, "clean")
  BY DEF Reregister, Refused
<1>3. w = [reg[b] EXCEPT !.sar = "RE", !.work = "WAIT_3RD"]
  OBVIOUS
<1>4. w \in Regs /\ Lasting(w) /\ w.refs = reg[b].refs /\ w.ifc = reg[b].ifc
  BY <1>3, Noted
<1>5. CASE ThirdParty(hash, b, w, "clean")
  <2> HIDE DEF w
  <2>1. Chains(hash, b, w) \/ Restart
    BY <1>4, <1>5, ThirdPartyChains
  <2> QED
    BY <1>1, <1>4, <2>1, OwnChains, RestartStep
<1> QED
  BY <1>1, <1>2, <1>5, NotedStep

\* A REGISTER that ends the registration.
LEMMA DeregisterStep ==
    ASSUME IInv, NEW b \in Blocks, Deregister(b)
    PROVE  IInv' /\ Progress
BY NotedStep DEF Deregister

-----------------------------------------------------------------------------
\* The elements for all identities come with a reference each.
LEMMA HashedKeyed ==
    ASSUME IInv, NEW b \in Blocks, NEW r \in Regs, Lasting(r), r.refs = reg[b].refs, r.refs # 0
    PROVE  /\ SubHash(b) \in Hashes
           /\ Hashed(r) \in Regs /\ Lasting(Hashed(r)) /\ Hashed(r).refs # 0
           /\ Hashed(r).known = r.known /\ Hashed(r).sars = r.sars /\ Hashed(r).work = r.work
           /\ Hashed(r).ifc = r.ifc /\ Hashed(r).as = r.as /\ Hashed(r).dns = r.dns
           /\ Hashed(r).listed = r.listed
           /\ \A s \in Regs : s.refs = Hashed(r).refs =>
                 Keyed(SubHash(b), [reg EXCEPT ![b] = s])
<1>1. CASE Collides
  <2>1. SubHash(b) = hash /\ Hashed(r) = r
    BY <1>1 DEF SubHash, Hashed, IInv, Hashes
  <2> QED
    BY <2>1 DEF IInv, Keyed
<1>2. CASE ~Collides
  <2> DEFINE ids == profile.ids
             h == SubHash(b)
             s == [r EXCEPT !.refs = @ + Cardinality(profile.ids), !.les = profile.ids]
  <2>1. /\ ids \in {{"key", "impu"}, {"impi", "impu"}} /\ ids \in SUBSET Ids
        /\ \A i \in ids : hash[i] = "none"
    BY <1>2, ProfileKnown DEF Collides, Ids
  <2>2. Cardinality(ids) = 2
    BY <2>1, CardinalityOfIds
  <2>3. h = Led(hash, ids, b) /\ h \in Hashes
    BY <1>2 DEF SubHash, Led, Hashes, IInv
  <2>4. Hashed(r) = s
    BY <1>2 DEF Hashed
  <2>5. Held(h, b, Ids) = Held(hash, b, Ids) + 2
    BY <2>1, <2>3, HeldByNew, RegAssumption DEF IInv
  <2>6. \A c \in Blocks \ {b} : Held(h, c, Ids) = Held(hash, c, Ids)
    <3> SUFFICES ASSUME NEW c \in Blocks \ {b} PROVE Held(h, c, Ids) = Held(hash, c, Ids)
      OBVIOUS
    <3>1. Held(hash, c, ids) = 0
      BY <2>1, HeldByNone, RegAssumption
    <3>2. Held(Led(hash, ids, b), c, Ids) = Held(hash, c, Ids) - Held(hash, c, ids)
      BY <2>1, HeldByOthers DEF IInv
    <3> QED
      BY <2>3, <3>1, <3>2, HeldInNat
  <2>7. r.refs + 2 \in Int /\ r.refs \in Int
    BY DEF Regs
  <2>8. [r EXCEPT !.refs = r.refs + 2, !.les = profile.ids] \in Regs
    BY <2>1, <2>7 DEF Regs
  <2>9. /\ s \in Regs /\ s.refs = r.refs + 2 /\ s.known = r.known /\ s.sars = r.sars
        /\ s.work = r.work /\ s.ifc = r.ifc /\ s.as = r.as /\ s.dns = r.dns
        /\ s.listed = r.listed /\ s.sar = r.sar /\ s.state = r.state /\ s.expiry = r.expiry
    BY <2>2, <2>8 DEF Regs
  <2>10. Held(hash, b, Ids) \in Nat /\ r.refs \in {Held(hash, b, Ids), Held(hash, b, Ids) + 1}
    BY HeldInNat DEF IInv, Keyed
  <2> HIDE DEF s, h, ids
  <2>11. s.refs > 0
    BY <2>9, <2>10
  <2>12. Lasting(s)
    BY <2>9 DEF Lasting
  <2>13. ASSUME NEW q \in Regs, q.refs = s.refs
         PROVE  Keyed(h, [reg EXCEPT ![b] = q])
    BY <2>5, <2>6, <2>9, <2>10, <2>11, <2>13 DEF IInv, Keyed
  <2> QED
    BY <2>3, <2>4, <2>9, <2>11, <2>12, <2>13 DEF h
<1> QED
  BY <1>1, <1>2

\* r is the block once the answer to its first REGISTER has come.
LEMMA SaaRegisterStep ==
    ASSUME IInv, NEW b \in Blocks, NEW r \in Regs, Sound(r), Nearer(reg[b], r),
           r.refs = reg[b].refs, r.refs # 0, r.ifc = reg[b].ifc,
           r.state = "NOT_REGISTERED", r.sars = 0, NEW success \in BOOLEAN, success => r.known,
           SaaRegister(b, r, success)
    PROVE  IInv' /\ Progress
<1>1. CASE ~success
  <2> DEFINE s == [r EXCEPT !.known = FALSE]
  <2>1. DeleteSub(hash, b, s) /\ UNCHANGED <<session, profile>>
    BY <1>1 DEF SaaRegister
  <2>2. /\ s \in Regs /\ s.refs = r.refs /\ s.state = r.state /\ s.expiry = r.expiry
        /\ s.sar = r.sar /\ s.sars = r.sars /\ s.work = r.work /\ s.ifc = r.ifc
        /\ s.as = r.as /\ s.dns = r.dns /\ s.listed = r.listed
    BY DEF Regs
  <2> HIDE DEF s
  <2>3. Sound(s) /\ Nearer(reg[b], s)
    BY <2>2 DEF Sound, Lasting, Nearer
  <2> QED
    BY <2>1, <2>2, <2>3, OwnStep
<1>2. CASE success
  <2> DEFINE k == Hashed(r)
             done == [k EXCEPT !.state = "REGISTERED", !.expiry = TRUE]
             w == [done EXCEPT !.work = "WAIT_3RD"]
  <2>1. \/ Put(SubHash(b), b, done) /\ UNCHANGED <<session, profile>>
        \/ ThirdParty(SubHash(b), b, w, "clean")
    BY <1>2 DEF SaaRegister
  <2>2. /\ SubHash(b) \in Hashes /\ k \in Regs /\ Lasting(k) /\ k.refs # 0
        /\ k.known = r.known /\ k.sars = r.sars /\ k.work = r.work /\ k.ifc = r.ifc
        /\ k.as = r.as /\ k.dns = r.dns /\ k.listed = r.listed
        /\ \A s \in Regs : s.refs = k.refs => Keyed(SubHash(b), [reg EXCEPT ![b] = s])
    BY HashedKeyed DEF Sound
  <2> HIDE DEF k
  <2>3. /\ done \in Regs /\ done.refs = k.refs /\ done.work = k.work /\ done.ifc = k.ifc
        /\ done.as = k.as /\ done.dns = k.dns /\ done.listed = k.listed
        /\ done.known = k.known /\ done.sar = k.sar /\ done.sars = k.sars
        /\ done.state = "REGISTERED" /\ done.expiry = TRUE
    BY <2>2 DEF Regs, States
  <2> HIDE DEF done
  <2>4. Sound(done) /\ Lasting(done) /\ Nearer(reg[b], done)
    BY <1>2, <2>2, <2>3 DEF Sound, Lasting, Nearer
  <2>5. /\ w \in Regs /\ w.refs = done.refs /\ w.ifc = done.ifc /\ w.state = done.state
        /\ w.expiry = done.expiry /\ w.known = done.known /\ w.sar = done.sar
        /\ w.sars = done.sars
    BY <2>3 DEF Regs
  <2> HIDE DEF w
  <2>6. Lasting(w)
    BY <2>4, <2>5 DEF Lasting
  <2>7. Keyed(SubHash(b), [reg EXCEPT ![b] = done]) /\ Keyed(SubHash(b), [reg EXCEPT ![b] = w])
    BY <2>2, <2>3, <2>5
  <2>8. CASE Put(SubHash(b), b, done) /\ UNCHANGED <<session, profile>>
    BY <2>2, <2>3, <2>4, <2>7, <2>8, Outcome
  <2>9. CASE ThirdParty(SubHash(b), b, w, "clean")
    <3>1. Chains(SubHash(b), b, w) \/ Restart
      BY <2>5, <2>6, <2>9, ThirdPartyChains
    <3>2. w.refs # 0 /\ w.ifc = reg[b].ifc
      BY <2>2, <2>3, <2>5
    <3> QED
      BY <2>2, <2>5, <2>7, <3>1, <3>2, ChainsStep, RestartStep
  <2> QED
    BY <2>1, <2>8, <2>9
<1> QED
  BY <1>1, <1>2

\* Every answer of the HSS.
LEMMA SaaStep ==
    ASSUME IInv, NEW b \in Blocks, Saa(b)
    PROVE  IInv' /\ Progress
<1> DEFINE r == [reg[b] EXCEPT !.sars = @ - 1]
<1>1. /\ r \in Regs /\ Sound(r) /\ Nearer(reg[b], r)
      /\ r.refs = reg[b].refs /\ r.ifc = reg[b].ifc
      /\ r.sar = "REGISTER" => r.sars = 0 /\ r.state = "NOT_REGISTERED"
      /\ r.refs = 0 => r = Freed(r)
  BY Consumed DEF Saa
<1>2. \/ Put(hash, b, r) /\ UNCHANGED <<session, profile>>
      \/ Restart
      \/ /\ r.refs > 0
         /\ \E success \in Verdicts :
            LET known == Learnt(r, success)
                waits == [known EXCEPT !.work = "WAIT_3RD"] IN
            CASE r.sar = "REGISTER" -> SaaRegister(b, known, success)
              [] r.sar = "RE" /\ success -> ThirdParty(hash, b, waits, "clean")
              [] r.sar = "DE" -> ThirdParty(hash, b, waits, "cleanDelete")
              [] OTHER -> Put(hash, b, known) /\ UNCHANGED <<session, profile>>
  BY DEF Saa
<1> HIDE DEF r
<1>3. CASE Put(hash, b, r) /\ UNCHANGED <<session, profile>>
  BY <1>1, <1>3, OwnStep
<1>4. ASSUME r.refs > 0, NEW success \in BOOLEAN,
             LET known == Learnt(r, success)
                 waits == [known EXCEPT !.work = "WAIT_3RD"] IN
             CASE r.sar = "REGISTER" -> SaaRegister(b, known, success)
               [] r.sar = "RE" /\ success -> ThirdParty(hash, b, waits, "clean")
               [] r.sar = "DE" -> ThirdParty(hash, b, waits, "cleanDelete")
               [] OTHER -> Put(hash, b, known) /\ UNCHANGED <<session, profile>>
      PROVE  IInv' /\ Progress
  <2> DEFINE known == Learnt(r, success)
             waits == [known EXCEPT !.work = "WAIT_3RD"]
  <2>1. \/ r.sar = "REGISTER" /\ SaaRegister(b, known, success)
        \/ ThirdParty(hash, b, waits, "clean")
        \/ ThirdParty(hash, b, waits, "cleanDelete")
        \/ Put(hash, b, known) /\ UNCHANGED <<session, profile>>
    BY <1>4
  <2>2. r.known \in BOOLEAN
    BY <1>1 DEF Regs
  <2>3. (r.known \/ success) \in BOOLEAN
    OBVIOUS
  <2>4. [r EXCEPT !.known = r.known \/ success] \in Regs
    BY <1>1, <2>3 DEF Regs
  <2>5. /\ known \in Regs /\ known.refs = r.refs /\ known.ifc = r.ifc /\ known.sar = r.sar
        /\ known.sars = r.sars /\ known.state = r.state /\ known.work = r.work
        /\ known.as = r.as /\ known.dns = r.dns /\ known.listed = r.listed
        /\ known.expiry = r.expiry /\ (r.known => known.known) /\ (success => known.known)
    BY <1>1, <2>4 DEF Regs, Learnt
  <2> HIDE DEF known
  <2>6. Sound(known) /\ Nearer(reg[b], known)
    BY <1>1, <2>5 DEF Sound, Lasting, Nearer
  <2>7. /\ waits \in Regs /\ waits.refs = known.refs /\ waits.ifc = known.ifc
        /\ waits.sar = known.sar /\ waits.sars = known.sars /\ waits.state = known.state
        /\ waits.known = known.known /\ waits.expiry = known.expiry
    BY <2>5 DEF Regs
  <2> HIDE DEF waits
  <2>8. Lasting(waits)
    BY <2>6, <2>7 DEF Sound, Lasting
  <2>9. r.refs # 0
    BY <1>4
  <2>10. CASE r.sar = "REGISTER" /\ SaaRegister(b, known, success)
    BY <1>1, <2>5, <2>6, <2>9, <2>10, SaaRegisterStep
  <2>11. ASSUME NEW end \in {"clean", "cleanDelete"}, ThirdParty(hash, b, waits, end)
         PROVE  IInv' /\ Progress
    <3>1. Chains(hash, b, waits) \/ Restart
      BY <2>7, <2>8, <2>11, ThirdPartyChains
    <3> QED
      BY <1>1, <2>5, <2>7, <2>9, <3>1, OwnChains, RestartStep
  <2>12. CASE Put(hash, b, known) /\ UNCHANGED <<session, profile>>
    BY <1>1, <2>5, <2>6, <2>9, <2>12, OwnStep
  <2> QED
    BY <2>1, <2>10, <2>11, <2>12
<1> QED
  BY <1>2, <1>3, <1>4, RestartStep DEF Verdicts

-----------------------------------------------------------------------------
\* What comes for a block that was freed is used up and no more.
LEMMA FreedStep ==
    ASSUME IInv, NEW b \in Blocks, NEW r \in Regs, reg[b].refs = 0, r.refs = 0,
           r = Freed(r), Put(hash, b, r), UNCHANGED <<session, profile>>
    PROVE  IInv' /\ Progress
<1>1. Sound(r) /\ r.work = "NONE"
  BY FreedIsSound
<1>2. Nearer(reg[b], r)
  BY <1>1 DEF Nearer
<1> QED
  BY <1>1, <1>2, OwnStep

\* The address of an AS, or none, at whatever time it comes.
LEMMA DnsAnswerStep ==
    ASSUME IInv, NEW b \in Blocks, DnsAnswer(b)
    PROVE  IInv' /\ Progress
<1> DEFINE r == [reg[b] EXCEPT !.dns = @ - 1]
           sent == [r EXCEPT !.listed = @ + 1]
           asked == [sent EXCEPT !.as = @ + 1]
           end == CASE r.sar \in {"REGISTER", "RE"} -> "clean"
                    [] r.sar = "DE" -> "delete"
                    [] OTHER -> "leave"
<1>1. /\ r \in Regs /\ Lasting(r) /\ r.work = reg[b].work
      /\ r.refs = reg[b].refs /\ r.ifc = reg[b].ifc
      /\ r.as = reg[b].as /\ r.dns = reg[b].dns - 1 /\ r.listed = reg[b].listed
      /\ r.refs = 0 => r = Freed(r)
  BY Consumed DEF DnsAnswer
<1>2. \/ r.refs = 0 /\ Put(hash, b, r) /\ UNCHANGED <<session, profile>>
      \/ r.refs # 0 /\ ThirdParty(hash, b, r, end)
      \/ /\ r.refs # 0 /\ UNCHANGED <<session, profile>>
         /\ \/ Put(hash, b, asked)
            \/ Finish(hash, b, r, end)
            \/ r.work = "NONE" /\ Put(hash, b, sent)
            \/ Put(hash, b, Cleaned(sent))
            \/ r.work = "WAIT_NW" /\ NextDereg(hash, b, r, 1)
      \/ r.refs # 0 /\ Asks(hash, b, sent, "clean")
      \/ Restart
  BY DEF DnsAnswer, LastFails
<1>3. end \in {"clean", "cleanDelete", "delete", "leave"}
  OBVIOUS
<1> HIDE DEF end, r
<1>4. r.listed \in Nat /\ r.as \in Nat /\ r.dns \in Nat
  BY <1>1 DEF Regs
<1>5. /\ sent \in Regs /\ sent.refs = r.refs /\ sent.ifc = r.ifc /\ sent.work = r.work
      /\ sent.as = r.as /\ sent.dns = r.dns /\ sent.sar = r.sar /\ sent.sars = r.sars
      /\ sent.state = r.state /\ sent.known = r.known /\ sent.expiry = r.expiry
  <2>1. r.listed + 1 \in Nat
    BY <1>4
  <2> QED
    BY <1>1, <2>1 DEF Regs
<1>6. Lasting(sent)
  BY <1>1, <1>5 DEF Lasting
<1> HIDE DEF sent
<1>7. /\ asked \in Regs /\ Lasting(asked) /\ asked.refs = sent.refs /\ asked.ifc = sent.ifc
      /\ asked.work = sent.work /\ asked.as + asked.dns > 0
  BY <1>5, <1>6, OneMore
<1>8. asked.dns = r.dns /\ asked.as = r.as + 1
  BY <1>5 DEF Regs
<1> HIDE DEF asked
<1>9. CASE r.refs = 0 /\ Put(hash, b, r) /\ UNCHANGED <<session, profile>>
  BY <1>1, <1>9, FreedStep
<1>10. ASSUME r.refs # 0, Chains(hash, b, r)
       PROVE  IInv' /\ Progress
  BY <1>1, <1>10, OwnChains
<1>11. CASE r.refs # 0 /\ ThirdParty(hash, b, r, end)
  <2>1. Chains(hash, b, r) \/ Restart
    BY <1>1, <1>3, <1>11, ThirdPartyChains
  <2> QED
    BY <1>10, <1>11, <2>1, RestartStep
<1>12. ASSUME r.refs # 0, UNCHANGED <<session, profile>>, Put(hash, b, asked)
       PROVE  IInv' /\ Progress
  <2>1. Sound(asked) /\ Nearer(reg[b], asked)
    BY <1>1, <1>5, <1>7, <1>8 DEF Sound, Nearer
  <2> QED
    BY <1>1, <1>5, <1>7, <1>12, <2>1, OwnStep
<1>13. ASSUME r.refs # 0, UNCHANGED <<session, profile>>,
              \/ Finish(hash, b, r, end)
              \/ r.work = "NONE" /\ Put(hash, b, sent)
              \/ Put(hash, b, Cleaned(sent))
              \/ r.work = "WAIT_NW" /\ NextDereg(hash, b, r, 1)
       PROVE  IInv' /\ Progress
  <2>1. CASE Finish(hash, b, r, end)
    BY <1>1, <1>3, <1>10, <1>13, <2>1, FinishChains
  <2>2. CASE r.work = "NONE" /\ Put(hash, b, sent)
    <3>1. Continues(r, sent)
      BY <1>5, <1>6, <2>2 DEF Continues
    <3> QED
      BY <1>5, <1>10, <1>13, <2>2, <3>1 DEF Chains
  <2>3. CASE Put(hash, b, Cleaned(sent))
    <3>1. Continues(r, Cleaned(sent))
      BY <1>1, <1>5, <1>6, CleanedContinues
    <3> QED
      BY <1>10, <1>13, <2>3, <3>1 DEF Chains, Continues
  <2>4. CASE r.work = "WAIT_NW" /\ NextDereg(hash, b, r, 1)
    BY <1>1, <1>10, <1>13, <2>4, NextDeregChains
  <2> QED
    BY <1>13, <2>1, <2>2, <2>3, <2>4
<1>14. CASE r.refs # 0 /\ Asks(hash, b, sent, "clean")
  <2>1. Chains(hash, b, sent)
    BY <1>5, <1>6, <1>14, AsksChains
  <2> QED
    BY <1>1, <1>5, <1>14, <2>1, OwnChains
<1> QED
  BY <1>2, <1>9, <1>11, <1>12, <1>13, <1>14, RestartStep

-----------------------------------------------------------------------------
\* What an AS answers, or that it does not.
LEMMA AsHeardStep ==
    ASSUME IInv, NEW b \in Blocks, NEW r \in Regs, Lasting(r), r.work = reg[b].work,
           r.refs = reg[b].refs, r.ifc = reg[b].ifc, r.refs = 0 => r = Freed(r),
           NEW success \in BOOLEAN, AsHeard(b, r, success)
    PROVE  IInv' /\ Progress
<1>1. r.work \in {"NONE", "WAIT_3RD", "WAIT_NW"}
  BY DEF Regs
<1>2. r.refs = 0 => r.work = "NONE"
  BY BlockKnown
<1>3. ASSUME r.refs # 0, Chains(hash, b, r)
      PROVE  IInv' /\ Progress
  BY <1>3, OwnChains
<1>4. CASE r.work = "WAIT_3RD"
  <2>1. \/ ThirdParty(hash, b, r, "clean")
        \/ Put(hash, b, Cleaned(r)) /\ UNCHANGED <<session, profile>>
    BY <1>4 DEF AsHeard
  <2>2. CASE ThirdParty(hash, b, r, "clean")
    <3>1. Chains(hash, b, r) \/ Restart
      BY <2>2, ThirdPartyChains
    <3> QED
      BY <1>2, <1>3, <1>4, <3>1, RestartStep
  <2>3. CASE Put(hash, b, Cleaned(r)) /\ UNCHANGED <<session, profile>>
    <3>1. Continues(r, Cleaned(r))
      BY CleanedContinues
    <3> QED
      BY <1>2, <1>3, <1>4, <2>3, <3>1 DEF Chains, Continues
  <2> QED
    BY <2>1, <2>2, <2>3
<1>5. CASE r.work = "WAIT_NW"
  <2>1. NextDereg(hash, b, r, 0) /\ UNCHANGED <<session, profile>>
    BY <1>5 DEF AsHeard
  <2>2. Chains(hash, b, r)
    BY <1>5, <2>1, NextDeregChains
  <2> QED
    BY <1>2, <1>3, <1>5, <2>2
<1>6. CASE r.work = "NONE"
  <2>1. Put(hash, b, r) /\ UNCHANGED <<session, profile>>
    BY <1>6 DEF AsHeard
  <2>2. Sound(r) /\ Nearer(reg[b], r)
    BY <1>6 DEF Sound, Nearer
  <2> QED
    BY <2>1, <2>2, OwnStep
<1> QED
  BY <1>1, <1>4, <1>5, <1>6

\* The end of a transaction with an AS.
LEMMA AsAnswerStep ==
    ASSUME IInv, NEW b \in Blocks, AsAnswer(b)
    PROVE  IInv' /\ Progress
<1>1. PICK success \in BOOLEAN : AsHeard(b, [reg[b] EXCEPT !.as = @ - 1], success)
  BY DEF AsAnswer
<1>2. reg[b].as > 0
  BY DEF AsAnswer
<1> DEFINE r == [reg[b] EXCEPT !.as = @ - 1]
<1>3. /\ r \in Regs /\ Lasting(r) /\ r.work = reg[b].work
      /\ r.refs = reg[b].refs /\ r.ifc = reg[b].ifc
      /\ r.refs = 0 => r = Freed(r)
  BY <1>2, Consumed
<1> HIDE DEF r
<1>4. AsHeard(b, r, success)
  BY <1>1 DEF r
<1> QED
  BY <1>3, <1>4, AsHeardStep

\* A provisional response leaves the transaction open.
LEMMA AsProvisionalStep ==
    ASSUME IInv, NEW b \in Blocks, AsProvisional(b)
    PROVE  IInv' /\ Progress
BY BlockKnown, AsHeardStep DEF AsProvisional

\* The expiry of a registration, also while it waits.
LEMMA ExpiresStep ==
    ASSUME IInv, NEW b \in Blocks, Expires(b)
    PROVE  IInv' /\ Progress
<1> DEFINE r == [reg[b] EXCEPT !.expiry = FALSE]
           nw == [r EXCEPT !.work = "WAIT_NW"]
<1>1. reg[b] \in Regs /\ Sound(reg[b]) /\ reg[b].refs # 0
  BY BlockKnown DEF Expires
<1>2. /\ UNCHANGED <<session, profile>>
      /\ \/ DeleteSub(hash, b, r)
         \/ DeleteSub(hash, b, nw)
         \/ NextDereg(hash, b, nw, 0)
  BY DEF Expires
<1>3. /\ r \in Regs /\ r.refs = reg[b].refs /\ r.ifc = reg[b].ifc /\ r.dns = reg[b].dns
      /\ r.as = reg[b].as /\ r.listed = reg[b].listed /\ r.work = reg[b].work
      /\ r.sar = reg[b].sar /\ r.sars = reg[b].sars /\ r.state = reg[b].state
      /\ r.known = reg[b].known /\ r.expiry = FALSE
  BY <1>1 DEF Regs
<1> HIDE DEF r
<1>4. Sound(r) /\ Nearer(reg[b], r)
  BY <1>1, <1>3 DEF Sound, Lasting, Nearer
<1>5. /\ nw \in Regs /\ nw.refs = r.refs /\ nw.ifc = r.ifc /\ nw.work = "WAIT_NW"
      /\ nw.sar = r.sar /\ nw.sars = r.sars /\ nw.state = r.state
      /\ nw.known = r.known /\ nw.expiry = r.expiry
  BY <1>3 DEF Regs
<1> HIDE DEF nw
<1>6. Lasting(nw) /\ Sound(nw) /\ Nearer(reg[b], nw)
  BY <1>4, <1>5 DEF Sound, Lasting, Nearer
<1>7. CASE DeleteSub(hash, b, r)
  BY <1>1, <1>2, <1>3, <1>4, <1>7, OwnStep
<1>8. CASE DeleteSub(hash, b, nw)
  BY <1>1, <1>2, <1>3, <1>5, <1>6, <1>8, OwnStep
<1>9. CASE NextDereg(hash, b, nw, 0)
  <2>1. Chains(hash, b, nw)
    BY <1>2, <1>5, <1>6, <1>9, NextDeregChains
  <2> QED
    BY <1>1, <1>3, <1>5, <2>1, OwnChains
<1> QED
  BY <1>2, <1>7, <1>8, <1>9

-----------------------------------------------------------------------------
\* A session asks for a user.
LEMMA SessionSarStep ==
    ASSUME IInv, SessionSar
    PROVE  IInv' /\ Progress
BY DEF SessionSar, IInv, Keyed, Progress, Nearer

\* A block made for a session takes the keys of the profile from those that have
\* them.
LEMMA SessionSaaStep ==
    ASSUME IInv, SessionSaa
    PROVE  IInv' /\ Progress
<1>1. session' = FALSE /\ profile' = profile
  BY DEF SessionSaa
<1>2. CASE UNCHANGED <<hash, reg>>
  BY <1>1, <1>2 DEF IInv, Keyed, Progress, Nearer
<1>3. ASSUME NEW b \in Blocks, Allocated(b),
             hash' = [i \in Ids |-> IF i \in profile.ids THEN b ELSE hash[i]],
             reg' = [c \in Blocks |->
                IF c = b THEN [Free EXCEPT !.refs = 1 + Cardinality(profile.ids),
                                           !.known = TRUE, !.les = profile.ids]
                ELSE Unref(reg[c], Held(hash, c, profile.ids))]
      PROVE  IInv' /\ Progress
  <2> DEFINE ids == profile.ids
             h == Led(hash, ids, b)
             s == [Free EXCEPT !.refs = 1 + Cardinality(profile.ids), !.known = TRUE,
                               !.les = profile.ids]
  <2>1. ids \in {{"key", "impu"}, {"impi", "impu"}} /\ ids \in SUBSET Ids
    BY ProfileKnown DEF Ids
  <2>2. Cardinality(ids) = 2
    BY <2>1, CardinalityOfIds
  <2>3. hash' = h /\ h \in Hashes
    BY <1>3 DEF Led, Hashes, IInv
  <2>4. reg[b] = Free /\ reg[b].refs = 0 /\ \A i \in Ids : hash[i] # b
    <3>1. reg[b] = Free /\ reg[b].refs = 0
      BY <1>3 DEF Allocated, Free, Unused
    <3> QED
      BY <3>1, BlockKnown
  <2>5. Held(h, b, Ids) = 2
    <3>1. Held(h, b, Ids) = Held(hash, b, Ids) + 2
      BY <2>1, <2>4, HeldByNew DEF IInv
    <3>2. Held(hash, b, Ids) = 0
      BY <2>4, HeldByNone
    <3> QED
      BY <3>1, <3>2
  <2>6. /\ s \in Regs /\ Sound(s) /\ s.refs = 3 /\ s.work = "NONE"
    <3>1. Free \in Regs /\ Free.expiry = FALSE /\ Free.sar = "INVALID" /\ Free.work = "NONE"
          /\ Free.state = "NOT_REGISTERED"
      BY RegAssumption DEF Free, Unused, Regs, States
    <3>2. ASSUME NEW f \in Regs, f.expiry = FALSE, f.sar = "INVALID", f.work = "NONE",
                 f.state = "NOT_REGISTERED"
          PROVE  LET u == [f EXCEPT !.refs = 3, !.known = TRUE, !.les = ids] IN
                 u \in Regs /\ Sound(u) /\ u.refs = 3 /\ u.work = "NONE"
      <4> DEFINE u == [f EXCEPT !.refs = 3, !.known = TRUE, !.les = ids]
      <4>1. u \in Regs
        <5> DEFINE g == [f EXCEPT !.refs = 3]
        <5>1. g \in Regs
          BY DEF Regs
        <5> HIDE DEF g
        <5>2. [g EXCEPT !.known = TRUE, !.les = ids] \in Regs
          BY <2>1, <5>1 DEF Regs
        <5> QED
          BY <5>2 DEF g
      <4>2. /\ u.refs = 3 /\ u.expiry = f.expiry /\ u.sar = f.sar /\ u.work = f.work
            /\ u.state = f.state
        BY DEF Regs
      <4> HIDE DEF u
      <4>3. Sound(u)
        BY <3>2, <4>2 DEF Sound, Lasting
      <4> QED
        BY <3>2, <4>1, <4>2, <4>3 DEF u
    <3>3. s = [Free EXCEPT !.refs = 3, !.known = TRUE, !.les = ids]
      BY <2>2
    <3> QED
      BY <3>1, <3>2, <3>3
  <2>7. reg'[b] = s
    BY <1>3
  <2> HIDE DEF s
  <2>8. ASSUME NEW c \in Blocks, c # b
        PROVE  /\ reg'[c] \in Regs /\ Sound(reg'[c])
               /\ reg'[c].refs \in {Held(h, c, Ids), Held(h, c, Ids) + 1}
               /\ reg'[c].refs = 0 => reg'[c] = Freed(reg'[c])
               /\ Nearer(reg[c], reg'[c])
    <3> DEFINE n == Held(hash, c, ids)
               u == Unref(reg[c], n)
    <3>1. reg'[c] = u
      BY <1>3, <2>8
    <3>2. n \in Nat /\ Held(hash, c, Ids) \in Nat /\ Held(h, c, Ids) \in Nat
      BY <2>1, HeldInNat
    <3>3. Held(h, c, Ids) = Held(hash, c, Ids) - n
      BY <2>1, <2>8, HeldByOthers DEF IInv
    <3>4. /\ reg[c] \in Regs /\ Sound(reg[c]) /\ (reg[c].refs = 0 => reg[c] = Freed(reg[c]))
          /\ reg[c].refs \in {Held(hash, c, Ids), Held(hash, c, Ids) + 1}
      BY DEF IInv, Keyed
    <3> HIDE DEF n, h, u
    <3>5. n <= reg[c].refs
      BY <3>2, <3>3, <3>4
    <3>6. /\ u \in Regs /\ Sound(u) /\ u.refs = reg[c].refs - n
          /\ u.refs = 0 => u = Freed(u)
          /\ u.work = "WAIT_3RD" =>
                /\ reg[c].work = "WAIT_3RD" /\ u.ifc = reg[c].ifc
                /\ u.dns = reg[c].dns /\ u.as = reg[c].as /\ u.listed = reg[c].listed
      BY <3>2, <3>4, <3>5, UnrefEffect DEF u
    <3>7. Nearer(reg[c], u)
      BY <3>6 DEF Nearer
    <3>8. u.refs \in {Held(h, c, Ids), Held(h, c, Ids) + 1}
      BY <3>2, <3>3, <3>4, <3>6
    <3> QED
      BY <3>1, <3>6, <3>7, <3>8
  <2> HIDE DEF h
  <2>9. reg' \in [Blocks -> Regs]
    <3>1. reg' = [c \in Blocks |-> reg'[c]]
      BY <1>3
    <3> QED
      BY <2>6, <2>7, <2>8, <3>1
  <2>10. Keyed(hash', reg')
    BY <2>3, <2>5, <2>6, <2>7, <2>8 DEF Keyed
  <2>11. IInv'
    <3>1. Keyed(hash, reg)' <=> Keyed(hash', reg')
      BY DEF Keyed
    <3>2. profile' \in Profiles /\ session' \in BOOLEAN
      BY <1>1 DEF IInv
    <3>3. \A c \in Blocks : Sound(reg'[c])
      BY <2>6, <2>7, <2>8
    <3> QED
      BY <2>3, <2>9, <2>10, <3>1, <3>2, <3>3 DEF IInv
  <2>12. Progress
    <3>1. Nearer(reg[b], reg'[b])
      BY <2>6, <2>7 DEF Nearer
    <3> QED
      BY <2>8, <3>1 DEF Progress
  <2> QED
    BY <2>11, <2>12
<1> QED
  BY <1>2, <1>3 DEF SessionSaa

\* Every event keeps the inductive invariant, and brings what waits nearer its end.
THEOREM Step ==
    ASSUME IInv, [Next]_vars
    PROVE  IInv' /\ Progress
<1>1. ASSUME NEW b \in Blocks, RegisterNew(b) PROVE IInv' /\ Progress
  BY <1>1, RegisterNewStep
<1>2. ASSUME NEW b \in Blocks, Reregister(b) PROVE IInv' /\ Progress
  BY <1>2, ReregisterStep
<1>3. ASSUME NEW b \in Blocks, Deregister(b) PROVE IInv' /\ Progress
  BY <1>3, DeregisterStep
<1>4. ASSUME NEW b \in Blocks, Saa(b) PROVE IInv' /\ Progress
  BY <1>4, SaaStep
<1>5. ASSUME NEW b \in Blocks, DnsAnswer(b) PROVE IInv' /\ Progress
  BY <1>5, DnsAnswerStep
<1>6. ASSUME NEW b \in Blocks, AsAnswer(b) PROVE IInv' /\ Progress
  BY <1>6, AsAnswerStep
<1>7. ASSUME NEW b \in Blocks, AsProvisional(b) PROVE IInv' /\ Progress
  BY <1>7, AsProvisionalStep
<1>8. ASSUME NEW b \in Blocks, Expires(b) PROVE IInv' /\ Progress
  BY <1>8, ExpiresStep
<1>9. CASE UNCHANGED vars
  BY <1>9 DEF vars, IInv, Keyed, Progress, Nearer
<1> QED
  BY <1>1, <1>2, <1>3, <1>4, <1>5, <1>6, <1>7, <1>8, <1>9,
     SessionSarStep, SessionSaaStep DEF Next

\* The inductive invariant always holds.
THEOREM Always == Spec => []IInv
BY Initial, Step, PTL DEF Spec

\* The types are kept, only a registered user has an expiry timer, and nobody is
\* registered whose profile the HSS has not sent.
THEOREM TypeCorrect == Spec => []TypeOK
<1>1. IInv => TypeOK
  BY DEF IInv, TypeOK, Hashes, Regs, Sound, Lasting
<1> QED
  BY <1>1, Always, PTL

\* Whichever block the keys a deletion names lead to by then, the references of
\* every block are the keys of the hash that lead to it.
THEOREM ReferencesCounted == Spec => []RefsAreKeys
<1>1. IInv => RefsAreKeys
  BY DEF IInv, Keyed, RefsAreKeys
<1> QED
  BY <1>1, Always, PTL

\* A registration that waits has something open that will call it back.
THEOREM WaitIsForSomething == Spec => []WaitsForSomething
<1>1. IInv => WaitsForSomething
  BY DEF IInv, Sound, WaitsForSomething
<1> QED
  BY <1>1, Always, PTL

\* Every step that leaves a registration waiting brings its end nearer.
THEOREM WaitIsBounded == Spec => WaitGetsShorter
<1>1. IInv /\ [Next]_vars => [\A b \in Blocks : Nearer(reg[b], reg'[b])]_vars
  BY Step DEF Progress
<1> QED
  BY <1>1, Always, PTL DEF Spec, WaitGetsShorter
=============================================================================
