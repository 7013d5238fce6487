------------------------- MODULE ScscfRegistration -------------------------
(***************************************************************************)
(* The registration of one subscription with the S-CSCF:                   *)
(* scscfRegistrar.c and scscfSar.c.                                        *)
(*                                                                         *)
(* An action is one event: a REGISTER of the user, the HSS's answer (SAA)  *)
(* to a SAR, the answer of DNS, a response of an application server (AS)   *)
(* or the failure of its transaction, the expiry timer, and the SAA of a   *)
(* session for a user who is not registered.  A block that was freed is    *)
(* still the address of whatever is open for it: what then comes finds no  *)
(* registration and is without effect here.  A REGISTER that was freed     *)
(* with the work it belonged to is read as it was.                         *)
(*                                                                         *)
(* Left out: the responses to the UE, a refused Expires header, MAR (auth  *)
(* is compiled out), and failing to allocate.                              *)
(***************************************************************************)
EXTENDS Integers, FiniteSets

CONSTANTS
    Blocks,     \* addresses of scscfRegInfo_t: at most so many at a time
    N,          \* the filter criteria that match a REGISTER, in their order
    Named,      \* those whose AS is a name that DNS has to resolve
    Profiles,   \* what the HSS and the filter criteria may have for the user
    MaxOpen,    \* bound on what is open for a block when a REGISTER comes
    MaxListed   \* bound on asRegInfoList when a REGISTER comes

ASSUME RegAssumption ==
    /\ N \in Nat /\ MaxOpen \in Nat /\ MaxListed \in Nat
    /\ Named \subseteq 1..N
    /\ Profiles \subseteq
          [ids : {{"key", "impu"}, {"impi", "impu"}}, \* of the subscription
           barred : BOOLEAN,                         \* all its impus are
           continued : SUBSET (1..N)]                \* isDefaultSessContinued
    /\ "none" \notin Blocks

VARIABLES
    hash,     \* gScscfRegHash: the block an identity leads to
    reg,      \* the blocks and what is open for them
    session,  \* a session waits for a SAA about its user, who has no block
    profile   \* the user's

vars == <<hash, reg, session, profile>>

\* The keys of the hash: the name the REGISTER gives (its Authorization, or the
\* user of its impu) and the names the profile gives.
Ids == {"key", "impi", "impu"}

States == {"NOT_REGISTERED", "REGISTERED"}

\* scscfRegInfo_t: refs counts the references to it (0: it is free), known says
\* whether ueList is filled in, les which of its elements are, keyLE is
\* tempWorkInfo.pRegHashLE, ifc the position of pLastIfc, dh isIfcContinuedDH,
\* listed the length of asRegInfoList.  Open are SARs, transactions with ASs,
\* and DNS queries.
Regs == [refs : Int, state : States, known : BOOLEAN, les : SUBSET Ids,
         keyLE : BOOLEAN, sar : {"INVALID", "REGISTER", "RE", "DE"},
         work : {"NONE", "WAIT_3RD", "WAIT_NW"}, ifc : 0..N,
         dh : BOOLEAN, expiry : BOOLEAN, listed : Nat,
         sars : Nat, as : Nat, dns : Nat]

Unused(sars, as, dns) ==
    [refs |-> 0, state |-> "NOT_REGISTERED", known |-> FALSE, les |-> {},
     keyLE |-> FALSE, sar |-> "INVALID", work |-> "NONE",
     ifc |-> 0, dh |-> FALSE, expiry |-> FALSE, listed |-> 0,
     sars |-> sars, as |-> as, dns |-> dns]

Free == Unused(0, 0, 0)

NoHash == [i \in Ids |-> "none"]
NoReg  == [b \in Blocks |-> Free]

Init == /\ hash = NoHash /\ reg = NoReg /\ session = FALSE
        /\ profile \in Profiles

\* The process ends on the address NULL and is started again.
Restart == hash' = NoHash /\ reg' = NoReg /\ session' = FALSE /\ UNCHANGED profile

-----------------------------------------------------------------------------
\* scscfRegTempWorkInfo_cleanup
Cleaned(r) == [r EXCEPT !.work = "NONE", !.sar = "INVALID", !.keyLE = FALSE, !.ifc = 0]

\* How many of the elements ids of the hash h lead to block b.
Held(h, b, ids) == Cardinality({i \in ids : h[i] = b})

\* scscfRegInfo_cleanup; what is open for the block stays open.
Freed(r) == Unused(r.sars, r.as, r.dns)

\* A block with n references less: the last one frees it.
Unref(r, n) == IF n > 0 /\ r.refs = n THEN Freed(r) ELSE [r EXCEPT !.refs = @ - n]

\* osHash_deleteNode(.., OS_HASH_DEL_NODE_TYPE_ALL) for the elements ids of the
\* hash h: whatever block they lead to loses its references, and no block has
\* them any more.
Released(h, regs, ids) ==
    [b \in Blocks |->
        Unref([regs[b] EXCEPT !.les = @ \ ids, !.keyLE = @ /\ "key" \notin ids],
              Held(h, b, ids))]

\* The elements scscfReg_deleteSubHash deletes for a block in the state r.
Doomed(r) == IF r.known THEN r.les ELSE IF r.keyLE THEN {"key"} ELSE {}

\* The outcome of a step for block b, in the state r, and the hash h.
Put(h, b, r) == hash' = h /\ reg' = [reg EXCEPT ![b] = r]

DeleteSub(h, b, r) ==
    /\ hash' = [i \in Ids |-> IF i \in Doomed(r) THEN "none" ELSE h[i]]
    /\ reg' = Released(h, [reg EXCEPT ![b] = r], Doomed(r))

-----------------------------------------------------------------------------
\* The criteria the chain can come to after i, when the ASs before them fail.
Reach(i) == {j \in (i + 1)..N : (i + 1)..(j - 1) \subseteq profile.continued}

Exhausts(i) == (i + 1)..N \subseteq profile.continued

\* Fault of At: the criterion is not noted as the last one used.
AtAgain(r, j, n) == [r EXCEPT !.dh = j \in profile.continued, !.listed = @ + n]

\* The AS of criterion j is asked; n more ASs are noted in asRegInfoList.
At(r, j, n) == [r EXCEPT !.ifc = j, !.dh = j \in profile.continued, !.listed = @ + n]

\* No criterion is left: pAs is NULL, and the last one looked at is the last.
Exhausted(r) == [r EXCEPT !.ifc = N, !.dh = IF r.ifc < N THEN TRUE ELSE @]

\* What the caller of scscfReg_perform3rdPartyReg does when it is done.
Finish(h, b, r, end) ==
    CASE end = "clean" -> Put(h, b, Cleaned(r))
      [] end = "cleanDelete" -> DeleteSub(h, b, Cleaned(r))
      [] end = "delete" -> DeleteSub(h, b, [r EXCEPT !.work = "NONE"])
      [] end = "leave" -> Put(h, b, [r EXCEPT !.work = "NONE"])

(***************************************************************************)
(* scscfReg_performNWDeRegister in its waiting state, with the calls that  *)
(* a deregistration failing at once makes of it: the next AS of the list   *)
(* is sent a deregistration, or none is left and the subscription is       *)
(* deleted.  Its caller notes more ASs afterwards.                         *)
(***************************************************************************)
NextDereg(h, b, r, more) ==
    \/ \E left \in 0..(r.listed - 1) :
          Put(h, b, [r EXCEPT !.listed = left + more, !.as = @ + 1])
    \/ DeleteSub(h, b, [r EXCEPT !.listed = more])

\* Fault of ThirdParty: an AS that cannot be asked is waited for.
ThirdPartyForgets(h, b, r, end) ==
    \/ /\ r.known => Exhausts(r.ifc)
       /\ Finish(h, b, IF r.known THEN Exhausted(r) ELSE r, end)
       /\ UNCHANGED <<session, profile>>
    \/ /\ r.known
       /\ \E j \in Reach(r.ifc) : Put(h, b, At(r, j, 1))
       /\ UNCHANGED <<session, profile>>

(***************************************************************************)
(* scscfReg_perform3rdPartyReg for block b in the state r, with the calls  *)
(* it makes of itself, and what its caller does with the result (end).     *)
(*                                                                         *)
(* Asks: criterion j is the last that is tried, and n of those before it   *)
(* failed at once: to the caller they were sent, while the failure was     *)
(* reported from within the call to scscfReg_onTrFailure, which goes on    *)
(* with the chain if the block waits for a response.                       *)
(***************************************************************************)
Asks(h, b, r, end) ==
    /\ \E j \in Reach(r.ifc), n \in 0..N :
          /\ n <= IF r.work = "WAIT_3RD" THEN j - r.ifc - 1 ELSE 0
          /\ LET t == At(r, j, n)
                 sent == At(r, j, n + 1) IN
             \/ Put(h, b, [sent EXCEPT !.as = @ + 1])
             \/ j \in Named /\ Put(h, b, [t EXCEPT !.dns = @ + 1])
             \/ \* it cannot be asked, and ends the chain
                j \notin profile.continued /\ n = 0 /\ Finish(h, b, t, end)
             \/ \* it fails at once
                CASE r.work = "WAIT_3RD" ->
                        j \notin profile.continued /\ Put(h, b, Cleaned(sent))
                  [] r.work = "WAIT_NW" -> NextDereg(h, b, t, 1)
                  [] r.work = "NONE" -> Put(h, b, sent)
    /\ UNCHANGED <<session, profile>>

NoneLeft(h, b, r, end) ==
    /\ r.known => Exhausts(r.ifc)
    /\ Finish(h, b, IF r.known THEN Exhausted(r) ELSE r, end)
    /\ UNCHANGED <<session, profile>>

\* The last AS fails at once and is continued: scscfReg_forwardSipRegister, when
\* it is returned to, reads pAs, which is NULL by then.
LastFails(r) == r.work = "WAIT_3RD" /\ Exhausts(r.ifc) /\ Restart

ThirdParty(h, b, r, end) ==
    \/ NoneLeft(h, b, r, end)
    \/ r.known /\ Asks(h, b, r, end)
    \/ r.known /\ r.ifc < N /\ LastFails(r)

-----------------------------------------------------------------------------
\* An allocation: which of the unused addresses it gives makes no difference.
Allocated(b) == reg[b] = Free /\ b = CHOOSE c \in Blocks : reg[c] = Free

\* The bounds, when a REGISTER comes.
Bounded(r) == r.sars + r.as + r.dns <= MaxOpen /\ r.listed <= MaxListed

\* A REGISTER whose contact cannot be decoded, or for which the HSS cannot be
\* reached: a user who is not registered is deleted.
Refused(b, r) == IF r.state = "NOT_REGISTERED" THEN DeleteSub(hash, b, r)
                                               ELSE Put(hash, b, r)

AskHss(h, b, r) == Put(h, b, [r EXCEPT !.sars = @ + 1])

\* The first REGISTER of a user.  When it is refused, the new block is deleted
\* again, which changes nothing.
RegisterNew(b) ==
    /\ hash["key"] = "none" /\ Allocated(b)
    /\ AskHss([hash EXCEPT !["key"] = b], b,
              [Free EXCEPT !.refs = 1, !.keyLE = TRUE, !.sar = "REGISTER"])
    /\ UNCHANGED <<session, profile>>

\* scscfReg_processRegMsg for a user for whom there is a block: the HSS is asked
\* unless the user is registered.
Reregister(b) ==
    /\ hash["key"] = b /\ Bounded(reg[b])
    /\ LET r == [reg[b] EXCEPT !.sar = "RE"] IN
       \/ Refused(b, r) /\ UNCHANGED <<session, profile>>
       \/ /\ r.state = "NOT_REGISTERED"
          /\ AskHss(hash, b, r)
          /\ UNCHANGED <<session, profile>>
       \/ /\ r.state = "REGISTERED" /\ profile.barred
          /\ Put(hash, b, r)
          /\ UNCHANGED <<session, profile>>
       \/ /\ r.state = "REGISTERED" /\ ~profile.barred
          /\ ThirdParty(hash, b, [r EXCEPT !.work = "WAIT_3RD"], "clean")

\* A REGISTER with the expiry 0.  It is not answered if the user is not
\* registered: performSar then returns without having asked the HSS.
Deregister(b) ==
    /\ hash["key"] = b /\ Bounded(reg[b])
    /\ LET r == [reg[b] EXCEPT !.sar = "DE"] IN
       \/ r.state = "REGISTERED" /\ AskHss(hash, b, r)
       \/ Put(hash, b, r)
    /\ UNCHANGED <<session, profile>>

-----------------------------------------------------------------------------
\* scscfReg_createSubHash(pRegInfo, false): nothing is hashed if an identity
\* already is, and the key itself is one when the profile has it.
Collides == \E i \in profile.ids : hash[i] # "none"

SubHash(b) == [i \in Ids |-> IF ~Collides /\ i \in profile.ids THEN b ELSE hash[i]]

\* Fault of Hashed: the block is not referenced for each of its elements.
HashedOnce(r) == IF Collides THEN r ELSE [r EXCEPT !.refs = @ + 1, !.les = profile.ids]

Hashed(r) == IF Collides THEN r
             ELSE [r EXCEPT !.refs = @ + Cardinality(profile.ids), !.les = profile.ids]

\* scscfReg_onSaa for the answer to the first REGISTER: a failure deletes the
\* element of its key.
SaaRegister(b, r, success) ==
    IF ~success
    THEN DeleteSub(hash, b, [r EXCEPT !.known = FALSE]) /\ UNCHANGED <<session, profile>>
    ELSE LET done == [Hashed(r) EXCEPT !.state = "REGISTERED", !.expiry = TRUE] IN
         IF profile.barred
         THEN Put(SubHash(b), b, done) /\ UNCHANGED <<session, profile>>
         ELSE ThirdParty(SubHash(b), b, [done EXCEPT !.work = "WAIT_3RD"], "clean")

\* What decodeSaa makes of an answer: it sets the code the answer has, and whether
\* Result-Code or the experimental one decides is read from memory that was
\* never set, so each answer may be a success or none.
Verdicts == BOOLEAN

\* The profile a success brings: scscfIfc_decodeHssMsg fills ueList in.
Learnt(r, success) == [r EXCEPT !.known = @ \/ success]

(***************************************************************************)
(* An answer of the HSS: scscfReg_onDiaMsg.  What it is taken for depends  *)
(* on the last REGISTER of the user.  An answer that cannot be decoded is  *)
(* dropped, and none at all (NULL) ends the process.                       *)
(***************************************************************************)
Saa(b) ==
    /\ reg[b].sars > 0
    /\ LET r == [reg[b] EXCEPT !.sars = @ - 1] IN
       \/ Put(hash, b, r) /\ UNCHANGED <<session, profile>>
       \/ Restart
       \/ /\ r.refs > 0
          /\ \E success \in Verdicts :
             LET known == Learnt(r, success)
                 waits == [known EXCEPT !.work = "WAIT_3RD"] IN
             CASE r.sar = "REGISTER" -> SaaRegister(b, known, success)
               [] r.sar = "RE" /\ success -> ThirdParty(hash, b, waits, "clean")
               [] r.sar = "DE" -> ThirdParty(hash, b, waits, "cleanDelete")
               [] OTHER -> Put(hash, b, known) /\ UNCHANGED <<session, profile>>

\* scscfReg_dnsCallback.  A failure goes on to the next AS whatever the
\* criterion says, a REGISTER that cannot be sent only if it is continued.
DnsAnswer(b) ==
    /\ reg[b].dns > 0
    /\ LET r == [reg[b] EXCEPT !.dns = @ - 1]
           sent == [r EXCEPT !.listed = @ + 1]
           end == CASE r.sar \in {"REGISTER", "RE"} -> "clean"
                    [] r.sar = "DE" -> "delete"
                    [] OTHER -> "leave" IN
       IF r.refs = 0
       THEN Put(hash, b, r) /\ UNCHANGED <<session, profile>>
       ELSE \/ ThirdParty(hash, b, r, end)
            \/ /\ \/ Put(hash, b, [sent EXCEPT !.as = @ + 1])
                  \/ ~r.dh /\ Finish(hash, b, r, end)
                  \/ r.work = "NONE" /\ Put(hash, b, sent)
                  \/ r.work = "WAIT_3RD" /\ ~r.dh /\ Put(hash, b, Cleaned(sent))
                  \/ r.work = "WAIT_NW" /\ NextDereg(hash, b, r, 1)
               /\ UNCHANGED <<session, profile>>
            \/ \* it fails at once, and onTrFailure goes on with the chain
               /\ r.work = "WAIT_3RD" /\ r.dh
               /\ Asks(hash, b, sent, "clean") \/ LastFails(r)

\* What a response (success or not) and a failure do: scscfReg_onSipResponse and
\* scscfReg_onTrFailure.
AsHeard(b, r, success) ==
    CASE r.work = "WAIT_3RD" ->
            IF success \/ r.dh THEN ThirdParty(hash, b, r, "clean")
            ELSE Put(hash, b, Cleaned(r)) /\ UNCHANGED <<session, profile>>
      [] r.work = "WAIT_NW" ->
            NextDereg(hash, b, r, 0) /\ UNCHANGED <<session, profile>>
      [] r.work = "NONE" -> Put(hash, b, r) /\ UNCHANGED <<session, profile>>

\* The end of a transaction with an AS.
AsAnswer(b) ==
    /\ reg[b].as > 0
    /\ \E success \in BOOLEAN : AsHeard(b, [reg[b] EXCEPT !.as = @ - 1], success)

\* A provisional response: the handler takes it for a failure.
AsProvisional(b) == reg[b].as > 0 /\ reg[b].work # "NONE" /\ AsHeard(b, reg[b], FALSE)

\* scscfReg_onTimeout, and performNWDeRegister in the state it finds.
Expires(b) ==
    /\ reg[b].expiry
    /\ LET r == [reg[b] EXCEPT !.expiry = FALSE]
           nw == [r EXCEPT !.work = "WAIT_NW"] IN
       IF r.work = "WAIT_3RD" THEN DeleteSub(hash, b, r)
       ELSE IF profile.barred THEN DeleteSub(hash, b, nw)
       ELSE NextDereg(hash, b, nw, 0)
    /\ UNCHANGED <<session, profile>>

-----------------------------------------------------------------------------
\* A session has found no block for its user and asks the HSS.
SessionSar ==
    /\ hash["impu"] = "none" /\ ~session
    /\ session' = TRUE
    /\ UNCHANGED <<hash, reg, profile>>

(***************************************************************************)
(* scscfReg_onSessSaa: a block of its own for the user, which takes the    *)
(* place of those the hash leads to (createSubHash(pRegInfo, true)).  The  *)
(* reference it is made with is never given back.                          *)
(***************************************************************************)
SessionSaa ==
    /\ session
    /\ session' = FALSE
    /\ \/ \E b \in Blocks :
             /\ Allocated(b)
             /\ hash' = [i \in Ids |-> IF i \in profile.ids THEN b ELSE hash[i]]
             /\ reg' = [c \in Blocks |->
                   IF c = b THEN [Free EXCEPT !.refs = 1 + Cardinality(profile.ids),
                                              !.known = TRUE, !.les = profile.ids]
                   ELSE Unref(reg[c], Held(hash, c, profile.ids))]
       \/ UNCHANGED <<hash, reg>>
    /\ UNCHANGED profile

-----------------------------------------------------------------------------
Next ==
    \/ \E b \in Blocks :
          \/ RegisterNew(b) \/ Reregister(b) \/ Deregister(b)
          \/ Saa(b) \/ DnsAnswer(b) \/ AsAnswer(b) \/ AsProvisional(b)
          \/ Expires(b)
    \/ SessionSar \/ SessionSaa

Spec == Init /\ [][Next]_vars

-----------------------------------------------------------------------------
\* Every variable has a value of its type, only a registered user has an expiry
\* timer, and nobody is registered whose profile the HSS has not sent.
TypeOK ==
    /\ hash \in [Ids -> Blocks \cup {"none"}]
    /\ session \in BOOLEAN
    /\ profile \in Profiles
    /\ reg \in [Blocks -> Regs]
    /\ \A b \in Blocks : /\ reg[b].expiry => reg[b].state = "REGISTERED"
                         /\ reg[b].state = "REGISTERED" => reg[b].known

\* A block is allocated exactly while a key of the hash, or the session it was
\* made for, leads to it, and the count of its references says so: whichever
\* block the elements a deletion names lead to meanwhile.
RefsAreKeys ==
    \A b \in Blocks :
       LET n == Held(hash, b, Ids) IN
       /\ reg[b].refs \in {n, n + 1}
       /\ reg[b].refs = 0 => reg[b] = Freed(reg[b])

\* A registration waits for its ASs only while a transaction or a DNS query is
\* open that will call it back: failures reported from within the call that
\* sends, answers that come late and REGISTERs that overlap included.
WaitsForSomething ==
    \A b \in Blocks : reg[b].work = "WAIT_3RD" => reg[b].as + reg[b].dns > 0

\* What a step that leaves a registration waiting makes of it: it has come to a
\* later criterion, is where it was, or has the address of an AS it asked DNS for.
Nearer(r, s) ==
    r.work = "WAIT_3RD" /\ s.work = "WAIT_3RD"
       => \/ s.ifc > r.ifc
          \/ s.ifc = r.ifc /\ s.dns = r.dns /\ s.as = r.as /\ s.listed = r.listed
          \/ s.ifc = r.ifc /\ s.dns = r.dns - 1 /\ s.as = r.as + 1

\* Whatever happens while it waits brings its end nearer, however often the user
\* registers meanwhile, and nothing that is open is used up in vain.
WaitGetsShorter == [][\A b \in Blocks : Nearer(reg[b], reg'[b])]_vars
=============================================================================
