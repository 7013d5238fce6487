---------------------------- MODULE Transactions ----------------------------
(***************************************************************************)
(* One entry of the transaction hash, from its creation in                 *)
(* sipTrans_onPeerMsg or sipTrans_onTUMsg to its deletion: sipTransMgr.c.  *)
(*                                                                         *)
(* The variables are the fields of sipTransaction_t, which all four kinds  *)
(* of transaction share, and what their environment has seen.  kind is     *)
(* smOnMsg, chosen at creation: every later event of the entry (peer, TU,  *)
(* timer, connection) goes to the machine of its kind, which leaves the    *)
(* fields of the other kinds alone.  Messages that find no entry and are   *)
(* dropped are stuttering steps.                                           *)
(***************************************************************************)
EXTENDS SipTransport, SipTimer, Sequences

CONSTANT MaxTold   \* bound: see InviteClient

ASSUME MaxToldAssumption == MaxTold \in Nat \ {0}

VARIABLES
    kind,                                           \* pTrans->smOnMsg
    state, tpInfo, timers,                          \* of every kind
    timerAEGValue, clock,                           \* of all but the NIS
    told, pending,                                  \* of the clients
    useTcp,                                         \* of the NIC
    out, ack, endedBy, reqTcp, ackTcp,      \* of the IC
    resp, sent, conn, toTU, config, viaFd,          \* of the servers
    frees                                           \* of the IS

NICVars    == <<useTcp>>
ICVars     == <<out, ack, endedBy, reqTcp, ackTcp>>
ClientVars == <<told, pending>>
ServerVars == <<resp, sent, conn, toTU, config, viaFd>>
ISVars     == <<frees>>
RepeatVars == <<timerAEGValue, clock>>

vars == <<kind, state, tpInfo, timers, NICVars, ICVars, ClientVars, ServerVars,
          ISVars, RepeatVars>>

IC  == INSTANCE InviteClient
IS  == INSTANCE InviteServer
NIC == INSTANCE NonInviteClient
NIS == INSTANCE NonInviteServer

-----------------------------------------------------------------------------
\* A field that the kind does not use.
Unused == "unused"

NoNIC    == useTcp = Unused
NoIC     == /\ out = Unused /\ ack = Unused /\ endedBy = Unused
            /\ reqTcp = Unused /\ ackTcp = Unused
NoClient == told = <<>> /\ pending = Unused
NoServer == /\ resp = Unused /\ sent = Unused /\ conn = Unused
            /\ toTU = Unused /\ config = Unused /\ viaFd = Unused
NoIS     == frees = Unused
NoRepeat == timerAEGValue = Unused /\ clock = Unused

\* The TU's request creates a client, a request that matches no entry a server;
\* its method decides whether it is an INVITE transaction.
Init == \/ kind = "IC"  /\ IC!Init  /\ NoNIC /\ NoServer /\ NoIS
        \/ kind = "NIC" /\ NIC!Init /\ NoIC /\ NoServer /\ NoIS
        \/ kind = "IS"  /\ IS!Init  /\ NoNIC /\ NoIC /\ NoClient
        \/ kind = "NIS" /\ NIS!Init /\ NoNIC /\ NoIC /\ NoClient /\ NoIS /\ NoRepeat

\* The steps of a kind's machine A leave the fields of the other kinds alone.
OfIC(A)  == kind = "IC"  /\ A /\ UNCHANGED <<kind, NICVars, ServerVars, ISVars>>
OfNIC(A) == kind = "NIC" /\ A /\ UNCHANGED <<kind, ICVars, ServerVars, ISVars>>
OfIS(A)  == kind = "IS"  /\ A /\ UNCHANGED <<kind, NICVars, ICVars, ClientVars>>
OfNIS(A) == /\ kind = "NIS" /\ A
            /\ UNCHANGED <<kind, NICVars, ICVars, ClientVars, ISVars, RepeatVars>>

Next == OfIC(IC!Next) \/ OfNIC(NIC!Next) \/ OfIS(IS!Next) \/ OfNIS(NIS!Next)

Expiry == \/ OfIC(IC!Expiry) \/ OfNIC(NIC!Expiry)
          \/ OfIS(IS!Expiry) \/ OfNIS(NIS!TimerJ)

\* A started timer expires; the peer, the connection and the TU owe nothing.
Spec == Init /\ [][Next]_vars /\ WF_vars(Expiry)

-----------------------------------------------------------------------------
\* What P says of the kind at hand.
ByKind(ofIC, ofNIC, ofIS, ofNIS) ==
    /\ kind = "IC"  => ofIC
    /\ kind = "NIC" => ofNIC
    /\ kind = "IS"  => ofIS
    /\ kind = "NIS" => ofNIS

\* Every field keeps the type its kind gives it.
TypeOK == ByKind(IC!TypeOK, NIC!TypeOK, IS!TypeOK, NIS!TypeOK)

\* The types, and: a timer of any kind runs only in a state whose handler knows
\* it, and none outlives its transaction, which is not freed before its end: the
\* manager hands an expiry to the transaction without looking whether that still
\* exists.
TimersOfState ==
    /\ TypeOK
    /\ ByKind(IC!TimersOfState, NIC!TimersOfState,
              IS!TimersOfState /\ IS!FreedAtEnd, NIS!TimersOfState)

\* The TU behind a client hears of the outcome, whatever comes first of timers,
\* responses and connection events: once from a non-INVITE client; an INVITE
\* client is never silent, and after an error there is nothing else.
ClientTellsTU == ByKind(IC!NeverSilent /\ IC!ErrorIsEnd, NIC!OneOutcome, TRUE, TRUE)

\* What ClientPromise sees of the entry: a non-INVITE client; in an entry of
\* another kind nothing ever begins.
stage   == IF kind = "NIC" THEN NIC!stage ELSE "idle"
outcome == IF kind = "NIC" THEN NIC!outcome ELSE "none"
NICPromise == INSTANCE ClientPromise

\* A non-INVITE client implements its promise: the TU hears of one outcome, an
\* error is the last thing it hears, and the wait for it ends, in every order of
\* timers, responses and connection events, also when timers fail to start.
KeepsPromise == NICPromise!Spec

\* The TU behind a server gets the request once, however often it is repeated,
\* and at most one error, as the last thing, when the transaction goes; from a
\* non-INVITE server only if no final response ever left, so that it never undoes
\* what the peer was told was done.
ServerTellsTU ==
    ByKind(TRUE, TRUE, IS!RequestOnce, NIS!RequestOnce /\ NIS!ErrorMeansUnanswered)

\* A request is repeated over unreliable transport and on the schedule of its
\* kind: doubling without a cap, up to T2, or, for the response to an INVITE,
\* from when it was first sent until it is acknowledged; that response goes over
\* the connection the INVITE came by, each time.
RepeatsOnSchedule ==
    ByKind(IC!Doubling, NIC!Retransmits, IS!Repeats /\ IS!OnRequestFd, TRUE)

\* The TU of an INVITE client hears of another final response only if no ACK
\* has left for the one before.
RepeatedOnlyIfUnacknowledged ==
    [][kind = "IC" /\ Len(told) > 0 /\ Len(told') > Len(told) /\ told'[Len(told')] = "final"
         => ack \in {"none", "TCP_CONN"}]_vars

\* Once a server has sent a final response, nothing replaces it: a request that
\* is repeated gets the same answer until the transaction goes.
AnswerStable ==
    [][ByKind(TRUE, TRUE, IS!FinalSent, NIS!FinalSent) /\ kind \in {"IS", "NIS"}
         /\ conn' = "none" => UNCHANGED resp]_vars

\* Every wait that a timer guards ends, also when timers may fail to start: for
\* the first response, for the ACK, and for the end of repeated messages.
Released ==
    /\ kind \in {"IC", "NIC"} /\ state \in {"CALLING", "TRYING"}
          ~> state \notin {"CALLING", "TRYING"} \/ told # <<>>
    /\ kind = "NIC" /\ state = "PROCEEDING" ~> state # "PROCEEDING"
    /\ kind = "IS" /\ state = "COMPLETED" ~> state # "COMPLETED"
    /\ state \in {"COMPLETED", "CONFIRMED"} /\ timers # {} ~> state = "TERMINATED" \/ timers = {}
=============================================================================
