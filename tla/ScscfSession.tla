---------------------------- MODULE ScscfSession ----------------------------
(***************************************************************************)
(* One call through the S-CSCF: scscfSession.c, with the filter criteria   *)
(* of scscfIfc.c.  The request goes to the application servers (AS) of the *)
(* caller (the half MO) and of the called user (MT), each of which sends   *)
(* it back, and then to the called user.                                   *)
(*                                                                         *)
(* An action is one event: a request, an answer of the HSS (SAA, LIA) or   *)
(* of DNS, or the end of a call the session has made (callProxy.c).  What  *)
(* an event calls is an operator that gives the set of its outcomes.       *)
(*                                                                         *)
(* A session that was freed is still the address of what is open for it:   *)
(* what then comes is without effect here.  A request that callProxy.c has *)
(* freed (scscfSession.c uses and frees it again) is read as it was.       *)
(*                                                                         *)
(* Left out: the responses themselves, the headers a forwarded request is  *)
(* given, and failing to allocate.  SIP_PROXY_STATUS_ESTABLISHED is never  *)
(* reported by callProxy.c, so the state ESTABLISHED is never entered.     *)
(***************************************************************************)
EXTENDS ScscfIfc

CONSTANTS
    Profiles,    \* the shared sets of criteria a user may have
    MaxReturns   \* bound on the requests that come for a session

ASSUME SessionAssumption == MaxReturns \in Nat

VARIABLES
    sess,      \* scscfSessInfo_t, and what is open for it
    returns,   \* how many requests have come for it
    methods    \* the methods of its requests

vars == <<sess, returns, methods>>

States == {"INIT", "MO_INIT", "MT_INIT", "SAR", "DNS_AS", "MO2MT_INIT",
           "DNS_ENUM", "LIR", "TO_LOCAL_CSCF", "TO_GEO_SCSCF", "TO_UE",
           "TO_BREAKOUT", "CLOSING"}

\* No session yet; it was freed; the process has ended on a wild address.
NoSession == {"ABSENT", "FREED", "ENDED"}

\* reg is userRegState, ids sIfcIdList, msg the method of tempWorkInfo.pSipTUMsg,
\* initial isInitial, ifc the position of pLastIfc, dh isContinuedDH.  odi says
\* whether lastOdiInfo.odi holds one; elem is the key of the element pOdiHashElement
\* points to, and stray the keys of those it no longer does.  listed counts the
\* proxies of proxyList whose call lives, left those whose call is gone, failed the
\* calls that live without being listed.  Open are SARs, LIRs and DNS queries, for
\* ENUM and for ASs.  tried has the criteria whose AS was tried, by half, and due
\* those the request met in the half of the caller.
Absent == [state |-> "ABSENT", half |-> "MO", reg |-> "NOT_REGISTERED", ids |-> {},
           msg |-> "none", initial |-> FALSE, ifc |-> 0, dh |-> FALSE,
           odi |-> FALSE, elem |-> "none", stray |-> {},
           listed |-> 0, left |-> 0, failed |-> 0,
           sars |-> 0, lirs |-> 0, enums |-> 0, dns |-> 0, tried |-> {}, due |-> {}]

Init == sess = Absent /\ returns = 0 /\ methods = {}

-----------------------------------------------------------------------------
(***************************************************************************)
(* An outcome: the session, whether its call goes on with the next AS, and *)
(* the status that is returned.                                            *)
(***************************************************************************)
Going(s)    == [s |-> s, goes |-> TRUE, ok |-> TRUE]
Done(s, ok) == [s |-> s, goes |-> FALSE, ok |-> ok]

Ended == Done([Absent EXCEPT !.state = "ENDED"], TRUE)

\* sipProxy_uasResponse to the request, whose address may be NULL.
Answered(s, ok) == IF s.msg = "none" THEN Ended ELSE Done(s, ok)

\* The outcomes outs with the status ok, whatever theirs was.
Ignoring(outs, ok) == {[o EXCEPT !.ok = ok] : o \in outs}

\* The session is freed, with its elements but for those of an odi.
Freed(s) == [Absent EXCEPT !.state = "FREED", !.stray = s.stray \cup ({s.elem} \ {"none"}),
                           !.listed = s.listed, !.failed = s.failed, !.sars = s.sars, !.lirs = s.lirs,
                           !.enums = s.enums, !.dns = s.dns]

\* scscfSessInfo_workInfoCleanup
Cleaned(s) == [s EXCEPT !.msg = "none", !.odi = FALSE, !.ifc = 0, !.elem = "none",
                        !.stray = @ \cup ({s.elem} \ {"none"})]

\* Fault of FreedIfUnused: the calls of the session are not asked about.
FreedAnyway(s) == Freed(s)

\* What both ways to close a session end with.
FreedIfUnused(s) == IF s.listed + s.left = 0 THEN Freed(s) ELSE s

\* scscfSess_enterState(CLOSING)
Close(s) == FreedIfUnused([Cleaned(s) EXCEPT !.state = "CLOSING"])

\* What a function that starts a thread of events does with the status.
Settled(o) == IF o.ok THEN o.s ELSE Close(o.s)

-----------------------------------------------------------------------------
\* A proxy was made: it is listed, and the request that comes back is hashed by
\* the odi it was given, or by the empty one there is before the first AS.
Listed(s) == [s EXCEPT !.listed = @ + 1,
                       !.elem = IF s.odi THEN "odi" ELSE "empty",
                       !.stray = @ \cup ({s.elem} \ {"none"})]

\* proxy_onSipTUMsgViaApp: only an INVITE makes a proxy.
Proxied(s) == IF s.msg = "invite" THEN {Done(Listed(s), TRUE)} ELSE {}

\* An INVITE that cannot be forwarded: its call has answered it and lives on, and
\* the caller is told of no proxy.  Neither is it for another request.
Unproxied(s) == IF s.msg = "invite" THEN [s EXCEPT !.failed = @ + 1] ELSE s

\* The status that comes with it.
UnproxiedOk(s) == s.msg # "invite"

\* scscfSessStateToUe_start, which reads the scscfRegInfo_t of the user as a
\* session if the request has seen no AS.
ToUe(u) ==
    LET s == [u EXCEPT !.state = "TO_UE"] IN
    IF s.reg # "REGISTERED" THEN {Answered(s, TRUE)}
    ELSE Proxied(s) \cup {Answered(Unproxied(s), UnproxiedOk(s))}
                    \cup IF s.initial THEN {Ended} ELSE {}

\* scscfSessStateToBreakout_onMsg, which does the same with the address NULL.
ToBreakout(u) ==
    LET s == [u EXCEPT !.state = "TO_BREAKOUT"] IN
    {Answered(s, FALSE)} \cup
    IF s.initial THEN {Ended}
    ELSE Proxied(s) \cup {Answered(Unproxied(s), UnproxiedOk(s))}

-----------------------------------------------------------------------------
Event(s) == [method |-> s.msg, regType |-> "INITIAL", case |-> SessCase(s.reg, s.half)]

\* The criteria the request meets.
Met(s) == {j \in DOMAIN Criteria : Matches(Criteria[j], s.ids, Event(s))}

\* The AS of the last criterion cannot be asked.
AsFails(s, ok) == {IF s.dh THEN Going(s) ELSE Answered(s, ok)}

\* The AS of criterion j is asked: with its address at once, or by way of DNS.
Ask(u, j) ==
    LET s == [u EXCEPT !.ifc = j, !.dh = Criteria[j].continued,
                       !.tried = @ \cup {<<u.half, j>>}]
        sent == [s EXCEPT !.odi = TRUE]
        byDns == Criteria[j].named IN
    Proxied(sent) \cup AsFails(Unproxied(sent), UnproxiedOk(s) /\ ~byDns)
                  \cup IF byDns
                       THEN {Done([s EXCEPT !.dns = @ + 1], TRUE)} \cup AsFails(s, FALSE)
                       ELSE {}

\* One criterion of the loop in scscfIfc_getNextAS, for each call that goes on.
Consider(outs, j) ==
    UNION {IF ~o.goes \/ j <= o.s.ifc THEN {o}
           ELSE IF j \in Met(o.s) THEN Ask(o.s, j)
           ELSE {Going([o.s EXCEPT !.ifc = j])} : o \in outs}

\* What has become of the call when the loop has considered j criteria.
Considered(s) ==
    LET outs[j \in 0..Len(Criteria)] ==
           IF j = 0 THEN {Going(s)} ELSE Consider(outs[j - 1], j)
    IN  outs

\* scscfSessStateDnsAs_onMsg with the calls it makes of itself, up to the end of
\* the criteria.
Chain(s) == IF s.msg = "none" THEN {Ended} ELSE Considered(s)[Len(Criteria)]

\* The chain of the called user ends with the user.
DnsAsMT(s) == UNION {IF o.goes THEN ToUe(o.s) ELSE {o} : o \in Chain(s)}

\* scscfSessStateLir_onMsg: a LIR that cannot be sent goes unnoticed.
Lir(u) == LET s == [u EXCEPT !.state = "LIR"] IN
          {Done(s, TRUE), Done([s EXCEPT !.lirs = @ + 1], TRUE)}

\* scscfSessStateDnsEnum_onMsg: refused, answered from the cache, or asked.
DnsEnum(u) == LET s == [u EXCEPT !.state = "DNS_ENUM"] IN
              {Answered(s, FALSE), Done([s EXCEPT !.enums = @ + 1], TRUE)} \cup Lir(s)

\* Fault of Called: pLastIfc is not reset.
CalledKeepsIfc(s) == [s EXCEPT !.half = "MT", !.reg = "UN_REGISTERED", !.due = Met(s),
                               !.state = "MO2MT_INIT"]

\* The session when it turns to the called user.
Called(s) == [s EXCEPT !.half = "MT", !.ifc = 0, !.reg = "UN_REGISTERED",
                       !.due = Met(s), !.state = "MO2MT_INIT"]

\* scscfSessStateMO2MTInit_onMsg, which drops the status of what it enters, and
\* leaves the call of a user who is just registering as it is.
MO2MT(u) ==
    LET s == Called(u) IN
    {Answered(s, FALSE),
     Done([s EXCEPT !.reg = "NOT_REGISTERED"], TRUE),
     Done([s EXCEPT !.state = "TO_LOCAL_CSCF"], TRUE)}
    \cup Ignoring(DnsEnum(s), TRUE)
    \cup UNION {Ignoring(DnsAsMT([s EXCEPT !.reg = "REGISTERED", !.ids = ids,
                                           !.state = "DNS_AS"]), TRUE) : ids \in Profiles}

\* The chain of the caller ends with the called user's.
DnsAs(u) ==
    LET s == [u EXCEPT !.state = "DNS_AS"] IN
    IF s.half = "MT" THEN DnsAsMT(s)
    ELSE UNION {IF o.goes THEN MO2MT(o.s) ELSE {o} : o \in Chain(s)}

\* scscfSess_enterState(SAR): the state is entered even where it is not allowed.
Sar(u) ==
    LET s == [u EXCEPT !.state = "SAR"] IN
    IF u.state \notin {"MO_INIT", "MT_INIT", "LIR"} THEN {Done(s, FALSE)}
    ELSE {Answered(s, FALSE), Done([s EXCEPT !.sars = @ + 1], TRUE)}

\* scscfSessStateMoInit_onMsg and scscfSessStateMTInit_onMsg: the registrar has no
\* block for the user (who may be with another S-CSCF), one that is not registered
\* or barred, or one with the criteria ids.
UserInit(s) ==
    Sar(s)
    \cup (IF s.half = "MT" THEN {Done([s EXCEPT !.state = "TO_LOCAL_CSCF"], TRUE)} ELSE {})
    \cup {Answered(s, FALSE)}
    \cup UNION {DnsAs([s EXCEPT !.reg = "REGISTERED", !.ids = ids]) : ids \in Profiles}

-----------------------------------------------------------------------------
\* A request that comes counts, and its method is noted.
Counted(method) ==
    /\ returns < MaxReturns
    /\ returns' = returns + 1
    /\ methods' = methods \cup {method}

Methods == {"invite", "other"}

(***************************************************************************)
(* scscfSessStateInit_onMsg.  A request without a Route header ends the    *)
(* process; one whose user cannot be made out closes the session again.    *)
(***************************************************************************)
FirstRequest(method, half) ==
    /\ sess.state = "ABSENT"
    /\ LET s == [Absent EXCEPT !.state = "INIT", !.half = half, !.msg = method,
                               !.initial = TRUE] IN
       \E o \in {Ended, Answered(s, FALSE)}
                \cup UserInit([s EXCEPT !.state = IF half = "MO" THEN "MO_INIT" ELSE "MT_INIT"]) :
          sess' = Settled(o)
    /\ returns' = returns /\ methods' = {method}

Live == sess.state \notin NoSession

\* A request that has come back: it is only expected in DNS_AS, and elsewhere
\* answered and kept.
Onward(u) ==
    LET s == [u EXCEPT !.elem = "none", !.initial = FALSE] IN
    IF s.state = "DNS_AS" THEN {Settled(o) : o \in DnsAs(s)} ELSE {s}

\* A request with the Call-ID of the session.  The user of its top Route is the
\* last odi, or empty, or another (every request within the dialog has another);
\* what does not match closes the session.
SameCall(method, user) ==
    /\ Live /\ Counted(method)
    /\ user = "odi" => sess.odi
    /\ LET s == [sess EXCEPT !.msg = method] IN
       IF user = (IF s.odi THEN "odi" ELSE "empty") THEN sess' \in Onward(s)
       ELSE sess' = Close(s)

\* A request with another Call-ID, of an AS that is a B2BUA or of another call:
\* it is taken for the session's if the user of its top Route is hashed for it.
OtherCall(method, user) ==
    /\ Live /\ Counted(method)
    /\ user \in sess.stray \cup ({sess.elem} \ {"none"})
    /\ sess' \in Onward([sess EXCEPT !.msg = method])

Requested == UNCHANGED <<returns, methods>>

\* scscfSessStateSar_onSaaMsg, in whatever state.  The answer does not change
\* userRegState.
Saa ==
    /\ sess.sars > 0
    /\ LET s == [sess EXCEPT !.sars = @ - 1] IN
       IF ~Live THEN sess' = s
       ELSE \E o \in {Answered(s, FALSE)}
                     \cup UNION {DnsAs([s EXCEPT !.ids = ids]) : ids \in Profiles} :
               sess' = Settled(o)
    /\ Requested

\* scscfSessStateLir_onLia, in whatever state: an answer that is an error, one
\* without the name it should have, the name of another S-CSCF, or the user is
\* with this one or is to be.
Lia ==
    /\ sess.lirs > 0
    /\ LET s == [sess EXCEPT !.lirs = @ - 1] IN
       IF ~Live THEN sess' = s
       ELSE \E o \in {Answered(s, FALSE), Done(s, FALSE),
                      Done([s EXCEPT !.state = "TO_GEO_SCSCF"], TRUE),
                      Done([s EXCEPT !.state = "TO_LOCAL_CSCF"], TRUE)} \cup Sar(s) :
               sess' = Settled(o)
    /\ Requested

\* scscfSessStateDnsAs_fwdRequest, for the answer to the query of an AS.
FwdRequest(s) ==
    LET sent == [s EXCEPT !.odi = TRUE] IN
    AsFails(s, FALSE) \cup Proxied(sent) \cup AsFails(Unproxied(sent), FALSE)

(***************************************************************************)
(* scscfSessState_dnsCallback: what an answer is for is not known from the *)
(* query but from the state.  In DNS_AS a failure, and an answer that the  *)
(* request cannot be forwarded with, go on to the next AS.                 *)
(***************************************************************************)
DnsOutcomes(s) ==
    CASE s.state = "DNS_ENUM" ->
            {Answered(s, FALSE)} \cup Ignoring(Lir(s), TRUE) \cup ToBreakout(s)
      [] s.state = "DNS_AS" ->
            UNION {IF o.goes THEN DnsAs(o.s) ELSE {o} : o \in FwdRequest(s)}
      [] OTHER -> {Done(s, FALSE)}

\* The answer to s, that of a query which is not open any more.
DnsAnswered(s) ==
    /\ IF ~Live THEN sess' = s ELSE \E o \in DnsOutcomes(s) : sess' = Settled(o)
    /\ Requested

DnsAsAnswer == sess.dns > 0 /\ DnsAnswered([sess EXCEPT !.dns = @ - 1])
EnumAnswer  == sess.enums > 0 /\ DnsAnswered([sess EXCEPT !.enums = @ - 1])

\* A call ends that is listed: scscfSess_onProxyStatus(DELETE), which takes the
\* proxy from the list only if the session is closing.
ListedGone ==
    /\ sess.listed > 0
    /\ LET s == [sess EXCEPT !.listed = @ - 1] IN
       sess' = CASE ~Live -> s
                 [] sess.state = "CLOSING" -> FreedIfUnused(s)
                 [] OTHER -> Close([s EXCEPT !.left = @ + 1])
    /\ Requested

\* A call ends that is not listed.
FailedGone ==
    /\ sess.failed > 0
    /\ LET s == [sess EXCEPT !.failed = @ - 1] IN
       sess' = CASE ~Live -> s
                 [] sess.state = "CLOSING" -> FreedIfUnused(s)
                 [] OTHER -> Close(s)
    /\ Requested

-----------------------------------------------------------------------------
Next ==
    \/ \E method \in Methods :
          \/ \E half \in {"MO", "MT"} : FirstRequest(method, half)
          \/ \E user \in {"odi", "empty", "other"} : SameCall(method, user)
          \/ \E user \in {"odi", "empty"} : OtherCall(method, user)
    \/ Saa \/ Lia \/ DnsAsAnswer \/ EnumAnswer
    \/ ListedGone \/ FailedGone

Spec == Init /\ [][Next]_vars

-----------------------------------------------------------------------------
\* Every variable has a value of its type.
TypeOK ==
    /\ returns \in 0..MaxReturns
    /\ methods \subseteq Methods
    /\ sess \in [state : States \cup NoSession, half : {"MO", "MT"},
                 reg : {"NOT_REGISTERED", "UN_REGISTERED", "REGISTERED"},
                 ids : Profiles \cup {{}}, msg : Methods \cup {"none"},
                 initial : BOOLEAN, ifc : 0..Len(Criteria), dh : BOOLEAN,
                 odi : BOOLEAN, elem : {"none", "odi", "empty"},
                 stray : SUBSET {"odi", "empty"},
                 listed : Nat, left : Nat, failed : Nat, sars : Nat, lirs : Nat,
                 enums : Nat, dns : Nat, tried : SUBSET ({"MO", "MT"} \X DOMAIN Criteria),
                 due : SUBSET DOMAIN Criteria]

\* The types, and what keeps a session: one in SAR waits for an answer, one that is closing has a
\* proxy left, and none is freed while a proxy it lists has a call.
Kept ==
    /\ TypeOK
    /\ sess.state = "SAR" => sess.sars > 0
    /\ sess.state = "CLOSING" => sess.listed + sess.left > 0
    /\ sess.state = "FREED" => sess.listed = 0

\* A call comes to the called user only after each AS of the caller, and to the
\* called user's phone only after each of the called user, that a criterion the
\* request meets names: in spite of ASs that send it back more than once, with another
\* Call-ID, or while DNS is asked, and of answers that come late.
NobodyPassedOver ==
    methods = {"invite"} =>
       /\ {"MO"} \X sess.due \subseteq sess.tried
       /\ sess.state = "TO_UE" => {"MT"} \X Met(sess) \subseteq sess.tried

\* scscfSession.c:1137: "if there is no more proxy for the session, free the
\* session, otherwise, the removal of proxy will notify to free the session".
ClosingIsFreed == sess.state = "CLOSING" => sess.listed + sess.failed > 0
=============================================================================
