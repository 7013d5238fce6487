----------------------------- MODULE CallProxy -----------------------------
(***************************************************************************)
(* One call through the stand-alone proxy: saProxyMgr.c (the hash of       *)
(* calls), callProxy.c (the states of a call) and proxyMisc.c (the pairs   *)
(* of transactions).                                                       *)
(*                                                                         *)
(* An action is one event the proxy is handed: a message its transactions  *)
(* let through, the report of a transaction's failure, or a timer.  The    *)
(* transactions appear by what they do to the proxy: which message they    *)
(* may still deliver, and when they are freed (modules InviteClient,       *)
(* InviteServer and NonInviteClient have the reasons).  The uses of memory *)
(* that was freed, or of an address that was never set, are collected in   *)
(* wild; the model then goes on as if nothing had happened.                *)
(*                                                                         *)
(* Left out: CANCEL and ACK with another number than the INVITE's, failing *)
(* to allocate or to start a timer, and responses to a request of the      *)
(* dialog other than final ones.                                           *)
(***************************************************************************)
EXTENDS Naturals

CONSTANTS
    Reqs,      \* requests within the call: each is sent once, by either side
    MaxRings   \* bound on the provisional responses of the callee

ASSUME RingsAssumption == MaxRings \in Nat \ {0}

VARIABLES
    call,       \* pCallInfo->state; "ABSENT" before and "FREED" after the call
    hash,       \* the elements proxyHash has for the call-id
    timers,     \* the timers of the call that are running
    pair,       \* proxyTransInfo.first, the transactions of the INVITE
    more,       \* proxyTransInfo.more, the requests whose pairs are listed
    num,        \* proxyTransInfo.num
    uas,        \* the INVITE server transaction, towards the caller
    uac,        \* the INVITE client transaction, towards the callee
    heard,      \* the last response to the INVITE that uas was given
    rings,      \* how many provisional responses the callee has sent
    dialog,     \* the requests within the call and their transactions
    unheeded,   \* INVITE transactions whose end the proxy did not act on
    wild        \* what was used although it was freed or never set

PairVars   == <<pair, more, num>>
InviteVars == <<uas, uac, heard, rings, unheeded>>
vars       == <<call, hash, timers, PairVars, InviteVars, dialog, wild>>

Methods  == {"CANCEL", "INVITE", "INFO", "BYE", "ACK"}
Final    == {"2xx", "failure"}
Setup    == {"INIT_INVITE", "INIT_ERROR", "INIT_200_RECEIVED"}
Answered == {"INIT_200_RECEIVED", "INIT_ACK_RECEIVED", "BYE"}

\* hash: no element; an empty one, left by a message that was not an INVITE; the
\* call's own; and the call's own with an empty one behind or before it.
Own      == {"own", "ownFirst", "emptyFirst"}
Elements == {"none", "empty"} \cup Own

Request == [method : Methods \cup {"none"},
            uas : {"none", "waiting", "answered"},
            uac : {"none", "trying", "answered", "failed"}]

Unsent == [method |-> "none", uas |-> "none", uac |-> "none"]

Init == /\ call = "ABSENT" /\ hash = "none" /\ timers = {}
        /\ pair = "none" /\ more = {} /\ num = 0
        /\ uas = "none" /\ uac = "none" /\ heard = "none" /\ rings = 0
        /\ dialog = [r \in Reqs |-> Unsent]
        /\ unheeded = {} /\ wild = {}

-----------------------------------------------------------------------------
\* osPlHash_getUserData: the call is found if its element comes first.
Found == hash \in {"own", "ownFirst"}

\* saProxy_onSipTUMsg adds an empty element for a message that finds no call,
\* and does nothing else with one that is no INVITE.
Missed ==
    /\ ~Found
    /\ hash' = IF hash = "none" THEN "empty" ELSE hash
    /\ UNCHANGED <<call, timers, PairVars, wild>>

\* A call that was rejected when it came: saProxy_onSipTUMsg has deleted its
\* element, and the call its proxyInfo_t, while the call itself lives on.
Detached == call = "INIT_ERROR" /\ hash \notin Own

\* A transaction has failed and reports it by way of the proxyInfo_t.  The
\* handlers of all states (..._onTrError) do nothing.
Reported ==
    wild' = IF call = "FREED" \/ Detached THEN wild \cup {"proxyInfo"} ELSE wild

\* Fault of FreeCall: the element stays.
FreeCallKeepsElement(used) ==
    /\ call' = "FREED"
    /\ timers' = {}
    /\ pair' = "none" /\ more' = {} /\ num' = 0
    /\ wild' = wild \cup used
    /\ UNCHANGED hash

(***************************************************************************)
(* callProxyEnterState(NONE): callProxyInfo_cleanup stops the timers and   *)
(* has the hash element deleted, by its address, together with the         *)
(* proxyInfo_t, and then the pairs.                                        *)
(***************************************************************************)
FreeCall(used) ==
    /\ call' = "FREED"
    /\ timers' = {}
    /\ pair' = "none" /\ more' = {} /\ num' = 0
    /\ hash' = CASE hash = "own" -> "none"
                 [] hash \in {"ownFirst", "emptyFirst"} -> "empty"
                 [] OTHER -> hash
    /\ wild' = wild \cup used \cup (IF Detached THEN {"element"} ELSE {})

\* Faults of EnterError: timer C runs on; nothing bounds the wait for the ACK.
EnterErrorKeepsC == call' = "INIT_ERROR" /\ timers' = timers \cup {"WaitAck"}
EnterErrorUntimed == call' = "INIT_ERROR" /\ timers' = {}

\* callProxyEnterState(INIT_ERROR), which stops timer C.
EnterError == call' = "INIT_ERROR" /\ timers' = {"WaitAck"}

\* sipProxy_addTrPair for a request of the dialog: refused while there is a
\* pair, were it that of the INVITE.
AddPair(r) ==
    /\ IF num > 0 THEN UNCHANGED <<more, num>>
                  ELSE more' = more \cup {r} /\ num' = num + 1
    /\ UNCHANGED pair

\* Fault of Relay: a failure is kept from the caller.
RelaySuccess(class) ==
    /\ heard' = IF class = "failure" THEN heard ELSE class
    /\ UNCHANGED <<uas, unheeded, wild>>

(***************************************************************************)
(* A response to the INVITE is given to its server transaction.  What that *)
(* does depends on whether it can be sent: a final one ends the            *)
(* transaction or has it wait for the ACK, one that fails ends it with a   *)
(* report, and one that has to wait for a connection changes nothing.      *)
(***************************************************************************)
Relay(class) ==
    IF uas # "proceeding"
    THEN wild' = wild \cup {"uas"} /\ UNCHANGED <<uas, heard, unheeded>>
    ELSE /\ heard' = class
         /\ \/ /\ uas' = CASE class = "1xx" -> uas [] class = "2xx" -> "gone"
                           [] class = "failure" -> "completed"
               /\ UNCHANGED unheeded
            \/ uas' = "gone" /\ unheeded' = unheeded \cup {"uas"}
            \/ UNCHANGED <<uas, unheeded>>
         /\ UNCHANGED wild

-----------------------------------------------------------------------------
\* An INVITE that is rejected: its user is unknown or not registered, or it
\* cannot be forwarded.  The call waits for the ACK, but cannot be found.
Reject ==
    /\ call = "ABSENT"
    /\ EnterError
    /\ pair' = "uasOnly" /\ num' = 1
    /\ heard' = "failure"
    /\ uas' \in {"proceeding", "completed", "gone"}
    /\ UNCHANGED <<hash, more, uac, rings, dialog, unheeded, wild>>

\* An INVITE that is forwarded; its transaction may fail before it is even
\* returned to the proxy.
Accept ==
    /\ call = "ABSENT"
    /\ call' = "INIT_INVITE"
    /\ timers' = {"C"}
    /\ pair' = "both" /\ num' = 1
    /\ hash' \in IF hash = "none" THEN {"own"} ELSE {"ownFirst", "emptyFirst"}
    /\ uas' = "proceeding"
    /\ uac' \in {"calling", "gone"}
    /\ unheeded' = IF uac' = "gone" THEN {"uac"} ELSE {}
    /\ UNCHANGED <<more, heard, rings, dialog, wild>>

(***************************************************************************)
(* A response to the INVITE.  The client transaction ends with the first   *)
(* final one, so that only INIT_INVITE ever gets any.                      *)
(***************************************************************************)
Response(class) ==
    /\ uac \in {"calling", "proceeding"}
    /\ class = "1xx" => rings < MaxRings
    /\ rings' = IF class = "1xx" THEN rings + 1 ELSE rings
    /\ uac' = CASE class = "1xx" -> "proceeding" [] class = "2xx" -> "gone"
                [] class = "failure" -> "completed"
    /\ \/ /\ Missed
          /\ unheeded' = IF class \in Final THEN unheeded \cup {"uac"} ELSE unheeded
          /\ UNCHANGED <<uas, heard>>
       \/ /\ Found /\ call = "INIT_INVITE"
          /\ Relay(class)
          /\ CASE class = "1xx" -> UNCHANGED <<call, timers>>
               [] class = "2xx" -> call' = "INIT_200_RECEIVED" /\ timers' = {"WaitAck"}
               [] class = "failure" -> EnterError
          /\ UNCHANGED <<hash, PairVars>>
    /\ UNCHANGED dialog

\* The client transaction fails (timer B, no connection), or, after a failure
\* response, is done.
UacEnds ==
    /\ uac' = "gone"
    /\ \/ uac \in {"calling", "proceeding", "completed"} /\ Reported
          /\ unheeded' = unheeded \cup {"uac"}
       \/ uac = "completed" /\ UNCHANGED <<unheeded, wild>>
    /\ UNCHANGED <<call, hash, timers, PairVars, uas, heard, rings, dialog>>

\* The server transaction fails (a repeated INVITE, timer H), or goes silently
\* (timer G, timer I).
UasEnds ==
    /\ uas' = "gone"
    /\ \/ uas \in {"proceeding", "completed"} /\ Reported
          /\ unheeded' = unheeded \cup {"uas"}
       \/ uas \in {"completed", "confirmed"} /\ UNCHANGED <<unheeded, wild>>
    /\ UNCHANGED <<call, hash, timers, PairVars, uac, heard, rings, dialog>>

\* The ACK for a failure, which the proxy takes to the server transaction.
AckFailure ==
    /\ Found /\ call = "INIT_ERROR" /\ heard \in Final
    /\ uas' \in CASE uas = "completed"  -> {"confirmed", "gone"}
                  [] uas = "proceeding" -> {"proceeding", "gone"}
                  [] OTHER -> {uas}
    /\ unheeded' = IF uas = "proceeding" /\ uas' = "gone"
                   THEN unheeded \cup {"uas"} ELSE unheeded
    /\ wild' = IF uas = "gone" THEN wild \cup {"uasByAck"} ELSE wild
    /\ UNCHANGED <<call, hash, timers, PairVars, uac, heard, rings, dialog>>

\* The ACK for a 2xx.
AckSuccess ==
    /\ Found /\ call = "INIT_200_RECEIVED" /\ heard = "2xx"
    /\ call' = "INIT_ACK_RECEIVED"
    /\ timers' = {}
    /\ pair' = "none" /\ num' = num - 1
    /\ UNCHANGED <<hash, more, InviteVars, dialog, wild>>

\* An ACK whose call is not found.
AckMissed ==
    /\ heard \in Final /\ Missed
    /\ UNCHANGED <<InviteVars, dialog>>

(***************************************************************************)
(* The ACK again, after the call was confirmed: it is forwarded in a       *)
(* transaction of its own, as any request.  The message of an ACK has no   *)
(* transaction, and the field for it was never set.                        *)
(***************************************************************************)
AckAgain(r) ==
    /\ Found /\ call = "INIT_ACK_RECEIVED"
    /\ dialog[r] = Unsent
    /\ dialog' = [dialog EXCEPT ![r] = [method |-> "ACK", uas |-> "none", uac |-> "trying"]]
    /\ AddPair(r)
    /\ wild' = IF num = 0 THEN wild \cup {"ackTransaction"} ELSE wild
    /\ UNCHANGED <<call, hash, timers, InviteVars>>

-----------------------------------------------------------------------------
\* Request r of the dialog is what the two transactions say from now on.
Becomes(r, m, server, client) ==
    /\ dialog[r] = Unsent
    /\ dialog' = [dialog EXCEPT ![r] = [method |-> m, uas |-> server, uac |-> client]]
    /\ UNCHANGED InviteVars

RequestMissed(r, m) == Missed /\ Becomes(r, m, "waiting", "none")

\* The requests the proxy answers itself: CANCEL of a call that is not confirmed,
\* a new INVITE before the ACK, and whatever comes after a BYE.
AnswersItself(m) ==
    \/ m = "CANCEL" /\ call \in Setup
    \/ m = "INVITE" /\ call = "INIT_200_RECEIVED"
    \/ call = "BYE"

Ignores(m) ==
    \/ m \in {"INVITE", "BYE"} /\ call = "INIT_INVITE"
    \/ m # "CANCEL" /\ call = "INIT_ERROR"

RequestNotForwarded(r, m) ==
    /\ Found
    /\ \/ AnswersItself(m) /\ Becomes(r, m, "answered", "none")
       \/ Ignores(m) /\ Becomes(r, m, "waiting", "none")
    /\ UNCHANGED <<call, hash, timers, PairVars, wild>>

\* sipProxy_forwardReq has a next hop for the request or none (in which case
\* INIT_ACK_RECEIVED goes on all the same).  A BYE before the ACK gets no pair.
RequestForwarded(r, m) ==
    /\ Found /\ ~AnswersItself(m) /\ ~Ignores(m)
    /\ \E ok \in BOOLEAN :
          /\ Becomes(r, m, IF ok \/ call = "INIT_ACK_RECEIVED" THEN "waiting" ELSE "answered",
                           IF ok THEN "trying" ELSE "none")
          /\ IF m = "BYE" /\ (ok \/ call = "INIT_ACK_RECEIVED")
             THEN call' = "BYE" /\ timers' = {}
             ELSE UNCHANGED <<call, timers>>
          /\ IF call = "INIT_200_RECEIVED" /\ (m = "BYE" \/ ~ok)
             THEN UNCHANGED PairVars
             ELSE AddPair(r)
    /\ UNCHANGED <<hash, wild>>

\* The final response to r, which goes to the other transaction of its pair if
\* that is listed.  A BYE that succeeds ends the call; its pair is not removed.
Answer(r, class) ==
    /\ dialog[r].uac = "trying" /\ dialog[r].method # "ACK"
    /\ dialog' = [dialog EXCEPT ![r].uac = "answered",
                     ![r].uas = IF Found /\ call # "INIT_ERROR" /\ r \in more
                                THEN "answered" ELSE @]
    /\ \/ Missed
       \/ /\ Found /\ call = "BYE" /\ dialog[r].method = "BYE" /\ class = "2xx"
          /\ FreeCall({})
       \/ /\ Found /\ ~(call = "BYE" /\ dialog[r].method = "BYE" /\ class = "2xx")
          /\ more' = IF call \in {"INIT_ERROR", "BYE"} THEN more ELSE more \ {r}
          /\ UNCHANGED <<call, hash, timers, pair, num, wild>>
    /\ UNCHANGED InviteVars

\* The client transaction of r fails (timer F, no connection).
RequestFails(r) ==
    /\ dialog[r].uac = "trying"
    /\ dialog' = [dialog EXCEPT ![r].uac = "failed"]
    /\ Reported
    /\ UNCHANGED <<call, hash, timers, PairVars, InviteVars>>

-----------------------------------------------------------------------------
\* The end of an INVITE transaction the TU forces: done, dropped, or too late.
Forced(trans) == IF trans \in {"none", "gone"} THEN {trans} ELSE {trans, "gone"}

\* Fault of TimerC: the call is kept.
TimerCKeepsCall ==
    /\ "C" \in timers
    /\ uas' \in Forced(uas) /\ uac' \in Forced(uac)
    /\ UNCHANGED <<call, hash, timers, PairVars, heard, rings, unheeded, dialog, wild>>

\* callProxy_onTimeout: both transactions are to go, then the call.
TimerC ==
    /\ "C" \in timers
    /\ uas' \in Forced(uas) /\ uac' \in Forced(uac)
    /\ FreeCall((IF uas = "gone" THEN {"uas"} ELSE {}) \cup (IF uac = "gone" THEN {"uac"} ELSE {}))
    /\ UNCHANGED <<heard, rings, unheeded, dialog>>

TimerWaitAck ==
    /\ "WaitAck" \in timers
    /\ FreeCall({})
    /\ UNCHANGED <<InviteVars, dialog>>

Next ==
    \/ Reject \/ Accept
    \/ \E class \in {"1xx"} \cup Final : Response(class)
    \/ UacEnds \/ UasEnds
    \/ AckFailure \/ AckSuccess \/ AckMissed
    \/ \E r \in Reqs :
          \/ AckAgain(r) \/ RequestFails(r)
          \/ \E m \in Methods \ {"ACK"} :
                RequestMissed(r, m) \/ RequestNotForwarded(r, m) \/ RequestForwarded(r, m)
          \/ \E class \in Final : Answer(r, class)
    \/ TimerC \/ TimerWaitAck

\* A started timer expires; caller, callee and transactions owe nothing.
Spec == Init /\ [][Next]_vars /\ WF_vars(TimerC) /\ WF_vars(TimerWaitAck)

-----------------------------------------------------------------------------
\* Every variable keeps its type.  The list never has more than one pair: this
\* is as addTrPair has it.
TypeOK ==
    /\ call \in {"ABSENT", "FREED"} \cup Setup \cup Answered
    /\ hash \in Elements
    /\ timers \subseteq {"C", "WaitAck"}
    /\ pair \in {"none", "uasOnly", "both"} /\ more \subseteq Reqs /\ num \in 0..1
    /\ uas \in {"none", "proceeding", "completed", "confirmed", "gone"}
    /\ uac \in {"none", "calling", "proceeding", "completed", "gone"}
    /\ heard \in {"none", "1xx"} \cup Final
    /\ rings \in 0..MaxRings
    /\ dialog \in [Reqs -> Request]
    /\ unheeded \subseteq {"uas", "uac"}
    /\ wild \subseteq {"uas", "uac", "uasByAck", "element", "proxyInfo", "ackTransaction"}

\* Exactly the states of a call's setup are bounded by a timer, no timer outlives
\* the call its data points to, and timer C, whose handler uses the pair of the
\* INVITE without a look, never expires without one.
TimersOfState ==
    /\ timers = CASE call = "INIT_INVITE" -> {"C"}
                  [] call \in {"INIT_ERROR", "INIT_200_RECEIVED"} -> {"WaitAck"}
                  [] OTHER -> {}
    /\ "C" \in timers => pair = "both"

\* The proxy's view of the call and the caller's agree: an answered call is one
\* whose caller was given the answer, a failed one was given the failure, and one
\* that is being set up was given neither.  The exception is a server transaction
\* that failed and whose report the proxy ignored.
CallerHearsCallee ==
    "uas" \notin unheeded =>
        /\ call = "INIT_INVITE" => heard \notin Final
        /\ call \in Answered => heard = "2xx"
        /\ call = "INIT_ERROR" => heard = "failure"

\* No INVITE transaction is used after it was freed, by a response or by timer C,
\* unless the proxy failed to act on what it was told of that transaction's end.
OnlyUnheeded ==
    /\ "uas" \in wild => "uas" \in unheeded
    /\ "uac" \in wild => "uac" \in unheeded

\* The hash never leads to a call that was freed, and it has every call that was
\* forwarded, as long as it lasts.
HashOwnsCall ==
    /\ hash \in Own => call \notin {"ABSENT", "FREED"}
    /\ call \in Answered \cup {"INIT_INVITE"} => hash \in Own

\* No call stays in setup: not when caller or callee fall silent, a transaction
\* fails unheard, or the call is rejected.
SetupEnds == call \in Setup ~> call \notin Setup
=============================================================================
