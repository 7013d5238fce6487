--------------------------- MODULE InviteServer ---------------------------
(***************************************************************************)
(* One INVITE server transaction: sipTransInviteServer.c, from its         *)
(* creation in sipTrans_onPeerMsg to its release.                          *)
(*                                                                         *)
(* An action is one call of sipTransInviteServer_onMsg that is not         *)
(* dropped, and an action that sends takes the answer o of                 *)
(* sipTransport_send as its parameter.  The TU may respond at any time and *)
(* as often as it likes: the handlers of the states decide what counts.    *)
(***************************************************************************)
EXTENDS SipTransport, SipTimer, Sequences, FiniteSets

VARIABLES
    state,          \* pTrans->state; "TERMINATED": the transaction is freed
    tpInfo,         \* pTrans->tpInfo
    timers,         \* the timers of sipTransISTimer with an id other than 0
    timerAEGValue,  \* pTrans->timerAEGValue
    clock,          \* when timer G was last started, counted from the start of H
    resp,           \* pTrans->resp, the response to (re)send
    sent,           \* the responses that were handed to the network
    conn,           \* the connection a response asked for, as far as reported
    toTU,           \* what the TU has been told, in order
    frees,          \* how often the handlers have called osfree(pTrans)
    config,         \* sipConfig_getTransport for the peer
    viaFd           \* the request came over TCP

vars == <<state, tpInfo, timers, timerAEGValue, clock, resp, sent, conn, toTU,
          frees, config, viaFd>>

Classes       == {"provisional", "success", "failure"}
Responses     == [class : Classes, big : BOOLEAN]
Transmissions == [class : Classes, onFd : BOOLEAN]

\* sipTransIS_build100Trying
Trying == [class |-> "provisional", big |-> FALSE]

\* The transaction sipTrans_onPeerMsg creates for an INVITE without one.
Init == /\ state = "NONE"
        /\ viaFd \in BOOLEAN
        /\ tpInfo = IF viaFd THEN OnFdTp ELSE NoFdTp("ANY")
        /\ timers = {}
        /\ timerAEGValue = 0
        /\ clock = 0
        /\ resp = Trying
        /\ sent = {}
        /\ conn = "none"
        /\ toTU = <<>>
        /\ frees = 0
        /\ config \in Configs

-----------------------------------------------------------------------------
\* The answers to sending response r now.
Answers(r) == SendOutcomes(tpInfo, ChoosesTcp(config, r.big))

Left(o) == o.status \in {"UDP", "TCP_OK"}

\* What a send of r with answer o adds to the network and to the connections;
\* the handlers set tpType to the protocol that was used.
Put(r, o) ==
    /\ tpInfo' = o.tp
    /\ sent' = IF Left(o) THEN sent \cup {[class |-> r.class, onFd |-> o.tp.onFd]} ELSE sent
    /\ conn' = IF o.status = "TCP_CONN" THEN "wait" ELSE conn

(***************************************************************************)
(* sipTransISEnterState(TERMINATED) with the timers ts running: stops each *)
(* of them, hands the transaction to osfree for each, and deletes its hash *)
(* node (what the library does with the transaction then is not counted).  *)
(* It tells the TU nothing.                                                *)
(***************************************************************************)
EnterTerminated(ts) ==
    /\ state' = "TERMINATED"
    /\ timers' = {}
    /\ frees' = frees + Cardinality(ts)

\* Faults of EnterCompleted: a state that still takes responses; timer G
\* whatever the protocol.
EnterCompletedStays(o) ==
    /\ state' = "PROCEEDING" /\ timers' = timers
    /\ UNCHANGED <<frees, timerAEGValue, clock>>

EnterCompletedAlwaysG(o) ==
    /\ state' = "COMPLETED" /\ timers' = timers \cup {"G", "H"}
    /\ timerAEGValue' = T1 /\ clock' = 0
    /\ UNCHANGED frees

\* sipTransISEnterState(COMPLETED) after a send with answer o.
EnterCompleted(o) ==
    \E withH \in Started(timers, "H") :
        IF "H" \notin withH
        THEN EnterTerminated(withH) /\ UNCHANGED <<timerAEGValue, clock>>
        ELSE IF o.tp.type = "UDP"
        THEN /\ timerAEGValue' = T1 /\ clock' = 0
             /\ \E withG \in Started(withH, "G") :
                   IF "G" \notin withG
                   THEN EnterTerminated(withG)
                   ELSE state' = "COMPLETED" /\ timers' = withG /\ UNCHANGED frees
        ELSE /\ state' = "COMPLETED" /\ timers' = withH
             /\ UNCHANGED <<frees, timerAEGValue, clock>>

-----------------------------------------------------------------------------
(***************************************************************************)
(* The INVITE in SIP_TRANS_STATE_NONE, the first one or, while 100 Trying  *)
(* waits for a connection, a repeated one.  The TU is told once 100 Trying *)
(* is out, and not before.                                                 *)
(***************************************************************************)
PeerInvite(o) ==
    /\ state = "NONE"
    /\ Put(resp, o)
    /\ \/ /\ Left(o)
          /\ state' = "PROCEEDING"
          /\ toTU' = Append(toTU, "request")
          /\ UNCHANGED <<timers, frees>>
       \/ /\ Failed(o)
          /\ EnterTerminated(timers)
          /\ UNCHANGED toTU
       \/ /\ o.status = "TCP_CONN"
          /\ UNCHANGED <<state, timers, toTU, frees>>
    /\ UNCHANGED <<timerAEGValue, clock, resp, config, viaFd>>

\* The INVITE again: the last response again.  (PROCEEDING takes an ACK for a
\* repeated INVITE.)
PeerAgain(o) ==
    /\ state \in {"PROCEEDING", "COMPLETED"}
    /\ Put(resp, o)
    /\ IF Failed(o)
       THEN /\ toTU' = IF state = "PROCEEDING" THEN Append(toTU, "error") ELSE toTU
            /\ EnterTerminated(timers)
       ELSE UNCHANGED <<state, timers, toTU, frees>>
    /\ UNCHANGED <<timerAEGValue, clock, resp, config, viaFd>>

\* The TU's response, in PROCEEDING only.  One that has to wait for a
\* connection leaves the state as it is.
TUResponse(r, o) ==
    /\ state = "PROCEEDING"
    /\ resp' = r
    /\ Put(r, o)
    /\ toTU' = IF Failed(o) THEN Append(toTU, "error") ELSE toTU
    /\ \/ /\ Failed(o) \/ (Left(o) /\ r.class = "success")
          /\ EnterTerminated(timers)
          /\ UNCHANGED <<timerAEGValue, clock>>
       \/ /\ Left(o) /\ r.class = "failure"
          /\ EnterCompleted(o)
       \/ /\ o.status = "TCP_CONN" \/ (Left(o) /\ r.class = "provisional")
          /\ UNCHANGED <<state, timers, frees, timerAEGValue, clock>>
    /\ UNCHANGED <<config, viaFd>>

\* The ACK for a failure, which reaches the transaction by way of the TU.
\* Starting I is not checked.
PeerAck ==
    /\ state = "COMPLETED"
    /\ IF tpInfo.type = "UDP"
       THEN /\ state' = "CONFIRMED"
            /\ timers' \in Started(timers \ {"G", "H"}, "I")
            /\ UNCHANGED frees
       ELSE EnterTerminated(timers \ {"G", "H"})
    /\ UNCHANGED <<tpInfo, timerAEGValue, clock, resp, sent, conn, toTU, config, viaFd>>

-----------------------------------------------------------------------------
\* Timer G: the response again.  A failure ends the transaction silently.
TimerG(o) ==
    /\ state = "COMPLETED" /\ "G" \in timers
    /\ clock + timerAEGValue <= Timer64
    /\ Put(resp, o)
    /\ IF Failed(o)
       THEN EnterTerminated(timers \ {"G"}) /\ UNCHANGED <<timerAEGValue, clock>>
       ELSE /\ timerAEGValue' = MinInt(2 * timerAEGValue, T2)
            /\ clock' = clock + timerAEGValue
            /\ timers' \in Started(timers \ {"G"}, "G")
            /\ UNCHANGED <<state, frees>>
    /\ UNCHANGED <<resp, toTU, config, viaFd>>

\* Timer H: no ACK in time.
TimerH ==
    /\ state = "COMPLETED" /\ "H" \in timers
    /\ "G" \in timers => clock + timerAEGValue >= Timer64
    /\ toTU' = Append(toTU, "error")
    /\ EnterTerminated(timers \ {"G", "H"})
    /\ UNCHANGED <<tpInfo, timerAEGValue, clock, resp, sent, conn, config, viaFd>>

\* Timer I: the handler frees the transaction and then enters TERMINATED (with
\* memory that is no longer its own, taken to be as it was).
TimerI ==
    /\ state = "CONFIRMED" /\ "I" \in timers
    /\ state' = "TERMINATED"
    /\ timers' = timers \ {"I"}
    /\ frees' = frees + 1
    /\ UNCHANGED <<tpInfo, timerAEGValue, clock, resp, sent, conn, toTU, config, viaFd>>

-----------------------------------------------------------------------------
(***************************************************************************)
(* The connection manager reports that the connection is there or is not.  *)
(* sipTransInviteServer_onMsg does not look for pTransId in a transport    *)
(* status message: it takes the message for a transaction, reads the       *)
(* descriptor for a state and drops the report.                            *)
(***************************************************************************)
TxReport ==
    /\ conn = "wait" /\ state # "TERMINATED"
    /\ conn' \in {"ready", "failed"}
    /\ UNCHANGED <<state, tpInfo, timers, timerAEGValue, clock, resp, sent, toTU,
                   frees, config, viaFd>>

(***************************************************************************)
(* The TU terminates the transaction (timer C).  As in the client, the     *)
(* state is read from the TU's message, which left it uninitialized; only  *)
(* PROCEEDING's handler knows what to do.  When nothing happens the step   *)
(* stutters.                                                               *)
(***************************************************************************)
ForceTerm ==
    /\ state \in {"PROCEEDING", "COMPLETED", "CONFIRMED"}
    /\ EnterTerminated(timers)
    /\ UNCHANGED <<tpInfo, timerAEGValue, clock, resp, sent, conn, toTU, config, viaFd>>

-----------------------------------------------------------------------------
Expiry == \/ \E o \in Answers(resp) : TimerG(o)
          \/ TimerH
          \/ TimerI

\* What each state's handler makes of the messages it does not ignore.

StateProceeding_onMsg ==
    /\ state = "PROCEEDING"
    /\ \/ \E o \in Answers(resp) : PeerAgain(o)
       \/ \E r \in Responses : \E o \in Answers(r) : TUResponse(r, o)

StateCompleted_onMsg ==
    /\ state = "COMPLETED"
    /\ \/ \E o \in Answers(resp) : PeerAgain(o) \/ TimerG(o)
       \/ TimerH
       \/ PeerAck

StateConfirmed_onMsg == state = "CONFIRMED" /\ TimerI

Next == \/ \E o \in Answers(resp) : PeerInvite(o)
        \/ StateProceeding_onMsg \/ StateCompleted_onMsg \/ StateConfirmed_onMsg
        \/ TxReport
        \/ ForceTerm

\* A started timer expires; the peer, the connection and the TU owe nothing.
Spec == Init /\ [][Next]_vars /\ WF_vars(Expiry)

-----------------------------------------------------------------------------
\* Every variable keeps its type.
TypeOK ==
    /\ state \in {"NONE", "PROCEEDING", "COMPLETED", "CONFIRMED", "TERMINATED"}
    /\ tpInfo \in TpInfos
    /\ timers \subseteq {"G", "H", "I"}
    /\ timerAEGValue \in Nat
    /\ clock \in Nat
    /\ resp \in Responses
    /\ sent \subseteq Transmissions
    /\ conn \in {"none", "wait", "ready", "failed"}
    /\ toTU \in Seq({"request", "error"})
    /\ frees \in Nat
    /\ config \in Configs
    /\ viaFd \in BOOLEAN

\* The TU gets the INVITE once however often the peer repeats it, and an error
\* at most once, as the last thing, when the transaction goes.
RequestOnce ==
    /\ state = "NONE" => toTU = <<>>
    /\ state \in {"PROCEEDING", "COMPLETED", "CONFIRMED"} => toTU = <<"request">>
    /\ state = "TERMINATED" => toTU \in {<<>>, <<"request">>, <<"request", "error">>}

\* A timer runs only in a state whose handler knows it, none outlives the
\* transaction, and the wait for the ACK has an end even when timers cannot
\* start.
TimersOfState ==
    /\ timers \subseteq CASE state = "COMPLETED" -> {"G", "H"}
                          [] state = "CONFIRMED" -> {"I"}
                          [] OTHER               -> {}
    /\ state = "COMPLETED" => "H" \in timers

FinalSent == \E t \in sent : t.class # "provisional"

\* Once a final response is out, no later response of the TU replaces it (as
\* long as no response had to wait for a connection).
AnswerStable == [][FinalSent /\ conn' = "none" => UNCHANGED resp]_vars

\* A response goes over the connection its INVITE came by, as transportIntf.h
\* says.  (The non-INVITE server transaction does not do so.)
OnRequestFd == viaFd => \A t \in sent : t.onFd

\* Over UDP a failure is repeated until it is acknowledged, the intervals
\* doubling from T1 up to T2; over TCP it is sent once.
Repeats ==
    state = "COMPLETED" =>
        IF tpInfo.type = "UDP"
        THEN /\ ~TimersMayFail => "G" \in timers
             /\ T1 <= T2 => timerAEGValue = MinInt(clock + T1, T2)
        ELSE "G" \notin timers

\* The wait for the ACK ends, even when timers cannot start; a transaction that
\* absorbs repeated ACKs is released if timer I did start.
Released ==
    /\ state = "COMPLETED" ~> state # "COMPLETED"
    /\ state = "CONFIRMED" /\ "I" \in timers ~> state = "TERMINATED"

\* However often the handlers free the transaction (once for each timer that
\* terminating it stops, and once more from timer I), none of those that come
\* before its end does.
FreedAtEnd == frees > 0 => state = "TERMINATED"
=============================================================================
