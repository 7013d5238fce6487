-------------------------- MODULE NonInviteServer --------------------------
(***************************************************************************)
(* One non-INVITE server transaction: sipTransNoInviteServer.c, from its   *)
(* creation in sipTrans_onPeerMsg to its release.                          *)
(*                                                                         *)
(* An action is one call of sipTransNoInviteServer_onMsg that is not       *)
(* dropped, and an action that sends takes the answer o of                 *)
(* sipTransport_send as its parameter.  The TU may respond at any time and *)
(* as often as it likes: the handlers of the states decide what counts.    *)
(***************************************************************************)
EXTENDS SipTransport, SipTimer, Sequences

VARIABLES
    state,    \* pTrans->state; "TERMINATED": the transaction is freed
    tpInfo,   \* pTrans->tpInfo
    timers,   \* {"J"} when timerIdJ is not 0
    resp,     \* pTrans->resp, the response to (re)send
    sent,     \* the responses that were handed to the network
    conn,     \* the connection a response asked for, as far as reported
    toTU,     \* what the TU has been told, in order
    config,   \* sipConfig_getTransport for the peer
    viaFd     \* the request came over TCP

vars == <<state, tpInfo, timers, resp, sent, conn, toTU, config, viaFd>>

Responses     == [final : BOOLEAN, big : BOOLEAN]
NoResponse    == [final |-> FALSE, big |-> FALSE]
Transmissions == [final : BOOLEAN, onFd : BOOLEAN]

\* The transaction sipTrans_onPeerMsg creates for a request without one.
Init == /\ state = "NONE"
        /\ viaFd \in BOOLEAN
        /\ tpInfo = IF viaFd THEN OnFdTp ELSE NoFdTp("ANY")
        /\ timers = {}
        /\ resp = NoResponse
        /\ sent = {}
        /\ conn = "none"
        /\ toTU = <<>>
        /\ config \in Configs

-----------------------------------------------------------------------------
\* The answers to sending response r now.
Answers(r) == SendOutcomes(tpInfo, ChoosesTcp(config, r.big))

\* What a send of r with answer o adds to the network and to the connections.
Put(r, o) ==
    /\ sent' = IF o.status \in {"UDP", "TCP_OK"}
               THEN sent \cup {[final |-> r.final, onFd |-> o.tp.onFd]}
               ELSE sent
    /\ conn' = IF o.status = "TCP_CONN" THEN "wait" ELSE conn

\* sipTransNISEnterState(TERMINATED): an unfinished transaction tells the TU.
EnterTerminated(msgType) ==
    /\ state' = "TERMINATED"
    /\ timers' = timers \ {"J"}
    /\ toTU' = IF state \in {"TRYING", "PROCEEDING"} \/ msgType = "TX_FAILED"
               THEN Append(toTU, "error") ELSE toTU

\* sipTransNISEnterState(COMPLETED): tpType is always UDP by now, J always starts.
EnterCompleted ==
    /\ state' = "COMPLETED"
    /\ timers' \in Started(timers, "J")
    /\ UNCHANGED toTU

-----------------------------------------------------------------------------
\* The request, in SIP_TRANS_STATE_NONE: the TU is told.
PeerRequest ==
    /\ state = "NONE"
    /\ state' = "TRYING"
    /\ toTU' = Append(toTU, "request")
    /\ UNCHANGED <<tpInfo, timers, resp, sent, conn, config, viaFd>>

(***************************************************************************)
(* The TU's response in TRYING and PROCEEDING.  Whatever protocol carried  *)
(* it, tpType is UDP afterwards, the descriptor stays; a response that     *)
(* waits for a connection leaves the state as it is.                       *)
(***************************************************************************)
TUResponse(r, o) ==
    /\ state \in {"TRYING", "PROCEEDING"}
    /\ resp' = r
    /\ Put(r, o)
    /\ \/ /\ Failed(o)
          /\ tpInfo' = o.tp
          /\ EnterTerminated("TU")
       \/ /\ o.status = "TCP_CONN"
          /\ tpInfo' = o.tp
          /\ UNCHANGED <<state, timers, toTU>>
       \/ /\ o.status \in {"UDP", "TCP_OK"}
          /\ tpInfo' = [o.tp EXCEPT !.type = "UDP"]
          /\ IF r.final THEN EnterCompleted
                        ELSE state' = "PROCEEDING" /\ UNCHANGED <<timers, toTU>>
    /\ UNCHANGED <<config, viaFd>>

\* Fault of PeerAgain: the repeated request is passed to the TU.
PeerAgainTellsTU(o) ==
    /\ state \in {"PROCEEDING", "COMPLETED"}
    /\ tpInfo' = o.tp
    /\ Put(resp, o)
    /\ toTU' = Append(toTU, "request")
    /\ UNCHANGED <<state, timers, resp, config, viaFd>>

\* The request again: the last response is sent again.  TRYING has none yet.
PeerAgain(o) ==
    /\ state \in {"PROCEEDING", "COMPLETED"}
    /\ tpInfo' = o.tp
    /\ Put(resp, o)
    /\ IF Failed(o) THEN EnterTerminated("PEER")
                    ELSE UNCHANGED <<state, timers, toTU>>
    /\ UNCHANGED <<resp, config, viaFd>>

TimerJ ==
    /\ state = "COMPLETED" /\ "J" \in timers
    /\ state' = "TERMINATED"
    /\ timers' = timers \ {"J"}
    /\ UNCHANGED <<tpInfo, resp, sent, conn, toTU, config, viaFd>>

(***************************************************************************)
(* The connection manager reports that the connection is there or is not.  *)
(* sipTransNoInviteServer_onMsg does not look for pTransId in a transport  *)
(* status message: it takes the message for a transaction, reads the       *)
(* descriptor for a state and drops the report.                            *)
(***************************************************************************)
TxReport ==
    /\ conn = "wait" /\ state # "TERMINATED"
    /\ conn' \in {"ready", "failed"}
    /\ UNCHANGED <<state, tpInfo, timers, resp, sent, toTU, config, viaFd>>

-----------------------------------------------------------------------------
\* What each state's handler makes of the messages it does not ignore.

StateTrying_onMsg ==
    state = "TRYING" /\ \E r \in Responses : \E o \in Answers(r) : TUResponse(r, o)

StateProceeding_onMsg ==
    /\ state = "PROCEEDING"
    /\ \/ \E r \in Responses : \E o \in Answers(r) : TUResponse(r, o)
       \/ \E o \in Answers(resp) : PeerAgain(o)

StateCompleted_onMsg ==
    state = "COMPLETED" /\ (TimerJ \/ \E o \in Answers(resp) : PeerAgain(o))

Next == \/ PeerRequest
        \/ StateTrying_onMsg \/ StateProceeding_onMsg \/ StateCompleted_onMsg
        \/ TxReport

Spec == Init /\ [][Next]_vars /\ WF_vars(TimerJ)

-----------------------------------------------------------------------------
\* Every variable keeps its type.
TypeOK ==
    /\ state \in {"NONE", "TRYING", "PROCEEDING", "COMPLETED", "TERMINATED"}
    /\ tpInfo \in TpInfos
    /\ timers \subseteq {"J"}
    /\ resp \in Responses
    /\ sent \subseteq Transmissions
    /\ conn \in {"none", "wait", "ready", "failed"}
    /\ toTU \in Seq({"request", "error"})
    /\ config \in Configs
    /\ viaFd \in BOOLEAN

FinalSent == \E t \in sent : t.final

\* The TU gets the request once however often the peer repeats it, and a
\* transaction error at most once, as the last thing, when the transaction goes.
RequestOnce ==
    /\ state = "NONE" => toTU = <<>>
    /\ state \in {"TRYING", "PROCEEDING", "COMPLETED"} => toTU = <<"request">>
    /\ state = "TERMINATED" => toTU \in {<<"request">>, <<"request", "error">>}

\* The TU is told of an error only if no final response ever left, so that it
\* never undoes what the peer has been told was done (as long as no response
\* had to wait for a connection).
ErrorMeansUnanswered ==
    conn = "none" /\ FinalSent => toTU = <<"request">>

\* J runs in COMPLETED and nowhere else: none is left to fire on a freed
\* transaction.
TimersOfState == timers # {} => state = "COMPLETED"

\* Once a final response is out, a later response of the TU does not replace
\* it: a repeated request gets the same answer until J fires.
AnswerStable == [][FinalSent /\ conn' = "none" => UNCHANGED resp]_vars

\* A transaction that answered is released if timer J did start.
Released == state = "COMPLETED" /\ "J" \in timers ~> state = "TERMINATED"
=============================================================================
