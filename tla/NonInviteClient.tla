-------------------------- MODULE NonInviteClient --------------------------
(***************************************************************************)
(* One non-INVITE client transaction: sipTransNoInviteClient.c.            *)
(*                                                                         *)
(* An action is one call of sipTransNoInviteClient_onMsg that is not       *)
(* dropped.  A message that a state drops (a response in COMPLETED, say)   *)
(* is a stuttering step.  An action that sends takes the answer o of       *)
(* sipTransport_send as its parameter.                                     *)
(***************************************************************************)
EXTENDS SipTransport, SipTimer, Sequences

VARIABLES
    state,          \* pTrans->state; "TERMINATED": the transaction is freed
    tpInfo,         \* pTrans->tpInfo
    timers,         \* the timers of sipTransNICTimer with an id other than 0
    timerAEGValue,  \* pTrans->timerAEGValue
    clock,          \* when timer E was last started, counted from the start of F
    told,           \* the outcomes the TU has heard of, in order
    pending,        \* the connection manager holds this transaction's address
    useTcp          \* what the peer's configuration and the size choose

vars == <<state, tpInfo, timers, timerAEGValue, clock, told, pending, useTcp>>

Waiting == {"TRYING", "PROCEEDING"}

Init == /\ state = "NONE"
        /\ tpInfo = NoFdTp("ANY")
        /\ timers = {}
        /\ timerAEGValue = 0
        /\ clock = 0
        /\ told = <<>>
        /\ pending = FALSE
        /\ useTcp \in BOOLEAN

-----------------------------------------------------------------------------
(***************************************************************************)
(* sipTransNICEnterState(TERMINATED) from state from with the timers ts,   *)
(* when the TU has heard td.                                               *)
(***************************************************************************)
EnterTerminated(from, msgType, ts, td) ==
    /\ state'  = "TERMINATED"
    /\ timers' = IF from \in Waiting THEN ts \ {"E", "F", "K"} ELSE ts \ {"K"}
    /\ told'   = IF from \in Waiting \/ msgType = "TX_FAILED"
                 THEN Append(td, "error") ELSE td

\* sipTransNICEnterState(COMPLETED), when the TU has heard td.
EnterCompleted(td) ==
    LET ts == timers \ {"E", "F"}
    IN  IF tpInfo.type # "TCP"
        THEN /\ state' = "COMPLETED"
             /\ timers' \in Started(ts, "K")
             /\ told' = td
        ELSE EnterTerminated("COMPLETED", "TIMEOUT", ts, td)

-----------------------------------------------------------------------------
\* sipTransNICEnterState(TRYING) when the request was sent with answer o.
EnterTrying(o) ==
    \/ /\ Failed(o)
       /\ EnterTerminated("TRYING", "INTERNAL_ERROR", timers, told)
       /\ UNCHANGED timerAEGValue
    \/ /\ ~Failed(o)
       /\ \E withF \in Started(timers, "F") :
             IF "F" \notin withF
             THEN /\ EnterTerminated("TRYING", "INTERNAL_ERROR", withF, told)
                  /\ UNCHANGED timerAEGValue
             ELSE IF o.status = "UDP"
             THEN /\ timerAEGValue' = T1
                  /\ \E withE \in Started(withF, "E") :
                        IF "E" \notin withE
                        THEN EnterTerminated("TRYING", "INTERNAL_ERROR", withE, told)
                        ELSE state' = "TRYING" /\ timers' = withE /\ told' = told
             ELSE /\ state' = "TRYING" /\ timers' = withF
                  /\ UNCHANGED <<told, timerAEGValue>>

\* The TU's request, in SIP_TRANS_STATE_NONE.
TURequest(o) ==
    /\ state = "NONE"
    /\ tpInfo' = o.tp
    /\ pending' = (o.status = "TCP_CONN")
    /\ EnterTrying(o)
    /\ UNCHANGED <<clock, useTcp>>

\* The interval the request is next repeated after.
NextInterval == IF state = "TRYING" THEN MinInt(2 * timerAEGValue, T2) ELSE T2

(***************************************************************************)
(* Timer E: the request is sent again.  It fires before F when it expires  *)
(* no later; nobody looks at the result of starting it again.              *)
(***************************************************************************)
TimerE(o) ==
    /\ state \in Waiting /\ "E" \in timers
    /\ clock + timerAEGValue <= Timer64
    /\ tpInfo' = o.tp
    /\ \/ /\ Failed(o)
          /\ EnterTerminated(state, "TX_FAILED", timers \ {"E"}, told)
          /\ UNCHANGED <<timerAEGValue, clock>>
       \/ /\ o.status = "UDP"
          /\ timerAEGValue' = NextInterval
          /\ clock' = clock + timerAEGValue
          /\ timers' \in Started(timers \ {"E"}, "E")
          /\ UNCHANGED <<state, told>>
    /\ UNCHANGED <<pending, useTcp>>

\* Timer F: no final response in time.
TimerF ==
    /\ state \in Waiting /\ "F" \in timers
    /\ "E" \in timers => clock + timerAEGValue >= Timer64
    /\ EnterTerminated(state, "TIMEOUT", timers \ {"E", "F"}, told)
    /\ UNCHANGED <<tpInfo, timerAEGValue, clock, pending, useTcp>>

\* Timer K: repeated responses have been absorbed for long enough.
TimerK ==
    /\ state = "COMPLETED" /\ "K" \in timers
    /\ EnterTerminated("COMPLETED", "TIMEOUT", timers \ {"K"}, told)
    /\ UNCHANGED <<tpInfo, timerAEGValue, clock, pending, useTcp>>

-----------------------------------------------------------------------------
\* The peer answers what has left this node: never while still connecting.

PeerProvisional ==
    /\ state = "TRYING" /\ ~pending
    /\ state' = "PROCEEDING"
    /\ UNCHANGED <<tpInfo, timers, timerAEGValue, clock, told, pending, useTcp>>

\* Fault of PeerFinal: the response is not passed to the TU.
PeerFinalUntold ==
    /\ state \in Waiting /\ ~pending
    /\ EnterCompleted(told)
    /\ UNCHANGED <<tpInfo, timerAEGValue, clock, pending, useTcp>>

PeerFinal ==
    /\ state \in Waiting /\ ~pending
    /\ EnterCompleted(Append(told, "final"))
    /\ UNCHANGED <<tpInfo, timerAEGValue, clock, pending, useTcp>>

-----------------------------------------------------------------------------
\* The connection manager calls back the transactions that waited for a
\* connection (sipTpNotifyTcpConnUser) and forgets them.

TxTcpReady(o) ==
    /\ state \in Waiting /\ pending
    /\ pending' = FALSE
    /\ tpInfo' = o.tp
    /\ IF Failed(o)
       THEN EnterTerminated(state, "TX_FAILED", timers, told)
       ELSE UNCHANGED <<state, timers, told>>
    /\ UNCHANGED <<timerAEGValue, clock, useTcp>>

TxFailed ==
    /\ state \in Waiting /\ pending
    /\ pending' = FALSE
    /\ EnterTerminated(state, "TX_FAILED", timers, told)
    /\ UNCHANGED <<tpInfo, timerAEGValue, clock, useTcp>>

-----------------------------------------------------------------------------
Expiry == \/ \E o \in SendOutcomes(tpInfo, useTcp) : TimerE(o)
          \/ TimerF
          \/ TimerK

\* What each state's handler makes of the messages it does not ignore.  PROCEEDING
\* knows the reports of a connection too, but nothing waits for one then.

StateTrying_onMsg ==
    /\ state = "TRYING"
    /\ \/ \E o \in SendOutcomes(tpInfo, useTcp) : TimerE(o)
       \/ TimerF
       \/ PeerProvisional \/ PeerFinal
       \/ TxFailed \/ \E o \in SendOutcomes(OnFdTp, useTcp) : TxTcpReady(o)

StateProceeding_onMsg ==
    /\ state = "PROCEEDING"
    /\ \/ \E o \in SendOutcomes(tpInfo, useTcp) : TimerE(o)
       \/ TimerF \/ PeerFinal

Next == \/ \E o \in SendOutcomes(tpInfo, useTcp) : TURequest(o)
        \/ StateTrying_onMsg \/ StateProceeding_onMsg
        \/ TimerK

\* A started timer expires; the peer and the connection owe nothing.
Spec == Init /\ [][Next]_vars /\ WF_vars(Expiry)

-----------------------------------------------------------------------------
\* Every variable keeps its type.
TypeOK ==
    /\ state \in {"NONE", "TRYING", "PROCEEDING", "COMPLETED", "TERMINATED"}
    /\ tpInfo \in TpInfos
    /\ timers \subseteq {"E", "F", "K"}
    /\ timerAEGValue \in Nat
    /\ clock \in Nat
    /\ told \in Seq({"final", "error"})
    /\ pending \in BOOLEAN
    /\ useTcp \in BOOLEAN

\* A timer runs only in a state whose handler knows it, and none outlives the
\* transaction: osStopTimer is called on every path that leaves the state.
TimersOfState ==
    timers \subseteq CASE state \in Waiting     -> {"E", "F"}
                       [] state = "COMPLETED"   -> {"K"}
                       [] OTHER                 -> {}

\* The TU hears of one outcome: of none while it waits, of a final response
\* in COMPLETED, and of exactly one of the two when the transaction is freed,
\* whichever of timers, responses and connection events came first.
OneOutcome ==
    /\ state \in Waiting \cup {"NONE"} => told = <<>>
    /\ state = "COMPLETED" => told = <<"final">>
    /\ state = "TERMINATED" => told \in {<<"final">>, <<"error">>}

\* The wait has an end even when the timer pool runs dry: timer F is checked
\* when it starts, and runs as long as the transaction waits.
WaitIsBounded == state \in Waiting => "F" \in timers

\* Over UDP the request keeps being repeated while the transaction waits, the
\* intervals doubling from T1 up to T2 (so that the k-th repeat of an unanswered
\* request leaves at a time the clock alone tells) and never longer than T2
\* once the peer is known to work; over TCP the request is sent once.
Retransmits ==
    /\ tpInfo.type = "TCP" => "E" \notin timers
    /\ state \in Waiting /\ tpInfo.type # "TCP" /\ ~TimersMayFail => "E" \in timers
    /\ T1 <= T2 /\ "E" \in timers =>
          IF state = "TRYING" THEN timerAEGValue = MinInt(clock + T1, T2)
                              ELSE timerAEGValue <= T2

\* The wait ends, even when timers cannot start; a transaction that absorbs
\* repeated responses is released if timer K did start.
Released ==
    /\ state \in Waiting ~> state \notin Waiting
    /\ state = "COMPLETED" /\ "K" \in timers ~> state = "TERMINATED"

\* What ClientPromise sees of it.
stage == CASE state = "NONE"       -> "idle"
           [] state = "TERMINATED" -> "closed"
           [] OTHER                -> "open"
outcome == IF told = <<>> THEN "none" ELSE told[1]
Promise == INSTANCE ClientPromise
=============================================================================
