------------------------- MODULE NonInviteExchange -------------------------
(***************************************************************************)
(* A non-INVITE request over UDP between two nodes that run this stack: a  *)
(* client transaction, a server transaction and a network that loses,      *)
(* repeats and reorders datagrams and delivers none later than MaxDelay.   *)
(*                                                                         *)
(* The transactions are the modules NonInviteClient and NonInviteServer;   *)
(* this module adds time, so that the timers of both nodes expire when     *)
(* they are due, and what sipTrans_onPeerMsg does when it finds no         *)
(* transaction: a request starts a new one, a response is dropped.  Local  *)
(* sends succeed and timers start.                                         *)
(***************************************************************************)
EXTENDS SipTransport, SipTimer, Sequences

CONSTANTS T4,        \* SIP_TIMER_T4, the value of timer K
          MaxDelay,  \* the longest a datagram is under way
          Horizon    \* bound: when the clock stops

\* A datagram travels for less than T1 (see AbsorbsRepeats).  T2 is an even multiple
\* of T1, eight times T1 by default (sipConfig.h), so that the request is repeated
\* at odd multiples of T1 and never together with the end of timer F.
ASSUME ExchangeAssumption ==
    /\ T4 \in Nat /\ MaxDelay \in Nat /\ Horizon \in Nat
    /\ MaxDelay < T1
    /\ \E k \in 0..T2 : T2 = 2 * (k * T1)

VARIABLES
    now,       \* time since the request was first sent
    net,       \* datagrams under way, each with the time of its loss
    kAt, jAt,  \* when the timers K and J that run are due
    executions,
    cState, cTpInfo, cTimers, cAEGValue, cClock, cTold, cPending, cUseTcp,
    sState, sTpInfo, sTimers, sResp, sSent, sConn, sToTU, sConfig, sViaFd

clientVars == <<cState, cTpInfo, cTimers, cAEGValue, cClock, cTold, cPending, cUseTcp>>
serverVars == <<sState, sTpInfo, sTimers, sResp, sSent, sConn, sToTU, sConfig, sViaFd>>
exchangeVars == <<now, net, kAt, jAt, executions, clientVars, serverVars>>

Client == INSTANCE NonInviteClient WITH
    state <- cState, tpInfo <- cTpInfo, timers <- cTimers,
    timerAEGValue <- cAEGValue, clock <- cClock, told <- cTold,
    pending <- cPending, useTcp <- cUseTcp

Server == INSTANCE NonInviteServer WITH
    state <- sState, tpInfo <- sTpInfo, timers <- sTimers, resp <- sResp,
    sent <- sSent, toTU <- sToTU, conn <- sConn, config <- sConfig, viaFd <- sViaFd

\* The transport's answer to every send here.
ByUdp == [status |-> "UDP", tp |-> NoFdTp("UDP")]

ExchangeInit ==
    /\ now = 0
    /\ net = {}
    /\ kAt = 0 /\ jAt = 0
    /\ executions = 0
    /\ Client!Init /\ cUseTcp = FALSE
    /\ Server!Init /\ sConfig = "UDP" /\ sViaFd = FALSE

-----------------------------------------------------------------------------
Datagram(m) == [msg |-> m, until |-> now + MaxDelay]

\* A datagram arrives any number of times before it is lost.
InFlight(m) == \E d \in net : d.msg = m

ResponseOf(r) == IF r.final THEN "final" ELSE "provisional"

-----------------------------------------------------------------------------
\* The client node.

SendRequest ==
    /\ now = 0
    /\ Client!TURequest(ByUdp)
    /\ net' = {Datagram("request")}
    /\ UNCHANGED <<now, kAt, jAt, executions, serverVars>>

RepeatRequest ==
    /\ now = cClock + cAEGValue
    /\ Client!TimerE(ByUdp)
    /\ net' = net \cup {Datagram("request")}
    /\ UNCHANGED <<now, kAt, jAt, executions, serverVars>>

ClientTimeout ==
    /\ \/ now = Timer64 /\ Client!TimerF
       \/ now = kAt /\ Client!TimerK
    /\ UNCHANGED <<now, net, kAt, jAt, executions, serverVars>>

\* Responses that find no transaction, or find it in COMPLETED, are dropped.
ReceiveResponse ==
    /\ \/ InFlight("provisional") /\ Client!PeerProvisional /\ UNCHANGED kAt
       \/ InFlight("final") /\ Client!PeerFinal /\ kAt' = now + T4
    /\ UNCHANGED <<now, net, jAt, executions, serverVars>>

-----------------------------------------------------------------------------
\* The server node.

\* Without a transaction in the hash: a new one, and the TU gets the request.
ReceiveRequest ==
    /\ InFlight("request")
    /\ Server!PeerRequest
    /\ executions' = executions + 1
    /\ UNCHANGED <<now, net, kAt, jAt, clientVars>>

\* The transaction is found: it answers again.
ReceiveRequestAgain ==
    /\ InFlight("request")
    /\ Server!PeerAgain(ByUdp)
    /\ net' = net \cup {Datagram(ResponseOf(sResp))}
    /\ UNCHANGED <<now, kAt, jAt, executions, clientVars>>

\* Fault of Respond: J runs as short as K.
RespondShortJ ==
    /\ \E r \in {[final |-> f, big |-> FALSE] : f \in BOOLEAN} :
          /\ sState = "PROCEEDING" => r.final
          /\ Server!TUResponse(r, ByUdp)
          /\ net' = net \cup {Datagram(ResponseOf(r))}
          /\ jAt' = now + T4
    /\ UNCHANGED <<now, kAt, executions, clientVars>>

\* The TU responds, whenever it likes.
Respond ==
    /\ \E r \in {[final |-> f, big |-> FALSE] : f \in BOOLEAN} :
          /\ sState = "PROCEEDING" => r.final
          /\ Server!TUResponse(r, ByUdp)
          /\ net' = net \cup {Datagram(ResponseOf(r))}
          /\ jAt' = now + Timer64
    /\ UNCHANGED <<now, kAt, executions, clientVars>>

ServerTimeout ==
    /\ now = jAt
    /\ Server!TimerJ
    /\ UNCHANGED <<now, net, kAt, jAt, executions, clientVars>>

\* The hash entry of a terminated transaction is gone.
Forget ==
    /\ sState = "TERMINATED"
    /\ sState' = "NONE" /\ sTpInfo' = NoFdTp("ANY") /\ sTimers' = {}
    /\ sResp' = Server!NoResponse /\ sSent' = {} /\ sToTU' = <<>>
    /\ UNCHANGED <<sConn, sConfig, sViaFd>>
    /\ UNCHANGED <<now, net, kAt, jAt, executions, clientVars>>

-----------------------------------------------------------------------------
\* Time passes when no timer is due; datagrams that were not delivered by the
\* end of their time are lost.
Due == \/ cState = "NONE" \/ sState = "TERMINATED"
       \/ "E" \in cTimers /\ now = cClock + cAEGValue
       \/ "F" \in cTimers /\ now = Timer64
       \/ "K" \in cTimers /\ now = kAt
       \/ "J" \in sTimers /\ now = jAt

Tick ==
    /\ ~Due /\ now < Horizon
    /\ now' = now + 1
    /\ net' = {d \in net : d.until > now}
    /\ UNCHANGED <<kAt, jAt, executions, clientVars, serverVars>>

ExchangeNext ==
    \/ SendRequest \/ RepeatRequest \/ ClientTimeout \/ ReceiveResponse
    \/ ReceiveRequest \/ ReceiveRequestAgain \/ Respond \/ ServerTimeout \/ Forget
    \/ Tick

ExchangeSpec == ExchangeInit /\ [][ExchangeNext]_exchangeVars

-----------------------------------------------------------------------------
\* The request is executed at most once, and a result other than an error
\* implies that it was, as long as no datagram is under way for T1: timer J
\* outlives the last repeat of the request, which leaves one T1 before F.
Promise == INSTANCE AtMostOnce WITH result <- IF cTold = <<>> THEN "none" ELSE cTold[1]
ExecutesAtMostOnce == Promise!Spec

\* The server transaction that absorbs repeats is still there when the client
\* repeats its request for the last time.
AbsorbsRepeats ==
    InFlight("request") /\ executions > 0 => sState # "NONE"
=============================================================================
