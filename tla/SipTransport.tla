--------------------------- MODULE SipTransport ---------------------------
(***************************************************************************)
(* What a transaction sees of the transport layer: the answers that        *)
(* sipTransport_send can give and the tpInfo it leaves in the transaction. *)
(*                                                                         *)
(* A transaction's tpInfo is abstracted to its type and to whether tcpFd   *)
(* holds a descriptor.  Which protocol a fresh send uses depends only on   *)
(* the configuration of the peer and on the size of the message            *)
(* (sipConfig_getTransport, MTU test).  TRANSPORT_STATUS_TCP_FAIL and      *)
(* RMT_NOT_ACCESSIBLE are handled by the callers but never returned here:  *)
(* the former needs a quarantined peer and nothing ever quarantines one.   *)
(***************************************************************************)

TpTypes  == {"ANY", "UDP", "TCP"}
TpInfos  == [type : TpTypes, onFd : BOOLEAN]
Statuses == {"UDP", "TCP_OK", "TCP_CONN", "FAIL"}

\* What sipConfig_getTransport can answer for a peer.
Configs == {"UDP", "TCP", "ANY"}

NoFdTp(type)  == [type |-> type, onFd |-> FALSE]
OnFdTp        == [type |-> "TCP", onFd |-> TRUE]

\* The choice sipTransport_send makes for a message of that size to a peer.
ChoosesTcp(config, big) == config = "TCP" \/ (config = "ANY" /\ big)

(***************************************************************************)
(* sipTransport_send: a descriptor is used when there is one and the type  *)
(* or the configuration says TCP; a datagram clears the descriptor; a TCP  *)
(* send without descriptor finds a connection or starts one (TCP_CONN), in *)
(* which case the connection manager keeps the transaction's address.  The *)
(* TCP send never stores the connection's descriptor in tpInfo.            *)
(***************************************************************************)
SendOutcomes(tp, useTcp) ==
    IF tp.onFd /\ (tp.type = "TCP" \/ useTcp)
    THEN [status : {"TCP_OK", "FAIL"}, tp : {OnFdTp}]
    ELSE IF useTcp
         THEN [status : {"TCP_OK", "TCP_CONN", "FAIL"}, tp : {NoFdTp("TCP")}]
         ELSE [status : {"UDP", "FAIL"}, tp : {NoFdTp("UDP")}]

Failed(o) == o.status = "FAIL"
===========================================================================
