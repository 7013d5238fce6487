----------------------------- MODULE MessagePath -----------------------------
(* A call's messages on their way: an initial INVITE through stand-alone proxies *)
(* (callProxy.c), or through the S-CSCF and an application server; the answer to *)
(* it; and one later request inside the dialog, in either direction.  Each node  *)
(* decides from the headers alone where a message goes, so what one of them      *)
(* writes is what the next one reads.  SipMessage says how they rewrite it.      *)
EXTENDS SipMessage, FiniteSets

CONSTANTS
    Caller, Callee,     \* the two ends
    Proxies, First,     \* stand-alone proxies, and the one the caller sends to
    Scscf, AppServer,   \* the S-CSCF, and an application server behind it
    Odi,                \* the S-CSCF's address with the name of a session in it
    NatBox, Nowhere,    \* addresses no node has
    NoUri,              \* a request line that cannot be read
    Builds,             \* how a proxy finds the target of an initial INVITE
    Limits              \* values of Max-Forwards that the caller starts with

Nodes == {Caller, Callee, Scscf, AppServer} \cup Proxies

ASSUME PathAssumption ==
    /\ First \in Proxies
    /\ LET n == <<Caller, Callee, Scscf, AppServer, Odi, NatBox, Nowhere, NoUri, None>>
       IN  \A i \in 1..9 : n[i] \notin Proxies /\ \A j \in 1..9 : i # j => n[i] # n[j]
    /\ Builds \subseteq {"registrar", "nextHop", "requestUri"}
    /\ Limits \subseteq 0..255

VARIABLES
    setup,      \* what stays as it is: addresses, targets, the caller's headers
    phase,      \* "idle", "request", "answer", "heard", "asks", "over" or "lost"
    kind,       \* "initial", "fromCaller" or "fromCallee"
    at,         \* the node that holds the message
    src,        \* the address that node received it from
    m,          \* the message: host of the request URI, Max-Forwards, header lines
    trail,      \* the nodes a request has passed, and its answer has to pass again
    recorded,   \* the proxies that wrote themselves into the initial INVITE
    routeSet,   \* the Record-Route values that reached the callee
    answered    \* whether the callee has answered
vars == <<setup, phase, kind, at, src, m, trail, recorded, routeSet, answered>>

\* The proxies that have a proxy for the call.
called == {recorded[i] : i \in DOMAIN recorded}

AddrOf(n) == [ip |-> n, port |-> 1]

\* Where the caller's requests come from: from itself, or through a NAT box that
\* keeps or changes the port.
Sources == {AddrOf(Caller), [ip |-> NatBox, port |-> 1], [ip |-> NatBox, port |-> 2]}

\* Who listens at an address, and where a Route value leads.
NodeAt(addr) ==
    IF addr = setup.source THEN Caller
    ELSE IF \E n \in Nodes \ {Caller} : AddrOf(n) = addr
         THEN CHOOSE n \in Nodes : AddrOf(n) = addr
         ELSE Nowhere
Hop(route) == IF route = Odi THEN Scscf ELSE NodeAt(AddrOf(route))
------------------------------------------------------------------------------
(* What the two ends and the application server write.                           *)

\* The caller's own Via, and an answer's way to it.
CallerVia ==
    IF setup.rport THEN ViaWithRport(AddrOf(Caller)) ELSE ViaOf(AddrOf(Caller))

RouteLines(routes) ==
    CASE routes = <<>>                 -> <<>>
      [] routes # <<>> /\ setup.folded -> <<Line(Route, routes)>>
      [] OTHER -> [i \in DOMAIN routes |-> Line(Route, <<routes[i]>>)]

\* The Routes stand in front of the other headers or behind them.
Request(via, routes) ==
    LET others == <<Line(CallId, <<None>>)>> IN
    <<Line(Via, <<via>>)>>
        \o (IF setup.routesLast THEN others \o RouteLines(routes)
                                ELSE RouteLines(routes) \o others)
        \o (IF setup.length THEN <<Line(Length, <<0>>)>> ELSE <<>>)

Answer(h) == LinesOf(h, Via) \o LinesOf(h, RecordRoute) \o LinesOf(h, CallId)

\* The application server takes its own Route off.
ServersRequest(h) ==
    <<Line(Via, <<ViaOf(AddrOf(AppServer))>>)>> \o LinesOf(h, Via)
        \o RouteLines(Tail(Values(h, Route)))
        \o FlattenSeq([i \in DOMAIN h |-> IF h[i].name \in {Via, Route} THEN <<>> ELSE <<h[i]>>])
------------------------------------------------------------------------------
Setups ==
    [through : {"proxies", "scscf"}, source : Sources, rport : BOOLEAN,
     length : BOOLEAN, folded : BOOLEAN, routesLast : BOOLEAN, limit : Limits,
     build : [Proxies -> Builds], target : [Proxies -> Proxies \cup {Callee, None}],
     routes : {<<>>, <<First>>} \cup {<<First, p>> : p \in Proxies \ {First}}]

Init ==
    /\ setup \in {s \in Setups :
            IF s.through = "proxies"
            THEN \A p \in Proxies : s.target[p] = None => s.build[p] = "registrar"
            ELSE \A p \in Proxies : s.target[p] = None /\ s.routes = <<>>}
    /\ phase = "idle" /\ kind = "initial" /\ at = Caller
    /\ src = AddrOf(Caller)
    /\ m = [uri |-> Callee, limit |-> 0, hdrs |-> <<>>]
    /\ trail = <<>> /\ recorded = <<>> /\ routeSet = <<>> /\ answered = FALSE

Unread == UNCHANGED <<setup, kind, recorded, routeSet, answered>>

\* A request leaves this node along a Route value or for a host.
PassTo(to, msg) ==
    /\ phase' = IF Hop(to) = Nowhere THEN "lost" ELSE "request"
    /\ at' = Hop(to)
    /\ src' = IF at = Caller THEN setup.source ELSE AddrOf(at)
    /\ m' = msg
    /\ trail' = Append(trail, at)

Dropped == phase' = "lost" /\ UNCHANGED <<at, src, m, trail>> /\ Unread

\* The caller starts the call: towards the S-CSCF with a Route of its own.
Send ==
    LET scscf == setup.through = "scscf" IN
    /\ phase = "idle"
    /\ PassTo(IF scscf THEN Scscf ELSE First,
              [uri |-> Callee, limit |-> setup.limit,
               hdrs |-> Request(CallerVia, IF scscf THEN <<Scscf>> ELSE setup.routes)])
    /\ Unread
------------------------------------------------------------------------------
(* A stand-alone proxy.                                                          *)

TopRoute == <<[name |-> Route, top |-> TRUE]>>

\* sipProxy_forwardReq ends the value in a line break, sipTU_copyHdrs the line:
\* an empty line follows.
OwnRecord == <<[name |-> RecordRoute, val |-> at, ends |-> TRUE]>>

\* The request this proxy sends on, with uri in its request line.
SentOn(uri) ==
    [uri |-> uri, limit |-> Decremented(m.limit),
     hdrs |-> Forwarded(m.hdrs, TopRoute, OwnRecord, AddrOf(at), src)]

Arrived == phase = "request" /\ at \in Proxies /\ Readable(m.hdrs)

\* callProxyStateNone_onMsg: with two Routes the next hop stays empty and is taken
\* all the same.
ProxyInitial ==
    LET target == setup.target[at] IN
    /\ Arrived /\ kind = "initial" /\ at \notin called
    /\ CASE IsMulti(m.hdrs, Route)          -> PassTo(Nowhere, SentOn(m.uri))
         [] ~IsMulti(m.hdrs, Route) /\ setup.build[at] = "registrar"
                                            -> target # None /\ PassTo(target, SentOn(target))
         [] ~IsMulti(m.hdrs, Route) /\ setup.build[at] = "nextHop"
                                            -> PassTo(target, SentOn(NoUri))
         [] OTHER                           -> PassTo(m.uri, SentOn(m.uri))
    /\ recorded' = Append(recorded, at)
    /\ UNCHANGED <<setup, kind, routeSet, answered>>

\* An answer of this proxy's own goes to the Via it received, not to the one it
\* has written the received address into.
NotFound ==
    /\ Arrived /\ kind = "initial" /\ at \notin called
    /\ ~IsMulti(m.hdrs, Route)
    /\ setup.build[at] = "registrar" /\ setup.target[at] = None
    /\ phase' = "answer"
    /\ at' = NodeAt(PeerOfTop(m.hdrs))
    /\ src' = AddrOf(at)
    /\ m' = [m EXCEPT !.hdrs = OwnAnswer(@, src)]
    /\ UNCHANGED trail /\ Unread

\* callProxyStateInitInvite_onMsg does nothing with an INVITE.
SeenBefore == Arrived /\ kind = "initial" /\ at \in called /\ Dropped

\* sipProxy_forwardReq without a next hop.
ProxyInDialog ==
    LET second == SecondValue(m.hdrs, Route) IN
    /\ Arrived /\ kind # "initial" /\ at \in called
    /\ PassTo(IF second # None THEN second ELSE m.uri, SentOn(m.uri))
    /\ Unread

\* A message that cannot be read ends here; the ends need its URI, too.
CannotRead ==
    /\ phase \in {"request", "answer"}
    /\ \/ ~Readable(m.hdrs)
       \/ phase = "request" /\ at = Callee /\ m.uri = NoUri
    /\ Dropped
------------------------------------------------------------------------------
(* The S-CSCF, once for the application server and once for the callee.          *)

\* scscf_buildReqModInfo: the route back to itself first, then the server's.
RouteBack  == [name |-> Route, val |-> Odi, ends |-> FALSE]
ServerNext == [name |-> Route, val |-> AppServer, ends |-> FALSE]

\* The two identities of the caller, in a request that is new to the S-CSCF.
Identities == <<[name |-> Identity, val |-> "sip", ends |-> FALSE],
                [name |-> Identity, val |-> "tel", ends |-> FALSE]>>

ScscfForwards(to, adds) ==
    /\ PassTo(to, [m EXCEPT !.limit = Decremented(@),
                            !.hdrs = Forwarded(@, TopRoute, adds, AddrOf(Scscf), src)])
    /\ Unread

AtScscf == phase = "request" /\ at = Scscf /\ Has(m.hdrs, Route)

ToAppServer == /\ AtScscf /\ Values(m.hdrs, Route)[1] # Odi
               /\ ScscfForwards(AppServer, <<RouteBack, ServerNext>> \o Identities)
ToUe        == /\ AtScscf /\ Values(m.hdrs, Route)[1] = Odi
               /\ ScscfForwards(Callee, <<>>)

ServerForwards ==
    LET routes == Values(m.hdrs, Route) IN
    /\ phase = "request" /\ at = AppServer /\ Len(routes) > 1
    /\ m.limit > 0
    /\ PassTo(routes[2], [m EXCEPT !.limit = @ - 1, !.hdrs = ServersRequest(@)])
    /\ Unread
------------------------------------------------------------------------------
(* The answer on its way back.                                                   *)

CalleeAnswers ==
    /\ phase = "request" /\ at = Callee /\ kind = "initial"
    /\ Readable(m.hdrs) /\ m.uri # NoUri
    /\ phase' = "answer"
    /\ at' = NodeAt(PeerOfTop(m.hdrs))
    /\ src' = AddrOf(Callee)
    /\ m' = [m EXCEPT !.hdrs = Answer(@)]
    /\ routeSet' = Values(m.hdrs, RecordRoute) /\ answered' = TRUE
    /\ UNCHANGED <<setup, kind, trail, recorded>>

\* sipProxy_forwardResp; the server does what a proxy should.
ForwardsAnswer ==
    /\ phase = "answer" /\ at \in Proxies \cup {Scscf, AppServer}
    /\ Readable(m.hdrs)
    /\ at' = NodeAt(PeerOfSecond(m.hdrs))
    /\ src' = AddrOf(at)
    /\ m' = [m EXCEPT !.hdrs = AnswerForwarded(@)]
    /\ trail' = Front(trail)
    /\ UNCHANGED phase /\ Unread

AnswerMissed == phase = "answer" /\ at = Nowhere /\ Dropped

CallerHears ==
    /\ phase = "answer" /\ at = Caller
    /\ phase' = "heard"
    /\ UNCHANGED <<at, src, m, trail>> /\ Unread
------------------------------------------------------------------------------
(* A request inside the dialog.  The caller turns the Record-Route values that   *)
(* it heard around, the callee takes those it received as they are.              *)

Asks(k, from, to, via, routes) ==
    /\ phase = "heard" /\ answered /\ setup.through = "proxies"
    /\ kind' = k /\ at' = from /\ trail' = <<>>
    /\ src' = AddrOf(from)
    /\ m' = [uri |-> to, limit |-> setup.limit, hdrs |-> Request(via, routes)]
    /\ phase' = "asks"
    /\ UNCHANGED <<setup, recorded, routeSet, answered>>

CallerAsks ==
    Asks("fromCaller", Caller, Callee, CallerVia, Reverse(Values(m.hdrs, RecordRoute)))
CalleeAsks ==
    Asks("fromCallee", Callee, Caller, ViaOf(AddrOf(Callee)), routeSet)

\* An end sends to its first Route.
Leaves ==
    /\ phase = "asks"
    /\ PassTo(IF Has(m.hdrs, Route) THEN Values(m.hdrs, Route)[1] ELSE m.uri, m)
    /\ Unread

Arrives ==
    /\ phase = "request" /\ kind # "initial"
    /\ at \in {Caller, Callee} /\ Readable(m.hdrs)
    /\ phase' = "over"
    /\ UNCHANGED <<at, src, m, trail>> /\ Unread

Next ==
    \/ Send \/ ProxyInitial \/ NotFound \/ SeenBefore \/ ProxyInDialog \/ CannotRead
    \/ ToAppServer \/ ToUe \/ ServerForwards
    \/ CalleeAnswers \/ ForwardsAnswer \/ AnswerMissed \/ CallerHears
    \/ CallerAsks \/ CalleeAsks \/ Leaves \/ Arrives

Spec == Init /\ [][Next]_vars
------------------------------------------------------------------------------
(* Every variable has a value of its kind.                                       *)
TypeOK ==
    /\ setup \in Setups
    /\ phase \in {"idle", "request", "answer", "lost", "heard", "asks", "over"}
    /\ kind \in {"initial", "fromCaller", "fromCallee"}
    /\ at \in Nodes \cup {Nowhere}
    /\ m.uri \in Nodes \cup {NoUri} /\ m.limit \in Int
    /\ \A i \in DOMAIN m.hdrs : m.hdrs[i].name \in Names \cup {Fragment}
    /\ \A i, j \in DOMAIN recorded : recorded[i] = recorded[j] => i = j
    /\ routeSet \in Seq(Proxies)

\* A caller that can be answered: the Via says where it is, or the first hop can
\* write where the request came from and the port is the same.
Reachable ==
    \/ setup.source = AddrOf(Caller)
    \/ setup.rport /\ answered /\ setup.source.port = 1

(* An answer goes back through the nodes the request came through, in reverse,   *)
(* although every hop leaves the Vias below its own twice in the request; only a *)
(* caller behind a NAT box may not be found at the end.                          *)
AnswerRetraces ==
    phase = "answer" =>
        \/ at = Last(trail)
        \/ at = Nowhere /\ Last(trail) = Caller /\ ~Reachable

(* The types, and: a node that takes the top Route off takes off its own, at     *)
(* which callProxy.c does not look.  The ends of the path get nobody's Route.    *)
TopRouteIsOwn ==
    /\ TypeOK
    /\ phase = "request" /\ Readable(m.hdrs) =>
          LET routes == Values(m.hdrs, Route) IN
          IF at \in {Caller, Callee} THEN routes = <<>>
          ELSE routes # <<>> => Hop(routes[1]) = at

Path == CASE kind = "fromCaller" -> <<Caller>> \o Reverse(routeSet) \o <<Callee>>
          [] kind = "fromCallee" -> <<Callee>> \o routeSet \o <<Caller>>
          [] OTHER               -> <<>>

(* A request inside the dialog passes the proxies that the callee heard of in    *)
(* Record-Route headers, each of which has the call, in their order, and reaches *)
(* the other end behind the last of them.                                        *)
InDialogOnPath ==
    kind # "initial" =>
        /\ \A i \in DOMAIN routeSet : routeSet[i] \in called
        /\ phase = "request" => IsPrefix(Append(trail, at), Path)
        /\ phase = "over"    => Append(trail, at) = Path

\* What the headers of a call survive: with a Content-Length (or a Record-Route,
\* which only a message with a Content-Length ever gets) a proxy's Record-Route
\* goes behind the Route it took off, and what stood behind that is cut off.
KeepsHeaders ==
    setup.length => /\ setup.routesLast /\ setup.routes # <<>>
                    /\ setup.target[First] \notin Proxies \ {First}

(* As the code is built (it has a registrar) a call whose INVITE carries at most *)
(* one Route, no Content-Length unless one proxy does and the Route stands last, *)
(* and whose targets do not lead back to a proxy that has the call, is never     *)
(* lost, nor is what follows, except on the way to a caller that cannot be       *)
(* reached.                                                                      *)
GetsThrough ==
    /\ phase = "lost"
    /\ setup.through = "proxies" /\ Len(setup.routes) < 2
    /\ \A p \in Proxies : setup.build[p] = "registrar"
    /\ KeepsHeaders
    => \/ kind = "initial" /\ at \in called
       \/ setup.source # AddrOf(Caller)

(* "forward the SIP INVITE, add top via, remove top Route, reduce the            *)
(* max-forarded by 1" (proxyHelper.c:88): no other header goes.  But the headers *)
(* that every message has do, when an added Record-Route ends in an empty line.  *)
OthersStay == phase = "request" /\ ~Has(m.hdrs, Fragment) => Has(m.hdrs, CallId)

\* The hops of this code that a request has made.
OwnHops == Cardinality({i \in DOMAIN trail : trail[i] \in Proxies \cup {Scscf}})

(* "decrease Max-Forwarded by 1" (sipTUHelper.c:115): a request makes no more    *)
(* hops than the caller allowed.  Two are taken off at a time, and at zero the   *)
(* refusal is overwritten: the request goes on.                                  *)
HopsBounded == phase = "request" => OwnHops <= setup.limit
===============================================================================
