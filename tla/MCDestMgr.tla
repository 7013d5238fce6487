----------------------------- MODULE MCDestMgr -----------------------------
(* A name with an answer of each form, another one, and two names of the   *)
(* configuration.                                                          *)
EXTENDS DestMgr

Srv(target, tpType, priority, weight) ==
    [target |-> target, tpType |-> tpType, priority |-> priority, weight |-> weight,
     port |-> 5060]

Host(host, ip) == [host |-> host, ip |-> ip]

Answer(name, form, noError, hosts, srvs) ==
    [name |-> name, form |-> form, noError |-> noError, hosts |-> hosts, srvs |-> srvs]

\* Two hosts of one priority and one that is worse; the heavier one comes first.
Three == <<Srv("h2", "UDP", 0, 2), Srv("h1", "UDP", 0, 1), Srv("h3", "UDP", 1, 1)>>
Hosts == <<Host("h1", "ip1"), Host("h2", "ip2"), Host("h3", "ip3")>>

MCAnswers ==
    {Answer("as1", "NAPTR", TRUE, Hosts, Three),
     Answer("as1", "NAPTR", FALSE, <<>>, <<>>),
     Answer("as2", "LIST", TRUE, <<Host("h1", "ip1"), Host("h2", "ip1"), Host("h3", "ip2")>>,
            <<Srv("h1", "UDP", 0, 1), Srv("h2", "TCP", 0, 1), Srv("h3", "UDP", 0, 1)>>),
     Answer("as2", "A", TRUE, <<Host("as2", "ip2")>>, <<>>),
     Answer("as1", "SRV", TRUE, <<Host("h1", "ip1")>>, <<Srv("h1", "TCP", 0, 1)>>)}

MCLocal == {[name |-> "general", addr |-> [ip |-> "ip4", port |-> 5060, order |-> "net"]],
            [name |-> "other", addr |-> [ip |-> "ip5", port |-> 5060, order |-> "net"]]}
=============================================================================
