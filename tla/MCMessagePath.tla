---------------------------- MODULE MCMessagePath ----------------------------
(* Two proxies, either of which may be the other's target, and the S-CSCF with   *)
(* one application server; three places a request of the caller may seem to come *)
(* from.  A request passes each proxy once at most before it is ignored, so that *)
(* no path is longer than four hops and the instance needs no bound.             *)
EXTENDS MessagePath
CONSTANTS pa, pb, pc
TwoProxies   == {pa, pb}
ThreeProxies == {pa, pb, pc}
AllBuilds    == {"registrar", "nextHop", "requestUri"}
AsBuilt      == {"registrar"}
Seventy      == {70}
Two          == {2}
===============================================================================
