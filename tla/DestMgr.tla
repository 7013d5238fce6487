------------------------------ MODULE DestMgr ------------------------------
(***************************************************************************)
(* The destination manager of one TU thread: sipTUDestMgr.c.  It keeps the *)
(* addresses the answers of DNS gave for a name, picks the next hop among  *)
(* them (RFC 2782) and quarantines those that could not be reached.        *)
(*                                                                         *)
(* An answer of DNS is what its records say: the SRV records that name a   *)
(* host and the addresses of the hosts.  Its form (form) says in which     *)
(* messages and sections they came, which decides how they are joined: in  *)
(* the one message that answers an A, SRV or NAPTR query; or in a LIST, a  *)
(* NAPTR answer that has the SRV records but no address, and answers with  *)
(* the addresses of the hosts in front of it.                              *)
(* Left out: an answer that only carries a status, which is refused; one   *)
(* of another query type, whose record has no name; a list of another      *)
(* make, of which the highest answer is joined like a single one first     *)
(* (line 146) and each SRV answer in front of it after that, which also    *)
(* gives the record its own name (576, 432); and an answer to an SRV query *)
(* with an additional record that is no address, whose walk does not end   *)
(* (460-463).                                                              *)
(***************************************************************************)
EXTENDS Integers, Sequences, FiniteSets, FiniteSetsExt

CONSTANTS
    Names,       \* of destinations
    Answers,     \* the answers DNS may give
    Local,       \* destinations of the configuration: [name, addr]
    MaxRecords   \* bound on gDestRecordList when a record is added

MaxSupportedTpTypes == 5    \* SIP_TU_DEST_MAX_SUPPORTED_TP_TYPE_NUM

\* The SRV records of the host of the h-th address: the first five of them, unless
\* the walk is by SRV records.
SrvsOf(a, h) ==
    LET all == {i \in DOMAIN a.srvs : a.srvs[i].target = a.hosts[h].host} IN
    {i \in all : a.form = "SRV" \/ Cardinality({j \in all : j < i}) < MaxSupportedTpTypes}

ASSUME DestAssumption ==
    /\ MaxRecords \in Nat
    /\ \A a \in Answers :
          /\ a.name \in Names /\ a.noError \in BOOLEAN
          /\ a.form \in {"A", "SRV", "NAPTR", "LIST"}
          /\ Len(a.hosts) \in Nat /\ DOMAIN a.hosts = 1..Len(a.hosts)
          /\ Len(a.srvs) \in Nat /\ DOMAIN a.srvs = 1..Len(a.srvs)
          /\ \* what the walk over a list of messages comes to an end with
             a.form = "LIST" =>
                \A h \in DOMAIN a.hosts :
                   LET n == Cardinality(SrvsOf(a, h)) IN
                   n > 0 /\ Cardinality({g \in DOMAIN a.hosts : a.hosts[g].host = a.hosts[h].host}) % n = 0
          /\ \A i \in DOMAIN a.srvs :
                a.srvs[i].priority \in Nat /\ a.srvs[i].weight \in Nat
    /\ \A l \in Local : l.name \in Names \ {a.name : a \in Answers}

VARIABLES
    list,   \* gDestRecordList
    hop     \* what the last call returned: the record and the destination

vars == <<list, hop>>

\* No next hop was asked for, or none was found.
NotAsked == [rec |-> 0, dest |-> 0, found |-> FALSE]

Init == list = <<>> /\ hop = NotAsked

-----------------------------------------------------------------------------
\* sipTuDest_sortDestInfo: d goes behind e.
Behind(d, e) == \/ d.priority > e.priority
                \/ d.priority = e.priority /\ d.weight > e.weight

\* osList_orderAppend: d goes in front of the first that goes behind it.
Place(dests, d) == Min({Len(dests) + 1} \cup {k \in DOMAIN dests : Behind(dests[k], d)})

OrderAppend(dests, d) ==
    LET p == Place(dests, d) IN
    [k \in 1..(Len(dests) + 1) |->
        IF k < p THEN dests[k] ELSE IF k = p THEN d ELSE dests[k - 1]]

\* A destination is osmalloc'd and isQuarantined is not set: wild is what the
\* memory has.  Its qTimerId is not set either; no timer is started.
Dest(addr, tpType, priority, weight, wild) ==
    [addr |-> addr, tpType |-> tpType, priority |-> priority, weight |-> weight,
     quarantined |-> wild, qTimer |-> FALSE]

\* An address with a port: htons'd or as it came.
Addr(ip, port, order) == [ip |-> ip, port |-> port, order |-> order]

\* sipTuDest_isDestExist finds the destination of an SRV record only when its
\* port was stored as it came; then its transport is any, if it is another one.
AddOrWiden(dests, ip, s, order, wild) ==
    LET same == {i \in DOMAIN dests :
                    /\ dests[i].addr = Addr(ip, s.port, "host")
                    /\ dests[i].priority = s.priority
                    /\ dests[i].weight = s.weight} IN
    IF same = {}
    THEN OrderAppend(dests, Dest(Addr(ip, s.port, order), s.tpType,
                                 s.priority, s.weight, wild))
    ELSE [dests EXCEPT ![Min(same)].tpType = IF @ = s.tpType THEN @ ELSE "ANY"]

(***************************************************************************)
(* The addresses with the SRV records they are joined with: all those of   *)
(* the host; in a list of messages the next one, starting anew for each    *)
(* host.  An answer to an SRV query is walked by its SRV records, the      *)
(* others by the addresses; n counts the steps of both loops.              *)
(***************************************************************************)
Joins(a, h, i) ==
    /\ i \in SrvsOf(a, h)
    /\ a.form = "LIST" =>
          Cardinality({j \in SrvsOf(a, h) : j < i}) =
          Cardinality({g \in 1..(h - 1) : a.hosts[g].host = a.hosts[h].host})
             % Cardinality(SrvsOf(a, h))

Joined(a) == {x \in (DOMAIN a.hosts) \X (DOMAIN a.srvs) : Joins(a, x[1], x[2])}

At(a, n) ==
    IF a.form = "SRV"
    THEN <<((n - 1) % Len(a.hosts)) + 1, ((n - 1) \div Len(a.hosts)) + 1>>
    ELSE <<((n - 1) \div Len(a.srvs)) + 1, ((n - 1) % Len(a.srvs)) + 1>>

Steps(a) == IF a.form = "A" THEN Len(a.hosts) ELSE Len(a.hosts) * Len(a.srvs)

\* How many destinations an answer makes at most.
Size(a) == IF a.form = "A" THEN Len(a.hosts) ELSE Cardinality(Joined(a))

\* sipTuDest_msgAddRec and sipTUDest_msgListAddARec, for an address and an SRV
\* record.  An SRV query reads the address from the SRV record.
AddJoined(dests, a, ip, s, wild) ==
    CASE a.form = "SRV" ->
            OrderAppend(dests, Dest(Addr("unset", s.port, "host"), s.tpType,
                                    s.priority, s.weight, wild))
      [] a.form = "NAPTR" -> AddOrWiden(dests, ip, s, "net", wild)
      [] a.form = "LIST" -> AddOrWiden(dests, ip, s, "host", wild)

\* The n-th step, when the memory of the m-th destination is not 0 for m in wild.
\* An A query has addresses only.
AddStep(dests, a, n, wild) ==
    LET x == At(a, n)
        w == Len(dests) + 1 \in wild IN
    IF a.form = "A"
    THEN OrderAppend(dests, Dest(Addr(a.hosts[n].ip, 0, "host"), "ANY", 0, 0, w))
    ELSE IF x \in Joined(a) THEN AddJoined(dests, a, a.hosts[x[1]].ip, a.srvs[x[2]], w)
    ELSE dests

\* The destinations of an answer after n steps.
Made(a, wild) ==
    LET made[n \in 0..Steps(a)] == IF n = 0 THEN <<>> ELSE AddStep(made[n - 1], a, n, wild) IN
    made

Dests(a, wild) == Made(a, wild)[Steps(a)]

-----------------------------------------------------------------------------
Usable(dests) == {i \in DOMAIN dests : ~dests[i].quarantined}

\* The first destination that may be used.
First(dests) == Min(Usable(dests))

\* Those of its priority, from it on.
SamePriority(dests) ==
    {i \in DOMAIN dests : /\ i >= First(dests)
                          /\ \A j \in First(dests)..i :
                                dests[j].priority = dests[First(dests)].priority}

\* sipTuDest_getSamePriorityNum
SamePriorityUsable(dests) == SamePriority(dests) \cap Usable(dests)

\* The weights of the destinations S, added in the order of the list.
Sums(dests, S) ==
    LET sum[n \in 0..Len(dests)] ==
           IF n = 0 THEN 0 ELSE IF n \in S THEN sum[n - 1] + dests[n].weight ELSE sum[n - 1] IN
    sum

SumOver(dests, S) == Sums(dests, S)[Len(dests)]

\* Fault of WeightSum: the weights of lower priorities are added.
WeightSumOfAll(dests) == SumOver(dests, Usable(dests))

WeightSum(dests) == SumOver(dests, SamePriorityUsable(dests))

\* The running sum when the walk is at i: quarantined destinations count.
RunSum(dests, i) == SumOver(dests, First(dests)..i)

\* Fault of Reaches: the sum has to be more than rand.
ReachesMore(dests, i, rand) == RunSum(dests, i) > rand

\* Where the walk ends.
Reaches(dests, i, rand) == RunSum(dests, i) >= rand

(***************************************************************************)
(* sipTuDest_getNextHop: what it may return, for each value that the clock *)
(* may give rand.  0 is that nothing was found.                            *)
(***************************************************************************)
NextHops(dests) ==
    IF Usable(dests) = {} THEN {0}
    ELSE IF Cardinality(SamePriorityUsable(dests)) = 1 THEN {First(dests)}
    ELSE {LET ends == {i \in First(dests)..Len(dests) : Reaches(dests, i, rand)} IN
          IF ends = {} THEN 0 ELSE Min(ends) : rand \in 0..WeightSum(dests)}

\* The first record of a name (sipTuDest_getDestRec), or 0.
RecordOf(name) ==
    LET recs == {i \in DOMAIN list : list[i].name = name} IN
    IF recs = {} THEN 0 ELSE Min(recs)

\* The caller is given a next hop of record i of the list l.
Returns(l, i) ==
    \E d \in NextHops(l[i].dests) : hop' = [rec |-> i, dest |-> d, found |-> d # 0]

Removed(l, i) == SubSeq(l, 1, i - 1) \o SubSeq(l, i + 1, Len(l))

-----------------------------------------------------------------------------
\* Fault of KeptAnswer: the destinations are made anew from the answer.
KeptAnswerParsed(a) ==
    /\ RecordOf(a.name) # 0
    /\ IF a.noError
       THEN /\ \E wild \in SUBSET (1..Size(a)) :
                  list' = [list EXCEPT ![RecordOf(a.name)].dests = Dests(a, wild)]
            /\ Returns(list', RecordOf(a.name))
       ELSE list' = Removed(list, RecordOf(a.name)) /\ hop' = NotAsked

\* sipTu_getBestNextHop for an answer of which the record is kept.
KeptAnswer(a) ==
    /\ RecordOf(a.name) # 0
    /\ IF a.noError
       THEN Returns(list, RecordOf(a.name)) /\ UNCHANGED list
       ELSE list' = Removed(list, RecordOf(a.name)) /\ hop' = NotAsked

\* Fault of NewAnswer: the record is put in front of the list.
NewAnswerInFront(a) ==
    IF ~a.noError THEN hop' = NotAsked /\ UNCHANGED list
    ELSE /\ Len(list) < MaxRecords
         /\ \E wild \in SUBSET (1..Size(a)) :
               list' = <<[name |-> a.name, ka |-> TRUE, dests |-> Dests(a, wild)]>> \o list
         /\ Returns(list', 1)

(***************************************************************************)
(* sipTu_getBestNextHop for an answer that is new, or of which no record   *)
(* is kept: another record at the end of the list, and its keep-alive      *)
(* timer.  Joining a list of messages walks over the end of the addresses  *)
(* of a host unless their number is a multiple of that of its SRV records, *)
(* and does not end when there are none: DestAssumption.                   *)
(***************************************************************************)
NewAnswer(a) ==
    IF ~a.noError THEN hop' = NotAsked /\ UNCHANGED list
    ELSE /\ Len(list) < MaxRecords
         /\ \E wild \in SUBSET (1..Size(a)) :
               list' = Append(list, [name |-> a.name, ka |-> TRUE, dests |-> Dests(a, wild)])
         /\ Returns(list', Len(list'))

\* isDnsResCached is what the caller says.
GetBestNextHop(a, isDnsResCached) ==
    \/ isDnsResCached /\ KeptAnswer(a)
    \/ (isDnsResCached => RecordOf(a.name) = 0) /\ NewAnswer(a)

\* sipTu_getBestNextHopByName
GetBestNextHopByName(name) ==
    /\ RecordOf(name) # 0
    /\ Returns(list, RecordOf(name))
    /\ UNCHANGED list

\* The first destination of record i with the address, or 0.
Position(i, addr) ==
    LET at == {d \in DOMAIN list[i].dests : list[i].dests[d].addr = addr} IN
    IF at = {} THEN 0 ELSE Min(at)

\* A destination that is quarantined already stays so, with or without a timer.
Quarantined(i, addr) ==
    LET d == Position(i, addr) IN
    IF d = 0 \/ (d # 0 /\ list[i].dests[d].quarantined) THEN list
    ELSE [list EXCEPT ![i].dests[d].quarantined = TRUE, ![i].dests[d].qTimer = TRUE]

\* sipTu_setDestFailure: the address a name was tried at could not be reached.
SetDestFailure(name, addr) ==
    /\ RecordOf(name) # 0
    /\ list' = Quarantined(RecordOf(name), addr)
    /\ hop' = NotAsked

\* sipTu_replaceDest: the same, and the next one is asked for.
ReplaceDest(name, addr) ==
    /\ RecordOf(name) # 0
    /\ list' = Quarantined(RecordOf(name), addr)
    /\ Returns(list', RecordOf(name))

(***************************************************************************)
(* sipTuDest_localSet, when the process starts: the destination is put at  *)
(* the end of the record of the name, of the last record if the name has   *)
(* none, and of a record of its own if there are no records.  Nobody asks  *)
(* for the next hop of such a name: priority and weight, which are not     *)
(* set, are not read and are 0 here.                                       *)
(***************************************************************************)
LocalSet(l) ==
    LET d == Dest(l.addr, "ANY", 0, 0, FALSE)
        i == IF RecordOf(l.name) # 0 THEN RecordOf(l.name) ELSE Len(list) IN
    /\ \A r \in DOMAIN list : ~list[r].ka /\ Position(r, l.addr) = 0
    /\ list' = IF list = <<>>
               THEN <<[name |-> l.name, ka |-> FALSE, dests |-> <<d>>]>>
               ELSE [list EXCEPT ![i].dests = Append(@, d)]
    /\ hop' = NotAsked

\* sipTuDest_isQuarantined: what it returns for an address that no record of the
\* name has is TRUE.
IsQuarantined(name, addr) ==
    LET recs == {i \in DOMAIN list : list[i].name = name /\ Position(i, addr) # 0} IN
    recs # {} => list[Min(recs)].dests[Position(Min(recs), addr)].quarantined

\* sipTuDest_onQTimeout
OnQTimeout(i, d) ==
    /\ list[i].dests[d].qTimer
    /\ list' = [list EXCEPT ![i].dests[d].quarantined = FALSE, ![i].dests[d].qTimer = FALSE]
    /\ hop' = NotAsked

\* sipTuDest_onKATimeout, with the timers of the destinations.
OnKATimeout(i) ==
    /\ list[i].ka
    /\ list' = Removed(list, i)
    /\ hop' = NotAsked

-----------------------------------------------------------------------------
\* The addresses that can be reported: those of the destinations.
Tried == UNION {{list[i].dests[d].addr : d \in DOMAIN list[i].dests} : i \in DOMAIN list}

Next ==
    \/ \E a \in Answers, isDnsResCached \in BOOLEAN : GetBestNextHop(a, isDnsResCached)
    \/ \E name \in Names :
          \/ \E addr \in Tried : SetDestFailure(name, addr)
          \/ /\ name \in {a.name : a \in Answers}
             /\ \/ GetBestNextHopByName(name)
                \/ \E addr \in Tried : ReplaceDest(name, addr)
    \/ \E l \in Local : LocalSet(l)
    \/ \E i \in DOMAIN list :
          \/ OnKATimeout(i)
          \/ \E d \in DOMAIN list[i].dests : OnQTimeout(i, d)

Spec == Init /\ [][Next]_vars

-----------------------------------------------------------------------------
\* Every variable has a value of its type, the destinations of a record are in
\* the order of their priorities and weights, and only the timer of a destination
\* that is quarantined runs.
TypeOK ==
    /\ hop \in [rec : Nat, dest : Nat, found : BOOLEAN]
    /\ hop.rec \in 0..Len(list)
    /\ \A i \in DOMAIN list :
          /\ list[i].name \in Names /\ list[i].ka \in BOOLEAN
          /\ \A d \in DOMAIN list[i].dests :
                LET dest == list[i].dests[d] IN
                /\ dest.quarantined \in BOOLEAN /\ dest.qTimer \in BOOLEAN
                /\ dest.qTimer => dest.quarantined
                /\ \A e \in 1..(d - 1) :
                      \/ list[i].dests[e].priority < dest.priority
                      \/ /\ list[i].dests[e].priority = dest.priority
                         /\ list[i].dests[e].weight <= dest.weight

\* The destinations of the record the last call used.
Asked == list[hop.rec].dests

\* The types (which have the order of the destinations), and: a next hop is found
\* exactly when a destination of the record may be used, whatever the clock says
\* and however weights and quarantines are mixed: the walk never ends without one
\* ("something is wrong", sipTUDestMgr.c:832).
FoundIffUsable ==
    /\ TypeOK
    /\ hop.rec # 0 => (hop.found <=> Usable(Asked) # {})

\* A destination of a worse priority is never used while one of a better priority
\* may be; and a quarantined one only by the walk over weights, when there are
\* several others of its priority: never as the only choice, and never in place
\* of the only one that may be used.
BestPriority ==
    hop.found =>
       LET of == Asked[hop.dest] IN
       /\ \A d \in Usable(Asked) : of.priority <= Asked[d].priority
       /\ of.quarantined =>
             Cardinality({d \in Usable(Asked) : Asked[d].priority = of.priority}) > 1

\* A destination that was reported is one that is quarantined for everybody who
\* asks about it, until its timer ends: no later record of the name, answer or
\* timeout in between hides it.
QuarantineIsSeen ==
    \A i \in DOMAIN list : \A d \in DOMAIN list[i].dests :
       list[i].dests[d].qTimer => IsQuarantined(list[i].name, list[i].dests[d].addr)

\* A timed quarantine of the address, for those who ask for the name.
Timed(l, name, addr) ==
    \E i \in DOMAIN l : /\ l[i].name = name
                       /\ \E d \in DOMAIN l[i].dests : l[i].dests[d].addr = addr /\ l[i].dests[d].qTimer

\* A quarantine lasts: it ends with its own timer, with its record (the record's
\* keep-alive timer, or an answer that there is no such name) or with an answer for
\* the name that DNS gave anew ("this function will destroy the old rcords", line
\* 13, which the code leaves to their timers).  It outlasts every cached answer, the
\* answers for other names, reported failures and questions for a next hop.
QuarantineLasts ==
    [][\A i \in DOMAIN list : \A d \in DOMAIN list[i].dests :
          list[i].dests[d].qTimer =>
             \/ Timed(list', list[i].name, list[i].dests[d].addr)
             \/ OnQTimeout(i, d)
             \/ list' = Removed(list, i)
             \/ \E a \in Answers : a.name = list[i].name /\ NewAnswer(a)]_vars
=============================================================================
