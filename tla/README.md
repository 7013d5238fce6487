# A TLA+ development for sip-stack

This directory holds TLA+ models of the SIP stack in `../src`, the TLC
configurations that check them on small instances, and proofs that the TLA+
proof system TLAPS checks for every value of the constants. Each definition is
translated from the C source; `PROJECT.json` has the file and the lines for
each.

- [The system](#the-system): its parts, their state, what is hard about them
- [The modules](#the-modules): how they correspond to the code
- [The runs](#the-runs): what is checked, within which bounds, and what it shows
- [Fairness](#fairness)
- [The proofs](#the-proofs)
- [Where the code and its comments disagree](#where-the-code-and-its-comments-disagree)
- [What is not modelled](#what-is-not-modelled)
- [The plan](#the-plan)

To repeat everything:

    tlc -config Transactions.cfg Transactions      # likewise for each run below
    for m in *_proofs.tla; do tlapm $m; done

## The system

A node of the stack is one process. A COM thread owns the listening sockets and
the UDP ports; a number of application threads each run transactions,
transaction users (TUs) and a pool of TCP connections of their own, in one
`epoll` loop and with one timer wheel. Nothing within a thread is preempted:
interleaving is that of events, and of what a callback does before its caller
goes on. Between the COM thread and the application threads it is that of
memory.

    peer -- COM thread --(pipe)--> application thread
                                     transaction manager -- transactions
                                          |   ^
                                          v   | (messages, errors)
                                     TU: proxy, registrar, CSCF, SMS server
                                          |
                                     destination manager, DNS, DIAMETER

| Component | State | Operations | What is hard | What makes it correct |
|---|---|---|---|---|
| Non-INVITE client (`sipTransNoInviteClient.c`) | state, timers E F K, interval, transport | request, response, timers, connection ready or failed | timers race answers; timers that do not start; transport chosen per send | one outcome for the TU; no stray timer; repeats on schedule; an end to each wait |
| INVITE client (`sipTransInviteClient.c`) | as above with A B D; the ACK | the same, the ACK, repeated failures | the ACK shares handlers with the request; responses after the end of the TU | never silent, nothing after an error; a failure is passed on again only if it was not acknowledged |
| INVITE server (`sipTransInviteServer.c`) | G H I; the response to resend | request, its repeats, the TU's responses, ACK | several timers at the end; a send that fails in the middle | the TU gets the request once; the answer is stable; one release |
| Non-INVITE server (`sipTransNoInviteServer.c`) | J; the response | the same without ACK | repeats that come late | the request is executed at most once; an error only if nothing was answered |
| Transaction manager (`sipTransMgr.c`) | hash of transactions | creates, dispatches, deletes | an event for a transaction that has gone | an event reaches its machine only |
| Transport send (`transportMgr.c`) | the `tpInfo` of a transaction | chooses UDP or TCP | size and configuration change the choice between two sends | the answers the machines expect |
| Connection pool (`transportTcm.c`, `sipTcm.c`) | slots with descriptor, peer, users, keep-alive | find or reserve, connect, report, close | users called back while the list changes; slots shared by threads; descriptors reused | a waiting user is listed and told; a slot leads to its peer |
| Threads (`transportComMain.c`, `transportAppMain.c`) | epoll, pipes | accept, receive, send, close | two threads on one pool | as above |
| Call proxy (`callProxy.c`) | call state, timers C and WaitAck, pairs of transactions, hash element | requests, responses, transaction errors, timers | three ends of a call meet; freed transactions; early messages | the caller hears what the callee said; setup ends; the hash owns the call |
| Proxy managers (`saProxyMgr.c`, `proxyMgr.c`, `proxyMisc.c`) | hash of calls, list of pairs | forward requests and responses | responses to several requests at a time | the response finds its transaction |
| Registrar (`sipRegistrar.c`) | the entry of a user: registered or not, timers for expiry, purge and the query of stored messages | REGISTER, its failed response, timers, look-up, attach | timers and REGISTERs in any order; an entry is deleted in several places | every entry has the timer that ends it and no stray one |
| SMS server (`masSMS.c`, `masDb.c`) | messages that are forwarded; rows of stored messages with time and interval of the next try | MESSAGE, answers and errors of deliveries, poll, query at a registration | deliveries that overlap, fail or are cut off by a restart; statements that fail; late polls | a stored message stays until it is received or its time is over; the tries are on schedule and have an end |
| S-CSCF registration (`scscfRegistrar.c`, `scscfSar.c`) | registration state, identities in the hash and the references they hold, third-party registrations, a timer | REGISTER, HSS answers, DNS answers, timeouts, failures of third parties | HSS, DNS and SIP answers in any order; REGISTER while one is going on; a session that makes a block of its own | a block lives as long as it is hashed; every wait has something that ends it; work comes to an end |
| S-CSCF session (`scscfSession.c`, `scscfIfc.c`) | place in the chain of application servers, proxies, the request in hand | initial requests and their returns, HSS, DNS and proxy events | the chain comes back to itself from outside; a query's answer is read by the state, not by the query | no application server is passed over; nothing is freed while a call uses it |
| I-CSCF (`icscfRegister.c`, `icscfCx*.c`) | one REGISTER under way | UAR and its answer, responses, failures | retry with the next S-CSCF from within a callback | each candidate once, one answer |
| Destination manager (`sipTUDestMgr.c`) | next hops by name, quarantine and keep-alive timers | DNS answers, choice by priority and weight, quarantine | weights and quarantines mixed; several records of a name | a hop is found exactly if one is usable; the best priority; quarantine is seen by everybody |
| TU helpers and codec (`sipTUHelper.c`, `proxyHelper.c`, `codec/src`) | none | read and rewrite headers | what one hop writes is what the next one reads; header lines with several values | answers retrace the request; a node takes off its own Route only; requests within a dialog take its path |

`PROJECT.json` lists, as hazards, where in the code these difficulties bite.

## The modules

**`SipTransport`**, the answers `sipTransport_send` can give. A transaction's
`tpInfo` is its type and whether it has a descriptor. `SendOutcomes(tp, useTcp)`
is the set of answers: UDP, TCP_OK, TCP_CONN (a connection is being set up and
the transaction will be called back), FAIL.

**`SipTimer`**, the timers. A timer runs iff its id is not 0; `Started(ts, t)`
has both outcomes of `osStartTimer` when `TimersMayFail`.

**`NonInviteClient`, `InviteClient`, `InviteServer`, `NonInviteServer`**, one
machine each. An action is one call of the machine's `_onMsg` that is not
dropped, from its first line to the last thing it calls; it has the answer of
the transport as its parameter, since both the machine and a composition need to
know it. `timers`, `timerAEGValue`, `tpInfo` and `state` are the fields of
`sipTransaction_t`. `told` and `toTU` are what the TU has heard, in order.
`clock` is when the repeating timer was last started, counted from the start of
the one that bounds the wait (A and B, E and F, G and H): the two have a common
start, and which expires first is a matter of arithmetic and not a choice.

**`Transactions`**, one hash entry of the manager. It has the fields of all four
machines and a `kind`, the machine `smOnMsg` points to, which alone decides what
an event does. Its properties are the machines' own, by kind.

**`ClientPromise`**, abstract: a client transaction tells its TU of exactly one
outcome. An entry of kind NIC implements it (`KeepsPromise`), with its liveness:
`stage` and `outcome` of `Transactions` are the refinement mapping, and
`NICPromise` is the instance; an entry of another kind never begins it.

**`AtMostOnce`**, abstract: a request is executed at most once, and the result
is not a response unless it was. **`NonInviteExchange`** composes a client and a
server over a network that loses, repeats and reorders datagrams, with a clock
that stops at every timer that is due, and implements it
(`ExecutesAtMostOnce`). Its specification is `ExchangeSpec`, since the proofs have
it beside the `Spec` of `Transactions`.

**`CallProxy`**, one call through the stand-alone proxy: the hash element of its
call-id with the empty ones that early messages leave, the call's state and
timers, the pairs of transactions and their count. The transactions appear by
what they may do to the proxy. `wild` collects what is used although it was
freed or never set: from there the C program may do anything, and the model goes
on as if nothing had happened.

**`Tcm`**, the pool of an application thread next to the COM thread and the
kernel. `app` and `com` are `gAppTCM` and `gSharedTCM`, and `sock` is what the
kernel knows of a descriptor; the lowest free descriptor is given out again, so
that a number that was kept may come to mean another connection. Steps are cut
where something can come between: after a callback (`CallUser`, `LoopEnds`), and
after the lock of the shared pool is released (`SharedFound`, `SharedWrite`,
`SharedCreate`).

**`Registrar`**, the entry that `masRegHash` has for a user, as its state and the
set of its running timers. An action is a REGISTER up to the return of
`masReg_onSipMsg`, with the 200 and what came of it, or the expiry of a timer.

**`SmsServer`** EXTENDS it, and has the messages. `b2b` are those being forwarded
(a `masInfo_t` of type B2B each), `copies` counts the deliveries from the
database (type DB), and `row` is the row in table `sms`. Its times are relative:
`wait` is `expire` less the time of day, and `room` is `dropTime` less `expire`,
so that `Tick` changes `wait` alone and there is no clock. Each statement may
fail, and its caller goes on as the code does; in `Poll`, S are the rows that
could be sent and U those that were updated. `past` remembers what became of a
message, for the properties only.

**`ScscfRegistration`**, the blocks of one subscription and what is open for
them. `hash` is `gScscfRegHash`, the block each identity leads to; `reg` has for
each block its reference count (`refs`, 0 when it is free), the hash elements of
`ueList` (`les`), the SAR and the work in hand, the place in the filter criteria,
its timer, and how many SARs, third-party REGISTERs and DNS queries are open.
An action is one event, from the callback to its return, with the whole walk
over the application servers that it starts (`ThirdPartyRegs`) and every element
of the hash it deletes (`DeleteSub`). What arrives for a block that was freed has
no effect in the model; the address of such a block is not given out again
while something is open for it. `Restart` is the end of the process on NULL.

**`ScscfIfc`**, the filter criteria as a sequence of records, and the evaluation
of one for a user, a method, a type of registration and a session case: pure
operators. **`ScscfSession`** EXTENDS it and has one call. What an event calls is
an operator that returns the *set of outcomes*, each with the session, the status
and whether the chain goes on, since most of the functions can fail in the
middle and their callers differ in what they do with the status. `Considered` is
the recursion of `scscfSessStateDnsAs_onMsg`, criterion by criterion, and `Chain`
what has become of the call at their end. `tried` and `due`
are histories for the property: which servers were tried, and which the request
met in the caller's half.

**`DestMgr`**, the list of records with their destinations in order, and what the
last call returned. `NextHops` is the choice by priority and weight for every
value the clock may give the random number; `Dests` builds the destinations from
each form of answer, one step of the loops at a time (`AddStep`), with the
arrangement of ports and transports that each branch of the code has. `isQuarantined` of a new destination is whatever the
memory has (`wild`), since it is never set.

**`SipMessage`**, pure: a message's headers as a sequence of lines with values,
and what `sipTUHelper.c` and `proxyHelper.c` make of it: which lines are copied,
deleted and added and where. What is written behind an empty line is no header
any more (`Written`), and the value that a stand-alone proxy adds brings an empty
line with it (`ends`). **`MessagePath`** has it applied hop after hop, by
stand-alone proxies or by the S-CSCF with an application server: an initial
INVITE, its answer, and a later request in either direction. Each node decides
from the headers alone. The code that is on the nodes of other vendors (caller,
callee, application server) does what RFC 3261 says.

**`*_proofs`**, the proofs about a module (those about the four machines and about
the exchange between two of them are in `Transactions_proofs`), and
**`MCScscfRegistration`, `MCScscfSession`, `MCDestMgr`, `MCMessagePath`**, the
values of the constants that a cfg cannot write down.

A definition introduced with "Fault of X" is X as it would be with a plausible
mistake in the code. It belongs to no specification: with X replaced by it, a
property of a run must fail, which shows that the property depends on X. There
is one for each property.

## The runs

| Run | Module | Bounds | Shows |
|---|---|---|---|
| `Transactions` | Transactions | T1 = 1, T2 = 8, timers may fail to start; an INVITE client's TU hears up to `MaxTold` = 3 things | `KeepsPromise`, the refinement of `ClientPromise` with its liveness; `TimersOfState`; what clients and servers tell the TU (`ClientTellsTU`, `ServerTellsTU`); `RepeatsOnSchedule`; `RepeatedOnlyIfUnacknowledged`; `AnswerStable`; `Released` |
| `NonInviteExchange` | NonInviteExchange | T1 = 2, T2 = 16, T4 = 20, a datagram is under way for at most 1 | `ExecutesAtMostOnce`, the refinement of `AtMostOnce`; `AbsorbsRepeats` |
| `CallProxy` | CallProxy | two requests within the call, one provisional response | `CallerHearsCallee`, `HashOwnsCall`, `OnlyUnheeded`, `TimersOfState`; `SetupEnds` |
| `Tcm` | Tcm | two users, two peers, two slots and one shared slot, two descriptors | `OwnSlots`, `WaitersListed`, `OwnReachesPeer`; `WaitersTold` |
| `SmsServer` | SmsServer | two users, one message, T1 = 1, T2 = 3, M = 9, polls up to 2 late, two deliveries at a time | `TimersOfState` of the registrar; `AcceptedHasPlace`, `StoredIsKept`, `Schedule`, `NotDroppedEarly`; `RowsGo` |
| `ScscfRegistration` | MCScscfRegistration | two blocks, two criteria of which one is a name, one of each thing open and one listed server when a REGISTER comes | `RefsAreKeys`: the references are the hash elements; `WaitsForSomething`; `WaitGetsShorter`: an event that starts no new work brings its end nearer |
| `ScscfSession` | MCScscfSession | three criteria in two sets, five requests for the session | `Kept`; `NobodyPassedOver` |
| `DestMgr` | MCDestMgr | an answer of each form, three records at a time | `FoundIffUsable`, `BestPriority`, `QuarantineIsSeen`, `QuarantineLasts` |
| `MessagePath` | MCMessagePath | two proxies, each with every way to find a target; or the S-CSCF and a server | `AnswerRetraces`, `TopRouteIsOwn`, `InDialogOnPath`, `GetsThrough` |
| `ScscfSession_ClosingIsFreed` | MCScscfSession | two requests | violated: see below |
| `MessagePath_HopsBounded` | MCMessagePath | three proxies, Max-Forwards 2 | violated: see below |
| `MessagePath_OthersStay` | MCMessagePath | two proxies with a registrar | violated: see below |

Why these bounds are enough:

- *Timers.* T2 = 8*T1 is the ratio of RFC 3261 and of `sipConfig.h` (500 ms and
  4 s): the doubling meets the cap in its fourth step, and 64*T1 comes after a
  dozen repeats. Nothing else depends on the unit. In the exchange T1 = 2 leaves
  room for a datagram that is under way for less than T1.
- *MaxDelay < T1* in the exchange is a condition and not only a bound: the
  server's timer J runs for 64*T1 from its answer, and the client repeats its
  request last at 63.5*T1 or before. A datagram that travels for longer than
  what is left finds no transaction, and the TU executes the request again. The
  stack has nothing against it, nor does RFC 3261.
- *Horizon* = 260 = 2*64*T1 + T1 + 2: the clock passes both F and a J that
  starts at F.
- *MaxTold*. The peer repeats a failure as often as it likes and each repeat may
  reach the TU. From the second one on the state of the transaction repeats; the
  bound has one more than that.
- *Two requests within a call* are the least that compete for the list of pairs
  when the INVITE has left it, and one of them may be the BYE.
- *Pool.* Two descriptors are the least with which a descriptor that is closed
  is given to another peer while the other is in use, two slots the least that
  have the lowest free one differ from the first. A user starts the list of its
  connection; others join only while the list is walked, one at a time, so that
  it never has more than one to come. Three users were tried for the invariants, with the same result.
- *Messages.* Two messages have nothing in common but the entries of their users,
  so that one message and two users, of whom either may be the caller or the
  called, have every case; two messages with `MaxCopies` = `MaxLate` = 1 were
  tried, with the same result. T2 = 3*T1, as the 240*T1 of `masDb.h`, is no power
  of two times T1, so that the interval meets its cap between two doublings; M
  leaves room for two tries at the cap and more.
- `MaxLate` = 2 is longer than T1, so that a row may be due twice over;
  `MaxCopies` = 2 is the least with which the outcomes of two deliveries meet.
- *Registration.* The second block is the one a session or a REGISTER makes while
  the first is on its way out, and the other one an identity of the profile may
  lead to; no event has to do with more than two. Two criteria have a server
  after which the chain goes on or not, and one that waits for DNS behind one
  that was reached at once. `MaxOpen` and `MaxListed` guard REGISTERs only: what
  is open when they are reached is still answered, in any order.
- *Session.* With three criteria a chain has a first, a middle and a last one;
  one criterion is met by a registered called user only, and one has no
  conditions. Five returns are more than a call of three servers makes, so that
  a server may send it back twice and another call may come between.
- *Destinations.* Three hosts have two of one priority with different weights
  and one of a worse one: the walk over weights is only taken with two, and the
  worse one shows that it stays within its priority. Three records are the least
  with two of one name around one of another. The five SRV records that are read
  of a host (`MaxSupportedTpTypes`) are the code's own limit and no bound of the
  model's; the answers of the run have fewer.
- *Paths.* Each proxy ignores a request it has seen, so the instance needs no
  bound; two proxies are the least where what one writes is read by another of
  its own kind, and where a second Route exists and a second Record-Route is to be
  written. The caller's INVITE has a Content-Length or not, and its Routes on one
  line or several, in front of its other headers or behind them: where a header
  stands decides what is cut off.
- `CHECK_DEADLOCK FALSE`: a transaction, a call, a message and the users of the pool
  each come to an end, and the model has no more to do; so does a session that
  was freed. `DestMgr` always goes on, and is checked for deadlock.

## Fairness

- *Timers*: weak fairness of the expiry of a running timer, no more. The peer,
  the TU and the connections owe nothing, and a timer that did not start never
  expires.
- `CallProxy`: weak fairness of timer C and of timer WaitAck. The former is not
  restarted for ever because `MaxRings` bounds the provisional responses: a
  callee that rings for ever keeps a call in setup for ever, and the code allows
  it.
- `Tcm`: weak fairness of what the application thread has begun (it is one
  thread that goes on), and of the kernel's verdict on a connection, which comes
  at the latest when it gives the peer up. Strong fairness of the event loop for
  each slot: the thread leaves its loop for a callback or a send again and
  again, and epoll is level-triggered here, so that an event that is not served
  is there in the next round. Nothing is assumed of the COM thread, of the peers
  and of whoever sends.

- `SmsServer`: weak fairness of time, which passes, and of a poll whose updates
  work (`PollDue`). The poll is a tick that the timer wheel restarts by itself;
  were the database never to work again, rows would stay, so that the second
  half is an assumption about the database, on which the code has no hold. That
  anybody registers, or that any delivery succeeds, is not assumed.

## The proofs

TLAPS checks eight modules. Their theorems hold for every value of the constants
under the assumptions named in the modules:

- `TimerAssumption`: T1 and T2 are positive.
- `ExchangeAssumption`: a datagram is under way for less than T1, and T2 is an
  even multiple of T1, as the 4 s and 500 ms of `sipConfig.h` are. Both are used:
  for the delay see above; with another T2, timer E would not expire at odd
  multiples of T1 and could repeat the request just before 64*T1.
- `RingsAssumption`, `RegAssumption`, `SizesAssumption`: the bounds are
  naturals, there is a slot, and a profile names the user as the code
  distinguishes it.
- `SmsAssumption`: 0 < T1 < T2 <= M.
- `IfcAssumption`: the criteria are a sequence.
- `DestAssumption`: what an answer of DNS is. Priorities and weights are naturals; in
  a list of messages the addresses of a host are as many as its SRV records, or a
  multiple (otherwise the loop of `sipTUDest_msgListAddARec` leaves its list); and no
  answer is about a name of the configuration.

- `PathAssumption`, `NamesDiffer`: the parties of a call, the addresses that are
  nobody's and the names of headers are different values, and Max-Forwards is an
  octet. There may be any number of proxies.

Each has an invariant `IInv`, of which it is proved that it holds at first and
that each action keeps it, with a lemma for each action; `Invariance` says that
every state satisfies it, and the theorems follow. Where `IInv` needs more than
the properties say, TLC has checked it before it was proved.

**`CallProxy_proofs`.** `TypeCorrect`, `SetupTimed`, `HashFaithful`,
`CallerToldTheState`, `WildOnlyIfUnheeded`, and `FreedForGood`, an action
property. `IInv` adds two conjuncts. `PairOfCall`: the pair of the INVITE is
counted while it is listed and is listed until the ACK of an answered call,
without which `num` may go below 0. `Setting`: while the call is being set up, a
transaction of the INVITE that has ended is one whose end the proxy ignored,
without which timer C may use a freed one that it could have known of. The step
is proved in three parts, the types, the call and the transactions of the
INVITE, with one step per action.

**`SmsServer_proofs`.** `TypeCorrect`, `RegistrationsEnd`, `AcceptedIsPlaced`,
`StoredStays`, `TriesOnSchedule`, and `DropsLate`, an action property. `IInv` has
three parts that are proved each by itself for every action: `RegInv` of the
registrar, `RowInv` of each row, `MsgInv` of each message. `RowInv` is the
schedule: before the cap, an interval of n leaves M - n of the time, whatever the
number of tries, which the doubling keeps (lemma `UpdatedOnSchedule`); a row is
deleted when its interval, at most T2, would take it to its dropTime (`LastIsLate`).
`MsgInv` adds to the properties that a message with a row was once stored,
without which the deletion of a row proves nothing about it.

**`Transactions_proofs`.** `NoStrayTimer`, `ClientsTell`, `ServersTell`,
`Scheduled`, `HeardAgainOnlyIfUnacknowledged`, `AnswersStay`, `ImplementsPromise`
(the safety part of `KeepsPromise`, for an entry of any kind), and of the non-INVITE
client `NICWaitHasAnEnd` and `NICImplementsPromise`. There is a section for each
of the four machines (`IC`, `IS`, `NIS`, `NIC`), with a lemma for each of its actions;
the last combines the four invariants by the transaction's kind. What a machine
needs beyond its properties is the history that the code does not keep. For the
INVITE client: what the TU may have heard by now (`ICHeard`: finals and then
errors), that nothing has happened before the request (`ICFresh`), and that no ACK
has left while responses are still taken (`ICNoAckYet`), without which a failure
could be passed on after it was acknowledged. For the INVITE server: that a
request that came over a connection stays with its descriptor, that a response to
be repeated goes the way it went first, and, as for the non-INVITE server, that a
final response that left is the end of the states in which the TU may respond,
without which the answer could change. For the non-INVITE client: whether timer E
is running when the transport changes is decided by what the first send chose, so
that `NICTransport` says that the type of the transport is the one the peer's
configuration chose, that only a TCP send waits for a connection, and that E runs
for UDP only. The arithmetic of the doubling (`NICSchedule`) is proved on top of
it, and `NICImplementsPromise` maps every step to one of `ClientPromise` or a
stutter.

Its last section is about the exchange (`ExchangeInv` is its invariant):
`RepeatsAreAbsorbed`; `RefinesAtMostOnce`, that the exchange implements
`AtMostOnce`. The argument is one of time. Timer E expires at odd multiples of
T1 after the first request, since its first interval is T1 and each later one an
even multiple (`Beat`), so that the last repeat leaves at 63*T1 at the latest,
and with less than T1 under way no request is there at 64*T1 (`Flight`; lemmas
`LastBeat` and `NextInterval`). The server executes the request at 0 or later
and keeps its transaction up to a timer J that ends at 64*T1 or after
(`Served`): what arrives before finds it. For the refinement it is needed in
addition that no final response is under way before the request was executed,
and what the client has told (`Heard`).

**`Tcm_proofs`.** `OwnSlotsAreRight`, `WaitersAreListed`, `MessagesReachTheirPeer`,
for any number of slots, users, peers and descriptors. The difficulty is the
state in which a callback may send: a slot has been cleared while the list of
its users is still walked, and a user that is told may be given that very slot.
`IInv` has for it: a slot that is not in use is as good as new unless it is the
one whose users are told (`Unoccupied`); the socket that is about to be closed is
nobody's by now (`Calling`), so that a new connection cannot have its number; at
most one user of a slot has yet to be called, and none when one that was called
may send again (`OneLeft`), so that whoever joins the list is behind the place
the walk is at. `Apart` separates the sockets of the COM thread's pool from the
thread's own, as its steps come between all others. That the lowest of some
slots is one of them is proved by well-founded induction (`LowestIsOne`).

**`ScscfSession_proofs`.** `SessionsAreKept`, `NobodyIsPassedOver`, for every list
of filter criteria, every profile and any number of requests that come back.
`IInv` says of the session that at most one answer of the HSS is awaited, and none
while criteria are gone through (`Waits`), since the answer to a SAR may change
the identities, and with them the criteria the request meets, under a chain that
was half done; that the servers of the half the request is in were tried as far
as it was considered, and those of the halves it has left (`Asked`); and what is
open (`Open`). The session's functions are operators that return sets of
outcomes, and each has a lemma that says of every outcome that it is sound
(`Outcome`), or what a caller that takes an error for the end of the session may
rely on (`Leaves`). The chain is a recursive function over the criteria: `LoopIs`
proves that it has the value its definition says, `ChainOk` follows by induction
on the number of criteria considered (`Induction`, from the library's theorem on
well-founded relations).

**`ScscfRegistration_proofs`.** `TypeCorrect`, `ReferencesCounted`,
`WaitIsForSomething`, and `WaitIsBounded`, an action property, for any number of
blocks and of criteria. `IInv` has `Sound` for each block by itself (an expiry
timer only when registered, registered only when known; the answer to a first
SAR is awaited only while not registered; a block that waits for servers has
something open) and `Keyed` between blocks and the hash: the references are the
elements that lead to the block, and those of a session. That deleting the
elements an identity names keeps `Keyed`, whichever blocks they lead to, is the
lemma about `Released`; that a chain of servers leaves something open or ends is
proved once for `Asks` and `ThirdParty`, which five events share.

**`DestMgr_proofs`.** `FoundWhenUsable`, `BestIsUsed`, `QuarantineSeen`, and
`QuarantineKept`, an action property, for every set of answers, all weights and any
number of records. `IInv` has that the destinations of each record are in order;
that a timer runs only for a quarantined destination, the first with its address
in the first record of its name (`RecOk`, `FirstTimed`), without which a
quarantine could be hidden by another; and that what was returned is a choice of
its record as it is now (`HopOk`). That insertion keeps the order is
`OrderAppendOk`, that all answers make ordered lists `DestsOk`. The walk over the
weights is `WalkEnds`: at the last destination of the best priority the running
sum, which counts quarantined ones, is at least the sum of those that may be used
(`MoreWeighs`), and so at least the random number; hence the walk ends, and within
that priority. The sums and the lists of destinations are recursive functions:
`Iterated` proves that a function that is defined step by step within a set
exists, and their values follow by `Induction`.

**`MessagePath_proofs`.** `AnswersGoBack`, `RoutesAreOwn`, `DialogsStayOnPath`,
`CallsGetThrough`, for any number of proxies with any targets, and every way the
caller may write its headers; `PathInvariant` is the invariant. None of the properties
is inductive: each is about where a message goes, and what sends it there are
lines that other nodes wrote hops ago. So `IInv` says what lines a message has.

- `RequestInv`, an initial request that has come along a trail of n nodes: its n
  topmost Vias are those of the trail, the last node first, the caller's as the
  first hop has marked it (`ViaPath`; nothing is said of the copies below them).
  It has at most one Record-Route (`RecordsOf`): that of the last proxy that has
  the call, for its empty line cuts off those written before it, or none when
  there was no Content-Length to write it before. The other headers are still
  there when they stood in front of what was cut (`Remains`), and the Routes are
  those that the node it is at expects (`AmongProxies`, `AmongServers`): among
  proxies, the caller's at the first one and none after it.
- `AnswerInv` and `AnsweredInv`: the answer has as many of these Vias as it has
  nodes to go, and brings the callee's Record-Route to the caller; `routeSet` is
  that one proxy or nobody (`RouteSetOf`).
- `DialogInv`: a request within the dialog is on its way to the one proxy of the
  route set, as its sender wrote it, or behind that proxy and without a Route,
  readable if its Route stood behind its other headers; without a route set it
  goes from end to end.

From these the theorems follow by arithmetic on positions. Most of the work is
below: what `Forwarded`, `AnswerForwarded` and `OwnAnswer` make of the lines of one
name. `LinesOf` is a filter, and the library has no facts about filters; the first
sections prove that a sequence that is joined from pieces (`FlattenSeq`) is what
its recursive definition says, and that `LinesOf` and `Values` go through
concatenation. Then the list of changes (`ModifyList`) is followed insertion by
insertion: it stays in the order of the places, so that the deletion of the top Via
comes first and each other change stands where its header is. Last the copying (`Edited`),
change by change, for what it has written so far and from where it goes on, and,
once an empty line was written, that no header comes after it (`IsEnded`). The
lists and the copy are recursive functions, whose values at each number follow
by `SetInduction`.

Model-checked only is what is about liveness: `Released`, `SetupEnds`,
`WaitersTold`, `RowsGo`, and the fairness of `KeepsPromise`, which are out of the
prover's reach. Every other property of the passing runs is also a theorem.

## Where the code and its comments disagree

Three are runs (kind and quotation in `PROJECT.json`):

1. A session that is closing is not always freed at the end of its last call
   (`scscfSession.c:1137` says "the removal of proxy will notify to free the
   session"): when the end of a call is what closes it, that call's proxy stays
   in the list, and nobody takes it out.
2. A request makes more hops than its Max-Forwards allows (`sipTUHelper.c:115`,
   "decrease Max-Forwarded by 1"): it is decremented twice at each hop, so that 1
   becomes 2^32-1, and the refusal of 0 is overwritten.
3. A proxy takes away more than the top Via and Route (`proxyHelper.c:88`, "add top
   via, remove top Route"). It ends its Record-Route with a line break of its own
   (`proxyHelper.c:73`), and `sipTUHelper.c:1061` adds another: an empty line,
   which ends the headers (`sipDecode.c:150-155`). See under Messages below.

Others were met while modelling; they are in the models as the code has them:

- The non-INVITE server sets its transport to UDP after each response, so that
  a second one does not go over the request's connection
  (`transportIntf.h:73` has responses use it).
- Servers do not take the transaction from a report of the connection manager
  (`sipTransNoInviteServer.c:44-62`, `sipTransInviteServer.c:42-58`): such
  reports are dropped, and a final response of a non-INVITE server that had to
  wait for a connection is never sent and nothing releases the transaction.
- A final response that is acknowledged over TCP is followed by a transaction
  error (`sipTransInviteClient.c:299-303`), and the ACK may go by another
  transport than its INVITE; `sipTransInviteClient.c:648`, "shall never happen",
  is passed by each 2xx.
- A call that is rejected at once can no longer be found when its ACK comes
  (`callProxy.c:318` expects that only when memory runs out), and its timer WaitAck deletes a hash
  element that is gone.
- No timer bounds the state BYE of a call; a BYE that is refused stays there.
- A second message to a peer that is being connected to is written at once and
  fails, although `transportAppMain.c:619` would add it to the users: the
  descriptor it looks at is set as soon as there is a socket.
- Writes by descriptor, and responses, do not count as use of a connection
  (`tcm.h:46`), which is then closed as idle; a connection that was up at once
  has no keep-alive timer.
- The socket of a connect that fails at once is not closed
  (`transportLib.c:93`).
- Nothing puts a peer into quarantine: `tpTcmUpdateConn` is only called for
  connections that came about.
- A failed response that is reported after its REGISTER was done leaves
  `isRspFailed`, a "temporary state" (`sipRegistrar.h:39`), set for the next one,
  which is then answered 200 and takes no effect. After an entry was deleted for
  a failed response, the flag is written all the same (`sipRegistrar.c:363`).
- Which handler a transaction error reaches is decided by `reqCode`
  (`masMgr.c:60`), which is not set for errors, so that one of a REGISTER may reach
  the SMS server and the reverse.
- A delivery keeps the address of a registrar's entry longer
  (64*T1 = 32 s) than the entry may last (`sipRegistrar.h:19`, 12 s).
- A stored message is delivered once more while it is under way, by the poll and
  by each registration of its user.
- The INVITE server frees its transaction once for each timer that is running
  when it terminates (`sipTransInviteServer.c:620-638`), and timer I frees it
  before (508), while `sipTransMgr.c:630` leaves that to the hash.
- An ACK for a failure may have to wait for a new connection
  (`sipTransInviteClient.c:279` says "shall not occur"): an INVITE that left at
  once over a connection keeps no descriptor. Then the timers are stopped and
  the transaction stays.
- A TU that forces the termination of an INVITE client need not get it
  (`sipTransIntf.h:27`, "forcefully terminate a transaction"): a case label that
  lacks its space (`sipTransInviteClient.c:47`) makes the dispatcher read the
  state from the TU's message.
- Responses to requests within a call that is being set up are not "simply"
  forwarded (`callProxy.c:599`), since the list of pairs refuses a second one.
- A transaction that is sent from within the callback of a failed connection is
  told that its own has failed (`transportTcm.c:380`, 400).
- A message that was answered 202 is lost when it is forwarded and nobody
  answers, or the transport fails (`masSMS.c:374`): it is stored when it is
  rejected only.

S-CSCF registration:

- `scscfRegistrar.c:1030` says a session's SAA is rejected when a block was
  created meanwhile; 1034 makes the hash lead to the session's block instead. Its
  first reference is never given back, and its user, called before registering,
  stays NOT_REGISTERED: a later REGISTER is answered 200 and has no effect.
- The block of a user who deregistered or expired stays REGISTERED until the HSS
  has answered and its third parties are told, so that a REGISTER in between is answered 200 without
  the HSS and never expires. A second REGISTER while the first SAR is out is
  answered 200 as well.
- When the last server is one that the session may go on without, and it fails at
  once, the address NULL is used (781-783): `Restart`.
- A provisional response of a server is taken for a failure; the list of servers
  only grows; a block may be freed with its SAR or DNS query open.

S-CSCF session:

- Every request within the dialog is answered 400 and closes the session; the
  branch that looks for its proxy (`getMatchingProxy`) is not reachable.
- A criterion in conjunctive normal form is met when a group of it fails
  (`scscfIfc.c:243-268`; the comment has "all conditions meet").
- After the SAA, `userRegState` stays what it was. The half of the called user
  drops the statuses of what it starts, and leaves the call of a user who is just
  registering unanswered; it does not look at barring.
- A call that could not be forwarded lives on with the address of its session;
  one that ends frees the request that the session uses again.
- Towards the user and the breakout, a registration is passed for a session.
- LIR failures are ignored, and `icscf_decodeLia` never says that a Result-Code
  was there. An SAA, LIA or DNS answer is taken in whatever state it finds.
- The states TO_LOCAL and TO_GEO do nothing. An initial request other than INVITE
  is never forwarded, and its session stays.

Destination manager:

- A new answer adds a record and keeps the old one (lines 12-14 of the file say
  it is destroyed), and failures and kept answers use the first: after a
  refresh, a failure quarantines a destination that is not used any more. A
  quarantine therefore outlasts the answer in the code and not in the comment;
  `QuarantineLasts` takes no side: it leaves out the step of an answer that DNS
  gave anew for the name, and holds of kept answers, of those for other names and of
  everything else.
- The walk over weights counts quarantined destinations and may return one (line
  8 says they are blocked); `BestPriority` is what remains true.
- `isQuarantined` and `qTimerId` of a destination are not set.
- With NAPTR, ports are stored in network order and compared in host order, so
  that a destination is never found again. With SRV, the address is read from the
  SRV record. A name of the configuration that is not there is put into the last
  record. The keep-alive timer frees its record twice.

Messages (`SipMessage`, `MessagePath`):

- All received Vias are encoded anew while only the top one is deleted from the
  copied headers: the Vias below double at each hop. `AnswerRetraces` shows that
  answers still find their way.
- The empty line behind a proxy's Record-Route is written where the copy stands,
  which is behind the last deletion (the top Route's, or else the top Via's), when
  the message has a Content-Length or a Record-Route. What comes after it is body
  from there on: the other headers, with them Max-Forwards and Content-Length, the
  further Routes and the older Record-Routes. `OthersStay` is violated so. Without either
  header the addition goes behind the body, and the headers stay whole. What remains true:
  Vias stand in front (`AnswerRetraces`); a request that can be read has no
  Route of another (`TopRouteIsOwn`); at most the last proxy is heard of, and requests
  within the dialog go by it (`InDialogOnPath`); and calls get through
  under the condition `KeepsHeaders`, without a Content-Length or with all other
  headers in front of the one Route and one proxy on the way (`GetsThrough`).
  A node to which a message comes without Call-ID is taken to lose it: the code
  reads the missing header through a null address.
- When the first value of a Route line with several values is to be deleted, the
  copy goes on from within the Via line, and the message cannot be read
  (`CannotRead`).
- Several additions of one header come out in reverse order, though
  `sipTUHelper.c:40` has "will maintain"; the S-CSCF's two Routes rely on the
  reversal.
- A proxy takes off the top Route without a look at whose it is. `TopRouteIsOwn`
  shows that, on the paths of this code, it is the proxy's own.
- An initial INVITE with two or more Routes goes to the address zero. A raw request URI is
  written without its end of line, and a next hop of the configuration has an
  empty user.
- The port a response goes to is the Via's and never the one of `rport`. A
  proxy's own answer goes to the Via as received, so that a caller behind a NAT
  does not get it.
- In a call with a P-Asserted-Identity, the target is looked up by the identity
  of the caller.
- `cscf_getEnumQName` (`cscfHelper.c:359`) includes the first character that is
  no digit, and does not see one at index 0.

## What is not modelled

- *I/O*: sockets and epoll beyond what `Tcm` has of them, the framing of
  messages (that of a message over TCP whose Content-Length was cut off included), UDP ports, the pipes between threads, DIAMETER connections, and
  files. Configuration is read once and has no state after that.
- *The I-CSCF.* It cannot run: `icscfReg_init` is never called (`cscfMgr.c:14` has
  the call in a comment), no request is dispatched to it, and what its first
  action does is to free the block that the answer of the HSS is to come back to.
  A model would be one of code that nobody has executed. The decoding of the LIA,
  which the S-CSCF uses, is in `ScscfSession`.
- *Destinations*: a list of messages is modelled when its highest answer is a NAPTR one
  that has the SRV records but no address, with the addresses in front of it. A list of
  another make is left out: its highest answer is read as a single one first
  (`sipTUDestMgr.c:146`), and each SRV answer after that gives the record its own
  name (576, 432). So is an SRV answer with an additional record that is no address, at which
  the loop at 460-463 never ends.
- *Text*: the grammar of headers and URIs. No line has several Vias. `SipMessage` has messages as lines and
  values; the other models have them as records of what their handlers look at.
- *Memory*: a use after release is recorded (`frees`, `wild`, the state ENDED) and
  its effects are not pursued; in the registration and the session, what comes
  for something that was freed has no effect.
- *Libraries* outside `src` (timer wheel, hash, lists, DNS, XML): as the code
  uses them.
- CANCEL with another number than its INVITE's, and the application's callbacks,
  in the proxy; direct sends in the transaction manager; responses over the
  connections of the COM thread in the pool; charging, and the responses to the
  UE in the registration; MAR (compiled out), PPR and RTR (which have no
  handlers).
- Several application threads with one registrar (`masRegHash` has no lock of its
  own), users whose hash keys are equal, and memory that runs out.

## The plan

Done: the transaction layer, the exchange, the call through the proxy, the pool,
the registrar with the SMS server, the S-CSCF's registration and session with
its filter criteria, the destination manager, the rewriting of messages and
their paths; the proofs of all of them.

What could follow, in this order:

1. A session and a registration composed: a session's SAA makes a block that a
   REGISTER finds, here each with the other's steps as its environment.
2. The branches of the codec that have offsets (multi-line headers, URIs), as
   functions against reference definitions.
