-------------------------------- MODULE Tcm --------------------------------
(***************************************************************************)
(* The pool of TCP connections (transportTcm.c) as the SIP transactions of *)
(* one application thread use it (transportAppMain.c), next to the COM     *)
(* thread (transportComMain.c), which accepts connections into the pool    *)
(* that the two share.                                                     *)
(*                                                                         *)
(* What the application thread does in one go is one action, except where  *)
(* something may come between: a transaction that is called back may send  *)
(* before the next one is called, and the COM thread may change a slot of  *)
(* the shared pool as soon as the application thread has left the lock     *)
(* under which it found it.  A user is a transaction that sends once by    *)
(* way of the pool.                                                        *)
(*                                                                         *)
(* Left out: DIAMETER, the buffers of received messages, responses over    *)
(* the connections of the COM thread, events of sockets that belong to no  *)
(* slot, and the quarantine, which is never filled: only tpTcmUpdateConn   *)
(* would do that, and it is never called for a failure.                    *)
(***************************************************************************)
EXTENDS Naturals, Sequences

CONSTANTS
    Users, Peers,
    MaxFd,      \* bound on the sockets open at a time
    NApp, NCom  \* SIP_CONFIG_TRANSPORT_MAX_TCP_PEER_NUM, for each pool

ASSUME SizesAssumption == {MaxFd, NApp, NCom} \subseteq Nat \ {0}

VARIABLES
    app,      \* gAppTCM, the pool of the application thread
    com,      \* gSharedTCM, the pool the COM thread accepts into
    sock,     \* the sockets of the process, as the kernel has them
    user,     \* the transactions: how far their sending has come
    loop,     \* the loop of sipTpNotifyTcpConnUser, while it runs
    pending,  \* what the application thread does with a slot of com
    strayed   \* whether a message went by the own pool to another peer

vars == <<app, com, sock, user, loop, pending, strayed>>

Fds      == 1..MaxFd
NoFd     == 0
AppSlots == 1..NApp
ComSlots == 1..NCom
None     == "none"

\* ka is "never" for a connection that was up at once: tpTcmUpdateConn, which
\* starts the keep-alive timer, refuses it.
Slot == [using : BOOLEAN, done : BOOLEAN, fd : Fds \cup {NoFd}, peer : Peers \cup {None},
         users : Seq(Users), used : BOOLEAN, ka : {"none", "runs", "never"}]

FreeSlot == [using |-> FALSE, done |-> FALSE, fd |-> NoFd, peer |-> None,
             users |-> <<>>, used |-> FALSE, ka |-> "none"]

Closed == [phase |-> "free", peer |-> None]
NoLoop == [slot |-> 0, fd |-> NoFd, ok |-> FALSE, next |-> 1, retry |-> FALSE]
Nobody == [step |-> "none"]

Init == /\ app = [s \in AppSlots |-> FreeSlot]
        /\ com = [s \in ComSlots |-> FreeSlot]
        /\ sock = [f \in Fds |-> Closed]
        /\ user = [u \in Users |-> [state |-> "idle", peer |-> None, fd |-> NoFd]]
        /\ loop = NoLoop /\ pending = Nobody
        /\ strayed = FALSE

-----------------------------------------------------------------------------
Lowest(S) == CHOOSE n \in S : \A m \in S : n <= m
Unused(pool) == {s \in DOMAIN pool : ~pool[s].using}
FreeFds == {f \in Fds : sock[f].phase = "free"}

\* The descriptor the kernel gives out next, if there is one.
NextFd == {f \in FreeFds : \A g \in FreeFds : f <= g}

\* Fault of Matching: any slot in use will do.
MatchingAny(pool, p) == {s \in DOMAIN pool : pool[s].using}

\* The slots tpGetTcm4SendMsg takes for a message to p.
Matching(pool, p) == {s \in DOMAIN pool : pool[s].using /\ pool[s].peer = p}

\* The application thread is in its event loop.
AtLoop == loop = NoLoop /\ pending = Nobody

\* A write to a socket the peer has closed is only later found to be in vain.
Writable(f) == f # NoFd /\ sock[f].phase \in {"open", "closed"}

Becomes(u, p, state) == user' = [user EXCEPT ![u] = [state |-> state, peer |-> p, fd |-> NoFd]]
Ends(u, state)       == Becomes(u, None, state)
Opens(f, p, phase)   == sock' = [sock EXCEPT ![f] = [phase |-> phase, peer |-> p]]

\* A message of u is written to slot s of the own pool, whether or not that is
\* connected, and counted as a use.
WriteOn(u, p, s) ==
    /\ \/ /\ Writable(app[s].fd)
          /\ app' = [app EXCEPT ![s].used = TRUE]
          /\ Ends(u, "sent")
          /\ strayed' = (strayed \/ sock[app[s].fd].peer # p)
       \/ Ends(u, "failed") /\ UNCHANGED <<app, strayed>>
    /\ UNCHANGED <<sock, pending>>

(***************************************************************************)
(* tpCreateTcp for the slot with the record r, if it does not have to      *)
(* wait, and what follows: no socket can be had, or the connection is      *)
(* refused at once and the socket not closed, and the slot is released; or *)
(* it is up at once, and the message is written.                           *)
(***************************************************************************)
Up(r, f, sent) == [r EXCEPT !.fd = f, !.done = TRUE, !.ka = "never", !.used = sent]
AtOnce(r) == {FreeSlot} \cup {Up(r, f, sent) : f \in NextFd, sent \in BOOLEAN}

\* The slot has become new.
DoneAtOnce(u, p, new) ==
    \/ /\ new = FreeSlot
       /\ Ends(u, "failed")
       /\ UNCHANGED sock \/ \E f \in NextFd : Opens(f, p, "refused")
    \/ /\ new # FreeSlot
       /\ Ends(u, IF new.used THEN "sent" ELSE "failed")
       /\ Opens(new.fd, p, "open")

\* The connection is on its way, and u is to be told.  A slot that was freed only
\* just before (FailUsers) still has the users it had.
Create(u, p, s) ==
    LET r == [app[s] EXCEPT !.using = TRUE, !.peer = p]
    IN  /\ \/ \E new \in AtOnce(r) : app' = [app EXCEPT ![s] = new] /\ DoneAtOnce(u, p, new)
           \/ \E f \in NextFd :
                 /\ app' = [app EXCEPT ![s] = [r EXCEPT !.fd = f, !.users = Append(@, u)]]
                 /\ Becomes(u, p, "waiting")
                 /\ Opens(f, p, "connecting")
        /\ UNCHANGED <<pending, strayed>>

\* sipTpClientSendTcp.  A transaction sends on its own account, or its TU sends
\* it because another one has just failed.
Send(u, p) ==
    /\ user[u].state = "idle"
    /\ pending = Nobody /\ (loop = NoLoop \/ loop.retry)
    /\ loop' = [loop EXCEPT !.retry = FALSE]
    /\ \/ Matching(app, p) # {} /\ WriteOn(u, p, Lowest(Matching(app, p)))
       \/ /\ Matching(app, p) = {} /\ Matching(com, p) # {}
          /\ pending' = [step |-> "found", user |-> u, peer |-> p,
                         slot |-> Lowest(Matching(com, p))]
          /\ UNCHANGED <<app, sock, user, strayed>>
       \/ /\ Matching(app, p) = {} /\ Matching(com, p) = {}
          /\ \/ Unused(app) # {} /\ Create(u, p, Lowest(Unused(app)))
             \/ /\ Unused(app) = {} /\ Ends(u, "failed")
                /\ UNCHANGED <<app, sock, pending, strayed>>
    /\ UNCHANGED com

-----------------------------------------------------------------------------
\* With a slot of the shared pool in hand, but no longer the lock.
SharedFound ==
    /\ pending.step = "found"
    /\ pending' = [pending EXCEPT !.step = IF com[pending.slot].fd = NoFd THEN "create" ELSE "write"]
    /\ UNCHANGED <<app, com, sock, user, loop, strayed>>

SharedWrite ==
    LET f == com[pending.slot].fd IN
    /\ pending.step = "write"
    /\ \/ /\ Writable(f)
          /\ com' = [com EXCEPT ![pending.slot].used = TRUE]
          /\ Ends(pending.user, "sent")
       \/ Ends(pending.user, "failed") /\ UNCHANGED com
    /\ pending' = Nobody
    /\ UNCHANGED <<app, sock, loop, strayed>>

\* The slot was freed meanwhile.  Its new connection is one of this thread, which
\* looks for it in its own pool only and never tells u.
SharedCreate ==
    /\ pending.step = "create"
    /\ \/ \E new \in AtOnce(com[pending.slot]) :
             /\ com' = [com EXCEPT ![pending.slot] = new]
             /\ DoneAtOnce(pending.user, pending.peer, new)
       \/ \E f \in NextFd :
             /\ com' = [com EXCEPT ![pending.slot].fd = f, ![pending.slot].done = FALSE]
             /\ Ends(pending.user, "stranded")
             /\ Opens(f, pending.peer, "connecting")
    /\ pending' = Nobody
    /\ UNCHANGED <<app, loop, strayed>>

\* sipTpClient_send: a transaction that was given its connection's descriptor
\* writes to that, and does not count as a user of the connection.
WriteAgain(u) ==
    /\ user[u].state = "ready" /\ AtLoop
    /\ \/ Writable(user[u].fd) /\ Ends(u, "sent")
       \/ Ends(u, "failed")
    /\ UNCHANGED <<app, com, sock, loop, pending, strayed>>

\* A transaction that waits gives up (timers B and F) and is freed, but stays in
\* the list of users.
GiveUp(u) ==
    /\ user[u].state \in {"waiting", "stranded"} /\ AtLoop
    /\ Ends(u, "gone")
    /\ UNCHANGED <<app, com, sock, loop, pending, strayed>>

-----------------------------------------------------------------------------
\* Fault of Emptied: the slot keeps what it had.
EmptiedLater(pool, s) == pool

\* The pool without the connection of slot s, and the sockets without socket f.
Emptied(pool, s) == [pool EXCEPT ![s] = FreeSlot]
Without(f) == [sock EXCEPT ![f] = Closed]

\* Fault of FailUsers: the users are not told.
FailNobody(s) ==
    /\ app' = Emptied(app, s) /\ sock' = Without(app[s].fd)
    /\ UNCHANGED loop

\* tpTcmCloseTcpConn of a connection that did not come about: the slot is marked
\* unused before its users are called.
FailUsers(s) ==
    /\ app' = [app EXCEPT ![s].using = FALSE]
    /\ loop' = [NoLoop EXCEPT !.slot = s, !.fd = app[s].fd]
    /\ UNCHANGED sock

\* What the event loop does when it is told of the socket of slot s.
OnEvent(s) ==
    LET phase == sock[app[s].fd].phase IN
    /\ app[s].using /\ AtLoop
    /\ \/ /\ phase \in {"open", "closed"} /\ ~app[s].done
          /\ app' = [app EXCEPT ![s].done = TRUE]
          /\ loop' = [NoLoop EXCEPT !.slot = s, !.fd = app[s].fd, !.ok = TRUE]
          /\ UNCHANGED sock
       \/ phase \in {"refused", "closed"} /\ ~app[s].done /\ FailUsers(s)
       \/ /\ phase = "closed" /\ app[s].done
          /\ app' = Emptied(app, s) /\ sock' = Without(app[s].fd)
          /\ UNCHANGED loop
       \/ /\ phase = "open" /\ app[s].done /\ ~app[s].used
          /\ app' = [app EXCEPT ![s].used = TRUE]
          /\ UNCHANGED <<loop, sock>>
    /\ UNCHANGED <<com, user, pending, strayed>>

\* Fault of More: the list is left after its first user.
FirstOnly == loop.next = 1

\* The list of users as it is by now has one that was not called.
More   == loop.next <= Len(app[loop.slot].users)
Called == app[loop.slot].users[loop.next]

\* A user is given the descriptor and writes its request to it ...
CallReady ==
    /\ user' = [user EXCEPT ![Called].state = "ready", ![Called].fd = loop.fd]
    /\ loop' = [loop EXCEPT !.next = @ + 1]

\* ... or fails, and its TU may have something else to send.
CallFailed ==
    /\ Ends(Called, "failed")
    /\ loop' = [loop EXCEPT !.next = @ + 1, !.retry = TRUE]

\* sipTpNotifyTcpConnUser calls the next user.  One that has been freed is called
\* all the same.
CallUser ==
    /\ loop # NoLoop /\ pending = Nobody /\ More
    /\ \/ user[Called].state = "waiting" /\ loop.ok /\ CallReady
       \/ user[Called].state = "waiting" /\ CallFailed
       \/ user[Called].state # "waiting" /\ loop' = [loop EXCEPT !.next = @ + 1] /\ UNCHANGED user
    /\ UNCHANGED <<app, com, sock, pending, strayed>>

\* Every user was called.  The slot becomes that of a connection, whose mark of
\* use is whatever the list left in its place, or it is emptied.
LoopEnds ==
    /\ loop # NoLoop /\ pending = Nobody /\ ~More
    /\ IF loop.ok
       THEN /\ \E used \in BOOLEAN :
                  app' = [app EXCEPT ![loop.slot].users = <<>>, ![loop.slot].ka = "runs",
                                     ![loop.slot].used = used]
            /\ UNCHANGED sock
       ELSE app' = Emptied(app, loop.slot) /\ sock' = Without(loop.fd)
    /\ loop' = NoLoop
    /\ UNCHANGED <<com, user, pending, strayed>>

\* sipTpOnKATimeout, for a slot of the own pool.
KATimeout(s) ==
    /\ app[s].ka = "runs" /\ AtLoop
    /\ IF app[s].used
       THEN app' = [app EXCEPT ![s].used = FALSE] /\ UNCHANGED sock
       ELSE app' = Emptied(app, s) /\ sock' = Without(app[s].fd)
    /\ UNCHANGED <<com, user, loop, pending, strayed>>

-----------------------------------------------------------------------------
\* The COM thread.  A connection that finds no slot is closed again.
Accept(p) ==
    /\ Unused(com) # {}
    /\ \E f \in NextFd :
          /\ com' = [com EXCEPT ![Lowest(Unused(com))] =
                        [FreeSlot EXCEPT !.using = TRUE, !.done = TRUE, !.fd = f, !.peer = p,
                                         !.ka = "runs"]]
          /\ Opens(f, p, "open")
    /\ UNCHANGED <<app, user, loop, pending, strayed>>

\* A request has come.
ComReceive(s) ==
    /\ com[s].using /\ Writable(com[s].fd)
    /\ com' = [com EXCEPT ![s].used = TRUE]
    /\ UNCHANGED <<app, sock, user, loop, pending, strayed>>

\* The peer has closed the connection, or it was idle for too long.
ComCloses(s) ==
    /\ com[s].using /\ com[s].fd # NoFd
    /\ \/ sock[com[s].fd].phase = "closed"
       \/ com[s].ka = "runs" /\ ~com[s].used
    /\ com' = Emptied(com, s) /\ sock' = Without(com[s].fd)
    /\ UNCHANGED <<app, user, loop, pending, strayed>>

ComKAUsed(s) ==
    /\ com[s].ka = "runs" /\ com[s].used
    /\ com' = [com EXCEPT ![s].used = FALSE]
    /\ UNCHANGED <<app, sock, user, loop, pending, strayed>>

\* The kernel and the peers.
Verdict(f) ==
    /\ sock[f].phase = "connecting"
    /\ \E phase \in {"open", "refused"} : sock' = [sock EXCEPT ![f].phase = phase]
    /\ UNCHANGED <<app, com, user, loop, pending, strayed>>

PeerCloses(f) ==
    /\ sock[f].phase = "open"
    /\ sock' = [sock EXCEPT ![f].phase = "closed"]
    /\ UNCHANGED <<app, com, user, loop, pending, strayed>>

-----------------------------------------------------------------------------
\* What the application thread has begun.
Continue == SharedFound \/ SharedWrite \/ SharedCreate \/ CallUser \/ LoopEnds

Next ==
    \/ \E u \in Users : (\E p \in Peers : Send(u, p)) \/ WriteAgain(u) \/ GiveUp(u)
    \/ Continue
    \/ \E s \in AppSlots : OnEvent(s) \/ KATimeout(s)
    \/ \E p \in Peers : Accept(p)
    \/ \E s \in ComSlots : ComReceive(s) \/ ComCloses(s) \/ ComKAUsed(s)
    \/ \E f \in Fds : Verdict(f) \/ PeerCloses(f)

\* The thread goes on with what it has begun, its loop comes round to every socket
\* again and again, and the kernel decides on every connection (it gives up one
\* whose peer does not answer).
Spec == /\ Init /\ [][Next]_vars
        /\ WF_vars(Continue)
        /\ \A s \in AppSlots : SF_vars(OnEvent(s))
        /\ \A f \in Fds : WF_vars(Verdict(f))

-----------------------------------------------------------------------------
UserStates == {"idle", "waiting", "stranded", "sent", "ready", "failed", "gone"}

\* Every variable keeps its type; a user that is ready has a descriptor.
TypeOK ==
    /\ app \in [AppSlots -> Slot] /\ com \in [ComSlots -> Slot]
    /\ sock \in [Fds -> [phase : {"free", "connecting", "open", "refused", "closed"},
                         peer : Peers \cup {None}]]
    /\ user \in [Users -> [state : UserStates, peer : Peers \cup {None}, fd : Fds \cup {NoFd}]]
    /\ \A u \in Users : user[u].state = "ready" => user[u].fd \in Fds
    /\ loop.slot \in 0..NApp /\ loop.fd \in Fds \cup {NoFd}
    /\ strayed \in BOOLEAN

\* The types, and: whatever was closed, refused, timed out or reused, a slot of the thread's own
\* pool that is in use has a socket that leads to its peer, and no other slot of
\* that pool has that socket; and a connection that is up has its timer.
OwnSlots ==
    /\ TypeOK
    /\ \A s \in AppSlots : app[s].using =>
          /\ app[s].fd # NoFd /\ sock[app[s].fd].phase # "free"
          /\ sock[app[s].fd].peer = app[s].peer
          /\ app[s].done /\ loop.slot # s => app[s].ka # "none"
    /\ \A s, t \in AppSlots : app[s].using /\ app[t].using /\ app[s].fd = app[t].fd => s = t

\* Every user that was told to wait is on the list of one slot of its thread whose
\* users have yet to be called, also if it came while they were being called.
WaitersListed ==
    \A u \in Users : user[u].state = "waiting" =>
        \E s \in AppSlots :
           /\ \E i \in DOMAIN app[s].users : app[s].users[i] = u /\ (loop.slot = s => i >= loop.next)
           /\ loop.slot = s \/ (app[s].using /\ ~app[s].done)

\* A message that is sent by way of the own pool never goes to another peer.
OwnReachesPeer == ~strayed

\* A user that waits is told, unless it gives up before.
WaitersTold == \A u \in Users : user[u].state = "waiting" ~> user[u].state # "waiting"
=============================================================================
