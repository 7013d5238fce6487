----------------------------- MODULE Tcm_proofs -----------------------------
(***************************************************************************)
(* The pool of connections, for every number of slots, sockets, peers and  *)
(* transactions: the slots of the application thread lead where they say,  *)
(* and no transaction that waits for a connection is forgotten.            *)
(***************************************************************************)
EXTENDS Tcm, WellFoundedInduction, TLAPS

Phases == {"free", "connecting", "open", "refused", "closed"}

SockType == [phase : Phases, peer : Peers \cup {None}]
UserType == [state : UserStates, peer : Peers \cup {None}, fd : Fds \cup {NoFd}]
LoopType == [slot : 0..NApp, fd : Fds \cup {NoFd}, ok : BOOLEAN, next : Nat \ {0}, retry : BOOLEAN]
PendType == [step : {"found", "write", "create"}, user : Users, peer : Peers, slot : ComSlots]

\* The types, also of what TypeOK leaves out.
Types ==
    /\ app \in [AppSlots -> Slot] /\ com \in [ComSlots -> Slot]
    /\ sock \in [Fds -> SockType]
    /\ user \in [Users -> UserType]
    /\ \A u \in Users : user[u].state = "ready" => user[u].fd \in Fds
    /\ loop \in LoopType
    /\ pending \in {Nobody} \cup PendType
    /\ strayed = FALSE

\* What OwnSlots says beyond the types.
Own ==
    /\ \A s \in AppSlots : app[s].using =>
          /\ app[s].fd # NoFd /\ sock[app[s].fd].phase # "free"
          /\ sock[app[s].fd].peer = app[s].peer
          /\ app[s].done /\ loop.slot # s => app[s].ka # "none"
    /\ \A s, t \in AppSlots : app[s].using /\ app[t].using /\ app[s].fd = app[t].fd => s = t

\* A slot that is not in use is as good as new, unless its users are being told
\* that it failed; the timer runs for connections that are up.
Unoccupied ==
    /\ \A s \in AppSlots : ~app[s].using =>
          ~app[s].done /\ (loop.slot # s => app[s] = FreeSlot)
    /\ \A s \in AppSlots : ~app[s].done => app[s].ka = "none"

\* The sockets of the COM thread's pool are nobody else's.
Apart ==
    \A c \in ComSlots : com[c].fd # NoFd =>
       /\ sock[com[c].fd].phase # "free"
       /\ \A d \in ComSlots : com[d].fd = com[c].fd => d = c
       /\ \A s \in AppSlots : app[s].using => app[s].fd # com[c].fd

\* The users are called of a slot that is up, or of a socket that is to be closed
\* and is nobody's by now.
Calling ==
    /\ loop = NoLoop \/ (loop.slot \in AppSlots /\ loop.fd \in Fds)
    /\ \A s \in AppSlots : loop.slot = s /\ loop.ok =>
          app[s].using /\ app[s].done /\ app[s].fd = loop.fd
    /\ loop # NoLoop /\ ~loop.ok =>
          /\ sock[loop.fd].phase # "free"
          /\ \A s \in AppSlots : app[s].using => app[s].fd # loop.fd
          /\ \A c \in ComSlots : com[c].fd # loop.fd

\* At most one user of a slot has yet to be called, and none when one that was
\* called may send again: the list of a slot grows only while it is walked.
OneLeft ==
    /\ \A s \in AppSlots :
          /\ app[s].using /\ ~app[s].done /\ loop.slot # s => Len(app[s].users) <= 1
          /\ loop.slot = s => Len(app[s].users) <= loop.next
          /\ loop.slot = s /\ loop.retry => Len(app[s].users) = loop.next - 1
    /\ loop.retry => loop # NoLoop

IInv == Types /\ Own /\ Unoccupied /\ Apart /\ Calling /\ OneLeft /\ WaitersListed

-----------------------------------------------------------------------------
\* The first of some slots is one of them.
LEMMA LowestIsOne ==
    ASSUME NEW S \in SUBSET Nat, S # {}
    PROVE  Lowest(S) \in S
<1> DEFINE R == OpToRel(<, Nat)
<1>1. IsWellFoundedOn(R, Nat)
  BY NatLessThanWellFounded
<1> HIDE DEF R
<1>2. PICK n \in S : \A m \in S : ~(<<m, n>> \in R)
  BY <1>1, WFMin
<1>3. \A m \in S : n <= m
  <2> TAKE m \in S
  <2>1. ~(m < n)
    BY <1>2 DEF R, OpToRel
  <2> QED
    BY <2>1
<1> QED
  BY <1>3 DEF Lowest

LEMMA Chosen ==
    ASSUME IInv
    PROVE  /\ Unused(app) # {} => /\ Lowest(Unused(app)) \in AppSlots
                                  /\ ~app[Lowest(Unused(app))].using
           /\ Unused(com) # {} => /\ Lowest(Unused(com)) \in ComSlots
                                  /\ ~com[Lowest(Unused(com))].using
           /\ \A p \in Peers : Matching(app, p) # {} =>
                 /\ Lowest(Matching(app, p)) \in AppSlots
                 /\ app[Lowest(Matching(app, p))].using
                 /\ app[Lowest(Matching(app, p))].peer = p
           /\ \A p \in Peers : Matching(com, p) # {} => Lowest(Matching(com, p)) \in ComSlots
<1>1. DOMAIN app = AppSlots /\ DOMAIN com = ComSlots /\ AppSlots \subseteq Nat /\ ComSlots \subseteq Nat
  BY SizesAssumption DEF IInv, Types, AppSlots, ComSlots
<1>2. Unused(app) \in SUBSET Nat /\ Unused(com) \in SUBSET Nat
  BY <1>1 DEF Unused
<1>3. \A p : Matching(app, p) \in SUBSET Nat /\ Matching(com, p) \in SUBSET Nat
  BY <1>1 DEF Matching
<1>4. Unused(app) # {} => Lowest(Unused(app)) \in Unused(app)
  BY <1>2, LowestIsOne
<1>5. Unused(com) # {} => Lowest(Unused(com)) \in Unused(com)
  BY <1>2, LowestIsOne
<1>6. \A p : Matching(app, p) # {} => Lowest(Matching(app, p)) \in Matching(app, p)
  BY <1>3, LowestIsOne
<1>7. \A p : Matching(com, p) # {} => Lowest(Matching(com, p)) \in Matching(com, p)
  BY <1>3, LowestIsOne
<1>8. \A S : S \in Unused(app) => S \in AppSlots /\ ~app[S].using
  BY <1>1 DEF Unused
<1>9. \A S : S \in Unused(com) => S \in ComSlots /\ ~com[S].using
  BY <1>1 DEF Unused
<1>10. \A S, p : S \in Matching(app, p) => S \in AppSlots /\ app[S].using /\ app[S].peer = p
  BY <1>1 DEF Matching
<1>11. \A S, p : S \in Matching(com, p) => S \in ComSlots
  BY <1>1 DEF Matching
<1> QED
  BY <1>4, <1>5, <1>6, <1>7, <1>8, <1>9, <1>10, <1>11

LEMMA NextIsFree == ASSUME NEW f \in NextFd PROVE f \in Fds /\ sock[f].phase = "free"
BY DEF NextFd, FreeFds

\* A slot in use or free, and no descriptor is none.
LEMMA Basics ==
    /\ FreeSlot \in Slot /\ ~FreeSlot.using /\ ~FreeSlot.done /\ FreeSlot.ka = "none"
    /\ FreeSlot.fd = NoFd /\ FreeSlot.users = <<>>
    /\ NoFd \notin Fds /\ Closed \in SockType /\ Closed.phase = "free"
    /\ NoLoop \in LoopType /\ NoLoop.slot \notin AppSlots /\ ~NoLoop.retry /\ ~NoLoop.ok
<1> USE SizesAssumption
<1>1. <<>> \in Seq(Users)
  OBVIOUS
<1>2. FreeSlot \in Slot
  BY <1>1 DEF FreeSlot, Slot
<1>3. NoFd \notin Fds
  BY DEF NoFd, Fds
<1>4. NoLoop \in LoopType /\ NoLoop.slot \notin AppSlots
  BY DEF NoLoop, LoopType, AppSlots, NoFd
<1> QED
  BY <1>2, <1>3, <1>4 DEF FreeSlot, Closed, SockType, Phases, NoLoop

LEMMA Initial == Init => IInv
<1> SUFFICES ASSUME Init PROVE IInv
  OBVIOUS
<1>1. /\ \A s \in AppSlots : app[s] = FreeSlot
      /\ \A c \in ComSlots : com[c] = FreeSlot
      /\ loop = NoLoop /\ \A u \in Users : user[u].state = "idle"
  BY DEF Init
<1>2. Types
  <2>1. [state |-> "idle", peer |-> None, fd |-> NoFd] \in UserType
    BY DEF UserType, UserStates
  <2> QED
    BY <2>1, Basics DEF Init, Types
<1>3. Own /\ Unoccupied /\ Apart
  BY <1>1, Basics DEF Own, Unoccupied, Apart
<1>4. Calling /\ OneLeft
  BY <1>1, Basics DEF Calling, OneLeft
<1>5. WaitersListed
  BY <1>1 DEF WaitersListed
<1> QED
  BY <1>2, <1>3, <1>4, <1>5 DEF IInv

-----------------------------------------------------------------------------
LEMMA SameWalk ==
    ASSUME IInv, loop' = loop \/ loop' = [loop EXCEPT !.retry = FALSE]
    PROVE  /\ loop'.slot = loop.slot /\ loop'.fd = loop.fd /\ loop'.ok = loop.ok
           /\ loop'.next = loop.next /\ (loop'.retry => loop.retry)
           /\ loop = NoLoop => loop' = NoLoop
           /\ loop' \in LoopType
<1>1. loop \in LoopType
  BY DEF IInv, Types
<1>2. CASE loop' = loop
  BY <1>1, <1>2
<1>3. CASE loop' = [loop EXCEPT !.retry = FALSE]
  <2>1. /\ loop'.slot = loop.slot /\ loop'.fd = loop.fd /\ loop'.ok = loop.ok
        /\ loop'.next = loop.next /\ ~loop'.retry /\ loop' \in LoopType
    BY <1>1, <1>3 DEF LoopType
  <2>2. ASSUME loop = NoLoop PROVE loop' = NoLoop
    BY <1>3, <2>2 DEF NoLoop
  <2> QED
    BY <2>1, <2>2
<1> QED
  BY <1>2, <1>3

\* Steps that change no more than marks of use, the phases of sockets and the
\* states of users that do not begin to wait.
LEMMA Quiet ==
    ASSUME IInv, Types',
           \A s \in AppSlots : /\ app'[s].using = app[s].using /\ app'[s].done = app[s].done
                               /\ app'[s].fd = app[s].fd /\ app'[s].peer = app[s].peer
                               /\ app'[s].users = app[s].users /\ app'[s].ka = app[s].ka
                               /\ app'[s] = app[s] \/ app[s].using,
           \A c \in ComSlots : com'[c].fd = com[c].fd,
           \A f \in Fds : /\ sock'[f].peer = sock[f].peer
                          /\ sock[f].phase # "free" => sock'[f].phase # "free",
           \A u \in Users : user'[u].state = "waiting" => user[u].state = "waiting",
           loop' = loop \/ loop' = [loop EXCEPT !.retry = FALSE]
    PROVE  IInv'
<1>1. /\ loop'.slot = loop.slot /\ loop'.fd = loop.fd /\ loop'.ok = loop.ok
      /\ loop'.next = loop.next /\ (loop'.retry => loop.retry)
      /\ loop = NoLoop => loop' = NoLoop
  BY SameWalk
<1>2. /\ \A s \in AppSlots : app[s].fd \in Fds \cup {NoFd}
      /\ \A c \in ComSlots : com[c].fd \in Fds \cup {NoFd}
  BY DEF IInv, Types, Slot
<1>3. Own'
  BY <1>1, <1>2 DEF IInv, Own
<1>4. Unoccupied'
  BY <1>1 DEF IInv, Unoccupied
<1>5. Apart'
  BY <1>1, <1>2 DEF IInv, Apart
<1>6. Calling'
  <2>1. loop # NoLoop => loop.fd \in Fds
    BY DEF IInv, Calling
  <2> QED
    BY <1>1, <1>2, <2>1 DEF IInv, Calling
<1>7. OneLeft'
  <2>1. \A s \in AppSlots : Len(app'[s].users) = Len(app[s].users)
    OBVIOUS
  <2>2. loop'.retry => loop' # NoLoop
    BY <1>1, Basics DEF IInv, OneLeft, Calling
  <2> QED
    BY <1>1, <2>1, <2>2 DEF IInv, OneLeft
<1>8. WaitersListed'
  <2> SUFFICES ASSUME NEW u \in Users, user'[u].state = "waiting"
               PROVE  \E s \in AppSlots :
                        /\ \E i \in DOMAIN app'[s].users :
                              app'[s].users[i] = u /\ (loop'.slot = s => i >= loop'.next)
                        /\ loop'.slot = s \/ (app'[s].using /\ ~app'[s].done)
    BY DEF WaitersListed
  <2>1. user[u].state = "waiting"
    OBVIOUS
  <2>2. PICK s \in AppSlots :
           /\ \E i \in DOMAIN app[s].users : app[s].users[i] = u /\ (loop.slot = s => i >= loop.next)
           /\ loop.slot = s \/ (app[s].using /\ ~app[s].done)
    BY <2>1 DEF IInv, WaitersListed
  <2>3. app'[s].users = app[s].users /\ app'[s].using = app[s].using /\ app'[s].done = app[s].done
    OBVIOUS
  <2>4. PICK i \in DOMAIN app[s].users : app[s].users[i] = u /\ (loop.slot = s => i >= loop.next)
    BY <2>2
  <2>5. i \in DOMAIN app'[s].users /\ app'[s].users[i] = u /\ (loop'.slot = s => i >= loop'.next)
    BY <1>1, <2>3, <2>4
  <2>6. loop'.slot = s \/ (app'[s].using /\ ~app'[s].done)
    BY <1>1, <2>2, <2>3
  <2> QED
    BY <2>5, <2>6
<1> QED
  BY <1>3, <1>4, <1>5, <1>6, <1>7, <1>8 DEF IInv

-----------------------------------------------------------------------------
\* Who waits, and is not forgotten, when one slot of the pool changes.
Listed(u, s) ==
    /\ \E i \in DOMAIN app[s].users : app[s].users[i] = u /\ (loop.slot = s => i >= loop.next)
    /\ loop.slot = s \/ (app[s].using /\ ~app[s].done)

LEMMA OthersListed ==
    ASSUME IInv, NEW s \in AppSlots,
           \A t \in AppSlots \ {s} : app'[t] = app[t],
           \/ loop'.slot = loop.slot /\ loop'.next = loop.next
           \/ loop.slot \in {s, 0} /\ loop'.slot \in {s, 0},
           \A u \in Users : user'[u].state = "waiting" =>
              (user[u].state = "waiting" /\ ~Listed(u, s)) \/ Listed(u, s)'
    PROVE  WaitersListed'
<1> SUFFICES ASSUME NEW u \in Users, user'[u].state = "waiting"
             PROVE  \E t \in AppSlots : Listed(u, t)'
  BY DEF WaitersListed, Listed
<1>1. CASE Listed(u, s)'
  BY <1>1
<1>2. CASE user[u].state = "waiting" /\ ~Listed(u, s)
  <2>1. PICK t \in AppSlots : Listed(u, t)
    BY <1>2 DEF IInv, WaitersListed, Listed
  <2>2. t # s /\ t # 0 /\ app'[t] = app[t]
    BY <1>2, <2>1 DEF AppSlots
  <2>3. CASE loop.slot = t
    <3>1. loop'.slot = t /\ loop'.next = loop.next
      BY <1>2, <2>2, <2>3
    <3> QED
      BY <2>1, <2>2, <2>3, <3>1 DEF Listed
  <2>4. CASE loop.slot # t
    <3>1. loop'.slot # t
      BY <2>2, <2>4
    <3> QED
      BY <2>1, <2>2, <2>4, <3>1 DEF Listed
  <2> QED
    BY <2>3, <2>4
<1> QED
  BY <1>1, <1>2

LEMMA UserTypes ==
    ASSUME IInv, NEW u \in Users, NEW p \in Peers \cup {None},
           NEW state \in UserStates \ {"ready"}, Becomes(u, p, state)
    PROVE  /\ user' \in [Users -> UserType]
           /\ \A v \in Users : user'[v].state = "ready" => user'[v].fd \in Fds
           /\ \A v \in Users : v # u => user'[v] = user[v]
           /\ user'[u].state = state
<1>1. user \in [Users -> UserType]
  BY DEF IInv, Types
<1>2. user'[u] = [state |-> state, peer |-> p, fd |-> NoFd]
  BY <1>1 DEF Becomes
<1>3. \A v \in Users : v # u => user'[v] = user[v]
  BY <1>1 DEF Becomes
<1>4. user' \in [Users -> UserType]
  <2>1. [state |-> state, peer |-> p, fd |-> NoFd] \in UserType
    BY DEF UserType
  <2> QED
    BY <1>1, <2>1 DEF Becomes
<1> QED
  BY <1>2, <1>3, <1>4 DEF IInv, Types

LEMMA EndTypes ==
    ASSUME IInv, NEW u \in Users, NEW state \in {"sent", "failed", "gone", "stranded"},
           Ends(u, state)
    PROVE  /\ user' \in [Users -> UserType]
           /\ \A v \in Users : user'[v].state = "ready" => user'[v].fd \in Fds
           /\ \A v \in Users : user'[v].state = "waiting" => user[v].state = "waiting"
<1>1. Becomes(u, None, state) /\ state \in UserStates \ {"ready"} /\ state # "waiting"
  BY DEF Ends, UserStates
<1> QED
  BY <1>1, UserTypes

-----------------------------------------------------------------------------
\* A slot of the COM thread's pool gets a new socket, loses its own, or keeps it.
LEMMA ComStep ==
    ASSUME IInv, Types', app' = app, loop' = loop,
           \A u \in Users : user'[u].state = "waiting" => user[u].state = "waiting",
           NEW c \in ComSlots, \A d \in ComSlots : d # c => com'[d] = com[d],
           com'[c].fd \in {NoFd, com[c].fd} \cup NextFd,
           com'[c].fd # NoFd => sock'[com'[c].fd].phase # "free",
           \A f \in Fds : \/ sock'[f] = sock[f]
                          \/ f \in NextFd /\ sock'[f].phase # "free"
                          \/ f = com[c].fd /\ com'[c].fd = NoFd
    PROVE  IInv'
<1>1. /\ \A s \in AppSlots : app[s].using => app[s].fd \in Fds
      /\ \A d \in ComSlots : com[d].fd \in Fds \cup {NoFd} /\ com[d].fd \notin NextFd
      /\ loop # NoLoop => loop.fd \in Fds
      /\ NoFd \notin Fds
  <2>1. \A d \in ComSlots : com[d].fd \in Fds \cup {NoFd}
    BY DEF IInv, Types, Slot
  <2>2. \A s \in AppSlots : app[s].fd \in Fds \cup {NoFd}
    BY DEF IInv, Types, Slot
  <2> QED
    BY <2>1, <2>2, Basics, NextIsFree DEF IInv, Own, Apart, Calling
<1>2. /\ \A s \in AppSlots : app[s].using => sock'[app[s].fd] = sock[app[s].fd]
      /\ \A s \in AppSlots : app[s].using => app[s].fd \notin NextFd
  BY <1>1, NextIsFree DEF IInv, Own, Apart
<1>3. \A d \in ComSlots : d # c /\ com[d].fd # NoFd => sock'[com[d].fd] = sock[com[d].fd]
  BY <1>1, NextIsFree DEF IInv, Apart
<1>4. loop # NoLoop /\ ~loop.ok => sock'[loop.fd] = sock[loop.fd] /\ loop.fd \notin NextFd
  BY <1>1, NextIsFree DEF IInv, Calling
<1>5. Own' /\ Unoccupied'
  BY <1>2 DEF IInv, Own, Unoccupied
<1>6. Apart'
  <2> SUFFICES ASSUME NEW b \in ComSlots, com'[b].fd # NoFd
               PROVE  /\ sock'[com'[b].fd].phase # "free"
                      /\ \A d \in ComSlots : com'[d].fd = com'[b].fd => d = b
                      /\ \A s \in AppSlots : app'[s].using => app'[s].fd # com'[b].fd
    BY DEF Apart
  <2>1. CASE b # c
    BY <1>1, <1>3, <2>1 DEF IInv, Apart
  <2>2. CASE b = c
    BY <1>1, <1>2, <2>2 DEF IInv, Apart
  <2> QED
    BY <2>1, <2>2
<1>7. Calling'
  BY <1>1, <1>4 DEF IInv, Calling
<1>8. OneLeft' /\ WaitersListed'
  BY DEF IInv, OneLeft, WaitersListed
<1> QED
  BY <1>5, <1>6, <1>7, <1>8 DEF IInv

\* A slot of the own pool that is not in use, and the sockets, when a new socket
\* is opened for it.
LEMMA Opened ==
    ASSUME IInv, NEW s \in AppSlots, ~app[s].using, com' = com,
           NEW f \in NextFd, NEW p \in Peers, NEW phase \in Phases \ {"free"}, Opens(f, p, phase),
           \A t \in AppSlots \ {s} : app'[t] = app[t],
           app'[s].using => app'[s].fd = f /\ app'[s].peer = p,
           app'[s].using /\ app'[s].done => app'[s].ka # "none",
           loop' = [loop EXCEPT !.retry = FALSE]
    PROVE  Own' /\ Apart' /\ Calling' /\ sock' \in [Fds -> SockType]
<1>1. /\ \A t \in AppSlots : app[t].using => app[t].fd \in Fds
      /\ \A d \in ComSlots : com[d].fd \in Fds \cup {NoFd}
      /\ loop # NoLoop => loop.fd \in Fds
      /\ NoFd \notin Fds /\ f \in Fds /\ sock[f].phase = "free"
  <2>1. \A d \in ComSlots : com[d].fd \in Fds \cup {NoFd}
    BY DEF IInv, Types, Slot
  <2>2. \A t \in AppSlots : app[t].fd \in Fds \cup {NoFd}
    BY DEF IInv, Types, Slot
  <2> QED
    BY <2>1, <2>2, Basics, NextIsFree DEF IInv, Own, Calling
<1>2. /\ \A t \in AppSlots : app[t].using => app[t].fd # f
      /\ \A d \in ComSlots : com[d].fd # f
      /\ loop # NoLoop /\ ~loop.ok => loop.fd # f
  BY <1>1 DEF IInv, Own, Apart, Calling
<1>3. /\ sock'[f] = [phase |-> phase, peer |-> p]
      /\ \A g \in Fds : g # f => sock'[g] = sock[g]
      /\ sock' \in [Fds -> SockType]
  <2>1. sock \in [Fds -> SockType] /\ [phase |-> phase, peer |-> p] \in SockType
    BY DEF IInv, Types, SockType
  <2> QED
    BY <1>1, <2>1 DEF Opens
<1>4. /\ loop'.slot = loop.slot /\ loop'.fd = loop.fd /\ loop'.ok = loop.ok
      /\ loop = NoLoop <=> loop' = NoLoop
  BY SameWalk, Basics DEF IInv, Calling
<1>5. Own'
  BY <1>1, <1>2, <1>3, <1>4 DEF IInv, Own
<1>6. Apart'
  BY <1>1, <1>2, <1>3 DEF IInv, Apart
<1>7. Calling'
  BY <1>1, <1>2, <1>3, <1>4 DEF IInv, Calling
<1> QED
  BY <1>3, <1>5, <1>6, <1>7


\* A connection of the own pool goes, and its socket with it.
LEMMA Gone ==
    ASSUME IInv, NEW s \in AppSlots, NEW f \in Fds,
           app' = Emptied(app, s), sock' = Without(f),
           \A t \in AppSlots : t # s /\ app[t].using => app[t].fd # f,
           \A c \in ComSlots : com[c].fd # f,
           UNCHANGED <<com, user, pending, strayed>>, loop' = NoLoop,
           \/ loop = NoLoop /\ app[s].done
           \/ loop.slot = s /\ Len(app[s].users) < loop.next
    PROVE  IInv'
<1>1. /\ app'[s] = FreeSlot /\ \A t \in AppSlots : t # s => app'[t] = app[t]
      /\ app' \in [AppSlots -> Slot]
  BY Basics DEF IInv, Types, Emptied
<1>2. (\A g \in Fds : g # f => sock'[g] = sock[g]) /\ sock' \in [Fds -> SockType]
  BY Basics DEF IInv, Types, Without
<1>3. loop'.slot = 0 /\ 0 \notin AppSlots /\ loop.slot \in {s, 0}
  BY DEF NoLoop, AppSlots
<1>4. Types'
  BY <1>1, <1>2, Basics DEF IInv, Types
<1>5. \A t \in AppSlots : app'[t].using =>
         /\ t # s /\ app'[t] = app[t] /\ app[t].using
         /\ app[t].fd \in Fds /\ sock'[app[t].fd] = sock[app[t].fd]
         /\ loop.slot # t
  <2>1. \A t \in AppSlots : app[t].using => app[t].fd \in Fds
    BY DEF IInv, Types, Slot, Own
  <2> QED
    BY <1>1, <1>2, <1>3, <2>1, Basics
<1>6. Own'
  BY <1>5 DEF IInv, Own
<1>7. Unoccupied'
  BY <1>1, <1>3, Basics DEF IInv, Unoccupied
<1>8. Apart'
  <2>1. \A c \in ComSlots : com[c].fd # NoFd => sock'[com[c].fd] = sock[com[c].fd]
    <3>1. \A c \in ComSlots : com[c].fd \in Fds \cup {NoFd}
      BY DEF IInv, Types, Slot
    <3> QED
      BY <1>2, <3>1
  <2> QED
    BY <1>5, <2>1 DEF IInv, Apart
<1>9. Calling'
  BY <1>3, Basics DEF Calling
<1>10. OneLeft'
  BY <1>3, <1>5, Basics DEF IInv, OneLeft
<1>11. WaitersListed'
  <2>1. \A u \in Users : ~Listed(u, s)
    <3>1. app[s].users \in Seq(Users) /\ loop.next \in Nat
      BY DEF IInv, Types, Slot, LoopType
    <3>2. CASE loop = NoLoop /\ app[s].done
      BY <1>3, <3>2, Basics DEF Listed
    <3>3. CASE loop.slot = s /\ Len(app[s].users) < loop.next
      BY <3>1, <3>3 DEF Listed
    <3> QED
      BY <3>2, <3>3
  <2> QED
    BY <1>1, <1>3, <2>1, OthersListed
<1> QED
  BY <1>4, <1>6, <1>7, <1>8, <1>9, <1>10, <1>11 DEF IInv

-----------------------------------------------------------------------------
\* The mark of use of a slot.
LEMMA Marked ==
    ASSUME IInv, NEW s \in AppSlots, app[s].using, NEW b \in BOOLEAN,
           app' = [app EXCEPT ![s].used = b]
    PROVE  /\ app' \in [AppSlots -> Slot]
           /\ \A t \in AppSlots :
                 /\ app'[t].using = app[t].using /\ app'[t].done = app[t].done
                 /\ app'[t].fd = app[t].fd /\ app'[t].peer = app[t].peer
                 /\ app'[t].users = app[t].users /\ app'[t].ka = app[t].ka
                 /\ app'[t] = app[t] \/ app[t].using
<1>1. app[s] \in Slot /\ app \in [AppSlots -> Slot]
  BY DEF IInv, Types
<1> DEFINE new == [app[s] EXCEPT !.used = b]
<1>2. /\ new \in Slot /\ new.using = app[s].using /\ new.done = app[s].done
      /\ new.fd = app[s].fd /\ new.peer = app[s].peer
      /\ new.users = app[s].users /\ new.ka = app[s].ka
  BY <1>1 DEF Slot
<1>3. app' = [app EXCEPT ![s] = new]
  OBVIOUS
<1> HIDE DEF new
<1>4. app'[s] = new /\ app' \in [AppSlots -> Slot] /\ \A t \in AppSlots : t # s => app'[t] = app[t]
  BY <1>1, <1>2, <1>3
<1> QED
  BY <1>2, <1>4

LEMMA ComMarked ==
    ASSUME IInv, NEW c \in ComSlots, NEW b \in BOOLEAN, com' = [com EXCEPT ![c].used = b],
           UNCHANGED <<app, sock, loop>>, Types',
           \A u \in Users : user'[u].state = "waiting" => user[u].state = "waiting"
    PROVE  IInv'
<1>1. com[c] \in Slot /\ com \in [ComSlots -> Slot]
  BY DEF IInv, Types
<1>2. \A d \in ComSlots : com'[d].fd = com[d].fd
  BY <1>1 DEF Slot
<1> QED
  BY <1>2, Quiet

LEMMA ComMarkTypes ==
    ASSUME IInv, NEW c \in ComSlots, NEW b \in BOOLEAN, com' = [com EXCEPT ![c].used = b]
    PROVE  com' \in [ComSlots -> Slot]
<1>1. com[c] \in Slot /\ com \in [ComSlots -> Slot]
  BY DEF IInv, Types
<1>2. [com[c] EXCEPT !.used = b] \in Slot
  BY <1>1 DEF Slot
<1>3. com' = [com EXCEPT ![c] = [com[c] EXCEPT !.used = b]]
  OBVIOUS
<1> QED
  BY <1>1, <1>2, <1>3

LEMMA InAtOnce ==
    ASSUME NEW r, NEW new \in AtOnce(r), new # FreeSlot
    PROVE  \E f \in NextFd, sent \in BOOLEAN : new = Up(r, f, sent)
BY DEF AtOnce

\* One lemma for each action, and one for what a slot is taken for.
LEMMA CreateKeeps ==
    ASSUME IInv, NEW u \in Users, NEW p \in Peers, NEW s \in AppSlots, ~app[s].using,
           Create(u, p, s), com' = com, loop' = [loop EXCEPT !.retry = FALSE],
           loop = NoLoop \/ loop.retry
    PROVE  IInv'
<1> DEFINE r == [app[s] EXCEPT !.using = TRUE, !.peer = p]
<1>1. /\ app \in [AppSlots -> Slot] /\ app[s] \in Slot /\ app[s].users \in Seq(Users)
      /\ app[s].users \in Seq(Users) /\ loop.next \in Nat
  BY DEF IInv, Types, Slot, LoopType
<1>2. /\ r \in Slot /\ r.using /\ r.done = app[s].done /\ r.peer = p
      /\ r.users = app[s].users /\ r.ka = app[s].ka
  BY <1>1 DEF Slot
<1> HIDE DEF r
<1>3. /\ loop'.slot = loop.slot /\ loop'.next = loop.next /\ loop' \in LoopType /\ ~loop'.retry
      /\ pending' = pending /\ strayed' = strayed
  BY SameWalk DEF IInv, Types, LoopType, Create
<1>4. /\ loop.slot = s => Len(app[s].users) = loop.next - 1
      /\ loop.slot # s => app[s] = FreeSlot
  <2>1. loop.slot = s => loop.retry
    BY Basics
  <2> QED
    BY <2>1 DEF IInv, OneLeft, Unoccupied
<1>5. \A v \in Users : ~Listed(v, s)
  BY <1>1, <1>4 DEF Listed
<1>6. ASSUME \A t \in AppSlots \ {s} : app'[t] = app[t],
             Own' /\ Apart' /\ Calling', sock' \in [Fds -> SockType], app' \in [AppSlots -> Slot],
             /\ user' \in [Users -> UserType]
             /\ \A v \in Users : user'[v].state = "ready" => user'[v].fd \in Fds,
             \A v \in Users : user'[v].state = "waiting" => user[v].state = "waiting" \/ Listed(v, s)',
             app'[s] = FreeSlot \/ app'[s].using, ~app'[s].done => app'[s].ka = "none",
             app'[s].using /\ ~app'[s].done /\ loop.slot # s => Len(app'[s].users) <= 1,
             loop.slot = s => Len(app'[s].users) <= loop.next
      PROVE  IInv'
  <2>1. Types'
    BY <1>3, <1>6 DEF IInv, Types
  <2>2. Unoccupied'
    BY <1>3, <1>6, Basics DEF IInv, Unoccupied
  <2>3. OneLeft'
    BY <1>3, <1>6 DEF IInv, OneLeft
  <2>4. WaitersListed'
    BY <1>3, <1>5, <1>6, OthersListed
  <2> QED
    BY <1>6, <2>1, <2>2, <2>3, <2>4 DEF IInv
<1>7. ASSUME NEW new \in Slot, app' = [app EXCEPT ![s] = new]
      PROVE  /\ app' \in [AppSlots -> Slot] /\ app'[s] = new
             /\ \A t \in AppSlots \ {s} : app'[t] = app[t]
  BY <1>1, <1>7
<1>8. CASE app' = [app EXCEPT ![s] = FreeSlot] /\ Ends(u, "failed") /\ UNCHANGED sock
  <2>1. /\ app' \in [AppSlots -> Slot] /\ app'[s] = FreeSlot
        /\ \A t \in AppSlots \ {s} : app'[t] = app[t]
    BY <1>7, <1>8, Basics
  <2>2. \A t \in AppSlots : app'[t].using => t # s /\ app'[t] = app[t]
    BY <2>1, Basics
  <2>3. /\ loop'.slot = loop.slot /\ loop'.fd = loop.fd /\ loop'.ok = loop.ok
        /\ loop = NoLoop <=> loop' = NoLoop
    BY SameWalk, Basics DEF IInv, Calling
  <2>4. Own'
    BY <1>8, <2>2, <2>3 DEF IInv, Own
  <2>5. Apart'
    BY <1>8, <2>2 DEF IInv, Apart
  <2>6. Calling'
    BY <1>8, <2>1, <2>2, <2>3 DEF IInv, Calling
  <2>7. /\ user' \in [Users -> UserType] /\ sock' \in [Fds -> SockType]
        /\ \A v \in Users : user'[v].state = "ready" => user'[v].fd \in Fds
        /\ \A v \in Users : user'[v].state = "waiting" => user[v].state = "waiting"
    BY <1>8, EndTypes DEF IInv, Types
  <2>8. loop.slot = s => Len(app'[s].users) <= loop.next
    BY <1>1, <2>1, Basics
  <2> QED
    BY <1>6, <2>1, <2>4, <2>5, <2>6, <2>7, <2>8, Basics
<1>9. CASE /\ app' = [app EXCEPT ![s] = FreeSlot] /\ Ends(u, "failed")
           /\ \E f \in NextFd : Opens(f, p, "refused")
  <2>1. /\ app' \in [AppSlots -> Slot] /\ app'[s] = FreeSlot
        /\ \A t \in AppSlots \ {s} : app'[t] = app[t]
    BY <1>7, <1>9, Basics
  <2>2. PICK f \in NextFd : Opens(f, p, "refused")
    BY <1>9
  <2>3. "refused" \in Phases \ {"free"}
    BY DEF Phases
  <2>4. Own' /\ Apart' /\ Calling' /\ sock' \in [Fds -> SockType]
    BY <2>1, <2>2, <2>3, Opened, Basics
  <2> QED
    BY <1>1, <1>6, <1>9, <2>1, <2>4, EndTypes, Basics
<1>10. ASSUME NEW new \in AtOnce(r), new # FreeSlot, app' = [app EXCEPT ![s] = new],
              Ends(u, IF new.used THEN "sent" ELSE "failed"), Opens(new.fd, p, "open")
       PROVE  IInv'
  <2>1. PICK f \in NextFd, sent \in BOOLEAN :
           new = Up(r, f, sent)
    BY <1>10, InAtOnce
  <2>2. /\ new \in Slot /\ new.using /\ new.fd = f /\ new.peer = p /\ new.done
        /\ new.ka = "never" /\ new.users = app[s].users
    BY <1>2, <2>1, NextIsFree DEF Slot, Up
  <2>3. /\ app' \in [AppSlots -> Slot] /\ app'[s] = new
        /\ \A t \in AppSlots \ {s} : app'[t] = app[t]
    BY <1>7, <1>10, <2>2
  <2>4. "open" \in Phases \ {"free"}
    BY DEF Phases
  <2>5. Own' /\ Apart' /\ Calling' /\ sock' \in [Fds -> SockType]
    BY <1>10, <2>2, <2>3, <2>4, Opened
  <2>6. /\ user' \in [Users -> UserType]
        /\ \A v \in Users : user'[v].state = "ready" => user'[v].fd \in Fds
        /\ \A v \in Users : user'[v].state = "waiting" => user[v].state = "waiting"
    BY <1>10, EndTypes
  <2>7. loop.slot = s => Len(app'[s].users) <= loop.next
    BY <1>1, <1>4, <2>2, <2>3
  <2> QED
    BY <1>6, <2>2, <2>3, <2>5, <2>6, <2>7
<1>11. ASSUME NEW f \in NextFd, app' = [app EXCEPT ![s] = [r EXCEPT !.fd = f, !.users = Append(@, u)]],
              Becomes(u, p, "waiting"), Opens(f, p, "connecting")
       PROVE  IInv'
  <2> DEFINE new == [r EXCEPT !.fd = f, !.users = Append(@, u)]
  <2>1. /\ Append(app[s].users, u) \in Seq(Users)
        /\ Len(Append(app[s].users, u)) = Len(app[s].users) + 1
        /\ Append(app[s].users, u)[Len(app[s].users) + 1] = u
        /\ Len(app[s].users) \in Nat
    BY <1>1
  <2>2. /\ new \in Slot /\ new.using /\ new.fd = f /\ new.peer = p /\ new.done = app[s].done
        /\ new.ka = app[s].ka /\ new.users = Append(app[s].users, u)
    BY <1>2, <2>1, NextIsFree DEF Slot
  <2>3. app' = [app EXCEPT ![s] = new]
    BY <1>11
  <2> HIDE DEF new
  <2>4. /\ app' \in [AppSlots -> Slot] /\ app'[s] = new
        /\ \A t \in AppSlots \ {s} : app'[t] = app[t]
    BY <1>7, <2>2, <2>3
  <2>5. "connecting" \in Phases \ {"free"} /\ "waiting" \in UserStates \ {"ready"}
    BY DEF Phases, UserStates
  <2>6. ~app[s].done => app[s].ka = "none"
    BY DEF IInv, Unoccupied
  <2>7. loop.slot # s => ~app[s].done /\ app[s].users = <<>>
    BY <1>4, Basics
  <2>8. ~app[s].done
    BY DEF IInv, Unoccupied
  <2>9. Own' /\ Apart' /\ Calling' /\ sock' \in [Fds -> SockType]
    BY <1>11, <2>2, <2>4, <2>5, <2>8, Opened
  <2>10. /\ user' \in [Users -> UserType]
         /\ \A v \in Users : user'[v].state = "ready" => user'[v].fd \in Fds
         /\ \A v \in Users : v # u => user'[v] = user[v]
    BY <1>11, <2>5, UserTypes
  <2>11. Listed(u, s)'
    <3>1. Len(app[s].users) + 1 \in DOMAIN app'[s].users
      BY <2>1, <2>2, <2>4
    <3>2. app'[s].users[Len(app[s].users) + 1] = u
      BY <2>1, <2>2, <2>4
    <3>3. loop'.slot = s => Len(app[s].users) + 1 >= loop'.next
      BY <1>1, <1>3, <1>4
    <3>4. loop'.slot = s \/ (app'[s].using /\ ~app'[s].done)
      BY <1>3, <2>2, <2>4, <2>7
    <3> QED
      BY <3>1, <3>2, <3>3, <3>4 DEF Listed
  <2>12. loop.slot # s => Len(app'[s].users) <= 1
    <3>1. app[s].users = <<>> => Len(app[s].users) = 0
      OBVIOUS
    <3> QED
      BY <2>1, <2>2, <2>4, <2>7, <3>1
  <2>13. loop.slot = s => Len(app'[s].users) <= loop.next
    BY <1>1, <1>4, <2>1, <2>2, <2>4
  <2> QED
    BY <1>6, <2>2, <2>4, <2>6, <2>9, <2>10, <2>11, <2>12, <2>13
<1> QED
  BY <1>8, <1>9, <1>10, <1>11 DEF Create, DoneAtOnce, r

LEMMA SendKeeps ==
    ASSUME IInv, NEW u \in Users, NEW p \in Peers, Send(u, p) PROVE IInv'
<1> USE DEF IInv
<1>1. UNCHANGED com /\ loop' = [loop EXCEPT !.retry = FALSE] /\ loop' \in LoopType
  BY SameWalk DEF Send
<1>2. CASE Matching(app, p) # {} /\ WriteOn(u, p, Lowest(Matching(app, p)))
  <2> DEFINE s == Lowest(Matching(app, p))
  <2>1. s \in AppSlots /\ app[s].using /\ app[s].peer = p
    BY <1>2, Chosen
  <2> HIDE DEF s
  <2>2. UNCHANGED <<sock, pending>> /\ WriteOn(u, p, s)
    BY <1>2 DEF WriteOn, s
  <2>3. /\ user' \in [Users -> UserType]
        /\ \A v \in Users : user'[v].state = "ready" => user'[v].fd \in Fds
        /\ \A v \in Users : user'[v].state = "waiting" => user[v].state = "waiting"
    BY <2>2, EndTypes DEF WriteOn
  <2>4. /\ app' \in [AppSlots -> Slot] /\ strayed' = FALSE
        /\ \A t \in AppSlots :
              /\ app'[t].using = app[t].using /\ app'[t].done = app[t].done
              /\ app'[t].fd = app[t].fd /\ app'[t].peer = app[t].peer
              /\ app'[t].users = app[t].users /\ app'[t].ka = app[t].ka
              /\ app'[t] = app[t] \/ app[t].using
    <3>1. CASE /\ app' = [app EXCEPT ![s].used = TRUE]
               /\ strayed' = (strayed \/ sock[app[s].fd].peer # p)
      <4>1. sock[app[s].fd].peer = p /\ strayed = FALSE
        BY <2>1 DEF Types, Own
      <4> QED
        BY <2>1, <3>1, <4>1, Marked
    <3>2. CASE UNCHANGED <<app, strayed>>
      BY <3>2 DEF Types
    <3> QED
      BY <2>2, <3>1, <3>2 DEF WriteOn
  <2>5. Types'
    BY <1>1, <2>2, <2>3, <2>4 DEF Types
  <2> QED
    BY <1>1, <2>2, <2>3, <2>4, <2>5, Quiet
<1>3. CASE /\ Matching(com, p) # {}
           /\ pending' = [step |-> "found", user |-> u, peer |-> p, slot |-> Lowest(Matching(com, p))]
           /\ UNCHANGED <<app, sock, user, strayed>>
  <2>1. pending' \in PendType
    BY <1>3, Chosen DEF PendType
  <2>2. Types'
    BY <1>1, <1>3, <2>1 DEF Types
  <2> QED
    BY <1>1, <1>3, <2>2, Quiet
<1>4. CASE Unused(app) # {} /\ Create(u, p, Lowest(Unused(app)))
  BY <1>1, <1>4, Chosen, CreateKeeps DEF Send
<1>5. CASE Ends(u, "failed") /\ UNCHANGED <<app, sock, pending, strayed>>
  <2>1. /\ user' \in [Users -> UserType]
        /\ \A v \in Users : user'[v].state = "ready" => user'[v].fd \in Fds
        /\ \A v \in Users : user'[v].state = "waiting" => user[v].state = "waiting"
    BY <1>5, EndTypes
  <2>2. Types'
    BY <1>1, <1>5, <2>1 DEF Types
  <2> QED
    BY <1>1, <1>5, <2>1, <2>2, Quiet
<1> QED
  BY <1>2, <1>3, <1>4, <1>5 DEF Send


LEMMA SharedFoundKeeps == ASSUME IInv, SharedFound PROVE IInv'
<1>1. pending \in PendType
  BY DEF SharedFound, IInv, Types, Nobody
<1>2. pending' \in PendType
  BY <1>1 DEF SharedFound, PendType
<1>3. UNCHANGED <<app, com, sock, user, loop, strayed>>
  BY DEF SharedFound
<1>4. Types'
  BY <1>2, <1>3 DEF IInv, Types
<1> QED
  BY <1>3, <1>4, Quiet

LEMMA SharedWriteKeeps == ASSUME IInv, SharedWrite PROVE IInv'
<1>1. pending \in PendType
  BY DEF SharedWrite, IInv, Types, Nobody
<1>2. pending.slot \in ComSlots /\ pending.user \in Users
  BY <1>1 DEF PendType
<1>3. UNCHANGED <<app, sock, loop, strayed>> /\ pending' = Nobody
  BY DEF SharedWrite
<1>4. /\ user' \in [Users -> UserType]
      /\ \A v \in Users : user'[v].state = "ready" => user'[v].fd \in Fds
      /\ \A v \in Users : user'[v].state = "waiting" => user[v].state = "waiting"
  BY <1>2, EndTypes DEF SharedWrite
<1>5. CASE com' = [com EXCEPT ![pending.slot].used = TRUE]
  <2>1. com' \in [ComSlots -> Slot]
    BY <1>2, <1>5, ComMarkTypes
  <2>2. Types'
    BY <1>3, <1>4, <2>1 DEF IInv, Types
  <2> QED
    BY <1>2, <1>3, <1>4, <1>5, <2>2, ComMarked
<1>6. CASE UNCHANGED com
  <2>1. Types'
    BY <1>3, <1>4, <1>6 DEF IInv, Types
  <2> QED
    BY <1>3, <1>4, <1>6, <2>1, Quiet
<1> QED
  BY <1>5, <1>6 DEF SharedWrite

LEMMA WriteAgainKeeps == ASSUME IInv, NEW u \in Users, WriteAgain(u) PROVE IInv'
<1>1. UNCHANGED <<app, com, sock, loop, pending, strayed>>
  BY DEF WriteAgain
<1>2. /\ user' \in [Users -> UserType]
      /\ \A v \in Users : user'[v].state = "ready" => user'[v].fd \in Fds
      /\ \A v \in Users : user'[v].state = "waiting" => user[v].state = "waiting"
  BY EndTypes DEF WriteAgain
<1>3. Types'
  BY <1>1, <1>2 DEF IInv, Types
<1> QED
  BY <1>1, <1>2, <1>3, Quiet

LEMMA GiveUpKeeps == ASSUME IInv, NEW u \in Users, GiveUp(u) PROVE IInv'
<1>1. UNCHANGED <<app, com, sock, loop, pending, strayed>>
  BY DEF GiveUp
<1>2. /\ user' \in [Users -> UserType]
      /\ \A v \in Users : user'[v].state = "ready" => user'[v].fd \in Fds
      /\ \A v \in Users : user'[v].state = "waiting" => user[v].state = "waiting"
  BY EndTypes DEF GiveUp
<1>3. Types'
  BY <1>1, <1>2 DEF IInv, Types
<1> QED
  BY <1>1, <1>2, <1>3, Quiet

\* A socket is refused, comes up or is closed by its peer.
LEMMA Phase ==
    ASSUME IInv, NEW f \in Fds, NEW phase \in Phases \ {"free"}, sock' = [sock EXCEPT ![f].phase = phase],
           UNCHANGED <<app, com, user, loop, pending, strayed>>
    PROVE  IInv'
<1>1. sock \in [Fds -> SockType] /\ sock[f] \in SockType
  BY DEF IInv, Types
<1>2. /\ sock' \in [Fds -> SockType]
      /\ \A g \in Fds : /\ sock'[g].peer = sock[g].peer
                        /\ sock[g].phase # "free" => sock'[g].phase # "free"
  BY <1>1 DEF SockType
<1>3. Types'
  BY <1>2 DEF IInv, Types
<1> QED
  BY <1>2, <1>3, Quiet

LEMMA VerdictKeeps == ASSUME IInv, NEW f \in Fds, Verdict(f) PROVE IInv'
<1>1. PICK phase \in {"open", "refused"} : sock' = [sock EXCEPT ![f].phase = phase]
  BY DEF Verdict
<1> QED
  BY <1>1, Phase DEF Verdict, Phases

LEMMA PeerClosesKeeps == ASSUME IInv, NEW f \in Fds, PeerCloses(f) PROVE IInv'
<1>1. "closed" \in Phases \ {"free"}
  BY DEF Phases
<1> QED
  BY <1>1, Phase DEF PeerCloses

LEMMA ComReceiveKeeps == ASSUME IInv, NEW c \in ComSlots, ComReceive(c) PROVE IInv'
<1>1. com' = [com EXCEPT ![c].used = TRUE] /\ UNCHANGED <<app, sock, user, loop, pending, strayed>>
  BY DEF ComReceive
<1>2. Types'
  BY <1>1, ComMarkTypes DEF IInv, Types
<1> QED
  BY <1>1, <1>2, ComMarked

LEMMA ComKAUsedKeeps == ASSUME IInv, NEW c \in ComSlots, ComKAUsed(c) PROVE IInv'
<1>1. com' = [com EXCEPT ![c].used = FALSE] /\ UNCHANGED <<app, sock, user, loop, pending, strayed>>
  BY DEF ComKAUsed
<1>2. Types'
  BY <1>1, ComMarkTypes DEF IInv, Types
<1> QED
  BY <1>1, <1>2, ComMarked

LEMMA ComClosesKeeps == ASSUME IInv, NEW c \in ComSlots, ComCloses(c) PROVE IInv'
<1>1. /\ com' = Emptied(com, c) /\ sock' = Without(com[c].fd)
      /\ UNCHANGED <<app, user, loop, pending, strayed>>
  BY DEF ComCloses
<1>2. /\ com' \in [ComSlots -> Slot] /\ com'[c] = FreeSlot
      /\ \A d \in ComSlots : d # c => com'[d] = com[d]
  BY <1>1, Basics DEF IInv, Types, Emptied
<1>3. sock' \in [Fds -> SockType] /\ \A f \in Fds : sock'[f] = sock[f] \/ f = com[c].fd
  BY <1>1, Basics DEF IInv, Types, Without
<1>4. Types'
  BY <1>1, <1>2, <1>3 DEF IInv, Types
<1> QED
  BY <1>1, <1>2, <1>3, <1>4, ComStep, Basics

LEMMA AcceptKeeps == ASSUME IInv, NEW p \in Peers, Accept(p) PROVE IInv'
<1> DEFINE c == Lowest(Unused(com))
<1>1. c \in ComSlots /\ UNCHANGED <<app, user, loop, pending, strayed>>
  BY Chosen DEF Accept
<1> DEFINE new(f) == [FreeSlot EXCEPT !.using = TRUE, !.done = TRUE, !.fd = f, !.peer = p, !.ka = "runs"]
<1>2. PICK f \in NextFd : com' = [com EXCEPT ![c] = new(f)] /\ Opens(f, p, "open")
  BY DEF Accept
<1>3. new(f) \in Slot /\ new(f).fd = f
  BY NextIsFree, Basics DEF Slot, FreeSlot
<1> HIDE DEF c, new
<1>4. /\ com' \in [ComSlots -> Slot] /\ com'[c].fd = f
      /\ \A d \in ComSlots : d # c => com'[d] = com[d]
  BY <1>1, <1>2, <1>3 DEF IInv, Types
<1>5. /\ sock' \in [Fds -> SockType] /\ sock'[f].phase # "free"
      /\ \A g \in Fds : g # f => sock'[g] = sock[g]
  <2>1. [phase |-> "open", peer |-> p] \in SockType
    BY DEF SockType, Phases
  <2> QED
    BY <1>2, <2>1, NextIsFree DEF IInv, Types, Opens
<1>6. Types'
  BY <1>1, <1>4, <1>5 DEF IInv, Types
<1> QED
  BY <1>1, <1>4, <1>5, <1>6, ComStep


LEMMA SharedCreateKeeps == ASSUME IInv, SharedCreate PROVE IInv'
<1> DEFINE c == pending.slot
<1>1. pending \in PendType
  BY DEF SharedCreate, IInv, Types, Nobody
<1>2. c \in ComSlots /\ pending.user \in Users /\ pending.peer \in Peers
  BY <1>1 DEF PendType
<1>3. pending' = Nobody /\ UNCHANGED <<app, loop, strayed>>
  BY DEF SharedCreate
<1>4. com \in [ComSlots -> Slot] /\ com[c] \in Slot /\ sock \in [Fds -> SockType]
  BY <1>2 DEF IInv, Types
<1>5. ASSUME NEW f \in NextFd, NEW phase \in Phases \ {"free"}, Opens(f, pending.peer, phase)
      PROVE  /\ sock' \in [Fds -> SockType] /\ sock'[f].phase # "free"
             /\ \A g \in Fds : g # f => sock'[g] = sock[g]
  <2>1. [phase |-> phase, peer |-> pending.peer] \in SockType
    BY <1>2 DEF SockType
  <2> QED
    BY <1>4, <1>5, <2>1, NextIsFree DEF Opens
<1>6. {"open", "refused", "connecting"} \subseteq Phases \ {"free"}
  BY DEF Phases
<1>7. ASSUME NEW new \in Slot, com' = [com EXCEPT ![c] = new]
      PROVE  /\ com' \in [ComSlots -> Slot] /\ com'[c] = new
             /\ \A d \in ComSlots : d # c => com'[d] = com[d]
  BY <1>2, <1>4, <1>7
<1>8. ASSUME NEW state \in {"sent", "failed", "stranded"}, Ends(pending.user, state),
             com' \in [ComSlots -> Slot], sock' \in [Fds -> SockType],
             \A d \in ComSlots : d # c => com'[d] = com[d],
             com'[c].fd \in {NoFd, com[c].fd} \cup NextFd,
             com'[c].fd # NoFd => sock'[com'[c].fd].phase # "free",
             \A f \in Fds : sock'[f] = sock[f] \/ (f \in NextFd /\ sock'[f].phase # "free")
      PROVE  IInv'
  <2>1. /\ user' \in [Users -> UserType]
        /\ \A v \in Users : user'[v].state = "ready" => user'[v].fd \in Fds
        /\ \A v \in Users : user'[v].state = "waiting" => user[v].state = "waiting"
    BY <1>2, <1>8, EndTypes
  <2>2. Types'
    BY <1>3, <1>8, <2>1 DEF IInv, Types
  <2> QED
    BY <1>2, <1>3, <1>8, <2>1, <2>2, ComStep
<1>9. CASE com' = [com EXCEPT ![c] = FreeSlot] /\ Ends(pending.user, "failed") /\ UNCHANGED sock
  BY <1>4, <1>7, <1>8, <1>9, Basics
<1>10. CASE /\ com' = [com EXCEPT ![c] = FreeSlot] /\ Ends(pending.user, "failed")
            /\ \E f \in NextFd : Opens(f, pending.peer, "refused")
  BY <1>4, <1>5, <1>6, <1>7, <1>8, <1>10, Basics
<1>11. ASSUME NEW new \in AtOnce(com[c]), new # FreeSlot, com' = [com EXCEPT ![c] = new],
              Ends(pending.user, IF new.used THEN "sent" ELSE "failed"),
              Opens(new.fd, pending.peer, "open")
       PROVE  IInv'
  <2>1. PICK f \in NextFd, sent \in BOOLEAN : new = Up(com[c], f, sent)
    BY <1>11, InAtOnce
  <2>2. new \in Slot /\ new.fd = f
    BY <1>4, <2>1, NextIsFree DEF Slot, Up
  <2>3. /\ com' \in [ComSlots -> Slot] /\ com'[c] = new
        /\ \A d \in ComSlots : d # c => com'[d] = com[d]
    BY <1>7, <1>11, <2>2
  <2>4. /\ sock' \in [Fds -> SockType] /\ sock'[f].phase # "free"
        /\ \A g \in Fds : g # f => sock'[g] = sock[g]
    BY <1>5, <1>6, <1>11, <2>2
  <2> QED
    BY <1>8, <1>11, <2>2, <2>3, <2>4
<1>12. ASSUME NEW f \in NextFd, com' = [com EXCEPT ![c].fd = f, ![c].done = FALSE],
              Ends(pending.user, "stranded"), Opens(f, pending.peer, "connecting")
       PROVE  IInv'
  <2> DEFINE new == [com[c] EXCEPT !.fd = f, !.done = FALSE]
  <2>1. new \in Slot /\ new.fd = f
    BY <1>4, NextIsFree DEF Slot
  <2>2. com' = [com EXCEPT ![c] = new]
    BY <1>2, <1>4, <1>12
  <2> HIDE DEF new
  <2>3. /\ com' \in [ComSlots -> Slot] /\ com'[c] = new
        /\ \A d \in ComSlots : d # c => com'[d] = com[d]
    BY <1>7, <2>1, <2>2
  <2>4. /\ sock' \in [Fds -> SockType] /\ sock'[f].phase # "free"
        /\ \A g \in Fds : g # f => sock'[g] = sock[g]
    BY <1>5, <1>6, <1>12
  <2> QED
    BY <1>8, <1>12, <2>1, <2>3, <2>4
<1> QED
  BY <1>9, <1>10, <1>11, <1>12 DEF SharedCreate, DoneAtOnce

\* A slot of the own pool in use has a socket of the process.
LEMMA OwnFd ==
    ASSUME IInv, NEW s \in AppSlots, app[s].using
    PROVE  /\ app[s].fd \in Fds /\ sock[app[s].fd].phase # "free"
           /\ \A t \in AppSlots : t # s /\ app[t].using => app[t].fd # app[s].fd
           /\ \A c \in ComSlots : com[c].fd # app[s].fd
<1>1. app[s].fd \in Fds /\ sock[app[s].fd].phase # "free"
  BY DEF IInv, Types, Slot, Own
<1>2. \A c \in ComSlots : com[c].fd # app[s].fd
  BY <1>1, Basics DEF IInv, Apart
<1> QED
  BY <1>1, <1>2 DEF IInv, Own

\* The users of a slot begin to be called.
LEMMA WalkBegins ==
    ASSUME IInv, NEW s \in AppSlots, app[s].using, ~app[s].done, loop = NoLoop, NEW ok \in BOOLEAN,
           loop' = [slot |-> s, fd |-> app[s].fd, ok |-> ok, next |-> 1, retry |-> FALSE],
           app' = IF ok THEN [app EXCEPT ![s].done = TRUE] ELSE [app EXCEPT ![s].using = FALSE],
           UNCHANGED <<com, sock, user, pending, strayed>>
    PROVE  IInv'
<1> DEFINE new == IF ok THEN [app[s] EXCEPT !.done = TRUE] ELSE [app[s] EXCEPT !.using = FALSE]
<1>1. app \in [AppSlots -> Slot] /\ app[s] \in Slot /\ app[s].users \in Seq(Users)
  BY DEF IInv, Types, Slot
<1>2. /\ new \in Slot /\ new.users = app[s].users /\ new.fd = app[s].fd /\ new.peer = app[s].peer
      /\ new.ka = app[s].ka /\ new.using = ok /\ new.done = ok
  <2>1. CASE ok
    BY <1>1, <2>1 DEF Slot
  <2>2. CASE ~ok
    BY <1>1, <2>2 DEF Slot
  <2> QED
    BY <2>1, <2>2
<1>3. app' = [app EXCEPT ![s] = new]
  BY <1>1
<1> HIDE DEF new
<1>4. /\ app' \in [AppSlots -> Slot] /\ app'[s] = new
      /\ \A t \in AppSlots \ {s} : app'[t] = app[t]
  BY <1>1, <1>2, <1>3
<1>5. app[s].fd \in Fds /\ s # 0 /\ s \in 0..NApp
  BY OwnFd, SizesAssumption DEF AppSlots
<1>6. /\ loop' \in LoopType /\ loop'.slot = s /\ loop'.fd = app[s].fd /\ loop'.ok = ok
      /\ loop'.next = 1 /\ ~loop'.retry /\ loop.slot = 0 /\ loop.slot # s
  BY <1>5 DEF LoopType, NoLoop
<1>7. Types'
  BY <1>4, <1>6 DEF IInv, Types
<1>8. Own'
  <2>1. \A t \in AppSlots \ {s} : loop.slot # t
    BY <1>6 DEF AppSlots
  <2> QED
    BY <1>2, <1>4, <1>6, <2>1 DEF IInv, Own
<1>9. Unoccupied'
  <2>1. \A t \in AppSlots \ {s} : loop.slot # t
    BY <1>6 DEF AppSlots
  <2>2. ~app[s].done => app[s].ka = "none"
    BY DEF IInv, Unoccupied
  <2> QED
    BY <1>2, <1>4, <1>6, <2>1, <2>2 DEF IInv, Unoccupied
<1>10. Apart'
  BY <1>2, <1>4 DEF IInv, Apart
<1>11. Calling'
  BY <1>2, <1>4, <1>5, <1>6, OwnFd DEF Calling
<1>12. OneLeft'
  <2>1. Len(app[s].users) <= 1
    BY <1>6 DEF IInv, OneLeft
  <2>2. \A t \in AppSlots \ {s} : loop.slot # t
    BY <1>6 DEF AppSlots
  <2> QED
    BY <1>2, <1>4, <1>6, <2>1, <2>2 DEF IInv, OneLeft
<1>13. WaitersListed'
  <2>1. \A u \in Users : Listed(u, s) => Listed(u, s)'
    BY <1>1, <1>2, <1>4, <1>6 DEF Listed
  <2> QED
    BY <1>4, <1>6, <2>1, OthersListed
<1> QED
  BY <1>7, <1>8, <1>9, <1>10, <1>11, <1>12, <1>13 DEF IInv

LEMMA OnEventKeeps == ASSUME IInv, NEW s \in AppSlots, OnEvent(s) PROVE IInv'
<1>1. app[s].using /\ loop = NoLoop /\ UNCHANGED <<com, user, pending, strayed>>
  BY DEF OnEvent, AtLoop
<1>2. CASE /\ ~app[s].done /\ app' = [app EXCEPT ![s].done = TRUE]
           /\ loop' = [NoLoop EXCEPT !.slot = s, !.fd = app[s].fd, !.ok = TRUE] /\ UNCHANGED sock
  <2>1. loop' = [slot |-> s, fd |-> app[s].fd, ok |-> TRUE, next |-> 1, retry |-> FALSE]
    BY <1>2 DEF NoLoop
  <2> QED
    BY <1>1, <1>2, <2>1, WalkBegins
<1>3. CASE ~app[s].done /\ FailUsers(s)
  <2>1. loop' = [slot |-> s, fd |-> app[s].fd, ok |-> FALSE, next |-> 1, retry |-> FALSE]
    BY <1>3 DEF FailUsers, NoLoop
  <2> QED
    BY <1>1, <1>3, <2>1, WalkBegins DEF FailUsers
<1>4. CASE /\ app[s].done /\ app' = Emptied(app, s) /\ sock' = Without(app[s].fd) /\ UNCHANGED loop
  BY <1>1, <1>4, OwnFd, Gone
<1>5. CASE app' = [app EXCEPT ![s].used = TRUE] /\ UNCHANGED <<loop, sock>>
  <2>1. app' \in [AppSlots -> Slot]
    BY <1>1, <1>5, Marked
  <2>2. Types'
    BY <1>1, <1>5, <2>1 DEF IInv, Types
  <2> QED
    BY <1>1, <1>5, <2>2, Marked, Quiet
<1> QED
  BY <1>2, <1>3, <1>4, <1>5 DEF OnEvent

LEMMA KATimeoutKeeps == ASSUME IInv, NEW s \in AppSlots, KATimeout(s) PROVE IInv'
<1>1. /\ app[s].ka = "runs" /\ loop = NoLoop /\ UNCHANGED <<com, user, loop, pending, strayed>>
      /\ app[s].done /\ app[s].using
  BY DEF KATimeout, AtLoop, IInv, Unoccupied
<1>2. CASE app' = [app EXCEPT ![s].used = FALSE] /\ UNCHANGED sock
  <2>1. app' \in [AppSlots -> Slot]
    BY <1>1, <1>2, Marked
  <2>2. Types'
    BY <1>1, <1>2, <2>1 DEF IInv, Types
  <2> QED
    BY <1>1, <1>2, <2>2, Marked, Quiet
<1>3. CASE app' = Emptied(app, s) /\ sock' = Without(app[s].fd)
  BY <1>1, <1>3, OwnFd, Gone
<1> QED
  BY <1>2, <1>3 DEF KATimeout


LEMMA CallUserKeeps == ASSUME IInv, CallUser PROVE IInv'
<1> DEFINE s == loop.slot  n == loop.next
<1>1. UNCHANGED <<app, com, sock, pending, strayed>>
  BY DEF CallUser
<1>2. s \in AppSlots /\ loop.fd \in Fds
  BY DEF CallUser, IInv, Calling
<1>3. app[s].users \in Seq(Users) /\ n \in Nat \ {0} /\ loop \in LoopType /\ user \in [Users -> UserType]
  BY <1>2 DEF IInv, Types, Slot, LoopType
<1>4. n = Len(app[s].users) /\ Called \in Users
  <2>1. n <= Len(app[s].users) /\ Len(app[s].users) <= n /\ Len(app[s].users) \in Nat
    BY <1>2, <1>3 DEF CallUser, More, IInv, OneLeft
  <2> QED
    BY <1>3, <2>1 DEF Called
<1>5. /\ loop' \in LoopType /\ loop'.slot = s /\ loop'.next = n + 1 /\ loop'.ok = loop.ok
      /\ loop'.fd = loop.fd
  <2>1. CASE loop' = [loop EXCEPT !.next = @ + 1]
    BY <1>3, <2>1 DEF LoopType
  <2>2. CASE loop' = [loop EXCEPT !.next = @ + 1, !.retry = TRUE]
    <3>1. loop.next + 1 \in Nat \ {0} /\ TRUE \in BOOLEAN
      BY <1>3
    <3>2. /\ loop'.slot = loop.slot /\ loop'.next = loop.next + 1 /\ loop'.ok = loop.ok
          /\ loop'.fd = loop.fd /\ loop'.retry = TRUE
      BY <1>3, <2>2 DEF LoopType
    <3>3. loop' \in LoopType
      BY <1>3, <2>2, <3>1 DEF LoopType
    <3> QED
      BY <3>2, <3>3
  <2> QED
    BY <2>1, <2>2 DEF CallUser, CallReady, CallFailed
<1>6. /\ user' \in [Users -> UserType]
      /\ \A v \in Users : user'[v].state = "ready" => user'[v].fd \in Fds
      /\ \A v \in Users : user'[v].state = "waiting" => v # Called /\ user[v].state = "waiting"
  <2>1. \A v \in Users : user[v].state = "ready" => user[v].fd \in Fds
    BY DEF IInv, Types
  <2>2. CASE CallReady
    <3>1. user' = [user EXCEPT ![Called] = [user[Called] EXCEPT !.state = "ready", !.fd = loop.fd]]
      BY <1>3, <1>4, <2>2 DEF CallReady
    <3>2. [user[Called] EXCEPT !.state = "ready", !.fd = loop.fd] \in UserType
      BY <1>2, <1>3, <1>4 DEF UserType, UserStates
    <3>3. user'[Called].state = "ready" /\ user'[Called].fd = loop.fd
      BY <1>3, <1>4, <3>1 DEF UserType
    <3> QED
      BY <1>2, <1>3, <1>4, <2>1, <3>1, <3>2, <3>3
  <2>3. CASE CallFailed
    <3>1. Becomes(Called, None, "failed") /\ "failed" \in UserStates \ {"ready"}
      BY <2>3 DEF CallFailed, Ends, UserStates
    <3> QED
      BY <1>4, <3>1, UserTypes
  <2>4. CASE user[Called].state # "waiting" /\ UNCHANGED user
    BY <1>3, <2>1, <2>4
  <2> QED
    BY <2>2, <2>3, <2>4 DEF CallUser
<1>7. Types'
  BY <1>1, <1>5, <1>6 DEF IInv, Types
<1>8. loop # NoLoop /\ loop' # NoLoop
  BY <1>2, <1>5, Basics
<1>9. Own' /\ Unoccupied' /\ Apart'
  BY <1>1, <1>5 DEF IInv, Own, Unoccupied, Apart
<1>10. Calling'
  BY <1>1, <1>2, <1>5, <1>8 DEF IInv, Calling
<1>11. OneLeft'
  <2>1. /\ Len(app[s].users) <= loop'.next
        /\ Len(app[s].users) = loop'.next - 1
    BY <1>3, <1>4, <1>5
  <2> QED
    BY <1>1, <1>5, <1>8, <2>1 DEF IInv, OneLeft
<1>12. WaitersListed'
  <2> SUFFICES ASSUME NEW u \in Users, user'[u].state = "waiting"
               PROVE  \E t \in AppSlots : Listed(u, t)'
    BY DEF WaitersListed, Listed
  <2>1. u # Called /\ user[u].state = "waiting"
    BY <1>6
  <2>2. PICK t \in AppSlots : Listed(u, t)
    BY <2>1 DEF IInv, WaitersListed, Listed
  <2>3. t # s
    <3>1. \A i \in DOMAIN app[s].users : i >= n => i = n
      BY <1>3, <1>4
    <3> QED
      BY <2>1, <2>2, <3>1 DEF Listed, Called
  <2>4. Listed(u, t)'
    BY <1>1, <1>5, <2>2, <2>3 DEF Listed
  <2> QED
    BY <2>4
<1> QED
  BY <1>7, <1>9, <1>10, <1>11, <1>12 DEF IInv

LEMMA LoopEndsKeeps == ASSUME IInv, LoopEnds PROVE IInv'
<1> DEFINE s == loop.slot
<1>1. loop # NoLoop /\ loop' = NoLoop /\ UNCHANGED <<com, user, pending, strayed>>
  BY DEF LoopEnds
<1>2. s \in AppSlots /\ loop.fd \in Fds
  BY <1>1 DEF IInv, Calling
<1>3. /\ app \in [AppSlots -> Slot] /\ app[s] \in Slot
      /\ app[s].users \in Seq(Users) /\ loop.next \in Nat
  BY <1>2 DEF IInv, Types, Slot, LoopType
<1>4. Len(app[s].users) < loop.next
  BY <1>3 DEF LoopEnds, More
<1>5. CASE ~loop.ok /\ app' = Emptied(app, s) /\ sock' = Without(loop.fd)
  BY <1>1, <1>2, <1>4, <1>5, Gone DEF IInv, Calling
<1>6. CASE /\ loop.ok /\ UNCHANGED sock
           /\ \E used \in BOOLEAN :
                 app' = [app EXCEPT ![s].users = <<>>, ![s].ka = "runs", ![s].used = used]
  <2>1. PICK used \in BOOLEAN :
           app' = [app EXCEPT ![s].users = <<>>, ![s].ka = "runs", ![s].used = used]
    BY <1>6
  <2> DEFINE new == [app[s] EXCEPT !.users = <<>>, !.ka = "runs", !.used = used]
  <2>2. /\ new \in Slot /\ new.using = app[s].using /\ new.done = app[s].done /\ new.ka = "runs"
        /\ new.fd = app[s].fd /\ new.peer = app[s].peer
    <3>1. <<>> \in Seq(Users)
      OBVIOUS
    <3> QED
      BY <1>3, <3>1 DEF Slot
  <2>3. app' = [app EXCEPT ![s] = new]
    BY <1>2, <1>3, <2>1
  <2> HIDE DEF new
  <2>4. /\ app' \in [AppSlots -> Slot] /\ app'[s] = new
        /\ \A t \in AppSlots \ {s} : app'[t] = app[t]
    BY <1>2, <1>3, <2>2, <2>3
  <2>5. app[s].using /\ app[s].done
    BY <1>2, <1>6 DEF IInv, Calling
  <2>6. loop'.slot = 0 /\ 0 \notin AppSlots
    BY <1>1 DEF NoLoop, AppSlots
  <2>7. Types'
    BY <1>1, <1>6, <2>4, Basics DEF IInv, Types
  <2>8. Own'
    <3>1. \A t \in AppSlots : app'[t].using = app[t].using /\ app'[t].fd = app[t].fd /\ app'[t].peer = app[t].peer
      BY <2>2, <2>4
    <3>2. \A t \in AppSlots : app[t].using /\ app'[t].done => app'[t].ka # "none"
      BY <2>2, <2>4 DEF IInv, Own
    <3> QED
      BY <1>6, <3>1, <3>2 DEF IInv, Own
  <2>9. Unoccupied'
    BY <2>2, <2>4, <2>5, <2>6 DEF IInv, Unoccupied
  <2>10. Apart'
    BY <1>1, <1>6, <2>2, <2>4 DEF IInv, Apart
  <2>11. Calling'
    BY <1>1, Basics DEF Calling
  <2>12. OneLeft'
    BY <1>1, <2>2, <2>4, <2>5, <2>6, Basics DEF IInv, OneLeft
  <2>13. WaitersListed'
    <3>1. \A u \in Users : ~Listed(u, s)
      BY <1>3, <1>4 DEF Listed
    <3> QED
      BY <1>1, <1>2, <2>4, <2>6, <3>1, OthersListed
  <2> QED
    BY <2>7, <2>8, <2>9, <2>10, <2>11, <2>12, <2>13 DEF IInv
<1> QED
  BY <1>5, <1>6 DEF LoopEnds

-----------------------------------------------------------------------------
LEMMA Steps == IInv /\ [Next]_vars => IInv'
<1> SUFFICES ASSUME IInv, [Next]_vars PROVE IInv'
  OBVIOUS
<1>1. ASSUME NEW u \in Users, NEW p \in Peers, Send(u, p) PROVE IInv'
  BY <1>1, SendKeeps
<1>2. ASSUME NEW u \in Users, WriteAgain(u) PROVE IInv'
  BY <1>2, WriteAgainKeeps
<1>3. ASSUME NEW u \in Users, GiveUp(u) PROVE IInv'
  BY <1>3, GiveUpKeeps
<1>4. CASE Continue
  BY <1>4, SharedFoundKeeps, SharedWriteKeeps, SharedCreateKeeps, CallUserKeeps, LoopEndsKeeps
     DEF Continue
<1>5. ASSUME NEW s \in AppSlots, OnEvent(s) PROVE IInv'
  BY <1>5, OnEventKeeps
<1>6. ASSUME NEW s \in AppSlots, KATimeout(s) PROVE IInv'
  BY <1>6, KATimeoutKeeps
<1>7. ASSUME NEW p \in Peers, Accept(p) PROVE IInv'
  BY <1>7, AcceptKeeps
<1>8. ASSUME NEW c \in ComSlots, ComReceive(c) PROVE IInv'
  BY <1>8, ComReceiveKeeps
<1>9. ASSUME NEW c \in ComSlots, ComCloses(c) PROVE IInv'
  BY <1>9, ComClosesKeeps
<1>10. ASSUME NEW c \in ComSlots, ComKAUsed(c) PROVE IInv'
  BY <1>10, ComKAUsedKeeps
<1>11. ASSUME NEW f \in Fds, Verdict(f) PROVE IInv'
  BY <1>11, VerdictKeeps
<1>12. ASSUME NEW f \in Fds, PeerCloses(f) PROVE IInv'
  BY <1>12, PeerClosesKeeps
<1>13. CASE UNCHANGED vars
  BY <1>13 DEF vars, IInv, Types, Own, Unoccupied, Apart, Calling, OneLeft, WaitersListed
<1> QED
  BY <1>1, <1>2, <1>3, <1>4, <1>5, <1>6, <1>7, <1>8, <1>9, <1>10, <1>11, <1>12, <1>13 DEF Next

\* The invariant that the theorems below rest on.
THEOREM Invariance == Spec => []IInv
<1>1. Init => IInv
  BY Initial
<1>2. IInv /\ [Next]_vars => IInv'
  BY Steps
<1> QED
  BY <1>1, <1>2, PTL DEF Spec

\* Whatever was closed, refused, timed out or reused, a slot of the application
\* thread's pool that is in use has a socket of its own that leads to its peer.
THEOREM OwnSlotsAreRight == Spec => []OwnSlots
<1>1. IInv => OwnSlots
  <2> SUFFICES ASSUME IInv PROVE OwnSlots
    OBVIOUS
  <2>1. TypeOK
    BY DEF IInv, Types, TypeOK, SockType, UserType, LoopType, Phases
  <2> QED
    BY <2>1 DEF IInv, Own, OwnSlots
<1> QED
  BY <1>1, Invariance, PTL

\* No transaction that waits for a connection is forgotten by the pool, also one
\* that its TU sends while the users of a failed connection are being called.
THEOREM WaitersAreListed == Spec => []WaitersListed
<1>1. IInv => WaitersListed
  BY DEF IInv
<1> QED
  BY <1>1, Invariance, PTL

\* What is written to a connection of the own pool goes to the peer it is for.
THEOREM MessagesReachTheirPeer == Spec => []OwnReachesPeer
<1>1. IInv => OwnReachesPeer
  BY DEF IInv, Types, OwnReachesPeer
<1> QED
  BY <1>1, Invariance, PTL

=============================================================================
