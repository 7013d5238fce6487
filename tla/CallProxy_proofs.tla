-------------------------- MODULE CallProxy_proofs --------------------------
(***************************************************************************)
(* Invariants of a call through the stand-alone proxy, for every set of    *)
(* requests within the call and every number of provisional responses.     *)
(***************************************************************************)
EXTENDS CallProxy, TLAPS

\* The pair of the INVITE is counted while it is listed, and it is listed
\* until the ACK of an answered call.
PairOfCall ==
    /\ pair # "none" => num = 1
    /\ call = "INIT_200_RECEIVED" => pair = "both"

\* During the setup a transaction of the INVITE that has ended is one whose end
\* the proxy did not act on; before it there is none.
Setting ==
    /\ call = "ABSENT" => uas = "none" /\ uac = "none" /\ heard = "none" /\ unheeded = {}
    /\ call = "INIT_INVITE" =>
          /\ uas # "proceeding" => "uas" \in unheeded
          /\ uac \notin {"calling", "proceeding"} => "uac" \in unheeded

IInv == /\ TypeOK
        /\ TimersOfState
        /\ HashOwnsCall
        /\ PairOfCall
        /\ CallerHearsCallee
        /\ OnlyUnheeded
        /\ Setting

\* What the steps of the call itself are about, and what those of the INVITE's
\* transactions are about.
CallInv   == TimersOfState /\ HashOwnsCall /\ PairOfCall
InviteInv == CallerHearsCallee /\ OnlyUnheeded /\ Setting

\* The invariant holds when a call is created.
THEOREM Initial == Init => IInv
<1> SUFFICES ASSUME Init PROVE IInv
  OBVIOUS
<1>1. TypeOK
  BY RingsAssumption DEF Init, TypeOK, Elements, Request, Unsent
<1>2. CallInv
  BY DEF Init, CallInv, TimersOfState, HashOwnsCall, PairOfCall, Own, Answered
<1>3. InviteInv
  BY DEF Init, InviteInv, CallerHearsCallee, OnlyUnheeded, Setting, Answered
<1> QED
  BY <1>1, <1>2, <1>3 DEF IInv, CallInv, InviteInv

-----------------------------------------------------------------------------
\* What every state with the invariant says of the call, in the terms the
\* guards of the handlers use.
LEMMA AtFound ==
    ASSUME IInv, Found
    PROVE  call \notin {"ABSENT", "FREED"} /\ hash \in Own /\ ~Detached
BY DEF IInv, Found, HashOwnsCall, Own, Detached

\* A message that finds no call leaves every part of the invariant alone that
\* does not speak of the transactions.
LEMMA MissedStep ==
    ASSUME IInv, Missed
    PROVE  /\ hash' \in Elements
           /\ hash' = hash \/ (hash = "none" /\ hash' = "empty")
           /\ CallInv'
<1>1. hash' = hash \/ (hash = "none" /\ hash' = "empty")
  BY DEF Missed
<1>2. hash \in Elements
  BY DEF IInv, TypeOK
<1>3. hash' \in Elements
  BY <1>1, <1>2 DEF Elements
<1>4. hash' \in Own <=> hash \in Own
  BY <1>1 DEF Own
<1> QED
  BY <1>1, <1>3, <1>4 DEF Missed, IInv, CallInv, TimersOfState, HashOwnsCall, PairOfCall, PairVars

\* Once the call is freed no timer runs and the hash has no element of it.
LEMMA Freed ==
    ASSUME IInv, NEW used \in SUBSET {"uas", "uac"}, FreeCall(used)
    PROVE  /\ call' = "FREED" /\ timers' = {} /\ hash' \in Elements
           /\ pair' = "none" /\ more' = {} /\ num' = 0
           /\ wild' \subseteq wild \cup used \cup {"element"}
           /\ wild' \in SUBSET {"uas", "uac", "uasByAck", "element", "proxyInfo", "ackTransaction"}
           /\ CallInv'
<1>1. hash \in Elements
  BY DEF IInv, TypeOK
<1>2. hash' \in Elements /\ hash' \notin Own
  BY <1>1 DEF FreeCall, Elements, Own
<1>3. call' = "FREED" /\ timers' = {} /\ pair' = "none" /\ more' = {} /\ num' = 0
  BY DEF FreeCall
<1>4. wild' \subseteq wild \cup used \cup {"element"}
  BY DEF FreeCall
<1>5. CallInv'
  BY <1>2, <1>3 DEF CallInv, TimersOfState, HashOwnsCall, PairOfCall, Answered
<1>6. wild' \in SUBSET {"uas", "uac", "uasByAck", "element", "proxyInfo", "ackTransaction"}
  BY <1>4 DEF IInv, TypeOK
<1> QED
  BY <1>2, <1>3, <1>4, <1>5, <1>6

\* Listing a pair keeps to the one the list may have.
LEMMA Listed ==
    ASSUME IInv, NEW r \in Reqs, AddPair(r)
    PROVE  pair' = pair /\ more' \in SUBSET Reqs /\ num' \in 0..1
           /\ (pair # "none" => num' = 1)
BY DEF AddPair, IInv, TypeOK, PairOfCall

-----------------------------------------------------------------------------
\* A response that is given to the caller during the setup of the call.
LEMMA Relayed ==
    ASSUME IInv, call = "INIT_INVITE", NEW class \in {"1xx"} \cup Final, Relay(class)
    PROVE  /\ uas' \in {"none", "proceeding", "completed", "confirmed", "gone"}
           /\ heard' \in {"none", "1xx"} \cup Final
           /\ unheeded' \in SUBSET {"uas", "uac"} /\ unheeded \subseteq unheeded'
           /\ wild' \subseteq wild \cup {"uas"}
           /\ "uas" \in wild' => "uas" \in unheeded'
           /\ "uas" \notin unheeded' => heard' = class
           /\ class = "1xx" /\ uas' # "proceeding" => "uas" \in unheeded'
           /\ "uac" \in unheeded' <=> "uac" \in unheeded
<1> USE DEF IInv, TypeOK, Setting, OnlyUnheeded, Final
<1>1. CASE uas # "proceeding"
  BY <1>1 DEF Relay
<1>2. CASE uas = "proceeding"
  BY <1>2 DEF Relay
<1> QED
  BY <1>1, <1>2

-----------------------------------------------------------------------------
\* Every step keeps the types.
LEMMA TypeStep == ASSUME IInv, [Next]_vars PROVE TypeOK'
<1> USE RingsAssumption DEF Final
<1>1. CASE Reject
  BY <1>1 DEF IInv, TypeOK, Reject, EnterError, Setup
<1>2. CASE Accept
  BY <1>2 DEF IInv, TypeOK, Accept, Setup, Own, Elements
<1>3. ASSUME NEW class \in {"1xx"} \cup Final, Response(class) PROVE TypeOK'
  <2>1. /\ rings' \in 0..MaxRings /\ dialog' = dialog
        /\ uac' \in {"proceeding", "gone", "completed"}
    BY <1>3 DEF IInv, TypeOK, Response
  <2>2. CASE Missed
    <3>1. /\ uas' = uas /\ heard' = heard
          /\ unheeded' \subseteq unheeded \cup {"uac"}
      BY <1>3, <2>2, AtFound DEF Response, Missed
    <3> QED
      BY <2>1, <2>2, <3>1, MissedStep DEF IInv, TypeOK, Missed, PairVars
  <2>3. CASE Found
    <3>1. /\ Relay(class) /\ call = "INIT_INVITE"
          /\ UNCHANGED <<hash, PairVars>>
          /\ call' \in {"INIT_INVITE", "INIT_200_RECEIVED", "INIT_ERROR"}
          /\ timers' \in SUBSET {"C", "WaitAck"}
      BY <1>3, <2>3 DEF IInv, TypeOK, Response, Missed, EnterError
    <3> QED
      BY <2>1, <3>1, Relayed DEF IInv, TypeOK, PairVars, Setup
  <2> QED
    BY <1>3, <2>2, <2>3 DEF Response
<1>4. CASE UacEnds
  BY <1>4 DEF IInv, TypeOK, UacEnds, Reported, PairVars
<1>5. CASE UasEnds
  BY <1>5 DEF IInv, TypeOK, UasEnds, Reported, PairVars
<1>6. CASE AckFailure
  BY <1>6 DEF IInv, TypeOK, AckFailure, PairVars
<1>7. CASE AckSuccess
  <2>1. num' \in 0..1
    BY <1>7 DEF IInv, PairOfCall, AckSuccess
  <2> QED
    BY <1>7, <2>1 DEF IInv, TypeOK, AckSuccess, InviteVars, Answered
<1>8. CASE AckMissed
  BY <1>8, MissedStep DEF IInv, TypeOK, AckMissed, Missed, PairVars, InviteVars
<1>9. ASSUME NEW r \in Reqs, AckAgain(r) PROVE TypeOK'
  <2>1. dialog' \in [Reqs -> Request]
    BY <1>9 DEF IInv, TypeOK, AckAgain, Request, Methods
  <2> QED
    BY <1>9, <2>1, Listed DEF IInv, TypeOK, AckAgain, InviteVars
<1>10. ASSUME NEW r \in Reqs, RequestFails(r) PROVE TypeOK'
  <2>1. dialog[r] \in Request
    BY DEF IInv, TypeOK
  <2>2. dialog' \in [Reqs -> Request]
    BY <1>10, <2>1 DEF IInv, TypeOK, RequestFails, Request
  <2> QED
    BY <1>10, <2>2 DEF IInv, TypeOK, RequestFails, Reported, PairVars, InviteVars
<1>11. ASSUME NEW r \in Reqs, NEW m \in Methods \ {"ACK"}, RequestMissed(r, m) PROVE TypeOK'
  <2>1. dialog' \in [Reqs -> Request]
    BY <1>11 DEF IInv, TypeOK, RequestMissed, Becomes, Request
  <2> QED
    BY <1>11, <2>1, MissedStep
       DEF IInv, TypeOK, RequestMissed, Becomes, Missed, PairVars, InviteVars
<1>12. ASSUME NEW r \in Reqs, NEW m \in Methods \ {"ACK"}, RequestNotForwarded(r, m) PROVE TypeOK'
  <2>1. dialog' \in [Reqs -> Request]
    BY <1>12 DEF IInv, TypeOK, RequestNotForwarded, Becomes, Request
  <2> QED
    BY <1>12, <2>1 DEF IInv, TypeOK, RequestNotForwarded, Becomes, PairVars, InviteVars
<1>13. ASSUME NEW r \in Reqs, NEW m \in Methods \ {"ACK"}, RequestForwarded(r, m) PROVE TypeOK'
  <2>1. dialog' \in [Reqs -> Request]
    BY <1>13 DEF IInv, TypeOK, RequestForwarded, Becomes, Request
  <2>2. pair' = pair /\ more' \in SUBSET Reqs /\ num' \in 0..1
    BY <1>13, Listed DEF IInv, TypeOK, RequestForwarded, PairVars
  <2> QED
    BY <1>13, <2>1, <2>2 DEF IInv, TypeOK, RequestForwarded, Becomes, InviteVars, Answered
<1>14. ASSUME NEW r \in Reqs, NEW class \in Final, Answer(r, class) PROVE TypeOK'
  <2>1. dialog[r] \in Request
    BY DEF IInv, TypeOK
  <2>2. dialog' \in [Reqs -> Request]
    BY <1>14, <2>1 DEF IInv, TypeOK, Answer, Request
  <2>3. CASE Missed
    BY <1>14, <2>2, <2>3, MissedStep DEF IInv, TypeOK, Answer, Missed, PairVars, InviteVars
  <2>4. CASE FreeCall({})
    BY <1>14, <2>2, <2>4, Freed DEF IInv, TypeOK, Answer, InviteVars
  <2>5. CASE more' \subseteq more /\ UNCHANGED <<call, hash, timers, pair, num, wild>>
    BY <1>14, <2>2, <2>5 DEF IInv, TypeOK, Answer, InviteVars
  <2> QED
    BY <1>14, <2>3, <2>4, <2>5 DEF Answer
<1>15. CASE TimerC
  <2>1. uas' \in Forced(uas) /\ uac' \in Forced(uac)
    BY <1>15 DEF TimerC
  <2>2. PICK used \in SUBSET {"uas", "uac"} : FreeCall(used)
    BY <1>15 DEF TimerC
  <2>3. UNCHANGED <<heard, rings, unheeded, dialog>>
    BY <1>15 DEF TimerC
  <2> QED
    BY <2>1, <2>2, <2>3, Freed DEF IInv, TypeOK, Forced
<1>16. CASE TimerWaitAck
  <2>1. FreeCall({}) /\ UNCHANGED <<InviteVars, dialog>>
    BY <1>16 DEF TimerWaitAck
  <2> QED
    BY <2>1, Freed DEF IInv, TypeOK, InviteVars
<1>17. CASE UNCHANGED vars
  BY <1>17 DEF IInv, TypeOK, vars, PairVars, InviteVars
<1> QED
  BY <1>1, <1>2, <1>3, <1>4, <1>5, <1>6, <1>7, <1>8, <1>9, <1>10, <1>11, <1>12,
     <1>13, <1>14, <1>15, <1>16, <1>17 DEF Next

-----------------------------------------------------------------------------
\* A step that leaves the call, its element and its timers alone.
LEMMA SameCall ==
    ASSUME IInv, UNCHANGED <<call, hash, timers, pair>>, pair # "none" => num' = 1
    PROVE  CallInv'
BY DEF IInv, CallInv, TimersOfState, HashOwnsCall, PairOfCall

\* Every step keeps the call, its timers, its element and its pair together.
LEMMA CallStep == ASSUME IInv, [Next]_vars PROVE CallInv'
<1>0. (pair # "none" => num = 1) /\ (call = "INIT_INVITE" => pair = "both")
  BY DEF IInv, PairOfCall, TimersOfState
<1>1. CASE Reject
  BY <1>1 DEF IInv, CallInv, TimersOfState, HashOwnsCall, PairOfCall, Reject, EnterError, Answered
<1>2. CASE Accept
  BY <1>2 DEF IInv, CallInv, TimersOfState, HashOwnsCall, PairOfCall, Accept, Own
<1>3. ASSUME NEW class \in {"1xx"} \cup Final, Response(class) PROVE CallInv'
  <2>1. CASE Missed
    BY <2>1, MissedStep
  <2>2. CASE Found
    <3>1. call = "INIT_INVITE" /\ UNCHANGED <<hash, PairVars>>
      BY <1>3, <2>2 DEF Response, Missed
    <3>2. CASE class = "1xx"
      <4>1. UNCHANGED <<call, timers>>
        BY <1>3, <2>2, <3>2 DEF Response, Missed
      <4> QED
        BY <1>0, <3>1, <4>1, SameCall DEF PairVars
    <3>3. CASE class \in Final
      <4>1. \/ call' = "INIT_200_RECEIVED" /\ timers' = {"WaitAck"}
            \/ call' = "INIT_ERROR" /\ timers' = {"WaitAck"}
        BY <1>3, <2>2, <3>3 DEF Response, Missed, EnterError, Final
      <4>2. hash \in Own
        BY <2>2, AtFound
      <4> QED
        BY <1>0, <3>1, <4>1, <4>2
           DEF CallInv, TimersOfState, HashOwnsCall, PairOfCall, PairVars
    <3> QED
      BY <3>2, <3>3
  <2> QED
    BY <1>3, <2>1, <2>2 DEF Response
<1>4. CASE UacEnds
  BY <1>0, <1>4, SameCall DEF UacEnds, PairVars
<1>5. CASE UasEnds
  BY <1>0, <1>5, SameCall DEF UasEnds, PairVars
<1>6. CASE AckFailure
  BY <1>0, <1>6, SameCall DEF AckFailure, PairVars
<1>7. CASE AckSuccess
  <2>1. hash \in Own
    BY <1>7, AtFound DEF AckSuccess
  <2> QED
    BY <1>7, <2>1 DEF CallInv, TimersOfState, HashOwnsCall, PairOfCall, AckSuccess
<1>8. CASE AckMissed
  BY <1>8, MissedStep DEF AckMissed
<1>9. ASSUME NEW r \in Reqs, AckAgain(r) PROVE CallInv'
  BY <1>9, Listed, SameCall DEF AckAgain
<1>10. ASSUME NEW r \in Reqs, RequestFails(r) PROVE CallInv'
  BY <1>0, <1>10, SameCall DEF RequestFails, PairVars
<1>11. ASSUME NEW r \in Reqs, NEW m \in Methods \ {"ACK"}, RequestMissed(r, m) PROVE CallInv'
  BY <1>11, MissedStep DEF RequestMissed
<1>12. ASSUME NEW r \in Reqs, NEW m \in Methods \ {"ACK"}, RequestNotForwarded(r, m) PROVE CallInv'
  BY <1>0, <1>12, SameCall DEF RequestNotForwarded, PairVars
<1>13. ASSUME NEW r \in Reqs, NEW m \in Methods \ {"ACK"}, RequestForwarded(r, m) PROVE CallInv'
  <2>1. Found /\ hash' = hash
    BY <1>13 DEF RequestForwarded
  <2>2. hash \in Own
    BY <2>1, AtFound
  <2>3. pair' = pair /\ (pair # "none" => num' = 1)
    BY <1>0, <1>13, Listed DEF RequestForwarded, PairVars
  <2>4. (call' = "BYE" /\ timers' = {}) \/ UNCHANGED <<call, timers>>
    BY <1>13 DEF RequestForwarded
  <2>5. CASE call' = "BYE" /\ timers' = {}
    BY <2>1, <2>2, <2>3, <2>5 DEF CallInv, TimersOfState, HashOwnsCall, PairOfCall
  <2> QED
    BY <2>1, <2>3, <2>4, <2>5, SameCall
<1>14. ASSUME NEW r \in Reqs, NEW class \in Final, Answer(r, class) PROVE CallInv'
  <2>1. CASE Missed
    BY <2>1, MissedStep
  <2>2. CASE FreeCall({})
    BY <2>2, Freed
  <2>3. CASE UNCHANGED <<call, hash, timers, pair, num, wild>>
    BY <1>0, <2>3, SameCall
  <2> QED
    BY <1>14, <2>1, <2>2, <2>3 DEF Answer
<1>15. CASE TimerC
  <2>1. PICK used \in SUBSET {"uas", "uac"} : FreeCall(used)
    BY <1>15 DEF TimerC
  <2> QED
    BY <2>1, Freed
<1>16. CASE TimerWaitAck
  <2>1. FreeCall({})
    BY <1>16 DEF TimerWaitAck
  <2> QED
    BY <2>1, Freed
<1>17. CASE UNCHANGED vars
  BY <1>0, <1>17, SameCall DEF vars, PairVars
<1> QED
  BY <1>1, <1>2, <1>3, <1>4, <1>5, <1>6, <1>7, <1>8, <1>9, <1>10, <1>11, <1>12,
     <1>13, <1>14, <1>15, <1>16, <1>17 DEF Next

-----------------------------------------------------------------------------
\* What is used wildly, of the two transactions of the INVITE, stays as it is.
NoWilder == \A t \in {"uas", "uac"} : t \in wild' => t \in wild

\* A step that leaves the transactions of the INVITE alone: the call stays in
\* its state, goes on among the states of an answered call, or is freed.
LEMMA SameInvite ==
    ASSUME IInv, UNCHANGED InviteVars, NoWilder,
           call' = call \/ (call \in Answered /\ call' \in Answered) \/ call' = "FREED"
    PROVE  InviteInv'
<1> USE DEF IInv, InviteInv, InviteVars, NoWilder
<1>1. CASE call' = call
  BY <1>1 DEF CallerHearsCallee, OnlyUnheeded, Setting
<1>2. CASE call \in Answered /\ call' \in Answered
  BY <1>2 DEF CallerHearsCallee, OnlyUnheeded, Setting, Answered
<1>3. CASE call' = "FREED"
  BY <1>3 DEF CallerHearsCallee, OnlyUnheeded, Setting, Answered
<1> QED
  BY <1>1, <1>2, <1>3

\* Every step keeps the proxy's view of the call and the caller's together.
LEMMA InviteStep == ASSUME IInv, [Next]_vars PROVE InviteInv'
<1>1. CASE Reject
  BY <1>1 DEF IInv, InviteInv, CallerHearsCallee, OnlyUnheeded, Setting, Reject, EnterError,
              Answered
<1>2. CASE Accept
  <2>1. wild' = wild /\ "uas" \notin wild /\ "uac" \notin wild
    BY <1>2 DEF IInv, OnlyUnheeded, Setting, Accept
  <2>2. heard' = "none" /\ heard' \notin Final
    BY <1>2 DEF IInv, Setting, Accept, Final
  <2> QED
    BY <1>2, <2>1, <2>2
       DEF IInv, InviteInv, CallerHearsCallee, OnlyUnheeded, Setting, Accept, Answered
<1>3. ASSUME NEW class \in {"1xx"} \cup Final, Response(class) PROVE InviteInv'
  <2>1. /\ class = "1xx" => uac' = "proceeding"
        /\ call # "ABSENT"
    BY <1>3 DEF Response, IInv, Setting
  <2>2. CASE Missed
    <3>1. /\ UNCHANGED <<call, uas, heard, wild>>
          /\ class \in Final => unheeded' = unheeded \cup {"uac"}
          /\ class = "1xx" => unheeded' = unheeded
      BY <1>3, <2>2, AtFound DEF Response, Missed, Final
    <3> QED
      BY <2>1, <3>1 DEF IInv, InviteInv, CallerHearsCallee, OnlyUnheeded, Setting, Final
  <2>3. CASE Found
    <3>1. Relay(class) /\ call = "INIT_INVITE"
      BY <1>3, <2>3 DEF Response, Missed
    <3>2. /\ class = "1xx" => call' = call
          /\ class = "2xx" => call' = "INIT_200_RECEIVED"
          /\ class = "failure" => call' = "INIT_ERROR"
      BY <1>3, <2>3 DEF Response, Missed, EnterError
    <3>3. /\ unheeded \subseteq unheeded' /\ wild' \subseteq wild \cup {"uas"}
          /\ "uas" \in wild' => "uas" \in unheeded'
          /\ "uas" \notin unheeded' => heard' = class
          /\ class = "1xx" /\ uas' # "proceeding" => "uas" \in unheeded'
      BY <3>1, Relayed
    <3> QED
      BY <2>1, <3>1, <3>2, <3>3
         DEF IInv, InviteInv, CallerHearsCallee, OnlyUnheeded, Setting, Final, Answered
  <2> QED
    BY <1>3, <2>2, <2>3 DEF Response
<1>4. CASE UacEnds
  BY <1>4 DEF IInv, InviteInv, CallerHearsCallee, OnlyUnheeded, Setting, UacEnds, Reported
<1>5. CASE UasEnds
  BY <1>5 DEF IInv, InviteInv, CallerHearsCallee, OnlyUnheeded, Setting, UasEnds, Reported
<1>6. CASE AckFailure
  BY <1>6 DEF IInv, InviteInv, CallerHearsCallee, OnlyUnheeded, Setting, AckFailure, Answered
<1>7. CASE AckSuccess
  BY <1>7, SameInvite DEF AckSuccess, NoWilder, Answered
<1>8. CASE AckMissed
  BY <1>8, SameInvite DEF AckMissed, Missed, NoWilder
<1>9. ASSUME NEW r \in Reqs, AckAgain(r) PROVE InviteInv'
  BY <1>9, SameInvite DEF AckAgain, NoWilder
<1>10. ASSUME NEW r \in Reqs, RequestFails(r) PROVE InviteInv'
  BY <1>10, SameInvite DEF RequestFails, Reported, NoWilder
<1>11. ASSUME NEW r \in Reqs, NEW m \in Methods \ {"ACK"}, RequestMissed(r, m) PROVE InviteInv'
  BY <1>11, SameInvite DEF RequestMissed, Becomes, Missed, NoWilder
<1>12. ASSUME NEW r \in Reqs, NEW m \in Methods \ {"ACK"}, RequestNotForwarded(r, m) PROVE InviteInv'
  BY <1>12, SameInvite DEF RequestNotForwarded, Becomes, NoWilder
<1>13. ASSUME NEW r \in Reqs, NEW m \in Methods \ {"ACK"}, RequestForwarded(r, m) PROVE InviteInv'
  <2>1. UNCHANGED InviteVars /\ NoWilder
    BY <1>13 DEF RequestForwarded, Becomes, NoWilder
  <2>2. call' = call \/ (call \in Answered /\ call' \in Answered)
    <3>1. call' = call \/ (m = "BYE" /\ call' = "BYE")
      BY <1>13 DEF RequestForwarded
    <3>2. m = "BYE" => call \notin {"INIT_INVITE", "INIT_ERROR", "ABSENT", "FREED"}
      BY <1>13, AtFound DEF RequestForwarded, Ignores
    <3>3. call \in {"ABSENT", "FREED"} \cup Setup \cup Answered
      BY DEF IInv, TypeOK
    <3> QED
      BY <3>1, <3>2, <3>3 DEF Setup, Answered
  <2> QED
    BY <2>1, <2>2, SameInvite
<1>14. ASSUME NEW r \in Reqs, NEW class \in Final, Answer(r, class) PROVE InviteInv'
  <2>1. UNCHANGED InviteVars
    BY <1>14 DEF Answer
  <2>2. CASE Missed
    BY <2>1, <2>2, SameInvite DEF Missed, NoWilder
  <2>3. CASE FreeCall({})
    <3>1. call' = "FREED" /\ NoWilder
      BY <2>3, Freed DEF NoWilder
    <3> QED
      BY <2>1, <3>1, SameInvite
  <2>4. CASE UNCHANGED <<call, hash, timers, pair, num, wild>>
    BY <2>1, <2>4, SameInvite DEF NoWilder
  <2> QED
    BY <1>14, <2>2, <2>3, <2>4 DEF Answer
<1>15. CASE TimerC
  <2>1. call = "INIT_INVITE"
    BY <1>15 DEF TimerC, IInv, TimersOfState
  <2>2. PICK used \in SUBSET {"uas", "uac"} :
           FreeCall(used) /\ \A t \in used : t \in unheeded
    <3>1. (uas = "gone" => "uas" \in unheeded) /\ (uac = "gone" => "uac" \in unheeded)
      BY <2>1 DEF IInv, Setting
    <3> QED
      BY <1>15, <3>1 DEF TimerC
  <2>3. call' = "FREED" /\ wild' \subseteq wild \cup used \cup {"element"}
    BY <2>2, Freed
  <2>4. UNCHANGED <<heard, unheeded>>
    BY <1>15 DEF TimerC
  <2> QED
    BY <2>2, <2>3, <2>4
       DEF IInv, InviteInv, CallerHearsCallee, OnlyUnheeded, Setting, Answered
<1>16. CASE TimerWaitAck
  <2>1. FreeCall({}) /\ UNCHANGED InviteVars
    BY <1>16 DEF TimerWaitAck
  <2>2. call' = "FREED" /\ NoWilder
    BY <2>1, Freed DEF NoWilder
  <2> QED
    BY <2>1, <2>2, SameInvite
<1>17. CASE UNCHANGED vars
  BY <1>17, SameInvite DEF vars, NoWilder
<1> QED
  BY <1>1, <1>2, <1>3, <1>4, <1>5, <1>6, <1>7, <1>8, <1>9, <1>10, <1>11, <1>12,
     <1>13, <1>14, <1>15, <1>16, <1>17 DEF Next

-----------------------------------------------------------------------------
\* The invariant is inductive.
THEOREM Step == IInv /\ [Next]_vars => IInv'
BY TypeStep, CallStep, InviteStep DEF IInv, CallInv, InviteInv

\* The invariant holds in every reachable state.
THEOREM Invariance == Spec => []IInv
BY Initial, Step, PTL DEF Spec

\* Every variable of a call keeps its type; in particular the list of pairs
\* never has more than one.
THEOREM TypeCorrect == Spec => []TypeOK
<1>1. IInv => TypeOK
  BY DEF IInv
<1> QED
  BY <1>1, Invariance, PTL

\* The states of a call's setup, and only they, are bounded by a timer; timer C
\* never expires without the pair its handler uses.
THEOREM SetupTimed == Spec => []TimersOfState
<1>1. IInv => TimersOfState
  BY DEF IInv
<1> QED
  BY <1>1, Invariance, PTL

\* The hash never leads to a call that was freed, and has every call that was
\* forwarded, as long as it lasts.
THEOREM HashFaithful == Spec => []HashOwnsCall
<1>1. IInv => HashOwnsCall
  BY DEF IInv
<1> QED
  BY <1>1, Invariance, PTL

\* What the caller was told is what the proxy believes of the call, unless the
\* proxy ignored the failure of the caller's transaction.
THEOREM CallerToldTheState == Spec => []CallerHearsCallee
<1>1. IInv => CallerHearsCallee
  BY DEF IInv
<1> QED
  BY <1>1, Invariance, PTL

\* A response or timer C uses a freed transaction of the INVITE only if the proxy
\* ignored the report of its end.
THEOREM WildOnlyIfUnheeded == Spec => []OnlyUnheeded
<1>1. IInv => OnlyUnheeded
  BY DEF IInv
<1> QED
  BY <1>1, Invariance, PTL

\* A call that was freed stays freed, and no step gives it a timer or an
\* element of the hash again.
THEOREM FreedForGood == Spec => [][call = "FREED" => call' = "FREED" /\ timers' = {}]_vars
<1>1. ASSUME IInv, IInv', Next, call = "FREED" PROVE call' = "FREED"
  <2>1. hash \notin Own /\ timers = {}
    BY <1>1 DEF IInv, HashOwnsCall, TimersOfState
  <2>2. ~Found
    BY <2>1 DEF Found, Own
  <2>3. ASSUME NEW class \in {"1xx"} \cup Final, Response(class) PROVE call' = "FREED"
    BY <1>1, <2>2, <2>3 DEF Response, Missed
  <2>4. ASSUME Reject \/ Accept \/ AckFailure \/ AckSuccess \/ TimerC \/ TimerWaitAck
        PROVE  FALSE
    BY <1>1, <2>1, <2>2, <2>4
       DEF Reject, Accept, AckFailure, AckSuccess, TimerC, TimerWaitAck
  <2>5. ASSUME UacEnds \/ UasEnds \/ AckMissed PROVE call' = "FREED"
    BY <1>1, <2>5 DEF UacEnds, UasEnds, AckMissed, Missed
  <2>6. ASSUME NEW r \in Reqs, AckAgain(r) \/ RequestFails(r) PROVE call' = "FREED"
    BY <1>1, <2>6 DEF AckAgain, RequestFails
  <2>7. ASSUME NEW r \in Reqs, NEW m \in Methods \ {"ACK"},
               RequestMissed(r, m) \/ RequestNotForwarded(r, m) \/ RequestForwarded(r, m)
        PROVE  call' = "FREED"
    BY <1>1, <2>2, <2>7 DEF RequestMissed, RequestNotForwarded, RequestForwarded, Missed
  <2>8. ASSUME NEW r \in Reqs, NEW class \in Final, Answer(r, class) PROVE call' = "FREED"
    BY <1>1, <2>2, <2>8 DEF Answer, Missed
  <2> QED
    BY <1>1, <2>3, <2>4, <2>5, <2>6, <2>7, <2>8 DEF Next
<1>2. IInv /\ IInv' /\ [Next]_vars => [call = "FREED" => call' = "FREED" /\ timers' = {}]_vars
  BY <1>1 DEF IInv, TimersOfState
<1> QED
  BY <1>2, Invariance, PTL DEF Spec
=============================================================================
