------------------------- MODULE Transactions_proofs -------------------------
(***************************************************************************)
(* The invariants of a transaction, whatever its kind, for every T1 and T2 *)
(* and whether or not timers can fail to start: those of the INVITE client *)
(* (IC), the INVITE server (IS), the non-INVITE server (NIS) and the       *)
(* non-INVITE client (NIC), each with its steps, then those of all kinds   *)
(* together, and last a client and a server at the two ends of a request.  *)
(***************************************************************************)
EXTENDS Transactions, NonInviteExchange, FiniteSetTheorems, TLAPS

-----------------------------------------------------------------------------
(* The INVITE client, however often the peer repeats its responses.          *)
ICOutcomes  == {"final", "error"}
ICEndings   == {"TX_FAILED", "INTERNAL_ERROR", "TIMEOUT", "PEER", "TU_FORCE_TERM_TRANS"}
ICAnswering == {"NONE", "CALLING", "PROCEEDING"}

\* What the TU may have heard: final responses while the transaction lives, and
\* then errors.
ICOnlyFinals(s)       == \A i \in 1..Len(s) : s[i] = "final"
ICFinalsThenErrors(s) == \A i \in 1..Len(s) :
                          s[i] = "error" => \A j \in i..Len(s) : s[j] = "error"

ICHeard ==
    /\ state # "TERMINATED" => ICOnlyFinals(told)
    /\ ICFinalsThenErrors(told)
    /\ state = "COMPLETED" => told # <<>>

\* Nothing has happened before the request, and as long as responses are taken
\* no ACK has left.
ICFresh    == state = "NONE" => tpInfo = IC!NoFdTp("ANY") /\ told = <<>> /\ clock = 0
ICNoAckYet == state \in ICAnswering => ack \in {"none", "TCP_CONN"}

ICInv == /\ IC!TypeOK /\ IC!TimersOfState /\ IC!NeverSilent /\ ICHeard
         /\ ICFresh /\ ICNoAckYet /\ IC!Doubling

-----------------------------------------------------------------------------
\* Whatever is sent, the transport answers with a status and a tpInfo.
LEMMA ICSending ==
    ASSUME NEW tp \in IC!TpInfos, NEW tcp, NEW o \in IC!SendOutcomes(tp, tcp)
    PROVE  /\ o.status \in IC!Statuses /\ o.tp \in IC!TpInfos
           /\ o.status = "UDP" => ~tcp
<1>1. IC!OnFdTp \in IC!TpInfos
  BY DEF IC!OnFdTp, IC!TpInfos, IC!TpTypes
<1>2. \A t \in {"UDP", "TCP"} : IC!NoFdTp(t) \in IC!TpInfos
  BY DEF IC!NoFdTp, IC!TpInfos, IC!TpTypes
<1>3. CASE tp.onFd /\ (tp.type = "TCP" \/ tcp)
  BY <1>1, <1>3 DEF IC!SendOutcomes, IC!Statuses
<1>4. CASE ~(tp.onFd /\ (tp.type = "TCP" \/ tcp)) /\ tcp
  BY <1>2, <1>4 DEF IC!SendOutcomes, IC!Statuses
<1>5. CASE ~(tp.onFd /\ (tp.type = "TCP" \/ tcp)) /\ ~tcp
  BY <1>2, <1>5 DEF IC!SendOutcomes, IC!Statuses
<1> QED
  BY <1>3, <1>4, <1>5

\* What one more thing makes of what the TU has heard.
LEMMA ICOneMore ==
    ASSUME NEW s \in Seq(ICOutcomes), NEW e \in ICOutcomes
    PROVE  /\ Append(s, e) \in Seq(ICOutcomes) /\ Append(s, e) # <<>>
           /\ Len(Append(s, e)) = Len(s) + 1
           /\ Append(s, e)[Len(s) + 1] = e
           /\ e = "final" /\ ICOnlyFinals(s) => ICOnlyFinals(Append(s, e))
           /\ e = "error" /\ ICFinalsThenErrors(s) => ICFinalsThenErrors(Append(s, e))
<1>1. /\ Append(s, e) \in Seq(ICOutcomes) /\ Len(Append(s, e)) = Len(s) + 1
      /\ Len(s) \in Nat /\ Append(s, e)[Len(s) + 1] = e
  OBVIOUS
<1>2. \A i \in 1..Len(s) : Append(s, e)[i] = s[i]
  OBVIOUS
<1>3. Append(s, e) # <<>>
  BY <1>1
<1>4. e = "final" /\ ICOnlyFinals(s) => ICOnlyFinals(Append(s, e))
  BY <1>1, <1>2 DEF ICOnlyFinals
<1>5. e = "error" /\ ICFinalsThenErrors(s) => ICFinalsThenErrors(Append(s, e))
  BY <1>1, <1>2 DEF ICFinalsThenErrors
<1> QED
  BY <1>1, <1>3, <1>4, <1>5

LEMMA ICFinalsOnly == ASSUME NEW s, ICOnlyFinals(s) PROVE ICFinalsThenErrors(s)
BY DEF ICOnlyFinals, ICFinalsThenErrors

\* The end: no timer is left, and the TU has heard something unless it wanted the
\* end itself.
LEMMA ICTerminating ==
    ASSUME NEW from, NEW msgType \in ICEndings,
           NEW ts \in SUBSET {"A", "B", "D"}, NEW td \in Seq(ICOutcomes),
           ICFinalsThenErrors(td),
           \/ ts \subseteq {"D"}
           \/ /\ from = "CALLING"
              /\ msgType \in {"TX_FAILED", "INTERNAL_ERROR", "TU_FORCE_TERM_TRANS"},
           td # <<>> \/ msgType \in {"TX_FAILED", "INTERNAL_ERROR", "TU_FORCE_TERM_TRANS"},
           IC!EnterTerminated(from, msgType, ts, td)
    PROVE  /\ state' = "TERMINATED" /\ timers' = {} /\ endedBy' \in ICEndings
           /\ told' \in Seq(ICOutcomes) /\ ICFinalsThenErrors(told')
           /\ told' # <<>> \/ endedBy' = "TU_FORCE_TERM_TRANS"
           /\ told' = td \/ told' = Append(td, "error")
<1>1. state' = "TERMINATED" /\ endedBy' = msgType
  BY DEF IC!EnterTerminated
<1>2. timers' = {}
  BY DEF IC!EnterTerminated
<1>3. told' = td \/ told' = Append(td, "error")
  BY DEF IC!EnterTerminated
<1>4. "error" \in ICOutcomes
  BY DEF ICOutcomes
<1>5. /\ Append(td, "error") \in Seq(ICOutcomes) /\ Append(td, "error") # <<>>
      /\ ICFinalsThenErrors(Append(td, "error"))
  BY <1>4, ICOneMore
<1>6. td = <<>> /\ msgType # "TU_FORCE_TERM_TRANS" => told' = Append(td, "error")
  BY DEF IC!EnterTerminated
<1> QED
  BY <1>1, <1>2, <1>3, <1>5, <1>6

\* The invariant once the transaction has gone.
LEMMA ICEnded ==
    ASSUME ICInv, state' = "TERMINATED", timers' = {}, endedBy' \in ICEndings,
           told' \in Seq(ICOutcomes), ICFinalsThenErrors(told'),
           told' # <<>> \/ endedBy' = "TU_FORCE_TERM_TRANS",
           tpInfo' \in IC!TpInfos, timerAEGValue' \in Nat, clock' \in Nat,
           pending' \in BOOLEAN, out' \in BOOLEAN, ack' \in IC!Statuses \cup {"none"},
           UNCHANGED <<reqTcp, ackTcp>>
    PROVE  ICInv'
<1>1. IC!TypeOK'
  BY DEF ICInv, IC!TypeOK, ICEndings, ICOutcomes
<1>2. IC!TimersOfState' /\ IC!NeverSilent'
  BY DEF IC!TimersOfState, IC!NeverSilent
<1>3. ICHeard' /\ ICFresh' /\ ICNoAckYet'
  BY DEF ICHeard, ICFresh, ICNoAckYet, ICAnswering
<1>4. IC!Doubling'
  BY DEF IC!Doubling
<1> QED
  BY <1>1, <1>2, <1>3, <1>4 DEF ICInv

\* The types, and what the TU has heard as long as the transaction lives.
LEMMA ICTypes ==
    ASSUME ICInv
    PROVE  /\ tpInfo \in IC!TpInfos /\ timers \in SUBSET {"A", "B", "D"}
           /\ timerAEGValue \in Nat /\ clock \in Nat /\ told \in Seq(ICOutcomes)
           /\ pending \in BOOLEAN /\ out \in BOOLEAN /\ ack \in IC!Statuses \cup {"none"}
           /\ endedBy \in ICEndings \cup {"none"}
           /\ reqTcp \in BOOLEAN /\ ackTcp \in BOOLEAN
           /\ ICFinalsThenErrors(told)
           /\ state # "TERMINATED" => ICOnlyFinals(told)
           /\ state = "CALLING" => timers \in SUBSET {"A", "B"}
           /\ state = "COMPLETED" => timers \in SUBSET {"D"} /\ told # <<>>
           /\ state \in {"NONE", "PROCEEDING"} => timers = {}
<1>1. /\ tpInfo \in IC!TpInfos /\ timers \in SUBSET {"A", "B", "D"}
      /\ timerAEGValue \in Nat /\ clock \in Nat /\ told \in Seq(ICOutcomes)
      /\ pending \in BOOLEAN /\ out \in BOOLEAN /\ ack \in IC!Statuses \cup {"none"}
      /\ endedBy \in ICEndings \cup {"none"}
      /\ reqTcp \in BOOLEAN /\ ackTcp \in BOOLEAN
  BY DEF ICInv, IC!TypeOK, ICOutcomes, ICEndings
<1>2. /\ ICFinalsThenErrors(told)
      /\ state # "TERMINATED" => ICOnlyFinals(told)
      /\ state = "COMPLETED" => told # <<>>
  BY DEF ICInv, ICHeard
<1>3. /\ state = "CALLING" => timers \in SUBSET {"A", "B"}
      /\ state = "COMPLETED" => timers \in SUBSET {"D"}
      /\ state \in {"NONE", "PROCEEDING"} => timers = {}
  BY DEF ICInv, IC!TimersOfState
<1> QED
  BY <1>1, <1>2, <1>3

-----------------------------------------------------------------------------
LEMMA ICInitial == IC!Init => ICInv
<1> SUFFICES ASSUME IC!Init PROVE ICInv
  OBVIOUS
<1>1. tpInfo \in IC!TpInfos
  BY DEF IC!Init, IC!NoFdTp, IC!TpInfos, IC!TpTypes
<1>2. <<>> \in Seq({"final", "error"})
  OBVIOUS
<1>3. IC!TypeOK
  BY <1>1, <1>2 DEF IC!Init, IC!TypeOK
<1>4. IC!TimersOfState /\ IC!NeverSilent
  BY DEF IC!Init, IC!TimersOfState, IC!NeverSilent
<1>5. ICOnlyFinals(<<>>)
  BY DEF ICOnlyFinals
<1>6. ICHeard /\ ICFresh /\ ICNoAckYet
  BY <1>5, ICFinalsOnly DEF IC!Init, ICHeard, ICFresh, ICNoAckYet
<1>7. IC!Doubling
  BY DEF IC!Init, IC!Doubling
<1> QED
  BY <1>3, <1>4, <1>6, <1>7 DEF ICInv

\* The invariant in CALLING.
LEMMA ICCalling ==
    ASSUME ICInv, state' = "CALLING", timers' \in SUBSET {"A", "B"},
           told' \in Seq(ICOutcomes), ICOnlyFinals(told'),
           told' = <<>> => "B" \in timers',
           "A" \in timers' => /\ told' = <<>> /\ ~reqTcp /\ "B" \in timers'
                              /\ timerAEGValue' = clock' + T1,
           tpInfo' \in IC!TpInfos, timerAEGValue' \in Nat, clock' \in Nat,
           pending' \in BOOLEAN, out' \in BOOLEAN, ack' \in {"none", "TCP_CONN"},
           UNCHANGED <<endedBy, reqTcp, ackTcp>>
    PROVE  ICInv'
<1>1. IC!TypeOK'
  BY DEF ICInv, IC!TypeOK, ICOutcomes, IC!Statuses
<1>2. IC!TimersOfState' /\ IC!NeverSilent'
  BY DEF IC!TimersOfState, IC!NeverSilent
<1>3. ICHeard' /\ ICFresh' /\ ICNoAckYet'
  BY ICFinalsOnly DEF ICHeard, ICFresh, ICNoAckYet
<1>4. IC!Doubling'
  BY DEF IC!Doubling
<1> QED
  BY <1>1, <1>2, <1>3, <1>4 DEF ICInv

\* The invariant in PROCEEDING.
LEMMA ICProceeding ==
    ASSUME ICInv, state' = "PROCEEDING", timers' = {},
           told' \in Seq(ICOutcomes), ICOnlyFinals(told'),
           tpInfo' \in IC!TpInfos, timerAEGValue' \in Nat, clock' \in Nat,
           pending' \in BOOLEAN, out' \in BOOLEAN, ack' \in {"none", "TCP_CONN"},
           UNCHANGED <<endedBy, reqTcp, ackTcp>>
    PROVE  ICInv'
<1>1. IC!TypeOK'
  BY DEF ICInv, IC!TypeOK, ICOutcomes, IC!Statuses
<1>2. IC!TimersOfState' /\ IC!NeverSilent'
  BY DEF IC!TimersOfState, IC!NeverSilent
<1>3. ICHeard' /\ ICFresh' /\ ICNoAckYet'
  BY ICFinalsOnly DEF ICHeard, ICFresh, ICNoAckYet
<1>4. IC!Doubling'
  BY DEF IC!Doubling
<1> QED
  BY <1>1, <1>2, <1>3, <1>4 DEF ICInv

\* The invariant in COMPLETED.
LEMMA ICCompleted ==
    ASSUME ICInv, state' = "COMPLETED", timers' \in SUBSET {"D"},
           told' \in Seq(ICOutcomes), ICOnlyFinals(told'), told' # <<>>,
           tpInfo' \in IC!TpInfos, timerAEGValue' \in Nat, clock' \in Nat,
           pending' \in BOOLEAN, out' \in BOOLEAN, ack' \in IC!Statuses \cup {"none"},
           UNCHANGED <<endedBy, reqTcp, ackTcp>>
    PROVE  ICInv'
<1>1. IC!TypeOK'
  BY DEF ICInv, IC!TypeOK, ICOutcomes
<1>2. IC!TimersOfState' /\ IC!NeverSilent'
  BY DEF IC!TimersOfState, IC!NeverSilent
<1>3. ICHeard' /\ ICFresh' /\ ICNoAckYet'
  BY ICFinalsOnly DEF ICHeard, ICFresh, ICNoAckYet, ICAnswering
<1>4. IC!Doubling'
  BY DEF IC!Doubling
<1> QED
  BY <1>1, <1>2, <1>3, <1>4 DEF ICInv

-----------------------------------------------------------------------------
\* The request has left: B runs, A over UDP, or the TU hears that it failed.
LEMMA ICCallingEffect ==
    ASSUME ICInv, state = "NONE", NEW o, o.status \in IC!Statuses, IC!EnterCalling(o)
    PROVE  /\ timerAEGValue' \in Nat
           /\ \/ /\ state' = "TERMINATED" /\ timers' = {} /\ endedBy' \in ICEndings
                 /\ told' \in Seq(ICOutcomes) /\ ICFinalsThenErrors(told')
                 /\ told' # <<>> \/ endedBy' = "TU_FORCE_TERM_TRANS"
              \/ /\ state' = "CALLING" /\ timers' = {"A", "B"} /\ o.status = "UDP"
                 /\ timerAEGValue' = T1 /\ UNCHANGED <<told, endedBy>>
              \/ /\ state' = "CALLING" /\ timers' = {"B"} /\ UNCHANGED <<told, endedBy>>
<1>1. /\ timers = {} /\ told \in Seq(ICOutcomes) /\ ICFinalsThenErrors(told)
      /\ timerAEGValue \in Nat /\ T1 \in Nat
  BY ICTypes, TimerAssumption
<1>2. \A ts \in SUBSET {"A", "B", "D"} : \A m \in {"TX_FAILED", "INTERNAL_ERROR"} :
         IC!EnterTerminated("CALLING", m, ts, told) =>
            /\ state' = "TERMINATED" /\ timers' = {} /\ endedBy' \in ICEndings
            /\ told' \in Seq(ICOutcomes) /\ ICFinalsThenErrors(told')
            /\ told' # <<>> \/ endedBy' = "TU_FORCE_TERM_TRANS"
  <2> SUFFICES ASSUME NEW ts \in SUBSET {"A", "B", "D"},
                      NEW m \in {"TX_FAILED", "INTERNAL_ERROR"},
                      IC!EnterTerminated("CALLING", m, ts, told)
               PROVE  /\ state' = "TERMINATED" /\ timers' = {} /\ endedBy' \in ICEndings
                      /\ told' \in Seq(ICOutcomes) /\ ICFinalsThenErrors(told')
                      /\ told' # <<>> \/ endedBy' = "TU_FORCE_TERM_TRANS"
    OBVIOUS
  <2>1. m \in ICEndings
    BY DEF ICEndings
  <2> QED
    BY <1>1, <2>1, ICTerminating
<1>3. CASE IC!Failed(o)
  <2>1. IC!EnterTerminated("CALLING", "TX_FAILED", timers, told) /\ UNCHANGED timerAEGValue
    BY <1>3 DEF IC!EnterCalling
  <2> QED
    BY <1>1, <1>2, <2>1
<1>4. CASE ~IC!Failed(o)
  <2>1. PICK withB \in IC!Started(timers, "B") :
           IF "B" \notin withB
           THEN /\ IC!EnterTerminated("CALLING", "INTERNAL_ERROR", withB, told)
                /\ UNCHANGED timerAEGValue
           ELSE IF o.status = "UDP"
           THEN /\ timerAEGValue' = T1
                /\ \E withA \in IC!Started(withB, "A") :
                      IF "A" \notin withA
                      THEN IC!EnterTerminated("CALLING", "INTERNAL_ERROR", withA, told)
                      ELSE state' = "CALLING" /\ timers' = withA /\ UNCHANGED <<told, endedBy>>
           ELSE /\ state' = "CALLING" /\ timers' = withB
                /\ UNCHANGED <<told, endedBy, timerAEGValue>>
    BY <1>4 DEF IC!EnterCalling
  <2>2. withB \in {{}, {"B"}}
    BY <1>1 DEF IC!Started
  <2>3. CASE "B" \notin withB
    BY <1>1, <1>2, <2>1, <2>2, <2>3
  <2>4. CASE "B" \in withB /\ o.status = "UDP"
    <3>1. timerAEGValue' = T1
      BY <2>1, <2>4
    <3>2. PICK withA \in IC!Started(withB, "A") :
             IF "A" \notin withA
             THEN IC!EnterTerminated("CALLING", "INTERNAL_ERROR", withA, told)
             ELSE state' = "CALLING" /\ timers' = withA /\ UNCHANGED <<told, endedBy>>
      BY <2>1, <2>4
    <3>3. withA \in {{"B"}, {"A", "B"}}
      BY <2>2, <2>4 DEF IC!Started
    <3>4. CASE "A" \notin withA
      BY <1>1, <1>2, <3>1, <3>2, <3>3, <3>4
    <3>5. CASE "A" \in withA
      BY <1>1, <2>4, <3>1, <3>2, <3>3, <3>5
    <3> QED
      BY <3>4, <3>5
  <2>5. CASE "B" \in withB /\ o.status # "UDP"
    BY <1>1, <2>1, <2>2, <2>5
  <2> QED
    BY <2>3, <2>4, <2>5
<1> QED
  BY <1>3, <1>4

LEMMA ICRequestStep ==
    ASSUME ICInv, NEW o \in IC!SendOutcomes(tpInfo, reqTcp), IC!TURequest(o)
    PROVE  ICInv'
<1>1. /\ state = "NONE" /\ tpInfo' = o.tp /\ IC!EnterCalling(o)
      /\ UNCHANGED <<clock, ack, reqTcp, ackTcp>>
      /\ pending' = (o.status = "TCP_CONN") /\ out' = (o.status \in {"UDP", "TCP_OK"})
  BY DEF IC!TURequest
<1>2. /\ told = <<>> /\ clock = 0 /\ ack \in {"none", "TCP_CONN"}
      /\ told \in Seq(ICOutcomes) /\ ICOnlyFinals(told)
  BY <1>1, ICTypes DEF ICInv, ICFresh, ICNoAckYet, ICAnswering
<1>3. /\ o.status \in IC!Statuses /\ o.tp \in IC!TpInfos
      /\ o.status = "UDP" => ~reqTcp
  BY ICTypes, ICSending
<1>4. pending' \in BOOLEAN /\ out' \in BOOLEAN
  BY <1>1
<1>5. /\ timerAEGValue' \in Nat
      /\ \/ /\ state' = "TERMINATED" /\ timers' = {} /\ endedBy' \in ICEndings
            /\ told' \in Seq(ICOutcomes) /\ ICFinalsThenErrors(told')
            /\ told' # <<>> \/ endedBy' = "TU_FORCE_TERM_TRANS"
         \/ /\ state' = "CALLING" /\ timers' = {"A", "B"} /\ o.status = "UDP"
            /\ timerAEGValue' = T1 /\ UNCHANGED <<told, endedBy>>
         \/ /\ state' = "CALLING" /\ timers' = {"B"} /\ UNCHANGED <<told, endedBy>>
  BY <1>1, <1>3, ICCallingEffect
<1>6. CASE state' = "TERMINATED"
  BY <1>1, <1>2, <1>3, <1>4, <1>5, <1>6, ICEnded DEF IC!Statuses
<1>7. CASE state' = "CALLING"
  <2>1. T1 = 0 + T1
    BY TimerAssumption
  <2> QED
    BY <1>1, <1>2, <1>3, <1>4, <1>5, <1>7, <2>1, ICCalling
<1> QED
  BY <1>5, <1>6, <1>7

\* Timer A: the interval doubles, and the clock has moved by the old one.
LEMMA ICTimerAStep ==
    ASSUME ICInv, NEW o \in IC!SendOutcomes([tpInfo EXCEPT !.type = "UDP"], reqTcp), IC!TimerA(o)
    PROVE  ICInv'
<1>1. /\ state = "CALLING" /\ "A" \in timers /\ tpInfo' = o.tp
      /\ UNCHANGED <<pending, out, ack, reqTcp, ackTcp>>
  BY DEF IC!TimerA
<1>2. /\ told = <<>> /\ ~reqTcp /\ "B" \in timers /\ timerAEGValue = clock + T1
      /\ timers \in SUBSET {"A", "B"} /\ ICOnlyFinals(told)
      /\ ack \in {"none", "TCP_CONN"}
  BY <1>1, ICTypes DEF ICInv, IC!Doubling, ICNoAckYet, ICAnswering
<1>3. /\ told \in Seq(ICOutcomes) /\ ICFinalsThenErrors(told) /\ timerAEGValue \in Nat
      /\ clock \in Nat /\ pending \in BOOLEAN /\ out \in BOOLEAN
  BY ICTypes
<1>4. o.tp \in IC!TpInfos
  <2>1. [tpInfo EXCEPT !.type = "UDP"] \in IC!TpInfos
    BY ICTypes DEF IC!TpInfos, IC!TpTypes
  <2> QED
    BY <2>1, ICSending
<1>5. CASE IC!Failed(o)
  <2>1. /\ IC!EnterTerminated("CALLING", "TX_FAILED", timers \ {"A"}, told)
        /\ UNCHANGED <<timerAEGValue, clock>>
    BY <1>1, <1>5 DEF IC!TimerA
  <2>2. /\ state' = "TERMINATED" /\ timers' = {} /\ endedBy' \in ICEndings
        /\ told' \in Seq(ICOutcomes) /\ ICFinalsThenErrors(told')
        /\ told' # <<>> \/ endedBy' = "TU_FORCE_TERM_TRANS"
    <3>1. timers \ {"A"} \in SUBSET {"A", "B", "D"} /\ "TX_FAILED" \in ICEndings
      BY <1>2 DEF ICEndings
    <3> QED
      BY <1>3, <2>1, <3>1, ICTerminating
  <2> QED
    BY <1>1, <1>2, <1>3, <1>4, <2>1, <2>2, ICEnded DEF IC!Statuses
<1>6. CASE ~IC!Failed(o)
  <2>1. /\ timerAEGValue' = 2 * timerAEGValue
        /\ clock' = clock + timerAEGValue
        /\ timers' \in IC!Started(timers \ {"A"}, "A")
        /\ UNCHANGED <<state, told, endedBy>>
    BY <1>6 DEF IC!TimerA
  <2>2. timers' \in SUBSET {"A", "B"} /\ "B" \in timers'
    BY <1>2, <2>1 DEF IC!Started
  <2>3. timerAEGValue' \in Nat /\ clock' \in Nat /\ timerAEGValue' = clock' + T1
    BY <1>2, <1>3, <2>1, TimerAssumption
  <2> QED
    BY <1>1, <1>2, <1>3, <1>4, <2>1, <2>2, <2>3, ICCalling
<1> QED
  BY <1>5, <1>6

LEMMA ICTimerBStep == ASSUME ICInv, IC!TimerB PROVE ICInv'
<1>1. /\ state = "CALLING"
      /\ IC!EnterTerminated("CALLING", "TIMEOUT", timers \ {"A", "B"}, Append(told, "error"))
      /\ UNCHANGED <<tpInfo, timerAEGValue, clock, pending, out, ack, reqTcp, ackTcp>>
  BY DEF IC!TimerB
<1>2. timers \ {"A", "B"} = {} /\ {} \in SUBSET {"A", "B", "D"} /\ "TIMEOUT" \in ICEndings
  BY <1>1, ICTypes DEF ICEndings
<1>3. "error" \in ICOutcomes /\ told \in Seq(ICOutcomes) /\ ICFinalsThenErrors(told)
  BY ICTypes DEF ICOutcomes
<1>4. /\ Append(told, "error") \in Seq(ICOutcomes) /\ Append(told, "error") # <<>>
      /\ ICFinalsThenErrors(Append(told, "error"))
  BY <1>3, ICOneMore
<1>5. /\ state' = "TERMINATED" /\ timers' = {} /\ endedBy' \in ICEndings
      /\ told' \in Seq(ICOutcomes) /\ ICFinalsThenErrors(told')
      /\ told' # <<>> \/ endedBy' = "TU_FORCE_TERM_TRANS"
  BY <1>1, <1>2, <1>4, ICTerminating
<1> QED
  BY <1>1, <1>5, ICTypes, ICEnded

LEMMA ICTimerDStep == ASSUME ICInv, IC!TimerD PROVE ICInv'
<1>1. /\ state = "COMPLETED"
      /\ IC!EnterTerminated("COMPLETED", "TIMEOUT", timers \ {"D"}, told)
      /\ UNCHANGED <<tpInfo, timerAEGValue, clock, pending, out, ack, reqTcp, ackTcp>>
  BY DEF IC!TimerD
<1>2. /\ timers \ {"D"} = {} /\ {} \in SUBSET {"A", "B", "D"} /\ "TIMEOUT" \in ICEndings
      /\ told \in Seq(ICOutcomes) /\ told # <<>> /\ ICFinalsThenErrors(told)
  BY <1>1, ICTypes DEF ICEndings
<1>3. /\ state' = "TERMINATED" /\ timers' = {} /\ endedBy' \in ICEndings
      /\ told' \in Seq(ICOutcomes) /\ ICFinalsThenErrors(told')
      /\ told' # <<>> \/ endedBy' = "TU_FORCE_TERM_TRANS"
  BY <1>1, <1>2, ICTerminating
<1> QED
  BY <1>1, <1>3, ICTypes, ICEnded

LEMMA ICProvisionalStep == ASSUME ICInv, IC!PeerProvisional PROVE ICInv'
<1>1. /\ state = "CALLING" /\ state' = "PROCEEDING" /\ timers' = timers \ {"A", "B"}
      /\ UNCHANGED <<tpInfo, timerAEGValue, clock, told, pending, out, ack,
                     endedBy, reqTcp, ackTcp>>
  BY DEF IC!PeerProvisional
<1>2. timers' = {} /\ ICOnlyFinals(told)
  BY <1>1, ICTypes
<1>3. ack \in {"none", "TCP_CONN"}
  BY <1>1 DEF ICInv, ICNoAckYet, ICAnswering
<1> QED
  BY <1>1, <1>2, <1>3, ICTypes, ICProceeding

LEMMA ICSuccessStep == ASSUME ICInv, IC!PeerSuccess PROVE ICInv'
<1>1. /\ state \in {"CALLING", "PROCEEDING"}
      /\ IC!EnterTerminated(state, "PEER", timers \ {"A", "B"}, Append(told, "final"))
      /\ UNCHANGED <<tpInfo, timerAEGValue, clock, pending, out, ack, reqTcp, ackTcp>>
  BY DEF IC!PeerSuccess, IC!Answerable
<1>2. /\ timers \ {"A", "B"} = {} /\ {} \in SUBSET {"A", "B", "D"} /\ "PEER" \in ICEndings
      /\ "final" \in ICOutcomes /\ told \in Seq(ICOutcomes) /\ ICOnlyFinals(told)
  BY <1>1, ICTypes DEF ICEndings, ICOutcomes
<1>3. /\ Append(told, "final") \in Seq(ICOutcomes) /\ Append(told, "final") # <<>>
      /\ ICFinalsThenErrors(Append(told, "final"))
  BY <1>2, ICOneMore, ICFinalsOnly
<1>4. /\ state' = "TERMINATED" /\ timers' = {} /\ endedBy' \in ICEndings
      /\ told' \in Seq(ICOutcomes) /\ ICFinalsThenErrors(told')
      /\ told' # <<>> \/ endedBy' = "TU_FORCE_TERM_TRANS"
  BY <1>1, <1>2, <1>3, ICTerminating
<1> QED
  BY <1>1, <1>4, ICTypes, ICEnded

\* A failure: the TU hears of it, and unless its ACK has to wait no other one is
\* taken.
LEMMA ICErrorStep ==
    ASSUME ICInv, NEW o \in IC!SendOutcomes(tpInfo, ackTcp), IC!PeerError(o)
    PROVE  ICInv'
<1> DEFINE ts == timers \ {"A", "B"}
           td == Append(told, "final")
<1>1. /\ state \in {"CALLING", "PROCEEDING"} /\ tpInfo' = o.tp /\ ack' = o.status
      /\ pending' = (pending \/ o.status = "TCP_CONN")
      /\ UNCHANGED <<timerAEGValue, clock, out, reqTcp, ackTcp>>
  BY DEF IC!PeerError, IC!Answerable
<1>2. \/ /\ o.status \in {"FAIL", "TCP_OK"}
         /\ IC!EnterTerminated(state, "TX_FAILED", ts, td)
      \/ /\ o.status = "UDP" /\ state' = "COMPLETED"
         /\ timers' \in IC!Started(ts, "D") /\ told' = td /\ UNCHANGED endedBy
      \/ /\ o.status = "TCP_CONN" /\ timers' = ts /\ told' = td
         /\ UNCHANGED <<state, endedBy>>
  BY DEF IC!PeerError
<1>3. /\ ts = {} /\ {} \in SUBSET {"A", "B", "D"} /\ "TX_FAILED" \in ICEndings
      /\ "final" \in ICOutcomes /\ told \in Seq(ICOutcomes) /\ ICOnlyFinals(told)
  BY <1>1, ICTypes DEF ICEndings, ICOutcomes
<1>4. td \in Seq(ICOutcomes) /\ td # <<>> /\ ICOnlyFinals(td) /\ ICFinalsThenErrors(td)
  BY <1>3, ICOneMore, ICFinalsOnly
<1>5. o.status \in IC!Statuses /\ o.tp \in IC!TpInfos /\ pending' \in BOOLEAN
  BY <1>1, ICTypes, ICSending
<1> HIDE DEF ts, td
<1>6. CASE o.status \in {"FAIL", "TCP_OK"}
  <2>1. IC!EnterTerminated(state, "TX_FAILED", ts, td)
    BY <1>2, <1>6
  <2>2. /\ state' = "TERMINATED" /\ timers' = {} /\ endedBy' \in ICEndings
        /\ told' \in Seq(ICOutcomes) /\ ICFinalsThenErrors(told')
        /\ told' # <<>> \/ endedBy' = "TU_FORCE_TERM_TRANS"
    BY <1>3, <1>4, <2>1, ICTerminating
  <2> QED
    BY <1>1, <1>5, <2>2, ICTypes, ICEnded
<1>7. CASE o.status = "UDP"
  <2>1. state' = "COMPLETED" /\ timers' \in IC!Started(ts, "D") /\ told' = td /\ UNCHANGED endedBy
    BY <1>2, <1>7
  <2>2. timers' \in SUBSET {"D"}
    BY <1>3, <2>1 DEF IC!Started
  <2> QED
    BY <1>1, <1>4, <1>5, <2>1, <2>2, ICTypes, ICCompleted
<1>8. CASE o.status = "TCP_CONN"
  <2>1. timers' = {} /\ told' = td /\ UNCHANGED <<state, endedBy>> /\ ack' = "TCP_CONN"
    BY <1>1, <1>2, <1>3, <1>8
  <2>2. CASE state = "CALLING"
    BY <1>1, <1>4, <1>5, <2>1, <2>2, ICTypes, ICCalling
  <2>3. CASE state = "PROCEEDING"
    BY <1>1, <1>4, <1>5, <2>1, <2>3, ICTypes, ICProceeding
  <2> QED
    BY <1>1, <2>2, <2>3
<1> QED
  BY <1>5, <1>6, <1>7, <1>8 DEF IC!Statuses

LEMMA ICErrorNoAckStep == ASSUME ICInv, IC!PeerErrorNoAck PROVE ICInv'
<1>1. /\ state \in {"CALLING", "PROCEEDING"}
      /\ timers' = timers \ {"A", "B"} /\ told' = Append(told, "final")
      /\ UNCHANGED <<state, tpInfo, timerAEGValue, clock, pending, out, ack,
                     endedBy, reqTcp, ackTcp>>
  BY DEF IC!PeerErrorNoAck, IC!Answerable
<1>2. timers' = {} /\ "final" \in ICOutcomes /\ told \in Seq(ICOutcomes) /\ ICOnlyFinals(told)
  BY <1>1, ICTypes DEF ICOutcomes
<1>3. told' \in Seq(ICOutcomes) /\ told' # <<>> /\ ICOnlyFinals(told')
  BY <1>1, <1>2, ICOneMore
<1>4. ack \in {"none", "TCP_CONN"}
  BY <1>1 DEF ICInv, ICNoAckYet, ICAnswering
<1>5. CASE state = "CALLING"
  BY <1>1, <1>2, <1>3, <1>4, <1>5, ICTypes, ICCalling
<1>6. CASE state = "PROCEEDING"
  BY <1>1, <1>2, <1>3, <1>4, <1>6, ICTypes, ICProceeding
<1> QED
  BY <1>1, <1>5, <1>6

LEMMA ICErrorAgainStep ==
    ASSUME ICInv, NEW o \in IC!SendOutcomes(tpInfo, ackTcp), IC!PeerErrorAgain(o)
    PROVE  ICInv'
<1>1. /\ state = "COMPLETED" /\ tpInfo' = o.tp /\ ack' = o.status
      /\ UNCHANGED <<timerAEGValue, clock, pending, out, reqTcp, ackTcp>>
  BY DEF IC!PeerErrorAgain
<1>2. /\ timers \in SUBSET {"D"} /\ told \in Seq(ICOutcomes) /\ told # <<>>
      /\ ICOnlyFinals(told) /\ ICFinalsThenErrors(told) /\ "TX_FAILED" \in ICEndings
  BY <1>1, ICTypes DEF ICEndings
<1>3. o.status \in IC!Statuses /\ o.tp \in IC!TpInfos
  BY ICTypes, ICSending
<1>4. CASE IC!Failed(o)
  <2>1. IC!EnterTerminated("COMPLETED", "TX_FAILED", timers, told)
    BY <1>1, <1>4 DEF IC!PeerErrorAgain
  <2>2. timers \in SUBSET {"A", "B", "D"}
    BY <1>2
  <2>3. /\ state' = "TERMINATED" /\ timers' = {} /\ endedBy' \in ICEndings
        /\ told' \in Seq(ICOutcomes) /\ ICFinalsThenErrors(told')
        /\ told' # <<>> \/ endedBy' = "TU_FORCE_TERM_TRANS"
    BY <1>2, <2>1, <2>2, ICTerminating
  <2> QED
    BY <1>1, <1>3, <2>3, ICTypes, ICEnded
<1>5. CASE ~IC!Failed(o)
  <2>1. UNCHANGED <<state, timers, told, endedBy>>
    BY <1>5 DEF IC!PeerErrorAgain
  <2> QED
    BY <1>1, <1>2, <1>3, <2>1, ICTypes, ICCompleted
<1> QED
  BY <1>4, <1>5

\* A connection is there: CALLING sends the request, PROCEEDING does nothing.
LEMMA ICTxTcpReadyStep ==
    ASSUME ICInv, NEW o \in IC!SendOutcomes(IC!OnFdTp, reqTcp), IC!TxTcpReady(o)
    PROVE  ICInv'
<1>1. /\ state \in {"CALLING", "PROCEEDING"} /\ pending' = FALSE
      /\ UNCHANGED <<timerAEGValue, clock, ack, reqTcp, ackTcp>>
  BY DEF IC!TxTcpReady
<1>2. /\ told \in Seq(ICOutcomes) /\ ICOnlyFinals(told) /\ ICFinalsThenErrors(told)
      /\ timers \in SUBSET {"A", "B", "D"} /\ "TX_FAILED" \in ICEndings
  BY <1>1, ICTypes DEF ICEndings
<1>3. ack \in {"none", "TCP_CONN"}
  BY <1>1 DEF ICInv, ICNoAckYet, ICAnswering
<1>4. CASE state = "PROCEEDING"
  <2>1. UNCHANGED <<state, tpInfo, timers, told, out, endedBy>>
    BY <1>4 DEF IC!TxTcpReady
  <2> QED
    BY <1>1, <1>2, <1>3, <1>4, <2>1, ICTypes, ICProceeding
<1>5. CASE state = "CALLING"
  <2>1. tpInfo' = o.tp /\ o.tp \in IC!TpInfos
    <3>1. IC!OnFdTp \in IC!TpInfos
      BY DEF IC!OnFdTp, IC!TpInfos, IC!TpTypes
    <3> QED
      BY <1>5, <3>1, ICSending DEF IC!TxTcpReady
  <2>2. CASE IC!Failed(o)
    <3>1. IC!EnterTerminated("CALLING", "TX_FAILED", timers, told) /\ UNCHANGED out
      BY <1>5, <2>2 DEF IC!TxTcpReady
    <3>2. /\ state' = "TERMINATED" /\ timers' = {} /\ endedBy' \in ICEndings
          /\ told' \in Seq(ICOutcomes) /\ ICFinalsThenErrors(told')
          /\ told' # <<>> \/ endedBy' = "TU_FORCE_TERM_TRANS"
      BY <1>2, <3>1, ICTerminating
    <3> QED
      BY <1>1, <2>1, <3>1, <3>2, ICTypes, ICEnded
  <2>3. CASE ~IC!Failed(o)
    <3>1. out' = TRUE /\ UNCHANGED <<state, timers, told, endedBy>>
      BY <1>5, <2>3 DEF IC!TxTcpReady
    <3>2. /\ timers \in SUBSET {"A", "B"}
          /\ told = <<>> => "B" \in timers
          /\ "A" \in timers => /\ told = <<>> /\ ~reqTcp /\ "B" \in timers
                               /\ timerAEGValue = clock + T1
      BY <1>5, ICTypes DEF ICInv, IC!NeverSilent, IC!Doubling
    <3> QED
      BY <1>1, <1>2, <1>3, <1>5, <2>1, <3>1, <3>2, ICTypes, ICCalling
  <2> QED
    BY <2>2, <2>3
<1> QED
  BY <1>1, <1>4, <1>5

LEMMA ICTxFailedStep == ASSUME ICInv, IC!TxFailed PROVE ICInv'
<1> DEFINE td == IF state = "PROCEEDING" THEN Append(told, "error") ELSE told
<1>1. /\ state \in {"CALLING", "PROCEEDING"} /\ pending' = FALSE
      /\ IC!EnterTerminated(state, "TX_FAILED", timers, td)
      /\ UNCHANGED <<tpInfo, timerAEGValue, clock, out, ack, reqTcp, ackTcp>>
  BY DEF IC!TxFailed
<1>2. /\ told \in Seq(ICOutcomes) /\ ICFinalsThenErrors(told) /\ "error" \in ICOutcomes
      /\ timers \in SUBSET {"A", "B", "D"} /\ "TX_FAILED" \in ICEndings
      /\ state = "PROCEEDING" => timers = {}
  BY <1>1, ICTypes DEF ICEndings, ICOutcomes
<1>3. td \in Seq(ICOutcomes) /\ ICFinalsThenErrors(td)
  BY <1>2, ICOneMore
<1> HIDE DEF td
<1>4. /\ state' = "TERMINATED" /\ timers' = {} /\ endedBy' \in ICEndings
      /\ told' \in Seq(ICOutcomes) /\ ICFinalsThenErrors(told')
      /\ told' # <<>> \/ endedBy' = "TU_FORCE_TERM_TRANS"
  <2>1. CASE state = "CALLING"
    BY <1>1, <1>2, <1>3, <2>1, ICTerminating
  <2>2. CASE state = "PROCEEDING"
    BY <1>1, <1>2, <1>3, <2>2, ICTerminating
  <2> QED
    BY <1>1, <2>1, <2>2
<1> QED
  BY <1>1, <1>4, ICTypes, ICEnded

\* Whatever state is read from the TU's message, the transaction ends or stays.
LEMMA ICForceTermStep == ASSUME ICInv, IC!ForceTerm PROVE ICInv'
<1>1. /\ state \in {"CALLING", "PROCEEDING", "COMPLETED"}
      /\ UNCHANGED <<tpInfo, timerAEGValue, clock, pending, out, ack, reqTcp, ackTcp>>
      /\ \/ IC!EnterTerminated(state, "TU_FORCE_TERM_TRANS", timers, told)
         \/ UNCHANGED <<state, timers, told, endedBy>>
  BY DEF IC!ForceTerm
<1>2. CASE IC!EnterTerminated(state, "TU_FORCE_TERM_TRANS", timers, told)
  <2>1. /\ timers \in SUBSET {"A", "B", "D"} /\ "TU_FORCE_TERM_TRANS" \in ICEndings
        /\ told \in Seq(ICOutcomes) /\ ICFinalsThenErrors(told)
        /\ timers \subseteq {"D"} \/ state = "CALLING"
    BY <1>1, ICTypes DEF ICEndings
  <2>2. /\ state' = "TERMINATED" /\ timers' = {} /\ endedBy' \in ICEndings
        /\ told' \in Seq(ICOutcomes) /\ ICFinalsThenErrors(told')
        /\ told' # <<>> \/ endedBy' = "TU_FORCE_TERM_TRANS"
    BY <1>2, <2>1, ICTerminating
  <2> QED
    BY <1>1, <2>2, ICTypes, ICEnded
<1>3. CASE UNCHANGED <<state, timers, told, endedBy>>
  <2>1. IC!TypeOK'
    BY <1>1, <1>3 DEF ICInv, IC!TypeOK
  <2>2. IC!TimersOfState' /\ IC!NeverSilent' /\ IC!Doubling'
    BY <1>1, <1>3 DEF ICInv, IC!TimersOfState, IC!NeverSilent, IC!Doubling
  <2>3. ICHeard' /\ ICFresh' /\ ICNoAckYet'
    BY <1>1, <1>3 DEF ICInv, ICHeard, ICFresh, ICNoAckYet, ICOnlyFinals,
                      ICFinalsThenErrors
  <2> QED
    BY <2>1, <2>2, <2>3 DEF ICInv
<1> QED
  BY <1>1, <1>2, <1>3

LEMMA ICStep == ASSUME ICInv, [IC!Next]_(IC!vars) PROVE ICInv'
<1>1. CASE \E o \in IC!SendOutcomes(tpInfo, reqTcp) : IC!TURequest(o)
  BY <1>1, ICRequestStep
<1>2. ASSUME IC!FinalResponse PROVE ICInv'
  BY <1>2, ICSuccessStep, ICErrorStep, ICErrorNoAckStep DEF IC!FinalResponse
<1>3. ASSUME IC!TxReport PROVE ICInv'
  BY <1>3, ICTxFailedStep, ICTxTcpReadyStep DEF IC!TxReport
<1>4. CASE IC!StateCalling_onMsg
  BY <1>2, <1>3, <1>4, ICTimerAStep, ICTimerBStep,
     ICProvisionalStep DEF IC!StateCalling_onMsg
<1>5. CASE IC!StateProceeding_onMsg
  BY <1>2, <1>3, <1>5 DEF IC!StateProceeding_onMsg
<1>6. CASE IC!StateCompleted_onMsg
  BY <1>6, ICTimerDStep, ICErrorAgainStep DEF IC!StateCompleted_onMsg
<1>7. CASE IC!ForceTerm
  BY <1>7, ICForceTermStep
<1>8. CASE UNCHANGED IC!vars
  <2>1. IC!TypeOK'
    BY <1>8 DEF IC!vars, ICInv, IC!TypeOK
  <2>2. IC!TimersOfState' /\ IC!NeverSilent' /\ IC!Doubling'
    BY <1>8 DEF IC!vars, ICInv, IC!TimersOfState, IC!NeverSilent, IC!Doubling
  <2>3. ICHeard' /\ ICFresh' /\ ICNoAckYet'
    BY <1>8 DEF IC!vars, ICInv, ICHeard, ICFresh, ICNoAckYet, ICOnlyFinals,
                ICFinalsThenErrors
  <2> QED
    BY <2>1, <2>2, <2>3 DEF ICInv
<1> QED
  BY <1>1, <1>4, <1>5, <1>6, <1>7, <1>8 DEF IC!Next

-----------------------------------------------------------------------------
\* From a state in which an ACK may have left, nothing but an error is heard.
LEMMA ICNothingButErrors ==
    ASSUME ICInv, [IC!Next]_(IC!vars), state \notin ICAnswering
    PROVE  told' = told \/ told' = Append(told, "error")
BY DEF IC!Next, IC!StateCalling_onMsg, IC!StateProceeding_onMsg,
       IC!StateCompleted_onMsg, IC!TURequest,
       IC!TimerD, IC!PeerErrorAgain, IC!ForceTerm, IC!EnterTerminated, IC!vars, ICAnswering

\* A final response is heard again only if no ACK has left.
LEMMA ICRepeatStep ==
    ASSUME ICInv, [IC!Next]_(IC!vars), Len(told) > 0, Len(told') > Len(told),
           told'[Len(told')] = "final"
    PROVE  ack \in {"none", "TCP_CONN"}
<1>1. told \in Seq(ICOutcomes) /\ "error" \in ICOutcomes
  BY ICTypes DEF ICOutcomes
<1>2. told' # told
  BY <1>1
<1>3. told' # Append(told, "error")
  BY <1>1, ICOneMore
<1> QED
  BY <1>2, <1>3, ICNothingButErrors DEF ICInv, ICNoAckYet

\* The TU that was told of an error is told of nothing else, and the transaction
\* is gone.
LEMMA ICErrorEnds == ASSUME ICInv PROVE IC!ErrorIsEnd
<1>1. told \in Seq(ICOutcomes)
  BY ICTypes
<1> QED
  BY <1>1 DEF ICInv, ICHeard, ICOnlyFinals, ICFinalsThenErrors, IC!ErrorIsEnd

-----------------------------------------------------------------------------
(* The INVITE server.                                                        *)
\* What the invariants need beyond themselves.  A request that came over TCP is
\* answered over its descriptor from the first response on.
ISKeepsFd == viaFd => tpInfo = IS!OnFdTp

\* As long as no response had to wait for a connection, a final response that
\* left is the end of those states in which the TU may respond.
ISAnswered ==
    conn = "none" /\ state \in {"NONE", "PROCEEDING"}
        => ~IS!FinalSent /\ resp.class = "provisional"

\* The failure that is being repeated goes the way it went first.
ISSettled ==
    state = "COMPLETED" =>
        \/ tpInfo = IS!OnFdTp
        \/ tpInfo = IS!NoFdTp(IF IS!ChoosesTcp(config, resp.big) THEN "TCP" ELSE "UDP")

ISControl == IS!TimersOfState /\ IS!FreedAtEnd /\ IS!RequestOnce
ISNetwork == IS!OnRequestFd /\ ISKeepsFd /\ ISAnswered
ISTiming  == IS!Repeats /\ ISSettled

ISInv == IS!TypeOK /\ ISControl /\ ISNetwork /\ ISTiming

-----------------------------------------------------------------------------
\* Whatever is sent, the transport answers with a status and a tpInfo, and a
\* descriptor is used as long as the type is TCP.
LEMMA ISSending ==
    ASSUME NEW tp \in IS!TpInfos, NEW tcp, NEW o \in IS!SendOutcomes(tp, tcp)
    PROVE  /\ o.status \in IS!Statuses /\ o.tp \in IS!TpInfos /\ o.tp.onFd \in BOOLEAN
           /\ tp = IS!OnFdTp => o.tp = IS!OnFdTp
           /\ \/ o.tp = IS!OnFdTp
              \/ o.tp = IS!NoFdTp(IF tcp THEN "TCP" ELSE "UDP")
           /\ tp = IS!NoFdTp(IF tcp THEN "TCP" ELSE "UDP") => o.tp = tp
           /\ o.tp.type # "UDP" => o.status # "UDP"
<1>1. /\ IS!OnFdTp \in IS!TpInfos /\ IS!OnFdTp.onFd /\ IS!OnFdTp.type = "TCP"
      /\ IS!OnFdTp.onFd \in BOOLEAN
  BY DEF IS!OnFdTp, IS!TpInfos, IS!TpTypes
<1>2. \A t \in {"UDP", "TCP"} : /\ IS!NoFdTp(t) \in IS!TpInfos /\ IS!NoFdTp(t).onFd \in BOOLEAN
                                /\ ~IS!NoFdTp(t).onFd /\ IS!NoFdTp(t).type = t
  BY DEF IS!NoFdTp, IS!TpInfos, IS!TpTypes
<1>3. CASE tp.onFd /\ (tp.type = "TCP" \/ tcp)
  <2>1. o.status \in {"TCP_OK", "FAIL"} /\ o.tp = IS!OnFdTp
    BY <1>3 DEF IS!SendOutcomes
  <2>2. tp # IS!NoFdTp(IF tcp THEN "TCP" ELSE "UDP")
    BY <1>2, <1>3
  <2> QED
    BY <1>1, <2>1, <2>2 DEF IS!Statuses
<1>4. CASE ~(tp.onFd /\ (tp.type = "TCP" \/ tcp)) /\ tcp
  <2>1. o.status \in {"TCP_OK", "TCP_CONN", "FAIL"} /\ o.tp = IS!NoFdTp("TCP")
    BY <1>4 DEF IS!SendOutcomes
  <2>2. tp # IS!OnFdTp
    BY <1>1, <1>4
  <2> QED
    BY <1>2, <1>4, <2>1, <2>2 DEF IS!Statuses
<1>5. CASE ~(tp.onFd /\ (tp.type = "TCP" \/ tcp)) /\ ~tcp
  <2>1. o.status \in {"UDP", "FAIL"} /\ o.tp = IS!NoFdTp("UDP")
    BY <1>5 DEF IS!SendOutcomes
  <2>2. tp # IS!OnFdTp
    BY <1>1, <1>5
  <2> QED
    BY <1>2, <1>5, <2>1, <2>2 DEF IS!Statuses
<1> QED
  BY <1>3, <1>4, <1>5

\* What a response adds to the network, the connections and tpInfo.
LEMMA ISPutting ==
    ASSUME IS!TypeOK, IS!OnRequestFd, ISKeepsFd, NEW r \in IS!Responses,
           NEW o \in IS!Answers(r), IS!Put(r, o)
    PROVE  /\ o.status \in IS!Statuses
           /\ tpInfo' = o.tp /\ tpInfo' \in IS!TpInfos
           /\ sent' \subseteq IS!Transmissions
           /\ conn' \in {"none", "wait", "ready", "failed"}
           /\ conn' = "none" => conn = "none" /\ o.status # "TCP_CONN"
           /\ viaFd => tpInfo' = IS!OnFdTp /\ \A t \in sent' : t.onFd
           /\ r.class = "provisional" \/ ~IS!Left(o) => (IS!FinalSent' <=> IS!FinalSent)
<1>1. r.big \in BOOLEAN /\ r.class \in IS!Classes
  BY DEF IS!Responses
<1>2. /\ o.status \in IS!Statuses /\ o.tp \in IS!TpInfos /\ o.tp.onFd \in BOOLEAN
      /\ tpInfo = IS!OnFdTp => o.tp = IS!OnFdTp
  BY ISSending DEF IS!TypeOK, IS!Answers
<1>3. IS!OnFdTp.onFd
  BY DEF IS!OnFdTp
<1>4. [class |-> r.class, onFd |-> o.tp.onFd] \in IS!Transmissions
  BY <1>1, <1>2 DEF IS!Transmissions
<1>5. tpInfo' = o.tp /\ sent' \subseteq IS!Transmissions
  BY <1>4 DEF IS!Put, IS!TypeOK
<1>6. /\ conn' \in {"none", "wait", "ready", "failed"}
      /\ conn' = "none" => conn = "none" /\ o.status # "TCP_CONN"
  BY DEF IS!Put, IS!TypeOK
<1>7. viaFd => tpInfo' = IS!OnFdTp /\ \A t \in sent' : t.onFd
  BY <1>2, <1>3, <1>5 DEF IS!Put, IS!OnRequestFd, ISKeepsFd
<1>8. r.class = "provisional" \/ ~IS!Left(o) => (IS!FinalSent' <=> IS!FinalSent)
  BY DEF IS!Put, IS!FinalSent
<1> QED
  BY <1>2, <1>5, <1>6, <1>7, <1>8

\* The sequences the TU may have heard.
LEMMA ServerHeard ==
    /\ {<<>>, <<"request">>, <<"request", "error">>} \subseteq Seq({"request", "error"})
    /\ Append(<<>>, "request") = <<"request">>
    /\ Append(<<"request">>, "error") = <<"request", "error">>
<1>1. {<<>>, <<"request">>, <<"request", "error">>} \subseteq Seq({"request", "error"})
  OBVIOUS
<1>2. Append(<<>>, "request") = <<"request">>
  OBVIOUS
<1>3. Append(<<"request">>, "error") = <<"request", "error">>
  <2> DEFINE Events == {"request", "error"}
             s == Append(<<"request">>, "error")
  <2>1. <<"request">> \in Seq(Events) /\ Len(<<"request">>) = 1
    OBVIOUS
  <2>2. s \in Seq(Events) /\ Len(s) = 2
    BY <2>1
  <2>3. s[1] = "request" /\ s[2] = "error"
    BY <2>1
  <2>4. \A t \in Seq(Events) : Len(t) = 2 => t = <<t[1], t[2]>>
    OBVIOUS
  <2> QED
    BY <2>2, <2>3, <2>4
<1> QED
  BY <1>1, <1>2, <1>3

\* The end: no timer is left, whatever was freed for those that ran.
LEMMA ISTerminating ==
    ASSUME frees \in Nat, NEW ts \in SUBSET {"G", "H", "I"}, IS!EnterTerminated(ts)
    PROVE  state' = "TERMINATED" /\ timers' = {} /\ frees' \in Nat
<1>1. IsFiniteSet({"G", "H", "I"})
  <2>1. IsFiniteSet({"G"} \cup {"H"})
    BY FS_Singleton, FS_AddElement
  <2>2. IsFiniteSet(({"G"} \cup {"H"}) \cup {"I"})
    BY <2>1, FS_AddElement
  <2>3. ({"G"} \cup {"H"}) \cup {"I"} = {"G", "H", "I"}
    OBVIOUS
  <2> QED
    BY <2>2, <2>3
<1>2. IS!Cardinality(ts) \in Nat
  <2>1. Cardinality(ts) \in Nat
    BY <1>1, FS_Subset, FS_CardinalityType
  <2>2. IS!Cardinality(ts) = Cardinality(ts)
    BY DEF IS!Cardinality, Cardinality
  <2> QED
    BY <2>1, <2>2
<1> QED
  BY <1>2 DEF IS!EnterTerminated

\* After a failure has left: H is needed, and G over UDP.
LEMMA ISCompleting ==
    ASSUME IS!TypeOK, timers = {}, NEW o, IS!EnterCompleted(o)
    PROVE  /\ timerAEGValue' \in Nat /\ clock' \in Nat /\ frees' \in Nat
           /\ \/ state' = "TERMINATED" /\ timers' = {}
              \/ /\ state' = "COMPLETED" /\ timers' = {"G", "H"} /\ frees' = frees
                 /\ o.tp.type = "UDP" /\ timerAEGValue' = T1 /\ clock' = 0
              \/ /\ state' = "COMPLETED" /\ timers' = {"H"} /\ frees' = frees
                 /\ o.tp.type # "UDP"
<1>1. T1 \in Nat /\ timerAEGValue \in Nat /\ clock \in Nat /\ frees \in Nat
  BY TimerAssumption DEF IS!TypeOK
<1>2. PICK withH \in IS!Started(timers, "H") :
         IF "H" \notin withH
         THEN IS!EnterTerminated(withH) /\ UNCHANGED <<timerAEGValue, clock>>
         ELSE IF o.tp.type = "UDP"
         THEN /\ timerAEGValue' = T1 /\ clock' = 0
              /\ \E withG \in IS!Started(withH, "G") :
                    IF "G" \notin withG
                    THEN IS!EnterTerminated(withG)
                    ELSE state' = "COMPLETED" /\ timers' = withG /\ UNCHANGED frees
         ELSE /\ state' = "COMPLETED" /\ timers' = withH
              /\ UNCHANGED <<frees, timerAEGValue, clock>>
  BY DEF IS!EnterCompleted
<1>3. withH \in {{}, {"H"}}
  BY <1>2 DEF IS!Started
<1>4. CASE "H" \notin withH
  BY <1>1, <1>2, <1>3, <1>4, ISTerminating
<1>5. CASE "H" \in withH /\ o.tp.type = "UDP"
  <2>1. PICK withG \in IS!Started(withH, "G") :
           IF "G" \notin withG
           THEN IS!EnterTerminated(withG)
           ELSE state' = "COMPLETED" /\ timers' = withG /\ UNCHANGED frees
    BY <1>2, <1>5
  <2>2. withG \in {{"H"}, {"G", "H"}}
    BY <1>3, <1>5, <2>1 DEF IS!Started
  <2>3. timerAEGValue' = T1 /\ clock' = 0
    BY <1>2, <1>5
  <2>4. CASE "G" \notin withG
    BY <1>1, <2>1, <2>2, <2>3, <2>4, ISTerminating
  <2>5. CASE "G" \in withG
    BY <1>1, <1>5, <2>1, <2>2, <2>3, <2>5
  <2> QED
    BY <2>4, <2>5
<1>6. CASE "H" \in withH /\ o.tp.type # "UDP"
  BY <1>1, <1>2, <1>3, <1>6
<1> QED
  BY <1>4, <1>5, <1>6

-----------------------------------------------------------------------------
\* The invariant once the transaction has gone.
LEMMA ISEnded ==
    ASSUME ISInv, state' = "TERMINATED", timers' = {}, frees' \in Nat,
           toTU' \in {<<>>, <<"request">>, <<"request", "error">>},
           timerAEGValue' \in Nat, clock' \in Nat, resp' \in IS!Responses,
           tpInfo' \in IS!TpInfos, sent' \subseteq IS!Transmissions,
           conn' \in {"none", "wait", "ready", "failed"},
           UNCHANGED <<config, viaFd>>,
           viaFd => tpInfo' = IS!OnFdTp /\ \A t \in sent' : t.onFd
    PROVE  ISInv'
<1>1. IS!TypeOK'
  BY ServerHeard DEF ISInv, IS!TypeOK
<1>2. ISControl'
  BY DEF ISControl, IS!TimersOfState, IS!FreedAtEnd, IS!RequestOnce
<1>3. ISNetwork'
  BY DEF ISNetwork, IS!OnRequestFd, ISKeepsFd, ISAnswered
<1>4. ISTiming'
  BY DEF ISTiming, IS!Repeats, ISSettled
<1> QED
  BY <1>1, <1>2, <1>3, <1>4 DEF ISInv

\* The invariant before the failure, when a timer has not run yet.
LEMMA ISOpen ==
    ASSUME ISInv, state' \in {"NONE", "PROCEEDING"}, timers' = {}, frees' = 0,
           toTU' = IF state' = "NONE" THEN <<>> ELSE <<"request">>,
           UNCHANGED <<timerAEGValue, clock, config, viaFd>>, resp' \in IS!Responses,
           tpInfo' \in IS!TpInfos, sent' \subseteq IS!Transmissions,
           conn' \in {"none", "wait", "ready", "failed"},
           viaFd => tpInfo' = IS!OnFdTp /\ \A t \in sent' : t.onFd,
           conn' = "none" => ~IS!FinalSent' /\ resp'.class = "provisional"
    PROVE  ISInv'
<1>1. IS!TypeOK'
  BY ServerHeard DEF ISInv, IS!TypeOK
<1>2. ISControl'
  BY DEF ISControl, IS!TimersOfState, IS!FreedAtEnd, IS!RequestOnce
<1>3. ISNetwork'
  BY DEF ISNetwork, IS!OnRequestFd, ISKeepsFd, ISAnswered
<1>4. ISTiming'
  BY DEF ISTiming, IS!Repeats, ISSettled
<1> QED
  BY <1>1, <1>2, <1>3, <1>4 DEF ISInv

\* What the invariant says of an open state and of one that repeats a failure.
LEMMA ISWhenOpen ==
    ASSUME ISInv, state \in {"NONE", "PROCEEDING"}
    PROVE  /\ timers = {} /\ frees = 0
           /\ toTU = IF state = "NONE" THEN <<>> ELSE <<"request">>
BY DEF ISInv, IS!TypeOK, ISControl, IS!TimersOfState, IS!FreedAtEnd, IS!RequestOnce

LEMMA ISWhenCompleted ==
    ASSUME ISInv, state = "COMPLETED"
    PROVE  /\ timers \in {{"H"}, {"G", "H"}} /\ frees = 0 /\ toTU = <<"request">>
           /\ tpInfo.type # "UDP" => timers = {"H"}
<1>1. frees = 0 /\ toTU = <<"request">>
  BY DEF ISInv, IS!TypeOK, ISControl, IS!FreedAtEnd, IS!RequestOnce
<1>2. timers \subseteq {"G", "H"} /\ "H" \in timers
  BY DEF ISInv, ISControl, IS!TimersOfState
<1>3. timers \in {{"H"}, {"G", "H"}}
  BY <1>2
<1>4. tpInfo.type # "UDP" => "G" \notin timers
  BY DEF ISInv, ISTiming, IS!Repeats
<1> QED
  BY <1>1, <1>3, <1>4

\* While a failure is repeated, sending it leaves tpInfo as it is.
LEMMA ISSameWay ==
    ASSUME ISInv, state = "COMPLETED", NEW o \in IS!Answers(resp)
    PROVE  o.tp = tpInfo
BY ISSending DEF ISInv, IS!TypeOK, ISTiming, ISSettled, IS!Answers

-----------------------------------------------------------------------------
LEMMA ISInitial == IS!Init => ISInv
<1> SUFFICES ASSUME IS!Init PROVE ISInv
  OBVIOUS
<1>1. tpInfo \in IS!TpInfos
  BY DEF IS!Init, IS!OnFdTp, IS!NoFdTp, IS!TpInfos, IS!TpTypes
<1>2. IS!TypeOK
  BY <1>1, ServerHeard DEF IS!Init, IS!TypeOK, IS!Trying, IS!Responses, IS!Classes
<1>3. ISControl
  BY DEF IS!Init, ISControl, IS!TimersOfState, IS!FreedAtEnd, IS!RequestOnce
<1>4. ISNetwork
  BY DEF IS!Init, ISNetwork, IS!OnRequestFd, ISKeepsFd, ISAnswered, IS!FinalSent,
         IS!Trying
<1>5. ISTiming
  BY DEF IS!Init, ISTiming, IS!Repeats, ISSettled
<1> QED
  BY <1>2, <1>3, <1>4, <1>5 DEF ISInv

\* The INVITE: the TU is told when 100 Trying is out, and then the state is
\* another.
LEMMA ISInviteStep ==
    ASSUME ISInv, NEW o \in IS!Answers(resp), IS!PeerInvite(o)
    PROVE  ISInv'
<1>1. /\ state = "NONE" /\ IS!Put(resp, o)
      /\ UNCHANGED <<timerAEGValue, clock, resp, config, viaFd>>
  BY DEF IS!PeerInvite
<1>2. timers = {} /\ frees = 0 /\ toTU = <<>>
  BY <1>1, ISWhenOpen
<1>3. resp \in IS!Responses /\ timerAEGValue \in Nat /\ clock \in Nat
  BY DEF ISInv, IS!TypeOK
<1>4. /\ o.status \in IS!Statuses
      /\ tpInfo' \in IS!TpInfos
      /\ sent' \subseteq IS!Transmissions
      /\ conn' \in {"none", "wait", "ready", "failed"}
      /\ conn' = "none" => conn = "none" /\ o.status # "TCP_CONN"
      /\ viaFd => tpInfo' = IS!OnFdTp /\ \A t \in sent' : t.onFd
      /\ resp.class = "provisional" \/ ~IS!Left(o) => (IS!FinalSent' <=> IS!FinalSent)
  BY <1>1, <1>3, ISPutting DEF ISInv, ISNetwork
<1>5. conn' = "none" => ~IS!FinalSent' /\ resp'.class = "provisional"
  BY <1>1, <1>4 DEF ISInv, ISNetwork, ISAnswered
<1>6. CASE IS!Left(o)
  <2>1. state' = "PROCEEDING" /\ toTU' = <<"request">> /\ timers' = {} /\ frees' = 0
    BY <1>2, <1>6, ServerHeard DEF IS!PeerInvite, IS!Left, IS!Failed
  <2> QED
    BY <1>1, <1>3, <1>4, <1>5, <2>1, ISOpen
<1>7. CASE IS!Failed(o)
  <2>1. IS!EnterTerminated(timers) /\ toTU' = <<>>
    BY <1>2, <1>7 DEF IS!PeerInvite, IS!Left, IS!Failed
  <2>2. state' = "TERMINATED" /\ timers' = {} /\ frees' \in Nat
    BY <1>2, <2>1, ISTerminating
  <2> QED
    BY <1>1, <1>3, <1>4, <2>1, <2>2, ISEnded
<1>8. CASE o.status = "TCP_CONN"
  <2>1. state' = "NONE" /\ toTU' = <<>> /\ timers' = {} /\ frees' = 0
    BY <1>1, <1>2, <1>8 DEF IS!PeerInvite, IS!Left, IS!Failed
  <2> QED
    BY <1>1, <1>3, <1>4, <1>5, <2>1, ISOpen
<1> QED
  BY <1>4, <1>6, <1>7, <1>8 DEF IS!Statuses, IS!Left, IS!Failed

\* The INVITE again: the last response, or the end.
LEMMA ISAgainStep ==
    ASSUME ISInv, NEW o \in IS!Answers(resp), IS!PeerAgain(o)
    PROVE  ISInv'
<1>1. /\ state \in {"PROCEEDING", "COMPLETED"} /\ IS!Put(resp, o)
      /\ UNCHANGED <<timerAEGValue, clock, resp, config, viaFd>>
  BY DEF IS!PeerAgain
<1>2. /\ timers \in SUBSET {"G", "H", "I"} /\ frees = 0 /\ toTU = <<"request">>
      /\ state = "PROCEEDING" => timers = {}
  BY <1>1, ISWhenOpen, ISWhenCompleted
<1>3. resp \in IS!Responses /\ timerAEGValue \in Nat /\ clock \in Nat
  BY DEF ISInv, IS!TypeOK
<1>4. /\ tpInfo' = o.tp /\ tpInfo' \in IS!TpInfos
      /\ sent' \subseteq IS!Transmissions
      /\ conn' \in {"none", "wait", "ready", "failed"}
      /\ conn' = "none" => conn = "none" /\ o.status # "TCP_CONN"
      /\ viaFd => tpInfo' = IS!OnFdTp /\ \A t \in sent' : t.onFd
      /\ resp.class = "provisional" \/ ~IS!Left(o) => (IS!FinalSent' <=> IS!FinalSent)
  BY <1>1, <1>3, ISPutting DEF ISInv, ISNetwork
<1>5. CASE IS!Failed(o)
  <2>1. /\ IS!EnterTerminated(timers)
        /\ toTU' \in {<<"request">>, <<"request", "error">>}
    BY <1>2, <1>5, ServerHeard DEF IS!PeerAgain
  <2>2. state' = "TERMINATED" /\ timers' = {} /\ frees' \in Nat
    BY <1>2, <2>1, ISTerminating
  <2> QED
    BY <1>1, <1>3, <1>4, <2>1, <2>2, ISEnded
<1>6. CASE ~IS!Failed(o)
  <2>1. UNCHANGED <<state, timers, toTU, frees>>
    BY <1>6 DEF IS!PeerAgain
  <2>2. CASE state = "PROCEEDING"
    <3>1. conn' = "none" => ~IS!FinalSent' /\ resp'.class = "provisional"
      BY <1>1, <1>4, <2>2 DEF ISInv, ISNetwork, ISAnswered
    <3> QED
      BY <1>1, <1>2, <1>3, <1>4, <2>1, <2>2, <3>1, ISOpen
  <2>3. CASE state = "COMPLETED"
    <3>1. tpInfo' = tpInfo
      BY <1>4, <2>3, ISSameWay
    <3>2. IS!TypeOK'
      BY <1>1, <1>4, <2>1 DEF ISInv, IS!TypeOK
    <3>3. ISControl'
      BY <2>1 DEF ISInv, ISControl, IS!TimersOfState, IS!FreedAtEnd, IS!RequestOnce
    <3>4. ISNetwork'
      BY <1>1, <1>4, <2>1, <2>3 DEF ISNetwork, IS!OnRequestFd, ISKeepsFd, ISAnswered
    <3>5. ISTiming'
      BY <1>1, <2>1, <3>1 DEF ISInv, ISTiming, IS!Repeats, ISSettled
    <3> QED
      BY <3>2, <3>3, <3>4, <3>5 DEF ISInv
  <2> QED
    BY <1>1, <2>2, <2>3
<1> QED
  BY <1>5, <1>6

\* A response of the TU: the failure that left is repeated on its schedule.
LEMMA ISResponseStep ==
    ASSUME ISInv, NEW r \in IS!Responses, NEW o \in IS!Answers(r), IS!TUResponse(r, o)
    PROVE  ISInv'
<1>1. /\ state = "PROCEEDING" /\ resp' = r /\ IS!Put(r, o) /\ UNCHANGED <<config, viaFd>>
      /\ toTU' = IF IS!Failed(o) THEN Append(toTU, "error") ELSE toTU
  BY DEF IS!TUResponse
<1>2. timers = {} /\ frees = 0 /\ toTU = <<"request">>
  BY <1>1, ISWhenOpen
<1>3. timerAEGValue \in Nat /\ clock \in Nat /\ r.class \in IS!Classes
  BY DEF ISInv, IS!TypeOK, IS!Responses
<1>4. /\ o.status \in IS!Statuses
      /\ tpInfo' = o.tp /\ tpInfo' \in IS!TpInfos
      /\ sent' \subseteq IS!Transmissions
      /\ conn' \in {"none", "wait", "ready", "failed"}
      /\ conn' = "none" => conn = "none" /\ o.status # "TCP_CONN"
      /\ viaFd => tpInfo' = IS!OnFdTp /\ \A t \in sent' : t.onFd
      /\ r.class = "provisional" \/ ~IS!Left(o) => (IS!FinalSent' <=> IS!FinalSent)
  BY <1>1, ISPutting DEF ISInv, ISNetwork
<1>5. toTU' \in {<<"request">>, <<"request", "error">>}
  BY <1>1, <1>2, ServerHeard
<1>6. CASE IS!Failed(o) \/ (IS!Left(o) /\ r.class = "success")
  <2>1. IS!EnterTerminated(timers) /\ UNCHANGED <<timerAEGValue, clock>>
    BY <1>6 DEF IS!TUResponse, IS!Left, IS!Failed
  <2>2. state' = "TERMINATED" /\ timers' = {} /\ frees' \in Nat
    BY <1>2, <2>1, ISTerminating
  <2> QED
    BY <1>1, <1>3, <1>4, <1>5, <2>1, <2>2, ISEnded
<1>7. CASE IS!Left(o) /\ r.class = "failure"
  <2>1. IS!EnterCompleted(o) /\ ~IS!Failed(o)
    BY <1>7 DEF IS!TUResponse, IS!Left, IS!Failed
  <2>2. toTU' = <<"request">>
    BY <1>1, <1>2, <2>1
  <2>3. /\ timerAEGValue' \in Nat /\ clock' \in Nat /\ frees' \in Nat
        /\ \/ state' = "TERMINATED" /\ timers' = {}
           \/ /\ state' = "COMPLETED" /\ timers' = {"G", "H"} /\ frees' = frees
              /\ o.tp.type = "UDP" /\ timerAEGValue' = T1 /\ clock' = 0
           \/ /\ state' = "COMPLETED" /\ timers' = {"H"} /\ frees' = frees
              /\ o.tp.type # "UDP"
    BY <1>2, <2>1, ISCompleting DEF ISInv
  <2>4. CASE state' = "TERMINATED"
    BY <1>1, <1>4, <1>5, <2>3, <2>4, ISEnded
  <2>5. CASE state' = "COMPLETED"
    <3>1. IS!TypeOK'
      BY <1>1, <1>4, <2>2, <2>3, <2>5, ServerHeard DEF ISInv, IS!TypeOK
    <3>2. ISControl'
      BY <1>2, <2>2, <2>3, <2>5 DEF ISControl, IS!TimersOfState, IS!FreedAtEnd,
                                    IS!RequestOnce
    <3>3. ISNetwork'
      BY <1>1, <1>4, <2>5 DEF ISNetwork, IS!OnRequestFd, ISKeepsFd, ISAnswered
    <3>4. IS!Repeats'
      <4>1. T1 \in Nat /\ T2 \in Nat
        BY TimerAssumption
      <4>2. T1 <= T2 => T1 = IS!MinInt(0 + T1, T2)
        BY <4>1 DEF IS!MinInt
      <4> QED
        BY <1>4, <2>3, <2>5, <4>2 DEF IS!Repeats
    <3>5. ISSettled'
      <4>1. \/ o.tp = IS!OnFdTp
            \/ o.tp = IS!NoFdTp(IF IS!ChoosesTcp(config, r.big) THEN "TCP" ELSE "UDP")
        BY ISSending DEF ISInv, IS!TypeOK, IS!Answers
      <4>2. IS!ChoosesTcp(config, r.big)' <=> IS!ChoosesTcp(config, r.big)
        BY <1>1 DEF IS!ChoosesTcp
      <4> QED
        BY <1>1, <1>4, <4>1, <4>2 DEF ISSettled, IS!ChoosesTcp, IS!NoFdTp, IS!OnFdTp
    <3> QED
      BY <3>1, <3>2, <3>3, <3>4, <3>5 DEF ISInv, ISTiming
  <2> QED
    BY <2>3, <2>4, <2>5
<1>8. CASE ~IS!Failed(o) /\ ~(IS!Left(o) /\ r.class \in {"success", "failure"})
  <2>1. UNCHANGED <<state, timers, frees, timerAEGValue, clock>> /\ toTU' = <<"request">>
    BY <1>1, <1>2, <1>8 DEF IS!TUResponse
  <2>2. conn' = "none" => ~IS!FinalSent' /\ resp'.class = "provisional"
    <3> SUFFICES ASSUME conn' = "none" PROVE ~IS!FinalSent' /\ r.class = "provisional"
      BY <1>1
    <3>1. IS!Left(o)
      BY <1>4, <1>8 DEF IS!Left, IS!Failed, IS!Statuses
    <3>2. r.class = "provisional"
      BY <1>3, <1>8, <3>1 DEF IS!Classes
    <3> QED
      BY <1>1, <1>4, <3>2 DEF ISInv, ISNetwork, ISAnswered
  <2> QED
    BY <1>1, <1>2, <1>3, <1>4, <2>1, <2>2, ISOpen
<1> QED
  BY <1>3, <1>6, <1>7, <1>8 DEF IS!Classes

\* The ACK ends the repeats.
LEMMA ISAckStep == ASSUME ISInv, IS!PeerAck PROVE ISInv'
<1>1. /\ state = "COMPLETED"
      /\ UNCHANGED <<tpInfo, timerAEGValue, clock, resp, sent, conn, toTU, config, viaFd>>
  BY DEF IS!PeerAck
<1>2. timers \in {{"H"}, {"G", "H"}} /\ frees = 0 /\ toTU = <<"request">>
  BY <1>1, ISWhenCompleted
<1>3. /\ timerAEGValue \in Nat /\ clock \in Nat /\ resp \in IS!Responses
      /\ tpInfo \in IS!TpInfos /\ sent \subseteq IS!Transmissions
      /\ conn \in {"none", "wait", "ready", "failed"}
  BY DEF ISInv, IS!TypeOK
<1>4. viaFd => tpInfo = IS!OnFdTp /\ \A t \in sent : t.onFd
  BY DEF ISInv, ISNetwork, IS!OnRequestFd, ISKeepsFd
<1>5. CASE tpInfo.type = "UDP"
  <2>1. state' = "CONFIRMED" /\ timers' \in {{}, {"I"}} /\ frees' = 0
    BY <1>2, <1>5 DEF IS!PeerAck, IS!Started
  <2>2. IS!TypeOK'
    BY <1>1, <2>1 DEF ISInv, IS!TypeOK
  <2>3. ISControl'
    BY <1>1, <1>2, <2>1 DEF ISControl, IS!TimersOfState, IS!FreedAtEnd, IS!RequestOnce
  <2>4. ISNetwork'
    BY <1>1, <1>4, <2>1 DEF ISNetwork, IS!OnRequestFd, ISKeepsFd, ISAnswered
  <2>5. ISTiming'
    BY <2>1 DEF ISTiming, IS!Repeats, ISSettled
  <2> QED
    BY <2>2, <2>3, <2>4, <2>5 DEF ISInv
<1>6. CASE tpInfo.type # "UDP"
  <2>1. IS!EnterTerminated(timers \ {"G", "H"})
    BY <1>6 DEF IS!PeerAck
  <2>2. state' = "TERMINATED" /\ timers' = {} /\ frees' \in Nat
    BY <1>2, <2>1, ISTerminating
  <2> QED
    BY <1>1, <1>2, <1>3, <1>4, <2>2, ISEnded
<1> QED
  BY <1>5, <1>6

\* Timer G: the interval doubles up to T2, and the clock has moved by the old one.
LEMMA ISTimerGStep ==
    ASSUME ISInv, NEW o \in IS!Answers(resp), IS!TimerG(o)
    PROVE  ISInv'
<1>1. /\ state = "COMPLETED" /\ "G" \in timers /\ IS!Put(resp, o)
      /\ UNCHANGED <<resp, toTU, config, viaFd>>
  BY DEF IS!TimerG
<1>2. timers = {"G", "H"} /\ frees = 0 /\ toTU = <<"request">> /\ tpInfo.type = "UDP"
  BY <1>1, ISWhenCompleted
<1>3. resp \in IS!Responses /\ timerAEGValue \in Nat /\ clock \in Nat
  BY DEF ISInv, IS!TypeOK
<1>4. /\ tpInfo' = o.tp /\ tpInfo' \in IS!TpInfos
      /\ sent' \subseteq IS!Transmissions
      /\ conn' \in {"none", "wait", "ready", "failed"}
      /\ viaFd => tpInfo' = IS!OnFdTp /\ \A t \in sent' : t.onFd
  BY <1>1, <1>3, ISPutting DEF ISInv, ISNetwork
<1>5. CASE IS!Failed(o)
  <2>1. IS!EnterTerminated(timers \ {"G"}) /\ UNCHANGED <<timerAEGValue, clock>>
    BY <1>5 DEF IS!TimerG
  <2>2. state' = "TERMINATED" /\ timers' = {} /\ frees' \in Nat
    BY <1>2, <2>1, ISTerminating
  <2> QED
    BY <1>1, <1>2, <1>3, <1>4, <2>1, <2>2, ISEnded
<1>6. CASE ~IS!Failed(o)
  <2>1. /\ timerAEGValue' = IS!MinInt(2 * timerAEGValue, T2)
        /\ clock' = clock + timerAEGValue
        /\ timers' \in IS!Started(timers \ {"G"}, "G")
        /\ UNCHANGED <<state, frees>>
    BY <1>6 DEF IS!TimerG
  <2>2. /\ timers' \in {{"H"}, {"G", "H"}}
        /\ ~TimersMayFail => "G" \in timers'
    BY <1>2, <2>1 DEF IS!Started
  <2>3. tpInfo' = tpInfo
    BY <1>1, <1>4, ISSameWay
  <2>4. timerAEGValue' \in Nat /\ clock' \in Nat
    BY <1>3, <2>1, TimerAssumption DEF IS!MinInt
  <2>5. IS!TypeOK'
    BY <1>1, <1>4, <2>1, <2>2, <2>4 DEF ISInv, IS!TypeOK
  <2>6. ISControl'
    BY <1>1, <1>2, <2>1, <2>2 DEF ISControl, IS!TimersOfState, IS!FreedAtEnd,
                                  IS!RequestOnce
  <2>7. ISNetwork'
    BY <1>1, <1>4, <2>1 DEF ISNetwork, IS!OnRequestFd, ISKeepsFd, ISAnswered
  <2>8. T1 <= T2 => timerAEGValue' = IS!MinInt(clock' + T1, T2)
    <3>1. T1 \in Nat /\ T2 \in Nat
      BY TimerAssumption
    <3>2. T1 <= T2 => timerAEGValue = IS!MinInt(clock + T1, T2)
      BY <1>1, <1>2 DEF ISInv, ISTiming, IS!Repeats
    <3> QED
      BY <1>3, <2>1, <3>1, <3>2 DEF IS!MinInt
  <2>9. ISTiming'
    BY <1>1, <1>2, <2>1, <2>2, <2>3, <2>8 DEF ISInv, ISTiming, IS!Repeats, ISSettled
  <2> QED
    BY <2>5, <2>6, <2>7, <2>9 DEF ISInv
<1> QED
  BY <1>5, <1>6

LEMMA ISTimerHStep == ASSUME ISInv, IS!TimerH PROVE ISInv'
<1>1. /\ state = "COMPLETED" /\ toTU' = Append(toTU, "error")
      /\ IS!EnterTerminated(timers \ {"G", "H"})
      /\ UNCHANGED <<tpInfo, timerAEGValue, clock, resp, sent, conn, config, viaFd>>
  BY DEF IS!TimerH
<1>2. timers \in {{"H"}, {"G", "H"}} /\ frees = 0 /\ toTU' = <<"request", "error">>
  BY <1>1, ISWhenCompleted, ServerHeard
<1>3. /\ timerAEGValue \in Nat /\ clock \in Nat /\ resp \in IS!Responses
      /\ tpInfo \in IS!TpInfos /\ sent \subseteq IS!Transmissions
      /\ conn \in {"none", "wait", "ready", "failed"}
  BY DEF ISInv, IS!TypeOK
<1>4. viaFd => tpInfo = IS!OnFdTp /\ \A t \in sent : t.onFd
  BY DEF ISInv, ISNetwork, IS!OnRequestFd, ISKeepsFd
<1>5. state' = "TERMINATED" /\ timers' = {} /\ frees' \in Nat
  BY <1>1, <1>2, ISTerminating
<1> QED
  BY <1>1, <1>2, <1>3, <1>4, <1>5, ISEnded

LEMMA ISTimerIStep == ASSUME ISInv, IS!TimerI PROVE ISInv'
<1>1. /\ state = "CONFIRMED" /\ state' = "TERMINATED" /\ timers' = timers \ {"I"}
      /\ frees' = frees + 1
      /\ UNCHANGED <<tpInfo, timerAEGValue, clock, resp, sent, conn, toTU, config, viaFd>>
  BY DEF IS!TimerI
<1>2. timers' = {} /\ toTU = <<"request">>
  BY <1>1 DEF ISInv, ISControl, IS!TimersOfState, IS!RequestOnce
<1>3. /\ timerAEGValue \in Nat /\ clock \in Nat /\ resp \in IS!Responses
      /\ tpInfo \in IS!TpInfos /\ sent \subseteq IS!Transmissions /\ frees' \in Nat
      /\ conn \in {"none", "wait", "ready", "failed"}
  BY <1>1 DEF ISInv, IS!TypeOK
<1>4. viaFd => tpInfo = IS!OnFdTp /\ \A t \in sent : t.onFd
  BY DEF ISInv, ISNetwork, IS!OnRequestFd, ISKeepsFd
<1> QED
  BY <1>1, <1>2, <1>3, <1>4, ISEnded

\* A report of the connection manager changes nothing but what is waited for.
LEMMA ISReportStep == ASSUME ISInv, IS!TxReport PROVE ISInv'
<1>1. /\ conn' \in {"ready", "failed"}
      /\ UNCHANGED <<state, tpInfo, timers, timerAEGValue, clock, resp, sent, toTU,
                     frees, config, viaFd>>
  BY DEF IS!TxReport
<1>2. IS!TypeOK'
  BY <1>1 DEF ISInv, IS!TypeOK
<1>3. ISControl'
  BY <1>1 DEF ISInv, ISControl, IS!TimersOfState, IS!FreedAtEnd, IS!RequestOnce
<1>4. ISNetwork'
  BY <1>1 DEF ISInv, ISNetwork, IS!OnRequestFd, ISKeepsFd, ISAnswered
<1>5. ISTiming'
  BY <1>1 DEF ISInv, ISTiming, IS!Repeats, ISSettled
<1> QED
  BY <1>2, <1>3, <1>4, <1>5 DEF ISInv

LEMMA ISForceTermStep == ASSUME ISInv, IS!ForceTerm PROVE ISInv'
<1>1. /\ state \in {"PROCEEDING", "COMPLETED", "CONFIRMED"} /\ IS!EnterTerminated(timers)
      /\ UNCHANGED <<tpInfo, timerAEGValue, clock, resp, sent, conn, toTU, config, viaFd>>
  BY DEF IS!ForceTerm
<1>2. toTU = <<"request">>
  BY <1>1 DEF ISInv, ISControl, IS!RequestOnce
<1>3. /\ timerAEGValue \in Nat /\ clock \in Nat /\ resp \in IS!Responses
      /\ tpInfo \in IS!TpInfos /\ sent \subseteq IS!Transmissions
      /\ timers \in SUBSET {"G", "H", "I"} /\ frees \in Nat
      /\ conn \in {"none", "wait", "ready", "failed"}
  BY DEF ISInv, IS!TypeOK
<1>4. viaFd => tpInfo = IS!OnFdTp /\ \A t \in sent : t.onFd
  BY DEF ISInv, ISNetwork, IS!OnRequestFd, ISKeepsFd
<1>5. state' = "TERMINATED" /\ timers' = {} /\ frees' \in Nat
  BY <1>1, <1>3, ISTerminating
<1> QED
  BY <1>1, <1>2, <1>3, <1>4, <1>5, ISEnded

LEMMA ISStep == ASSUME ISInv, [IS!Next]_(IS!vars) PROVE ISInv'
<1>1. CASE \E o \in IS!Answers(resp) : IS!PeerInvite(o)
  BY <1>1, ISInviteStep
<1>2. CASE IS!StateProceeding_onMsg
  BY <1>2, ISAgainStep, ISResponseStep DEF IS!StateProceeding_onMsg
<1>3. CASE IS!StateCompleted_onMsg
  BY <1>3, ISAgainStep, ISTimerGStep, ISTimerHStep, ISAckStep DEF IS!StateCompleted_onMsg
<1>4. CASE IS!StateConfirmed_onMsg
  BY <1>4, ISTimerIStep DEF IS!StateConfirmed_onMsg
<1>5. CASE IS!TxReport
  BY <1>5, ISReportStep
<1>6. CASE IS!ForceTerm
  BY <1>6, ISForceTermStep
<1>7. CASE UNCHANGED IS!vars
  <2>1. IS!TypeOK'
    BY <1>7 DEF IS!vars, ISInv, IS!TypeOK
  <2>2. ISControl'
    BY <1>7 DEF IS!vars, ISInv, ISControl, IS!TimersOfState, IS!FreedAtEnd, IS!RequestOnce
  <2>3. ISNetwork'
    BY <1>7 DEF IS!vars, ISInv, ISNetwork, IS!OnRequestFd, ISKeepsFd, ISAnswered,
                IS!FinalSent
  <2>4. ISTiming'
    BY <1>7 DEF IS!vars, ISInv, ISTiming, IS!Repeats, ISSettled
  <2> QED
    BY <2>1, <2>2, <2>3, <2>4 DEF ISInv
<1> QED
  BY <1>1, <1>2, <1>3, <1>4, <1>5, <1>6, <1>7 DEF IS!Next

\* A step after the final response has left keeps it.
LEMMA ISStableStep ==
    ASSUME ISInv, [IS!Next]_(IS!vars), IS!FinalSent, conn' = "none"
    PROVE  UNCHANGED resp
<1>1. conn = "none"
  BY DEF IS!Next, IS!StateProceeding_onMsg, IS!StateCompleted_onMsg,
         IS!StateConfirmed_onMsg,
         IS!PeerInvite, IS!PeerAgain, IS!TUResponse, IS!PeerAck, IS!TimerG, IS!TimerH, IS!TimerI, IS!TxReport,
         IS!ForceTerm, IS!Put, IS!vars
<1>2. state # "PROCEEDING"
  BY <1>1 DEF ISInv, ISNetwork, ISAnswered
<1> QED
  BY <1>2 DEF IS!Next, IS!StateProceeding_onMsg, IS!StateCompleted_onMsg,
              IS!StateConfirmed_onMsg,
              IS!PeerInvite, IS!PeerAgain, IS!PeerAck, IS!TimerG, IS!TimerH, IS!TimerI, IS!TxReport,
              IS!ForceTerm, IS!vars

-----------------------------------------------------------------------------

-----------------------------------------------------------------------------
(* The non-INVITE server.                                                    *)
\* What ErrorMeansUnanswered and AnswerStable need beyond themselves: as long as
\* no response had to wait for a connection, a final response is what ends the
\* part of the transaction that may tell the TU of an error or take another
\* response.
NISAnswered ==
    conn = "none" =>
        /\ state \in {"NONE", "TRYING", "PROCEEDING"} => ~NIS!FinalSent /\ ~resp.final
        /\ NIS!FinalSent => toTU = <<"request">>

NISInv == NIS!TypeOK /\ NIS!TimersOfState /\ NIS!RequestOnce /\ NISAnswered

-----------------------------------------------------------------------------
\* Whatever is sent, the transport answers with a status and a tpInfo, and a
\* descriptor that is used is kept.
LEMMA NISSending ==
    ASSUME NEW tp \in NIS!TpInfos, NEW tcp, NEW o \in NIS!SendOutcomes(tp, tcp)
    PROVE  o.status \in NIS!Statuses /\ o.tp \in NIS!TpInfos /\ o.tp.onFd \in BOOLEAN
<1>1. NIS!OnFdTp \in NIS!TpInfos /\ NIS!OnFdTp.onFd \in BOOLEAN
  BY DEF NIS!OnFdTp, NIS!TpInfos, NIS!TpTypes
<1>2. \A t \in {"UDP", "TCP"} : NIS!NoFdTp(t) \in NIS!TpInfos /\ NIS!NoFdTp(t).onFd \in BOOLEAN
  BY DEF NIS!NoFdTp, NIS!TpInfos, NIS!TpTypes
<1>3. CASE tp.onFd /\ (tp.type = "TCP" \/ tcp)
  BY <1>1, <1>3 DEF NIS!SendOutcomes, NIS!Statuses
<1>4. CASE ~(tp.onFd /\ (tp.type = "TCP" \/ tcp)) /\ tcp
  BY <1>1, <1>2, <1>4 DEF NIS!SendOutcomes, NIS!Statuses
<1>5. CASE ~(tp.onFd /\ (tp.type = "TCP" \/ tcp)) /\ ~tcp
  BY <1>1, <1>2, <1>5 DEF NIS!SendOutcomes, NIS!Statuses
<1> QED
  BY <1>3, <1>4, <1>5

\* What a response adds to the network and to the connections.
LEMMA NISPutting ==
    ASSUME NIS!TypeOK, NEW r \in NIS!Responses, NEW o,
           o.status \in NIS!Statuses, o.tp \in NIS!TpInfos, o.tp.onFd \in BOOLEAN, NIS!Put(r, o)
    PROVE  /\ sent' \subseteq NIS!Transmissions
           /\ conn' \in {"none", "wait", "ready", "failed"}
           /\ conn' = "none" => conn = "none"
           /\ ~r.final => (NIS!FinalSent' <=> NIS!FinalSent)
           /\ o.status \notin {"UDP", "TCP_OK"} => sent' = sent
           /\ o.status = "TCP_CONN" => conn' = "wait"
<1>1. [final |-> r.final, onFd |-> o.tp.onFd] \in NIS!Transmissions
  BY DEF NIS!Responses, NIS!Transmissions
<1>2. sent' \subseteq NIS!Transmissions /\ conn' \in {"none", "wait", "ready", "failed"}
  BY <1>1 DEF NIS!Put, NIS!TypeOK
<1>3. ~r.final => (NIS!FinalSent' <=> NIS!FinalSent)
  BY DEF NIS!Put, NIS!FinalSent
<1> QED
  BY <1>2, <1>3 DEF NIS!Put

-----------------------------------------------------------------------------
LEMMA NISInitial == NIS!Init => NISInv
<1> SUFFICES ASSUME NIS!Init PROVE NISInv
  OBVIOUS
<1>1. tpInfo \in NIS!TpInfos
  BY DEF NIS!Init, NIS!OnFdTp, NIS!NoFdTp, NIS!TpInfos, NIS!TpTypes
<1>2. NIS!TypeOK
  BY <1>1, ServerHeard DEF NIS!Init, NIS!TypeOK, NIS!NoResponse, NIS!Responses
<1>3. NIS!TimersOfState /\ NIS!RequestOnce /\ NISAnswered
  BY DEF NIS!Init, NIS!TimersOfState, NIS!RequestOnce, NISAnswered, NIS!FinalSent,
         NIS!NoResponse
<1> QED
  BY <1>2, <1>3 DEF NISInv

\* The request reaches the TU, once: NONE is never entered again.
LEMMA NISRequestStep == ASSUME NISInv, NIS!PeerRequest PROVE NISInv'
<1>1. toTU = <<>> /\ toTU' = <<"request">> /\ state = "NONE" /\ state' = "TRYING"
  BY ServerHeard DEF NISInv, NIS!RequestOnce, NIS!PeerRequest
<1>2. NIS!TypeOK'
  BY <1>1, ServerHeard DEF NISInv, NIS!TypeOK, NIS!PeerRequest
<1>3. NIS!TimersOfState' /\ NIS!RequestOnce'
  BY <1>1 DEF NISInv, NIS!TimersOfState, NIS!RequestOnce, NIS!PeerRequest
<1>4. NISAnswered'
  BY <1>1 DEF NISInv, NISAnswered, NIS!FinalSent, NIS!PeerRequest
<1> QED
  BY <1>2, <1>3, <1>4 DEF NISInv

\* A response of the TU: a final one that left is the end of them.
LEMMA NISResponseStep ==
    ASSUME NISInv, NEW r \in NIS!Responses, NEW o \in NIS!Answers(r), NIS!TUResponse(r, o)
    PROVE  NISInv'
<1>1. /\ state \in {"TRYING", "PROCEEDING"} /\ toTU = <<"request">> /\ timers = {}
      /\ resp' = r /\ r.final \in BOOLEAN /\ NIS!Put(r, o) /\ UNCHANGED <<config, viaFd>>
  BY DEF NISInv, NIS!TypeOK, NIS!RequestOnce, NIS!TimersOfState, NIS!TUResponse,
         NIS!Responses
<1>2. o.status \in NIS!Statuses /\ o.tp \in NIS!TpInfos /\ o.tp.onFd \in BOOLEAN
  BY NISSending DEF NISInv, NIS!TypeOK, NIS!Answers
<1>3. /\ sent' \subseteq NIS!Transmissions
      /\ conn' \in {"none", "wait", "ready", "failed"}
      /\ conn' = "none" => conn = "none"
      /\ ~r.final => (NIS!FinalSent' <=> NIS!FinalSent)
      /\ o.status \notin {"UDP", "TCP_OK"} => sent' = sent
      /\ o.status = "TCP_CONN" => conn' = "wait"
  BY <1>1, <1>2, NISPutting DEF NISInv
<1>4. tpInfo' \in NIS!TpInfos
  BY <1>2 DEF NIS!TUResponse, NIS!TpInfos, NIS!TpTypes
<1>5. conn = "none" => ~NIS!FinalSent /\ ~resp.final
  BY <1>1 DEF NISInv, NISAnswered
<1>6. \/ /\ NIS!Failed(o)
         /\ state' = "TERMINATED" /\ timers' = {} /\ toTU' = <<"request", "error">>
      \/ /\ o.status = "TCP_CONN"
         /\ UNCHANGED <<state, timers, toTU>>
      \/ /\ o.status \in {"UDP", "TCP_OK"} /\ r.final
         /\ state' = "COMPLETED" /\ timers' \in {{}, {"J"}} /\ toTU' = toTU
      \/ /\ o.status \in {"UDP", "TCP_OK"} /\ ~r.final
         /\ state' = "PROCEEDING" /\ timers' = timers /\ toTU' = toTU
  BY <1>1, ServerHeard DEF NIS!TUResponse, NIS!EnterTerminated, NIS!EnterCompleted,
                           NIS!Started
<1>7. NIS!TypeOK'
  BY <1>1, <1>3, <1>4, <1>6, ServerHeard DEF NISInv, NIS!TypeOK
<1>8. NIS!TimersOfState' /\ NIS!RequestOnce'
  BY <1>1, <1>6 DEF NIS!TimersOfState, NIS!RequestOnce
<1>9. NISAnswered'
  <2>1. CASE NIS!Failed(o)
    BY <1>1, <1>3, <1>5, <1>6, <2>1 DEF NISAnswered, NIS!Failed, NIS!FinalSent
  <2>2. CASE ~NIS!Failed(o)
    BY <1>1, <1>3, <1>5, <1>6, <2>2 DEF NISAnswered
  <2> QED
    BY <2>1, <2>2
<1> QED
  BY <1>7, <1>8, <1>9 DEF NISInv

\* The request again: what was answered stays answered.
LEMMA NISAgainStep ==
    ASSUME NISInv, NEW o \in NIS!Answers(resp), NIS!PeerAgain(o)
    PROVE  NISInv'
<1>1. /\ state \in {"PROCEEDING", "COMPLETED"} /\ toTU = <<"request">>
      /\ resp \in NIS!Responses /\ tpInfo' = o.tp /\ NIS!Put(resp, o)
      /\ UNCHANGED <<resp, config, viaFd>>
  BY DEF NISInv, NIS!TypeOK, NIS!RequestOnce, NIS!PeerAgain
<1>2. o.status \in NIS!Statuses /\ o.tp \in NIS!TpInfos /\ o.tp.onFd \in BOOLEAN
  BY NISSending DEF NISInv, NIS!TypeOK, NIS!Answers
<1>3. /\ sent' \subseteq NIS!Transmissions
      /\ conn' \in {"none", "wait", "ready", "failed"}
      /\ conn' = "none" => conn = "none"
      /\ ~resp.final => (NIS!FinalSent' <=> NIS!FinalSent)
      /\ o.status \notin {"UDP", "TCP_OK"} => sent' = sent
  BY <1>1, <1>2, NISPutting DEF NISInv
<1>4. \/ /\ NIS!Failed(o)
         /\ state' = "TERMINATED" /\ timers' = timers \ {"J"}
         /\ toTU' = IF state = "PROCEEDING" THEN <<"request", "error">> ELSE toTU
      \/ /\ ~NIS!Failed(o)
         /\ UNCHANGED <<state, timers, toTU>>
  BY <1>1, ServerHeard DEF NIS!PeerAgain, NIS!EnterTerminated
<1>5. timers \subseteq {"J"} /\ timers \ {"J"} = {}
  BY DEF NISInv, NIS!TypeOK
<1>6. NIS!TypeOK'
  BY <1>1, <1>2, <1>3, <1>4, ServerHeard DEF NISInv, NIS!TypeOK
<1>7. NIS!TimersOfState' /\ NIS!RequestOnce'
  BY <1>1, <1>4, <1>5 DEF NISInv, NIS!TimersOfState, NIS!RequestOnce
<1>8. NISAnswered'
  <2>1. CASE NIS!Failed(o)
    BY <1>1, <1>3, <1>4, <2>1 DEF NISInv, NISAnswered, NIS!Failed, NIS!FinalSent
  <2>2. CASE ~NIS!Failed(o)
    BY <1>1, <1>3, <1>4, <2>2 DEF NISInv, NISAnswered
  <2> QED
    BY <2>1, <2>2
<1> QED
  BY <1>6, <1>7, <1>8 DEF NISInv

LEMMA NISTimerJStep == ASSUME NISInv, NIS!TimerJ PROVE NISInv'
<1>1. /\ state = "COMPLETED" /\ state' = "TERMINATED" /\ timers' = timers \ {"J"}
      /\ UNCHANGED <<tpInfo, resp, sent, conn, toTU, config, viaFd>>
  BY DEF NIS!TimerJ
<1>2. timers' = {}
  BY <1>1 DEF NISInv, NIS!TypeOK
<1>3. NIS!TypeOK'
  BY <1>1, <1>2 DEF NISInv, NIS!TypeOK
<1>4. NIS!TimersOfState' /\ NIS!RequestOnce'
  BY <1>1, <1>2 DEF NISInv, NIS!TimersOfState, NIS!RequestOnce
<1>5. NISAnswered'
  BY <1>1 DEF NISInv, NISAnswered, NIS!FinalSent
<1> QED
  BY <1>3, <1>4, <1>5 DEF NISInv

LEMMA NISReportStep == ASSUME NISInv, NIS!TxReport PROVE NISInv'
<1>1. /\ conn' \in {"ready", "failed"}
      /\ UNCHANGED <<state, tpInfo, timers, resp, sent, toTU, config, viaFd>>
  BY DEF NIS!TxReport
<1>2. NIS!TypeOK'
  BY <1>1 DEF NISInv, NIS!TypeOK
<1>3. NIS!TimersOfState' /\ NIS!RequestOnce'
  BY <1>1 DEF NISInv, NIS!TimersOfState, NIS!RequestOnce
<1>4. NISAnswered'
  BY <1>1 DEF NISInv, NISAnswered, NIS!FinalSent
<1> QED
  BY <1>2, <1>3, <1>4 DEF NISInv

LEMMA NISStep == ASSUME NISInv, [NIS!Next]_(NIS!vars) PROVE NISInv'
<1>1. CASE NIS!PeerRequest
  BY <1>1, NISRequestStep
<1>2. CASE NIS!StateTrying_onMsg
  BY <1>2, NISResponseStep DEF NIS!StateTrying_onMsg
<1>3. CASE NIS!StateProceeding_onMsg
  BY <1>3, NISResponseStep, NISAgainStep DEF NIS!StateProceeding_onMsg
<1>4. CASE NIS!StateCompleted_onMsg
  BY <1>4, NISAgainStep, NISTimerJStep DEF NIS!StateCompleted_onMsg
<1>5. CASE NIS!TxReport
  BY <1>5, NISReportStep
<1>6. CASE UNCHANGED NIS!vars
  BY <1>6 DEF NIS!vars, NISInv, NIS!TypeOK, NIS!TimersOfState, NIS!RequestOnce,
              NISAnswered, NIS!FinalSent
<1> QED
  BY <1>1, <1>2, <1>3, <1>4, <1>5, <1>6 DEF NIS!Next

-----------------------------------------------------------------------------
\* As long as no response had to wait for a connection, an error reaches the TU
\* only if no final response left.
LEMMA NISUnansweredIfError == ASSUME NISInv PROVE NIS!ErrorMeansUnanswered
BY DEF NISInv, NISAnswered, NIS!ErrorMeansUnanswered

\* A step after the final response has left keeps it.
LEMMA NISStableStep ==
    ASSUME NISInv, [NIS!Next]_(NIS!vars), NIS!FinalSent, conn' = "none"
    PROVE  UNCHANGED resp
<1>1. conn = "none"
  BY NISPutting DEF NIS!Next, NIS!StateTrying_onMsg, NIS!StateProceeding_onMsg,
                    NIS!StateCompleted_onMsg,
                 NIS!PeerRequest, NIS!TUResponse, NIS!PeerAgain, NIS!TimerJ, NIS!TxReport, NIS!Put, NIS!vars
<1>2. state \notin {"NONE", "TRYING", "PROCEEDING"}
  BY <1>1 DEF NISInv, NISAnswered
<1> QED
  BY <1>2 DEF NIS!Next, NIS!StateTrying_onMsg, NIS!StateProceeding_onMsg,
              NIS!StateCompleted_onMsg,
              NIS!PeerRequest, NIS!PeerAgain, NIS!TimerJ, NIS!TxReport, NIS!vars

-----------------------------------------------------------------------------
(* The non-INVITE client, the schedule of its repeats and its promise.       *)
\* What the invariants need beyond themselves: the transport of a transaction
\* is the one the peer's configuration chose, only a TCP send waits for a
\* connection, and timer E belongs to UDP.
NICTransport ==
    /\ state = "NONE" => tpInfo = NIC!NoFdTp("ANY") /\ ~pending
    /\ state # "NONE" => tpInfo.type = IF useTcp THEN "TCP" ELSE "UDP"
    /\ tpInfo.onFd \/ pending => useTcp
    /\ "E" \in timers => ~useTcp

NICInv == /\ NIC!TypeOK /\ NIC!TimersOfState /\ NIC!OneOutcome
          /\ NIC!WaitIsBounded /\ NICTransport

-----------------------------------------------------------------------------
\* What sipTransport_send answers without a descriptor: the status and tpInfo
\* follow the choice of protocol.
LEMMA NICFreshSend ==
    ASSUME NEW tp \in NIC!TpInfos, tp.onFd = FALSE,
           NEW tcp \in BOOLEAN, NEW o \in NIC!SendOutcomes(tp, tcp)
    PROVE  /\ o.status \in NIC!Statuses
           /\ o.tp \in NIC!TpInfos
           /\ o.tp.onFd = FALSE
           /\ o.tp.type = IF tcp THEN "TCP" ELSE "UDP"
           /\ o.status = "UDP" => ~tcp
           /\ o.status \in {"TCP_OK", "TCP_CONN"} => tcp
<1>1. CASE tcp
  <2>1. o \in [status : {"TCP_OK", "TCP_CONN", "FAIL"}, tp : {NIC!NoFdTp("TCP")}]
    BY <1>1 DEF NIC!SendOutcomes
  <2>2. o.status \in {"TCP_OK", "TCP_CONN", "FAIL"} /\ o.tp = NIC!NoFdTp("TCP")
    BY <2>1
  <2> QED
    BY <1>1, <2>2 DEF NIC!Statuses, NIC!NoFdTp, NIC!TpInfos, NIC!TpTypes
<1>2. CASE ~tcp
  <2>1. o \in [status : {"UDP", "FAIL"}, tp : {NIC!NoFdTp("UDP")}]
    BY <1>2 DEF NIC!SendOutcomes
  <2>2. o.status \in {"UDP", "FAIL"} /\ o.tp = NIC!NoFdTp("UDP")
    BY <2>1
  <2> QED
    BY <1>2, <2>2 DEF NIC!Statuses, NIC!NoFdTp, NIC!TpInfos, NIC!TpTypes
<1> QED
  BY <1>1, <1>2

\* What it answers with one: the descriptor is used or the send fails.
LEMMA NICFdSend ==
    ASSUME NEW tcp \in BOOLEAN, NEW o \in NIC!SendOutcomes(NIC!OnFdTp, tcp)
    PROVE  o.status \in {"TCP_OK", "FAIL"} /\ o.tp = NIC!OnFdTp
BY DEF NIC!SendOutcomes, NIC!OnFdTp

\* The invariant holds before the request.
LEMMA NICInitial == NIC!Init => NICInv
<1> SUFFICES ASSUME NIC!Init PROVE NICInv
  OBVIOUS
<1>1. NIC!NoFdTp("ANY") \in NIC!TpInfos /\ NIC!NoFdTp("ANY").onFd = FALSE
  BY DEF NIC!NoFdTp, NIC!TpInfos, NIC!TpTypes
<1>2. NIC!TypeOK
  <2>1. pending \in BOOLEAN
    BY DEF NIC!Init
  <2> QED
    BY <1>1, <2>1 DEF NIC!Init, NIC!TypeOK
<1>3. NIC!TimersOfState /\ NIC!OneOutcome /\ NIC!WaitIsBounded
  BY DEF NIC!Init, NIC!TimersOfState, NIC!OneOutcome, NIC!WaitIsBounded, NIC!Waiting
<1>4. NICTransport
  BY <1>1 DEF NIC!Init, NICTransport
<1> QED
  BY <1>2, <1>3, <1>4 DEF NICInv

-----------------------------------------------------------------------------
\* The sequences of outcomes a TU hears.
LEMMA NICToldAtMostOnce == {<<>>, <<"final">>, <<"error">>} \subseteq Seq({"final", "error"})
OBVIOUS

\* A timer that was started runs, or nothing has changed.
LEMMA NICStartTimer ==
    ASSUME NEW ts, NEW t, NEW ss \in NIC!Started(ts, t)
    PROVE  ss = ts \cup {t} \/ (ss = ts /\ TimersMayFail)
BY DEF NIC!Started

\* From a waiting state, whatever ended it: no timer is left, the TU hears of
\* the error and of nothing else.
LEMMA NICEndOfWait ==
    ASSUME NICInv, NEW from \in NIC!Waiting, NEW msgType,
           NEW ts \in SUBSET {"E", "F", "K"}, told = <<>>,
           NIC!EnterTerminated(from, msgType, ts, told)
    PROVE  state' = "TERMINATED" /\ timers' = {} /\ told' = <<"error">>
BY DEF NIC!EnterTerminated

\* The invariant in terms of where a step leads.
LEMMA NICReestablish ==
    ASSUME NICInv,
           tpInfo' \in NIC!TpInfos, tpInfo'.type = IF useTcp THEN "TCP" ELSE "UDP",
           tpInfo'.onFd => useTcp,
           pending' \in BOOLEAN, pending' => useTcp,
           useTcp' = useTcp,
           timerAEGValue' \in Nat, clock' \in Nat,
           \/ /\ state' = "TERMINATED" /\ timers' = {}
              /\ told' \in {<<"final">>, <<"error">>}
           \/ /\ state' = "COMPLETED" /\ timers' \subseteq {"K"}
              /\ told' = <<"final">>
           \/ /\ state' \in NIC!Waiting /\ told' = <<>>
              /\ timers' \in {{"F"}, {"E", "F"}}
              /\ "E" \in timers' => ~useTcp
    PROVE  NICInv'
<1>1. NIC!TypeOK'
  <2>1. useTcp' \in BOOLEAN
    BY DEF NICInv, NIC!TypeOK
  <2>2. told' \in Seq({"final", "error"})
    BY NICToldAtMostOnce
  <2>3. /\ state' \in {"NONE", "TRYING", "PROCEEDING", "COMPLETED", "TERMINATED"}
        /\ timers' \subseteq {"E", "F", "K"}
    BY DEF NIC!Waiting
  <2> QED
    BY <2>1, <2>2, <2>3 DEF NIC!TypeOK
<1>2. NIC!TimersOfState'
  BY DEF NIC!TimersOfState, NIC!Waiting
<1>3. NIC!OneOutcome'
  BY DEF NIC!OneOutcome, NIC!Waiting
<1>4. NIC!WaitIsBounded'
  BY DEF NIC!WaitIsBounded, NIC!Waiting
<1>5. NICTransport'
  BY DEF NICTransport, NIC!Waiting
<1> QED
  BY <1>1, <1>2, <1>3, <1>4, <1>5 DEF NICInv

\* What the invariant says of a transaction that waits.
LEMMA NICInWaiting ==
    ASSUME NICInv, state \in NIC!Waiting
    PROVE  /\ told = <<>> /\ timers \in {{"F"}, {"E", "F"}}
           /\ tpInfo \in NIC!TpInfos
           /\ tpInfo.type = IF useTcp THEN "TCP" ELSE "UDP"
           /\ timerAEGValue \in Nat /\ clock \in Nat
           /\ "E" \in timers => ~useTcp
<1>1. told = <<>> /\ tpInfo \in NIC!TpInfos /\ timerAEGValue \in Nat /\ clock \in Nat
  BY DEF NICInv, NIC!OneOutcome, NIC!TypeOK
<1>2. timers \subseteq {"E", "F"} /\ "F" \in timers
  BY DEF NICInv, NIC!TimersOfState, NIC!WaitIsBounded
<1>3. state # "NONE"
  BY DEF NIC!Waiting
<1>4. tpInfo.type = IF useTcp THEN "TCP" ELSE "UDP"
  BY <1>3 DEF NICInv, NICTransport
<1>5. "E" \in timers => ~useTcp
  BY DEF NICInv, NICTransport
<1> QED
  BY <1>1, <1>2, <1>4, <1>5

\* What the TU's request comes to: an error at once, or a transaction in TRYING
\* whose timer F runs, and over UDP E with it.
LEMMA NICRequestEffect ==
    ASSUME NICInv, NEW o \in NIC!SendOutcomes(tpInfo, useTcp), NIC!TURequest(o)
    PROVE  \/ /\ state' = "TERMINATED" /\ timers' = {} /\ told' = <<"error">>
              /\ timerAEGValue' \in Nat
           \/ /\ state' = "TRYING" /\ told' = <<>>
              /\ \/ /\ timers' = {"F"} /\ o.status # "UDP"
                    /\ timerAEGValue' \in Nat
                 \/ /\ timers' = {"E", "F"} /\ o.status = "UDP"
                    /\ timerAEGValue' = T1
<1>0. timers = {} /\ told = <<>> /\ timerAEGValue \in Nat
  BY DEF NICInv, NIC!TypeOK, NIC!TURequest, NIC!EnterTrying, NIC!TimersOfState,
         NIC!OneOutcome, NIC!Waiting
<1>1. "TRYING" \in NIC!Waiting
  BY DEF NIC!Waiting
<1>2. CASE NIC!Failed(o)
  BY <1>0, <1>1, <1>2, NICEndOfWait DEF NIC!TURequest, NIC!EnterTrying
<1>3. CASE ~NIC!Failed(o)
  <2>1. PICK withF \in NIC!Started(timers, "F") :
           IF "F" \notin withF
           THEN /\ NIC!EnterTerminated("TRYING", "INTERNAL_ERROR", withF, told)
                /\ UNCHANGED timerAEGValue
           ELSE IF o.status = "UDP"
           THEN /\ timerAEGValue' = T1
                /\ \E withE \in NIC!Started(withF, "E") :
                      IF "E" \notin withE
                      THEN NIC!EnterTerminated("TRYING", "INTERNAL_ERROR", withE, told)
                      ELSE state' = "TRYING" /\ timers' = withE /\ told' = told
           ELSE /\ state' = "TRYING" /\ timers' = withF
                /\ UNCHANGED <<told, timerAEGValue>>
    BY <1>3 DEF NIC!TURequest, NIC!EnterTrying
  <2>2. withF = {"F"} \/ withF = {}
    BY <1>0, <2>1, NICStartTimer
  <2>3. CASE "F" \notin withF
    BY <1>0, <1>1, <2>1, <2>2, <2>3, NICEndOfWait
  <2>4. CASE "F" \in withF /\ o.status = "UDP"
    <3>1. timerAEGValue' = T1 /\ timerAEGValue' \in Nat
      BY <2>1, <2>4, TimerAssumption
    <3>2. PICK withE \in NIC!Started(withF, "E") :
             IF "E" \notin withE
             THEN NIC!EnterTerminated("TRYING", "INTERNAL_ERROR", withE, told)
             ELSE state' = "TRYING" /\ timers' = withE /\ told' = told
      BY <2>1, <2>4
    <3>3. withE = {"E", "F"} \/ withE = {"F"}
      BY <2>2, <2>4, <3>2, NICStartTimer
    <3>4. CASE "E" \notin withE
      BY <1>0, <1>1, <3>1, <3>2, <3>3, <3>4, NICEndOfWait
    <3>5. CASE "E" \in withE
      BY <1>0, <2>4, <3>1, <3>2, <3>3, <3>5
    <3> QED
      BY <3>4, <3>5
  <2>5. CASE "F" \in withF /\ o.status # "UDP"
    BY <1>0, <2>1, <2>2, <2>5
  <2> QED
    BY <2>3, <2>4, <2>5
<1> QED
  BY <1>2, <1>3

LEMMA NICRequestStep ==
    ASSUME NICInv, NEW o \in NIC!SendOutcomes(tpInfo, useTcp), NIC!TURequest(o)
    PROVE  NICInv'
<1>1. /\ state = "NONE" /\ tpInfo = NIC!NoFdTp("ANY") /\ ~pending
      /\ timers = {} /\ told = <<>>
      /\ timerAEGValue \in Nat /\ clock \in Nat
      /\ useTcp \in BOOLEAN /\ tpInfo \in NIC!TpInfos
  BY DEF NICInv, NICTransport, NIC!TypeOK, NIC!TURequest, NIC!EnterTrying,
         NIC!TimersOfState, NIC!OneOutcome, NIC!Waiting
<1>2. /\ o.status \in NIC!Statuses
      /\ o.tp \in NIC!TpInfos
      /\ o.tp.onFd = FALSE
      /\ o.tp.type = IF useTcp THEN "TCP" ELSE "UDP"
      /\ o.status = "UDP" => ~useTcp
      /\ o.status \in {"TCP_OK", "TCP_CONN"} => useTcp
  <2>1. tpInfo.onFd = FALSE
    BY <1>1 DEF NIC!NoFdTp
  <2> QED
    BY <1>1, <2>1, NICFreshSend
<1>3. tpInfo' = o.tp /\ pending' = (o.status = "TCP_CONN") /\ clock' = clock /\ useTcp' = useTcp
  BY DEF NIC!TURequest, NIC!EnterTrying
<1>4. \/ /\ state' = "TERMINATED" /\ timers' = {} /\ told' = <<"error">>
         /\ timerAEGValue' \in Nat
      \/ /\ state' = "TRYING" /\ told' = <<>> /\ timerAEGValue' \in Nat
         /\ \/ timers' = {"F"}
            \/ timers' = {"E", "F"} /\ o.status = "UDP"
  BY NICRequestEffect, TimerAssumption
<1>5. pending' \in BOOLEAN /\ (pending' => useTcp)
  BY <1>2, <1>3
<1>6. \/ /\ state' = "TERMINATED" /\ timers' = {}
         /\ told' \in {<<"final">>, <<"error">>}
      \/ /\ state' \in NIC!Waiting /\ told' = <<>>
         /\ timers' \in {{"F"}, {"E", "F"}}
         /\ "E" \in timers' => ~useTcp
  BY <1>2, <1>4 DEF NIC!Waiting
<1>7. timerAEGValue' \in Nat /\ clock' \in Nat
  BY <1>1, <1>3, <1>4
<1>8. /\ tpInfo' \in NIC!TpInfos /\ tpInfo'.onFd = FALSE
      /\ tpInfo'.type = IF useTcp THEN "TCP" ELSE "UDP"
  BY <1>2, <1>3
<1> QED
  BY <1>3, <1>5, <1>6, <1>7, <1>8, NICReestablish

LEMMA NICTimerEStep ==
    ASSUME NICInv, NEW o \in NIC!SendOutcomes(tpInfo, useTcp), NIC!TimerE(o)
    PROVE  NICInv'
<1>1. /\ state \in NIC!Waiting /\ "E" \in timers
      /\ tpInfo' = o.tp /\ pending' = pending /\ useTcp' = useTcp
  BY DEF NIC!TimerE
<1>2. /\ told = <<>> /\ timers \in {{"F"}, {"E", "F"}} /\ tpInfo \in NIC!TpInfos
      /\ timerAEGValue \in Nat /\ clock \in Nat /\ ~useTcp
  BY <1>1, NICInWaiting
<1>3. useTcp \in BOOLEAN /\ pending \in BOOLEAN
  BY DEF NICInv, NIC!TypeOK
<1>4. tpInfo.onFd = FALSE /\ ~pending
  <2>1. tpInfo.onFd \in BOOLEAN
    BY <1>2 DEF NIC!TpInfos
  <2> QED
    BY <1>2, <1>3, <2>1 DEF NICInv, NICTransport
<1>5. /\ o.tp \in NIC!TpInfos /\ o.tp.onFd = FALSE
      /\ o.tp.type = IF useTcp THEN "TCP" ELSE "UDP"
  BY <1>2, <1>3, <1>4, NICFreshSend
<1>6. NIC!NextInterval \in Nat
  BY <1>2, TimerAssumption DEF NIC!NextInterval, NIC!MinInt
<1>7. \/ /\ state' = "TERMINATED" /\ timers' = {} /\ told' = <<"error">>
         /\ timerAEGValue' \in Nat /\ clock' \in Nat
      \/ /\ state' \in NIC!Waiting /\ told' = <<>> /\ timers' \in {{"F"}, {"E", "F"}}
         /\ timerAEGValue' \in Nat /\ clock' \in Nat
  <2>1. CASE NIC!Failed(o)
    <3>1. NIC!EnterTerminated(state, "TX_FAILED", timers \ {"E"}, told)
          /\ UNCHANGED <<timerAEGValue, clock>>
      BY <2>1 DEF NIC!TimerE, NIC!Failed
    <3> QED
      BY <1>1, <1>2, <3>1, NICEndOfWait
  <2>2. CASE ~NIC!Failed(o)
    <3>1. /\ timers' \in NIC!Started(timers \ {"E"}, "E")
          /\ timerAEGValue' = NIC!NextInterval /\ clock' = clock + timerAEGValue
          /\ UNCHANGED <<state, told>>
      BY <2>2 DEF NIC!TimerE
    <3>2. timers' \in {{"F"}, {"E", "F"}}
      BY <1>2, <3>1, NICStartTimer
    <3> QED
      BY <1>1, <1>2, <1>6, <3>1, <3>2
  <2> QED
    BY <2>1, <2>2
<1>8. pending' \in BOOLEAN /\ ~pending'
  BY <1>1, <1>3, <1>4
<1> QED
  BY <1>1, <1>2, <1>5, <1>7, <1>8, NICReestablish

LEMMA NICTimerFStep == ASSUME NICInv, NIC!TimerF PROVE NICInv'
<1>1. /\ state \in NIC!Waiting
      /\ UNCHANGED <<tpInfo, timerAEGValue, clock, pending, useTcp>>
      /\ NIC!EnterTerminated(state, "TIMEOUT", timers \ {"E", "F"}, told)
  BY DEF NIC!TimerF
<1>2. state' = "TERMINATED" /\ timers' = {} /\ told' = <<"error">>
  BY <1>1, NICInWaiting, NICEndOfWait
<1>3. tpInfo.onFd \/ pending => useTcp
  BY DEF NICInv, NICTransport
<1>4. pending \in BOOLEAN
  BY DEF NICInv, NIC!TypeOK
<1> QED
  BY <1>1, <1>2, <1>3, <1>4, NICInWaiting, NICReestablish

LEMMA NICTimerKStep == ASSUME NICInv, NIC!TimerK PROVE NICInv'
<1>1. /\ state = "COMPLETED"
      /\ UNCHANGED <<tpInfo, timerAEGValue, clock, pending, useTcp>>
      /\ NIC!EnterTerminated("COMPLETED", "TIMEOUT", timers \ {"K"}, told)
  BY DEF NIC!TimerK
<1>2. told = <<"final">> /\ timers \subseteq {"K"}
  BY <1>1 DEF NICInv, NIC!OneOutcome, NIC!TimersOfState, NIC!Waiting
<1>3. state' = "TERMINATED" /\ timers' = {} /\ told' = <<"final">>
  BY <1>1, <1>2 DEF NIC!EnterTerminated, NIC!Waiting
<1>4. /\ tpInfo \in NIC!TpInfos /\ tpInfo.type = IF useTcp THEN "TCP" ELSE "UDP"
      /\ timerAEGValue \in Nat /\ clock \in Nat
  BY <1>1 DEF NICInv, NIC!TypeOK, NICTransport
<1>5. tpInfo.onFd \/ pending => useTcp
  BY DEF NICInv, NICTransport
<1>6. pending \in BOOLEAN
  BY DEF NICInv, NIC!TypeOK
<1> QED
  BY <1>1, <1>3, <1>4, <1>5, <1>6, NICReestablish

LEMMA NICProvisionalStep == ASSUME NICInv, NIC!PeerProvisional PROVE NICInv'
<1>1. /\ state = "TRYING" /\ state' = "PROCEEDING"
      /\ UNCHANGED <<tpInfo, timers, timerAEGValue, clock, told, pending, useTcp>>
  BY DEF NIC!PeerProvisional
<1>2. state \in NIC!Waiting /\ state' \in NIC!Waiting
  BY <1>1 DEF NIC!Waiting
<1>3. tpInfo.onFd \/ pending => useTcp
  BY DEF NICInv, NICTransport
<1>4. pending \in BOOLEAN
  BY DEF NICInv, NIC!TypeOK
<1> QED
  BY <1>1, <1>2, <1>3, <1>4, NICInWaiting, NICReestablish

LEMMA NICFinalStep == ASSUME NICInv, NIC!PeerFinal PROVE NICInv'
<1>1. /\ state \in NIC!Waiting
      /\ NIC!EnterCompleted(Append(told, "final"))
      /\ UNCHANGED <<tpInfo, timerAEGValue, clock, pending, useTcp>>
  BY DEF NIC!PeerFinal
<1>2. Append(told, "final") = <<"final">> /\ timers \ {"E", "F"} = {}
  BY <1>1, NICInWaiting
<1>3. \/ /\ state' = "TERMINATED" /\ timers' = {} /\ told' = <<"final">>
      \/ /\ state' = "COMPLETED" /\ timers' \subseteq {"K"} /\ told' = <<"final">>
  <2>1. CASE tpInfo.type # "TCP"
    BY <1>1, <1>2, <2>1, NICStartTimer DEF NIC!EnterCompleted
  <2>2. CASE tpInfo.type = "TCP"
    BY <1>1, <1>2, <2>2 DEF NIC!EnterCompleted, NIC!EnterTerminated, NIC!Waiting
  <2> QED
    BY <2>1, <2>2
<1>4. tpInfo.onFd \/ pending => useTcp
  BY DEF NICInv, NICTransport
<1>5. pending \in BOOLEAN
  BY DEF NICInv, NIC!TypeOK
<1> QED
  BY <1>1, <1>3, <1>4, <1>5, NICInWaiting, NICReestablish

LEMMA NICTxTcpReadyStep ==
    ASSUME NICInv, NEW o \in NIC!SendOutcomes(NIC!OnFdTp, useTcp), NIC!TxTcpReady(o)
    PROVE  NICInv'
<1>1. /\ state \in NIC!Waiting /\ pending /\ pending' = FALSE /\ tpInfo' = o.tp
      /\ UNCHANGED <<timerAEGValue, clock, useTcp>>
  BY DEF NIC!TxTcpReady
<1>2. useTcp \in BOOLEAN /\ useTcp
  BY <1>1 DEF NICInv, NIC!TypeOK, NICTransport
<1>3. tpInfo' \in NIC!TpInfos /\ tpInfo'.type = "TCP"
  <2>1. tpInfo' = NIC!OnFdTp
    BY <1>1, <1>2, NICFdSend
  <2> QED
    BY <2>1 DEF NIC!OnFdTp, NIC!TpInfos, NIC!TpTypes
<1>4. \/ /\ state' = "TERMINATED" /\ timers' = {} /\ told' = <<"error">>
      \/ /\ state' \in NIC!Waiting /\ told' = <<>> /\ timers' = timers
  <2>1. CASE NIC!Failed(o)
    <3>1. NIC!EnterTerminated(state, "TX_FAILED", timers, told)
      BY <2>1 DEF NIC!TxTcpReady
    <3> QED
      BY <1>1, <3>1, NICInWaiting, NICEndOfWait
  <2>2. CASE ~NIC!Failed(o)
    BY <1>1, <2>2, NICInWaiting DEF NIC!TxTcpReady
  <2> QED
    BY <2>1, <2>2
<1>5. pending' \in BOOLEAN /\ ~pending'
  BY <1>1
<1> QED
  BY <1>1, <1>2, <1>3, <1>4, <1>5, NICInWaiting, NICReestablish

LEMMA NICTxFailedStep == ASSUME NICInv, NIC!TxFailed PROVE NICInv'
<1>1. /\ state \in NIC!Waiting /\ pending /\ pending' = FALSE
      /\ NIC!EnterTerminated(state, "TX_FAILED", timers, told)
      /\ UNCHANGED <<tpInfo, timerAEGValue, clock, useTcp>>
  BY DEF NIC!TxFailed
<1>2. state' = "TERMINATED" /\ timers' = {} /\ told' = <<"error">>
  BY <1>1, NICInWaiting, NICEndOfWait
<1>3. useTcp
  BY <1>1 DEF NICInv, NICTransport
<1>4. pending' \in BOOLEAN /\ ~pending'
  BY <1>1
<1> QED
  BY <1>1, <1>2, <1>3, <1>4, NICInWaiting, NICReestablish

-----------------------------------------------------------------------------
LEMMA NICStutter == ASSUME NICInv, UNCHANGED NIC!vars PROVE NICInv'
BY DEF NICInv, NIC!vars, NIC!TypeOK, NIC!TimersOfState, NIC!OneOutcome,
       NIC!WaitIsBounded, NICTransport

\* Every step keeps the invariant.
LEMMA NICStep == ASSUME NICInv, [NIC!Next]_(NIC!vars) PROVE NICInv'
<1>1. CASE \E o \in NIC!SendOutcomes(tpInfo, useTcp) : NIC!TURequest(o)
  BY <1>1, NICRequestStep
<1>2. CASE \E o \in NIC!SendOutcomes(tpInfo, useTcp) : NIC!TimerE(o)
  BY <1>2, NICTimerEStep
<1>3. CASE NIC!TimerF
  BY <1>3, NICTimerFStep
<1>4. CASE NIC!TimerK
  BY <1>4, NICTimerKStep
<1>5. CASE NIC!PeerProvisional
  BY <1>5, NICProvisionalStep
<1>6. CASE NIC!PeerFinal
  BY <1>6, NICFinalStep
<1>7. CASE \E o \in NIC!SendOutcomes(NIC!OnFdTp, useTcp) : NIC!TxTcpReady(o)
  BY <1>7, NICTxTcpReadyStep
<1>8. CASE NIC!TxFailed
  BY <1>8, NICTxFailedStep
<1>9. CASE UNCHANGED NIC!vars
  BY <1>9, NICStutter
<1> QED
  BY <1>1, <1>2, <1>3, <1>4, <1>5, <1>6, <1>7, <1>8, <1>9
  DEF NIC!Next, NIC!StateTrying_onMsg, NIC!StateProceeding_onMsg

\* The invariant holds in every reachable state.
THEOREM NICInvariance == NIC!Spec => []NICInv
<1>1. NIC!Init => NICInv
  BY NICInitial
<1>2. NICInv /\ [NIC!Next]_(NIC!vars) => NICInv'
  BY NICStep
<1> QED
  BY <1>1, <1>2, PTL DEF NIC!Spec

-----------------------------------------------------------------------------
\* Timer F runs as long as the transaction waits, even if timers may fail to
\* start, so that it cannot wait for ever.
THEOREM NICWaitHasAnEnd == NIC!Spec => []NIC!WaitIsBounded
BY NICInvariance, PTL DEF NICInv

-----------------------------------------------------------------------------
\* The schedule of the repeats.  Over TCP there is no timer E: that follows
\* from the invariant alone.
LEMMA NICNoTimerEOverTcp == NICInv => (tpInfo.type = "TCP" => "E" \notin timers)
<1> SUFFICES ASSUME NICInv, "E" \in timers PROVE tpInfo.type # "TCP"
  OBVIOUS
<1>1. state \in NIC!Waiting
  BY DEF NICInv, NIC!TimersOfState
<1> QED
  BY <1>1, NICInWaiting

\* Out of the waiting states there is nothing to show.
LEMMA NICRetransmitsElsewhere ==
    ASSUME NICInv, state \notin NIC!Waiting PROVE NIC!Retransmits
<1>1. "E" \notin timers
  BY DEF NICInv, NIC!TimersOfState
<1> QED
  BY <1>1 DEF NIC!Retransmits

\* Before the request nothing is scheduled.
NICSchedule == NIC!Retransmits /\ (state = "NONE" => clock = 0)

LEMMA NICScheduleAfterRequest ==
    ASSUME NICInv, NICInv', NICSchedule, NEW o \in NIC!SendOutcomes(tpInfo, useTcp), NIC!TURequest(o)
    PROVE  NICSchedule'
<1>1. clock' = 0 /\ tpInfo' = o.tp
  BY DEF NIC!TURequest, NIC!EnterTrying, NICSchedule
<1>2. CASE state' = "TERMINATED"
  BY <1>1, <1>2, NICRetransmitsElsewhere
  DEF NICSchedule, NIC!Retransmits, NICInv, NIC!TimersOfState, NIC!Waiting
<1>3. CASE state' = "TRYING" /\ timers' = {"F"} /\ o.status # "UDP"
  <2>1. tpInfo'.type = "TCP"
    <3>1. state = "NONE" /\ tpInfo \in NIC!TpInfos /\ useTcp \in BOOLEAN
      BY DEF NIC!TURequest, NIC!EnterTrying, NICInv, NIC!TypeOK
    <3>2. tpInfo.onFd = FALSE
      BY <3>1 DEF NICInv, NICTransport, NIC!NoFdTp
    <3>3. ~NIC!Failed(o)
      BY <1>3 DEF NIC!TURequest, NIC!EnterTrying, NIC!EnterTerminated
    <3>4. o.tp.type = (IF useTcp THEN "TCP" ELSE "UDP") /\ o.status \in NIC!Statuses
          /\ (o.status \in {"TCP_OK", "TCP_CONN"} => useTcp)
      BY <3>1, <3>2, NICFreshSend
    <3> QED
      BY <1>1, <1>3, <3>3, <3>4 DEF NIC!Statuses, NIC!Failed
  <2> QED
    BY <1>3, <2>1 DEF NICSchedule, NIC!Retransmits
<1>4. CASE /\ state' = "TRYING" /\ timers' = {"E", "F"} /\ timerAEGValue' = T1
  <2>1. tpInfo'.type # "TCP"
    BY <1>4, NICNoTimerEOverTcp, NICInWaiting DEF NIC!Waiting, NICInv, NICTransport
  <2>2. T1 <= T2 => timerAEGValue' = NIC!MinInt(clock' + T1, T2)
    BY <1>1, <1>4, TimerAssumption DEF NIC!MinInt
  <2> QED
    BY <1>4, <2>1, <2>2 DEF NICSchedule, NIC!Retransmits
<1> QED
  BY <1>2, <1>3, <1>4, NICRequestEffect

LEMMA NICScheduleAfterTimerE ==
    ASSUME NICInv, NICInv', NICSchedule, NEW o \in NIC!SendOutcomes(tpInfo, useTcp), NIC!TimerE(o)
    PROVE  NICSchedule'
<1>1. state \in NIC!Waiting /\ "E" \in timers /\ timerAEGValue \in Nat /\ clock \in Nat
  BY NICInWaiting DEF NIC!TimerE
<1>2. CASE state' \notin NIC!Waiting
  <2>1. state' = "TERMINATED"
    BY <1>1, <1>2 DEF NIC!TimerE, NIC!EnterTerminated
  <2>2. "E" \notin timers'
    BY <2>1 DEF NICInv, NIC!TimersOfState, NIC!Waiting
  <2> QED
    BY <2>1, <2>2 DEF NICSchedule, NIC!Retransmits, NIC!Waiting
<1>3. CASE state' \in NIC!Waiting
  <2>1. /\ timerAEGValue' = NIC!NextInterval /\ clock' = clock + timerAEGValue
        /\ timers' \in NIC!Started(timers \ {"E"}, "E")
        /\ state' = state
    BY <1>3 DEF NIC!TimerE, NIC!EnterTerminated, NIC!Waiting
  <2>2. ~TimersMayFail => "E" \in timers'
    BY <2>1, NICStartTimer
  <2>3. tpInfo'.type = "TCP" => "E" \notin timers'
    <3> SUFFICES ASSUME "E" \in timers' PROVE tpInfo'.type # "TCP"
      OBVIOUS
    <3>1. ~useTcp' /\ state' # "NONE"
      BY <1>3 DEF NICInv, NICTransport, NIC!Waiting
    <3> QED
      BY <3>1 DEF NICInv, NICTransport
  <2>4. ASSUME T1 <= T2
        PROVE  IF state' = "TRYING" THEN timerAEGValue' = NIC!MinInt(clock' + T1, T2)
                                    ELSE timerAEGValue' <= T2
    <3>1. CASE state = "TRYING"
      <4>1. timerAEGValue = NIC!MinInt(clock + T1, T2)
        BY <1>1, <2>4, <3>1 DEF NICSchedule, NIC!Retransmits
      <4>2. timerAEGValue' = NIC!MinInt(2 * timerAEGValue, T2)
        BY <2>1, <3>1 DEF NIC!NextInterval
      <4> QED
        BY <1>1, <2>1, <2>4, <3>1, <4>1, <4>2, TimerAssumption DEF NIC!MinInt
    <3>2. CASE state # "TRYING"
      BY <2>1, <3>2, TimerAssumption DEF NIC!NextInterval
    <3> QED
      BY <3>1, <3>2
  <2> QED
    BY <1>3, <2>2, <2>3, <2>4 DEF NICSchedule, NIC!Retransmits, NIC!Waiting
<1> QED
  BY <1>2, <1>3

LEMMA NICScheduleAfterProvisional ==
    ASSUME NICInv, NICSchedule, NIC!PeerProvisional PROVE NICSchedule'
<1>1. /\ state = "TRYING" /\ state' = "PROCEEDING"
      /\ UNCHANGED <<tpInfo, timers, timerAEGValue, clock>>
  BY DEF NIC!PeerProvisional
<1>2. timerAEGValue \in Nat /\ clock \in Nat
  BY DEF NICInv, NIC!TypeOK
<1>3. T1 <= T2 /\ "E" \in timers => timerAEGValue <= T2
  BY <1>1, <1>2, TimerAssumption DEF NICSchedule, NIC!Retransmits, NIC!MinInt
<1> QED
  BY <1>1, <1>3 DEF NICSchedule, NIC!Retransmits, NIC!Waiting

LEMMA NICScheduleAfterReady ==
    ASSUME NICInv, NICInv', NEW o \in NIC!SendOutcomes(NIC!OnFdTp, useTcp), NIC!TxTcpReady(o)
    PROVE  NICSchedule'
<1>1. useTcp' /\ state' # "NONE"
  BY DEF NIC!TxTcpReady, NICInv, NICTransport, NIC!EnterTerminated, NIC!Waiting
<1>2. tpInfo'.type = "TCP" /\ "E" \notin timers'
  BY <1>1 DEF NICInv, NICTransport
<1> QED
  BY <1>1, <1>2 DEF NICSchedule, NIC!Retransmits

LEMMA NICScheduleStep ==
    ASSUME NICInv, NICInv', NICSchedule, [NIC!Next]_(NIC!vars) PROVE NICSchedule'
<1>1. CASE \E o \in NIC!SendOutcomes(tpInfo, useTcp) : NIC!TURequest(o)
  BY <1>1, NICScheduleAfterRequest
<1>2. CASE \E o \in NIC!SendOutcomes(tpInfo, useTcp) : NIC!TimerE(o)
  BY <1>2, NICScheduleAfterTimerE
<1>3. CASE NIC!PeerProvisional
  BY <1>3, NICScheduleAfterProvisional
<1>4. CASE \E o \in NIC!SendOutcomes(NIC!OnFdTp, useTcp) : NIC!TxTcpReady(o)
  BY <1>4, NICScheduleAfterReady
<1>5. CASE NIC!TimerF \/ NIC!TimerK \/ NIC!PeerFinal \/ NIC!TxFailed
  <2>1. state' \in {"TERMINATED", "COMPLETED"}
    BY <1>5 DEF NIC!TimerF, NIC!TimerK, NIC!PeerFinal, NIC!TxFailed,
                NIC!EnterTerminated, NIC!EnterCompleted
  <2>2. "E" \notin timers'
    BY <2>1 DEF NICInv, NIC!TimersOfState, NIC!Waiting
  <2> QED
    BY <2>1, <2>2 DEF NICSchedule, NIC!Retransmits, NIC!Waiting
<1>6. CASE UNCHANGED NIC!vars
  BY <1>6 DEF NIC!vars, NICSchedule, NIC!Retransmits
<1> QED
  BY <1>1, <1>2, <1>3, <1>4, <1>5, <1>6 DEF NIC!Next, NIC!StateTrying_onMsg,
                                            NIC!StateProceeding_onMsg

-----------------------------------------------------------------------------
(***************************************************************************)
(* The promise to the TU.  What a step does to stage and outcome follows   *)
(* from the states it leads from and to, and from the invariant before and *)
(* after it.                                                               *)
(***************************************************************************)
LEMMA NICCourse ==
    ASSUME NICInv, [NIC!Next]_(NIC!vars)
    PROVE  \/ state' = state /\ told' = told
           \/ state = "NONE" /\ state' = "TRYING"
           \/ state = "NONE" /\ state' = "TERMINATED" /\ told' = <<"error">>
           \/ state \in NIC!Waiting /\ state' \in NIC!Waiting \cup {"COMPLETED", "TERMINATED"}
           \/ state = "COMPLETED" /\ state' = "TERMINATED" /\ told' = told
<1>1. CASE \E o \in NIC!SendOutcomes(tpInfo, useTcp) : NIC!TURequest(o)
  <2>1. state = "NONE"
    BY <1>1 DEF NIC!TURequest, NIC!EnterTrying
  <2> QED
    BY <1>1, <2>1, NICRequestEffect
<1>2. CASE \E o \in NIC!SendOutcomes(tpInfo, useTcp) : NIC!TimerE(o)
  BY <1>2 DEF NIC!TimerE, NIC!EnterTerminated
<1>3. CASE NIC!TimerF
  BY <1>3 DEF NIC!TimerF, NIC!EnterTerminated
<1>4. CASE NIC!TimerK
  BY <1>4 DEF NIC!TimerK, NIC!EnterTerminated, NIC!Waiting
<1>5. CASE NIC!PeerProvisional
  BY <1>5 DEF NIC!PeerProvisional, NIC!Waiting
<1>6. CASE NIC!PeerFinal
  BY <1>6 DEF NIC!PeerFinal, NIC!EnterCompleted, NIC!EnterTerminated
<1>7. CASE \E o \in NIC!SendOutcomes(NIC!OnFdTp, useTcp) : NIC!TxTcpReady(o)
  BY <1>7 DEF NIC!TxTcpReady, NIC!EnterTerminated
<1>8. CASE NIC!TxFailed
  BY <1>8 DEF NIC!TxFailed, NIC!EnterTerminated
<1>9. CASE UNCHANGED NIC!vars
  BY <1>9 DEF NIC!vars
<1> QED
  BY <1>1, <1>2, <1>3, <1>4, <1>5, <1>6, <1>7, <1>8, <1>9
  DEF NIC!Next, NIC!StateTrying_onMsg, NIC!StateProceeding_onMsg

LEMMA NICOutcome ==
    ASSUME NICInv
    PROVE  /\ state = "NONE" => NIC!stage = "idle" /\ NIC!outcome = "none"
           /\ state \in NIC!Waiting => NIC!stage = "open" /\ NIC!outcome = "none"
           /\ state = "COMPLETED" => NIC!stage = "open" /\ NIC!outcome = "final"
           /\ state = "TERMINATED" => NIC!stage = "closed" /\ NIC!outcome \in {"final", "error"}
BY DEF NICInv, NIC!OneOutcome, NIC!stage, NIC!outcome, NIC!Waiting

LEMMA NICPromiseStep ==
    ASSUME NICInv, NICInv', [NIC!Next]_(NIC!vars)
    PROVE  [NIC!Promise!Next]_(NIC!Promise!vars)
<1>1. /\ state' = "TRYING" => NIC!stage' = "open" /\ NIC!outcome' = "none"
      /\ state' \in NIC!Waiting => NIC!stage' = "open" /\ NIC!outcome' = "none"
      /\ state' = "COMPLETED" => NIC!stage' = "open" /\ NIC!outcome' = "final"
      /\ state' = "TERMINATED" => NIC!stage' = "closed" /\ NIC!outcome' \in {"final", "error"}
  BY DEF NICInv, NIC!OneOutcome, NIC!stage, NIC!outcome, NIC!Waiting
<1>2. CASE state' = state /\ told' = told
  BY <1>2 DEF NIC!stage, NIC!outcome, NIC!Promise!vars
<1>3. CASE state = "NONE" /\ state' = "TRYING"
  BY <1>1, <1>3, NICOutcome DEF NIC!Promise!Next, NIC!Promise!Begin
<1>4. CASE state = "NONE" /\ state' = "TERMINATED" /\ told' = <<"error">>
  <2>1. NIC!outcome' = "error"
    BY <1>4 DEF NIC!outcome
  <2> QED
    BY <1>1, <1>4, <2>1, NICOutcome DEF NIC!Promise!Next, NIC!Promise!Begin
<1>5. CASE state \in NIC!Waiting /\ state' \in NIC!Waiting \cup {"COMPLETED", "TERMINATED"}
  <2>1. NIC!stage = "open" /\ NIC!outcome = "none"
    BY <1>5, NICOutcome
  <2>2. CASE state' \in NIC!Waiting
    BY <1>1, <2>1, <2>2 DEF NIC!Promise!vars
  <2>3. CASE state' = "COMPLETED" \/ state' = "TERMINATED"
    BY <1>1, <2>1, <2>3 DEF NIC!Promise!Next, NIC!Promise!Settle
  <2> QED
    BY <1>5, <2>2, <2>3
<1>6. CASE state = "COMPLETED" /\ state' = "TERMINATED" /\ told' = told
  <2>1. NIC!outcome' = NIC!outcome
    BY <1>6 DEF NIC!outcome
  <2> QED
    BY <1>1, <1>6, <2>1, NICOutcome DEF NIC!Promise!Next, NIC!Promise!Close
<1> QED
  BY <1>2, <1>3, <1>4, <1>5, <1>6, NICCourse

\* The transaction implements the safety part of its promise to the TU: every
\* step is a step of ClientPromise or leaves stage and outcome alone.
THEOREM NICImplementsPromise ==
    NIC!Spec => NIC!Promise!Init /\ [][NIC!Promise!Next]_(NIC!Promise!vars)
<1>1. NIC!Init => NIC!Promise!Init
  BY DEF NIC!Init, NIC!Promise!Init, NIC!stage, NIC!outcome
<1>2. NICInv /\ NICInv' /\ [NIC!Next]_(NIC!vars) => [NIC!Promise!Next]_(NIC!Promise!vars)
  BY NICPromiseStep
<1> QED
  BY <1>1, <1>2, NICInvariance, PTL DEF NIC!Spec

-----------------------------------------------------------------------------
(* All kinds.                                                                *)
IInv == ByKind(ICInv, NICInv /\ NICSchedule, ISInv, NISInv)

-----------------------------------------------------------------------------
\* A step of the transaction is one of its kind's machine, or none.
LEMMA StepOfKind ==
    ASSUME [Next]_vars
    PROVE  /\ kind' = kind
           /\ kind = "IC"  => [IC!Next]_(IC!vars)
           /\ kind = "NIC" => [NIC!Next]_(NIC!vars)
           /\ kind = "IS"  => [IS!Next]_(IS!vars)
           /\ kind = "NIS" => [NIS!Next]_(NIS!vars)
<1>1. CASE Next
  <2>1. kind' = kind
    BY <1>1 DEF Next, OfIC, OfNIC, OfIS, OfNIS
  <2>2. /\ kind = "IC"  => IC!Next
        /\ kind = "NIC" => NIC!Next
        /\ kind = "IS"  => IS!Next
        /\ kind = "NIS" => NIS!Next
    BY <1>1 DEF Next, OfIC, OfNIC, OfIS, OfNIS
  <2> QED
    BY <2>1, <2>2
<1>2. CASE UNCHANGED vars
  BY <1>2 DEF vars, NICVars, ICVars, ClientVars, ServerVars, ISVars, RepeatVars,
              IC!vars, NIC!vars, IS!vars, NIS!vars
<1> QED
  BY <1>1, <1>2

LEMMA Initial == Init => IInv
<1> SUFFICES ASSUME Init PROVE IInv
  OBVIOUS
<1>1. /\ kind = "IC"  => IC!Init
      /\ kind = "NIC" => NIC!Init
      /\ kind = "IS"  => IS!Init
      /\ kind = "NIS" => NIS!Init
  BY DEF Init
<1>2. IC!Init => ICInv
  BY ICInitial, TimerAssumption
<1>3. NIC!Init => NICInv
  BY NICInitial, TimerAssumption
<1>4. NIC!Init => NICSchedule
  BY DEF NIC!Init, NICSchedule, NIC!Retransmits, NIC!Waiting
<1>5. IS!Init => ISInv
  BY ISInitial, TimerAssumption
<1>6. NIS!Init => NISInv
  BY NISInitial, TimerAssumption
<1> QED
  BY <1>1, <1>2, <1>3, <1>4, <1>5, <1>6 DEF IInv, ByKind

\* Each machine keeps its own invariant, and the others have no say.
LEMMA Step == ASSUME IInv, [Next]_vars PROVE IInv'
<1>1. kind' = kind
  BY StepOfKind
<1>2. CASE kind = "IC"
  <2>1. ICInv /\ [IC!Next]_(IC!vars)
    BY <1>2, StepOfKind DEF IInv, ByKind
  <2>2. ICInv'
    BY <2>1, ICStep, TimerAssumption
  <2> QED
    BY <1>1, <1>2, <2>2 DEF IInv, ByKind
<1>3. CASE kind = "NIC"
  <2>1. NICInv /\ NICSchedule /\ [NIC!Next]_(NIC!vars)
    BY <1>3, StepOfKind DEF IInv, ByKind
  <2>2. NICInv'
    BY <2>1, NICStep, TimerAssumption
  <2>3. NICSchedule'
    BY <2>1, <2>2, NICScheduleStep, TimerAssumption
  <2> QED
    BY <1>1, <1>3, <2>2, <2>3 DEF IInv, ByKind
<1>4. CASE kind = "IS"
  <2>1. ISInv /\ [IS!Next]_(IS!vars)
    BY <1>4, StepOfKind DEF IInv, ByKind
  <2>2. ISInv'
    BY <2>1, ISStep, TimerAssumption
  <2> QED
    BY <1>1, <1>4, <2>2 DEF IInv, ByKind
<1>5. CASE kind = "NIS"
  <2>1. NISInv /\ [NIS!Next]_(NIS!vars)
    BY <1>5, StepOfKind DEF IInv, ByKind
  <2>2. NISInv'
    BY <2>1, NISStep, TimerAssumption
  <2> QED
    BY <1>1, <1>5, <2>2 DEF IInv, ByKind
<1>6. CASE kind \notin {"IC", "NIC", "IS", "NIS"}
  BY <1>1, <1>6 DEF IInv, ByKind
<1> QED
  BY <1>2, <1>3, <1>4, <1>5, <1>6

\* The invariant holds in every reachable state.
THEOREM Invariance == Spec => []IInv
<1>1. Init => IInv
  BY Initial
<1>2. IInv /\ [Next]_vars => IInv'
  BY Step
<1> QED
  BY <1>1, <1>2, PTL DEF Spec

-----------------------------------------------------------------------------
\* What the invariant says of each kind, in the terms of the specification.
LEMMA OfICs ==
    ASSUME IInv, kind = "IC"
    PROVE  /\ IC!TypeOK /\ IC!TimersOfState /\ IC!NeverSilent /\ IC!ErrorIsEnd
           /\ IC!Doubling
<1>1. ICInv
  BY DEF IInv, ByKind
<1>2. IC!ErrorIsEnd
  BY <1>1, ICErrorEnds, TimerAssumption
<1> QED
  BY <1>1, <1>2 DEF ICInv

LEMMA OfNICs ==
    ASSUME IInv, kind = "NIC"
    PROVE  NIC!TypeOK /\ NIC!TimersOfState /\ NIC!OneOutcome /\ NIC!Retransmits
BY DEF IInv, ByKind, NICInv, NICSchedule

LEMMA OfISs ==
    ASSUME IInv, kind = "IS"
    PROVE  /\ IS!TypeOK /\ IS!TimersOfState /\ IS!FreedAtEnd /\ IS!RequestOnce
           /\ IS!Repeats /\ IS!OnRequestFd
BY DEF IInv, ByKind, ISInv, ISControl, ISNetwork, ISTiming

LEMMA OfNISs ==
    ASSUME IInv, kind = "NIS"
    PROVE  /\ NIS!TypeOK /\ NIS!TimersOfState /\ NIS!RequestOnce
           /\ NIS!ErrorMeansUnanswered
<1>1. NISInv
  BY DEF IInv, ByKind
<1>2. NIS!ErrorMeansUnanswered
  BY <1>1, NISUnansweredIfError, TimerAssumption
<1> QED
  BY <1>1, <1>2 DEF NISInv

\* The safety part of KeepsPromise: a step of a non-INVITE client is one of
\* ClientPromise or leaves stage and outcome alone, and so does every step of an
\* entry of another kind, in which nothing begins.
THEOREM ImplementsPromise == Spec => NICPromise!Init /\ [][NICPromise!Next]_(NICPromise!vars)
<1>1. Init => NICPromise!Init
  <2>1. kind = "NIC" /\ NIC!Init => stage = "idle" /\ outcome = "none"
    BY DEF NIC!Init, NIC!stage, NIC!outcome, stage, outcome
  <2>2. kind # "NIC" => stage = "idle" /\ outcome = "none"
    BY DEF stage, outcome
  <2>3. Init => kind # "NIC" \/ NIC!Init
    BY DEF Init
  <2> QED
    BY <2>1, <2>2, <2>3 DEF NICPromise!Init
<1>2. IInv /\ IInv' /\ [Next]_vars => [NICPromise!Next]_(NICPromise!vars)
  <2> SUFFICES ASSUME IInv, IInv', [Next]_vars PROVE [NICPromise!Next]_(NICPromise!vars)
    OBVIOUS
  <2>1. kind' = kind
    BY StepOfKind
  <2>2. CASE kind = "NIC"
    <3>1. NICInv /\ NICInv' /\ [NIC!Next]_(NIC!vars)
      BY <2>1, <2>2, StepOfKind DEF IInv, ByKind
    <3>2. [NIC!Promise!Next]_(NIC!Promise!vars)
      BY <3>1, NICPromiseStep
    <3>3. /\ stage = NIC!stage /\ stage' = NIC!stage'
          /\ outcome = NIC!outcome /\ outcome' = NIC!outcome'
      BY <2>1, <2>2 DEF stage, outcome
    <3>4. CASE UNCHANGED NIC!Promise!vars
      BY <3>3, <3>4 DEF NICPromise!vars, NIC!Promise!vars
    <3>5. NIC!Promise!Begin => NICPromise!Begin
      BY <3>3 DEF NICPromise!Begin, NIC!Promise!Begin
    <3>6. NIC!Promise!Settle => NICPromise!Settle
      BY <3>3 DEF NICPromise!Settle, NIC!Promise!Settle
    <3>7. NIC!Promise!Close => NICPromise!Close
      BY <3>3 DEF NICPromise!Close, NIC!Promise!Close
    <3> QED
      BY <3>2, <3>4, <3>5, <3>6, <3>7 DEF NICPromise!Next, NIC!Promise!Next
  <2>3. CASE kind # "NIC"
    <3>1. /\ stage = "idle" /\ stage' = "idle"
          /\ outcome = "none" /\ outcome' = "none"
      BY <2>1, <2>3 DEF stage, outcome
    <3> QED
      BY <3>1 DEF NICPromise!vars
  <2> QED
    BY <2>2, <2>3
<1> QED
  BY <1>1, <1>2, Invariance, PTL DEF Spec

\* The fields of a transaction keep the types its kind gives them, a timer of any
\* kind runs only in a state whose handler knows it, none outlives its
\* transaction, and an INVITE server is not freed before its end.
THEOREM NoStrayTimer == Spec => []TimersOfState
<1>1. IInv => TimersOfState
  BY OfICs, OfNICs, OfISs, OfNISs DEF TimersOfState, TypeOK, ByKind
<1> QED
  BY <1>1, Invariance, PTL

\* The TU behind a client hears of the outcome: exactly one from a non-INVITE
\* client; an INVITE client is never silent, and an error is the last it tells.
THEOREM ClientsTell == Spec => []ClientTellsTU
<1>1. IInv => ClientTellsTU
  BY OfICs, OfNICs DEF ClientTellsTU, ByKind
<1> QED
  BY <1>1, Invariance, PTL

\* The TU behind a server gets the request once, and an error at most once, at
\* the end; from a non-INVITE server only if no final response left.
THEOREM ServersTell == Spec => []ServerTellsTU
<1>1. IInv => ServerTellsTU
  BY OfISs, OfNISs DEF ServerTellsTU, ByKind
<1> QED
  BY <1>1, Invariance, PTL

\* Requests and the failures of an INVITE are repeated on the schedule of their
\* kind, for every T1 and T2, and a failure goes the way the INVITE came.
THEOREM Scheduled == Spec => []RepeatsOnSchedule
<1>1. IInv => RepeatsOnSchedule
  BY OfICs, OfNICs, OfISs DEF RepeatsOnSchedule, ByKind
<1> QED
  BY <1>1, Invariance, PTL

\* The TU of an INVITE client hears of another final response only if no ACK has
\* left for the one before, however often the peer repeats it.
THEOREM HeardAgainOnlyIfUnacknowledged == Spec => RepeatedOnlyIfUnacknowledged
<1>1. ASSUME IInv, [Next]_vars, kind = "IC", Len(told) > 0, Len(told') > Len(told),
             told'[Len(told')] = "final"
      PROVE  ack \in {"none", "TCP_CONN"}
  <2>1. ICInv /\ [IC!Next]_(IC!vars)
    BY <1>1, StepOfKind DEF IInv, ByKind
  <2> QED
    BY <1>1, <2>1, ICRepeatStep, TimerAssumption
<1>2. IInv /\ [Next]_vars =>
         [kind = "IC" /\ Len(told) > 0 /\ Len(told') > Len(told)
            /\ told'[Len(told')] = "final" => ack \in {"none", "TCP_CONN"}]_vars
  BY <1>1
<1> QED
  BY <1>2, Invariance, PTL DEF Spec, RepeatedOnlyIfUnacknowledged

\* Once a server has sent a final response, nothing replaces it.
THEOREM AnswersStay == Spec => AnswerStable
<1>1. ASSUME IInv, [Next]_vars, kind = "IS", IS!FinalSent, conn' = "none"
      PROVE  UNCHANGED resp
  <2>1. ISInv /\ [IS!Next]_(IS!vars) /\ IS!FinalSent
    BY <1>1, StepOfKind DEF IInv, ByKind
  <2> QED
    BY <1>1, <2>1, ISStableStep, TimerAssumption
<1>2. ASSUME IInv, [Next]_vars, kind = "NIS", NIS!FinalSent, conn' = "none"
      PROVE  UNCHANGED resp
  <2>1. NISInv /\ [NIS!Next]_(NIS!vars) /\ NIS!FinalSent
    BY <1>2, StepOfKind DEF IInv, ByKind
  <2> QED
    BY <1>2, <2>1, NISStableStep, TimerAssumption
<1>3. IInv /\ [Next]_vars =>
         [ByKind(TRUE, TRUE, IS!FinalSent, NIS!FinalSent) /\ kind \in {"IS", "NIS"}
            /\ conn' = "none" => UNCHANGED resp]_vars
  BY <1>1, <1>2 DEF ByKind
<1> QED
  BY <1>3, Invariance, PTL DEF Spec, AnswerStable

-----------------------------------------------------------------------------
(* A client and a server, the two ends of a non-INVITE request: it is executed *)
(* at most once, for every T1 and T4 and every delay of less than T1, however  *)
(* many datagrams are lost, repeated or overtaken, whenever the TU responds,   *)
(* and whether or not timers start.                                            *)

Messages == {"request", "provisional", "final"}

\* The values that the clocks and the network have.
Types ==
    /\ now \in Nat /\ jAt \in Nat
    /\ net \subseteq [msg : Messages, until : Nat]
    /\ cClock \in Nat /\ cAEGValue \in Nat
    /\ executions \in {0, 1}

\* Until it is done the client has told its TU nothing, and then one outcome.
Heard ==
    /\ cState \in {"NONE", "TRYING", "PROCEEDING", "COMPLETED", "TERMINATED"}
    /\ cState \in {"NONE", "TRYING", "PROCEEDING"} => cTold = <<>>
    /\ cState = "COMPLETED" => cTold = <<"final">>
    /\ cState = "TERMINATED" => cTold \in {<<"final">>, <<"error">>}

Multiple(t) == \E k \in Nat : t = k * T1
OnBeat(t)   == \E k \in Nat : t = 2 * (k * T1) + T1

\* Timer E expires at odd multiples of T1: the first interval is T1, and each
\* later one an even multiple, being twice the one before or T2.
Beat ==
    /\ cState = "NONE" => cClock = 0
    /\ "E" \in cTimers /\ cState \in Client!Waiting =>
          OnBeat(cClock + cAEGValue) /\ Multiple(cAEGValue)

\* No datagram is older than its time, and no request is under way 64*T1 after
\* the first one.
Flight ==
    /\ \A d \in net : d.until >= now
    /\ \A d \in net : d.msg = "request" => d.until < Timer64

\* The server's transaction is there from the execution of the request up to the
\* end of timer J at least; without one there is no final response.
Served ==
    /\ sState \in {"NONE", "TRYING", "PROCEEDING", "COMPLETED", "TERMINATED"}
    /\ executions = 0 => sState = "NONE" /\ ~InFlight("final")
    /\ sState = "COMPLETED" => jAt >= Timer64
    /\ executions > 0 /\ sState \in {"NONE", "TERMINATED"} => now >= Timer64

ExchangeInv == Types /\ Heard /\ Beat /\ Flight /\ Served

-----------------------------------------------------------------------------
\* The last time before F at which timer E may expire leaves a T1 for the repeat.
LEMMA LastBeat ==
    ASSUME NEW t \in Nat, OnBeat(t), t <= Timer64
    PROVE  t <= 63 * T1
<1> USE TimerAssumption
<1>1. PICK k \in Nat : t = 2 * (k * T1) + T1
  BY DEF OnBeat
<1>2. k * T1 \in Nat
  OBVIOUS
<1>3. CASE k >= 32
  <2>1. k * T1 >= 32 * T1
    BY <1>3
  <2> QED
    BY <1>1, <1>2, <2>1 DEF Timer64
<1>4. CASE k <= 31
  <2>1. k * T1 <= 31 * T1
    BY <1>4
  <2> QED
    BY <1>1, <1>2, <2>1
<1> QED
  BY <1>3, <1>4

\* An even multiple after a beat is the next one.
LEMMA NextBeat ==
    ASSUME NEW t \in Nat, OnBeat(t), NEW v \in Nat, Multiple(v)
    PROVE  OnBeat(t + 2 * v) /\ Multiple(2 * v)
<1> USE TimerAssumption
<1>1. PICK k \in Nat : t = 2 * (k * T1) + T1
  BY DEF OnBeat
<1>2. PICK j \in Nat : v = j * T1
  BY DEF Multiple
<1>3. k * T1 \in Nat /\ j * T1 \in Nat /\ (k + j) * T1 = k * T1 + j * T1 /\ (2 * j) * T1 = 2 * (j * T1)
  OBVIOUS
<1>4. t + 2 * v = 2 * ((k + j) * T1) + T1
  BY <1>1, <1>2, <1>3
<1>5. 2 * v = (2 * j) * T1 /\ k + j \in Nat /\ 2 * j \in Nat
  BY <1>2, <1>3
<1> QED
  BY <1>4, <1>5 DEF OnBeat, Multiple

\* T2, and twice the interval before it, are even multiples of T1.
LEMMA NextInterval ==
    ASSUME NEW v \in Nat, Multiple(v)
    PROVE  \A m \in {MinInt(2 * v, T2), T2} : \E w \in Nat : m = 2 * w /\ Multiple(w)
<1> USE TimerAssumption
<1>1. PICK k \in 0..T2 : T2 = 2 * (k * T1)
  BY ExchangeAssumption
<1>2. k \in Nat /\ k * T1 \in Nat
  OBVIOUS
<1>3. Multiple(k * T1)
  BY <1>2 DEF Multiple
<1>4. \E w \in Nat : T2 = 2 * w /\ Multiple(w)
  BY <1>1, <1>2, <1>3
<1> QED
  BY <1>4 DEF MinInt

\* The invariant holds before the request.
LEMMA ExchangeInitial == ExchangeInit => ExchangeInv
<1> SUFFICES ASSUME ExchangeInit PROVE ExchangeInv
  OBVIOUS
<1> USE DEF ExchangeInit, Client!Init, Server!Init
<1>1. Types /\ Heard /\ Beat
  BY DEF Types, Heard, Beat
<1>2. Flight /\ Served
  BY DEF Flight, Served, InFlight
<1> QED
  BY <1>1, <1>2 DEF ExchangeInv

-----------------------------------------------------------------------------
\* What a datagram that is sent now does to the network.
LEMMA RequestSent ==
    ASSUME ExchangeInv, NEW msg \in Messages, now' = now,
           net' = net \cup {Datagram(msg)} \/ net' = {Datagram(msg)},
           msg = "request" => now <= 63 * T1
    PROVE  /\ net' \subseteq [msg : Messages, until : Nat]
           /\ Flight'
           /\ msg # "final" /\ ~InFlight("final") => ~InFlight("final")'
<1> USE TimerAssumption, ExchangeAssumption
<1>1. /\ Datagram(msg) \in [msg : Messages, until : Nat]
      /\ Datagram(msg).msg = msg /\ Datagram(msg).until = now + MaxDelay
  BY DEF Datagram, ExchangeInv, Types
<1>2. net' \subseteq [msg : Messages, until : Nat]
  BY <1>1 DEF ExchangeInv, Types
<1>3. Flight'
  BY <1>1 DEF ExchangeInv, Flight, Types, Timer64
<1>4. msg # "final" /\ ~InFlight("final") => ~InFlight("final")'
  BY <1>1 DEF InFlight
<1> QED
  BY <1>2, <1>3, <1>4

\* What a step leaves as it is: a client's the server, one that sends and loses
\* nothing the network, a server's the client.
LEMMA ServerUntouched ==
    ASSUME ExchangeInv, UNCHANGED <<now, jAt, executions, serverVars>>,
           ~InFlight("final") => ~InFlight("final")'
    PROVE  Served'
BY DEF ExchangeInv, Served, serverVars

LEMMA NetUntouched ==
    ASSUME ExchangeInv, UNCHANGED <<now, net>>
    PROVE  /\ net' \subseteq [msg : Messages, until : Nat]
           /\ Flight'
           /\ \A m \in Messages : InFlight(m)' <=> InFlight(m)
BY DEF ExchangeInv, Types, Flight, InFlight

LEMMA ClientUntouched ==
    ASSUME ExchangeInv, UNCHANGED clientVars
    PROVE  /\ Heard' /\ Beat'
           /\ cClock' \in Nat /\ cAEGValue' \in Nat
<1>1. UNCHANGED <<cState, cTimers, cAEGValue, cClock, cTold>>
  BY DEF clientVars
<1> QED
  BY <1>1 DEF ExchangeInv, Types, Heard, Beat, Client!Waiting

-----------------------------------------------------------------------------
LEMMA SendRequestStep == ASSUME ExchangeInv, SendRequest PROVE ExchangeInv'
<1> USE TimerAssumption, ExchangeAssumption
<1>1. /\ cState = "NONE" /\ cTold = <<>> /\ cClock = 0 /\ cClock' = cClock
      /\ now = 0 /\ net' = {Datagram("request")}
      /\ cAEGValue \in Nat
      /\ UNCHANGED <<now, jAt, executions, serverVars>>
  BY DEF SendRequest, Client!TURequest, ExchangeInv, Heard, Beat, Types
<1>2. ~Client!Failed(ByUdp) /\ ByUdp.status = "UDP"
  BY DEF Client!Failed, ByUdp
<1>3. Client!EnterTrying(ByUdp)
  BY DEF SendRequest, Client!TURequest
<1>4. \/ cState' = "TERMINATED" /\ cTold' = Append(cTold, "error") /\ cAEGValue' \in {cAEGValue, T1}
      \/ cState' = "TRYING" /\ cTold' = cTold /\ cAEGValue' = T1
  BY Zenon, <1>2, <1>3 DEF Client!EnterTrying, Client!EnterTerminated, Client!Waiting
<1>5. Heard'
  BY <1>1, <1>4 DEF Heard
<1>6. Beat'
  <2>1. OnBeat(T1) /\ Multiple(T1)
    <3>1. T1 = 2 * (0 * T1) + T1 /\ T1 = 1 * T1
      OBVIOUS
    <3> QED
      BY <3>1 DEF OnBeat, Multiple
  <2>2. cState' # "NONE"
    BY <1>4
  <2>3. cState' \in Client!Waiting => cClock' + cAEGValue' = T1 /\ cAEGValue' = T1
    BY <1>1, <1>4 DEF Client!Waiting
  <2> QED
    BY <2>1, <2>2, <2>3 DEF Beat, Client!Waiting, OnBeat, Multiple
<1>7. Flight' /\ net' \subseteq [msg : Messages, until : Nat]
      /\ (~InFlight("final") => ~InFlight("final")')
  BY <1>1, RequestSent DEF Messages
<1>8. Types'
  BY <1>1, <1>4, <1>7 DEF Types, ExchangeInv
<1>9. Served'
  BY <1>1, <1>7, ServerUntouched
<1> QED
  BY <1>5, <1>6, <1>7, <1>8, <1>9 DEF ExchangeInv

LEMMA RepeatRequestStep == ASSUME ExchangeInv, RepeatRequest PROVE ExchangeInv'
<1> USE TimerAssumption, ExchangeAssumption
<1>1. /\ cState \in Client!Waiting /\ "E" \in cTimers
      /\ now = cClock + cAEGValue /\ now <= Timer64
      /\ cAEGValue' = Client!NextInterval /\ cClock' = cClock + cAEGValue
      /\ UNCHANGED <<cState, cTold>>
      /\ net' = net \cup {Datagram("request")}
      /\ UNCHANGED <<now, jAt, executions, serverVars>>
  <2>1. Client!TimerE(ByUdp) /\ ~Client!Failed(ByUdp)
    BY DEF RepeatRequest, Client!Failed, ByUdp
  <2>2. Client!Timer64 = Timer64
    BY DEF Client!Timer64, Timer64
  <2> QED
    BY Zenon, <2>1, <2>2 DEF RepeatRequest, Client!TimerE
<1>2. /\ now \in Nat /\ cClock \in Nat /\ cAEGValue \in Nat
      /\ OnBeat(now) /\ Multiple(cAEGValue)
  BY <1>1 DEF ExchangeInv, Types, Beat
<1>3. now <= 63 * T1
  BY <1>1, <1>2, LastBeat
<1>4. Flight' /\ net' \subseteq [msg : Messages, until : Nat]
      /\ (~InFlight("final") => ~InFlight("final")')
  BY <1>1, <1>3, RequestSent DEF Messages
<1>5. PICK w \in Nat : cAEGValue' = 2 * w /\ Multiple(w)
  <2>1. cAEGValue' \in {MinInt(2 * cAEGValue, T2), T2}
    BY <1>1 DEF Client!NextInterval, Client!MinInt, MinInt
  <2> QED
    BY <1>2, <2>1, NextInterval
<1>6. OnBeat(now + 2 * w) /\ Multiple(2 * w)
  BY <1>2, <1>5, NextBeat
<1>7. Beat'
  <2>1. cClock' + cAEGValue' = now + 2 * w
    BY <1>1, <1>5
  <2>2. OnBeat(cClock' + cAEGValue') /\ Multiple(cAEGValue')
    BY <1>5, <1>6, <2>1
  <2>3. cState' # "NONE"
    BY <1>1 DEF Client!Waiting
  <2> QED
    BY <2>2, <2>3 DEF Beat, OnBeat, Multiple
<1>8. Heard'
  BY <1>1 DEF ExchangeInv, Heard
<1>9. Types'
  BY <1>1, <1>2, <1>4, <1>5 DEF Types, ExchangeInv
<1>10. Served'
  BY <1>1, <1>4, ServerUntouched
<1> QED
  BY <1>4, <1>7, <1>8, <1>9, <1>10 DEF ExchangeInv

\* Timer F ends a wait with an error, of which the TU is told.
LEMMA TimerFTells ==
    ASSUME ExchangeInv, Client!TimerF
    PROVE  cState' = "TERMINATED" /\ cTold = <<>> /\ cTold' = <<"error">>
<1>1. cState \in Client!Waiting /\ Client!EnterTerminated(cState, "TIMEOUT", cTimers \ {"E", "F"}, cTold)
  BY DEF Client!TimerF
<1>2. cTold = <<>>
  BY <1>1 DEF Client!Waiting, ExchangeInv, Heard
<1>3. cState' = "TERMINATED" /\ cTold' = Append(cTold, "error")
  BY <1>1 DEF Client!EnterTerminated
<1> QED
  BY <1>2, <1>3

LEMMA ClientTimeoutStep == ASSUME ExchangeInv, ClientTimeout PROVE ExchangeInv'
<1>1. /\ UNCHANGED <<now, net, jAt, executions, serverVars>>
      /\ UNCHANGED <<cAEGValue, cClock>>
  BY DEF ClientTimeout, Client!TimerF, Client!TimerK
<1>2. cState' = "TERMINATED" /\ cTold' \in {<<"final">>, <<"error">>}
  <2>1. CASE Client!TimerF
    BY <2>1, TimerFTells
  <2>2. CASE Client!TimerK
    BY <2>2 DEF Client!TimerK, Client!EnterTerminated, Client!Waiting, ExchangeInv, Heard
  <2> QED
    BY <2>1, <2>2 DEF ClientTimeout
<1>3. Heard' /\ Beat'
  BY <1>2 DEF Heard, Beat, Client!Waiting
<1>4. Types' /\ Flight' /\ Served'
  BY <1>1, NetUntouched, ServerUntouched DEF ExchangeInv, Types, Messages
<1> QED
  BY <1>3, <1>4 DEF ExchangeInv

LEMMA ReceiveResponseStep == ASSUME ExchangeInv, ReceiveResponse PROVE ExchangeInv'
<1>1. /\ UNCHANGED <<now, net, jAt, executions, serverVars>>
      /\ UNCHANGED <<cAEGValue, cClock>>
  BY DEF ReceiveResponse, Client!PeerProvisional, Client!PeerFinal
<1>2. ASSUME Client!PeerProvisional PROVE Heard' /\ Beat'
  <2>1. cState = "TRYING" /\ cState' = "PROCEEDING" /\ UNCHANGED <<cTimers, cTold>>
    BY <1>2 DEF Client!PeerProvisional
  <2> QED
    BY <1>1, <2>1 DEF ExchangeInv, Heard, Beat, Client!Waiting
<1>3. ASSUME Client!PeerFinal PROVE Heard' /\ Beat'
  <2>1. cState \in Client!Waiting /\ Client!EnterCompleted(Append(cTold, "final"))
    BY <1>3 DEF Client!PeerFinal
  <2>2. cState' \in {"COMPLETED", "TERMINATED"} /\ cTold' = Append(cTold, "final")
    BY <2>1 DEF Client!EnterCompleted, Client!EnterTerminated, Client!Waiting
  <2>3. cTold = <<>>
    BY <2>1 DEF Client!Waiting, ExchangeInv, Heard
  <2> QED
    BY <2>2, <2>3 DEF Heard, Beat, Client!Waiting
<1>4. Heard' /\ Beat'
  BY <1>2, <1>3 DEF ReceiveResponse, ExchangeInv
<1>5. Types' /\ Flight' /\ Served'
  BY <1>1, NetUntouched, ServerUntouched DEF ExchangeInv, Types, Messages
<1> QED
  BY <1>4, <1>5 DEF ExchangeInv

-----------------------------------------------------------------------------
\* A request is under way only before timer J of any transaction can end.
LEMMA RequestBeforeJ ==
    ASSUME ExchangeInv, InFlight("request")
    PROVE  now < Timer64 /\ (sState = "NONE" => executions = 0)
<1>1. now < Timer64
  BY TimerAssumption DEF InFlight, ExchangeInv, Flight, Types, Timer64
<1>2. sState = "NONE" => executions = 0
  BY <1>1, TimerAssumption DEF ExchangeInv, Served, Types, Timer64
<1> QED
  BY <1>1, <1>2

LEMMA ReceiveRequestStep == ASSUME ExchangeInv, ReceiveRequest PROVE ExchangeInv'
<1>1. /\ InFlight("request") /\ sState = "NONE" /\ sState' = "TRYING"
      /\ executions' = executions + 1
      /\ UNCHANGED <<now, net, jAt, clientVars>>
  BY DEF ReceiveRequest, Server!PeerRequest
<1>2. executions' = 1
  BY <1>1, RequestBeforeJ
<1>3. Heard' /\ Beat' /\ cClock' \in Nat /\ cAEGValue' \in Nat
  BY <1>1, ClientUntouched
<1>4. Types' /\ Flight'
  BY <1>1, <1>2, <1>3, NetUntouched DEF ExchangeInv, Types
<1>5. Served'
  BY <1>1, <1>2 DEF Served
<1> QED
  BY <1>3, <1>4, <1>5 DEF ExchangeInv

LEMMA ReceiveRequestAgainStep == ASSUME ExchangeInv, ReceiveRequestAgain PROVE ExchangeInv'
<1>1. /\ sState \in {"PROCEEDING", "COMPLETED"} /\ sState' = sState
      /\ net' = net \cup {Datagram(ResponseOf(sResp))}
      /\ UNCHANGED <<now, jAt, executions, clientVars>>
  BY DEF ReceiveRequestAgain, Server!PeerAgain, Server!Failed, ByUdp
<1>2. ResponseOf(sResp) \in Messages /\ ResponseOf(sResp) # "request"
  BY DEF ResponseOf, Messages
<1>3. Flight' /\ net' \subseteq [msg : Messages, until : Nat]
  BY <1>1, <1>2, RequestSent
<1>4. Heard' /\ Beat' /\ cClock' \in Nat /\ cAEGValue' \in Nat
  BY <1>1, ClientUntouched
<1>5. Types'
  BY <1>1, <1>3, <1>4 DEF ExchangeInv, Types
<1>6. Served'
  BY <1>1 DEF ExchangeInv, Served
<1> QED
  BY <1>3, <1>4, <1>5, <1>6 DEF ExchangeInv

LEMMA RespondStep == ASSUME ExchangeInv, Respond PROVE ExchangeInv'
<1> USE TimerAssumption
<1>1. PICK r \in [final : BOOLEAN, big : {FALSE}] :
          /\ Server!TUResponse(r, ByUdp)
          /\ net' = net \cup {Datagram(ResponseOf(r))}
          /\ jAt' = now + Timer64
          /\ UNCHANGED <<now, executions, clientVars>>
  <2>1. \A f \in BOOLEAN : [final |-> f, big |-> FALSE] \in [final : BOOLEAN, big : {FALSE}]
    OBVIOUS
  <2> QED
    BY <2>1 DEF Respond
<1>2. sState \in {"TRYING", "PROCEEDING"} /\ sState' \in {"PROCEEDING", "COMPLETED"}
  BY <1>1 DEF Server!TUResponse, Server!EnterCompleted, Server!Failed, ByUdp
<1>3. ResponseOf(r) \in Messages /\ ResponseOf(r) # "request"
  BY DEF ResponseOf, Messages
<1>4. Flight' /\ net' \subseteq [msg : Messages, until : Nat]
  BY <1>1, <1>3, RequestSent
<1>5. Heard' /\ Beat' /\ cClock' \in Nat /\ cAEGValue' \in Nat
  BY <1>1, ClientUntouched
<1>6. Types'
  BY <1>1, <1>4, <1>5 DEF ExchangeInv, Types, Timer64
<1>7. Served'
  BY <1>1, <1>2 DEF ExchangeInv, Served, Types, Timer64
<1> QED
  BY <1>4, <1>5, <1>6, <1>7 DEF ExchangeInv

LEMMA ServerTimeoutStep == ASSUME ExchangeInv, ServerTimeout PROVE ExchangeInv'
<1>1. /\ now = jAt /\ sState = "COMPLETED" /\ sState' = "TERMINATED"
      /\ UNCHANGED <<now, net, jAt, executions, clientVars>>
  BY DEF ServerTimeout, Server!TimerJ
<1>2. Heard' /\ Beat' /\ cClock' \in Nat /\ cAEGValue' \in Nat
  BY <1>1, ClientUntouched
<1>3. Types' /\ Flight'
  BY <1>1, <1>2, NetUntouched DEF ExchangeInv, Types
<1>4. Served'
  BY <1>1 DEF ExchangeInv, Served
<1> QED
  BY <1>2, <1>3, <1>4 DEF ExchangeInv

LEMMA ForgetStep == ASSUME ExchangeInv, Forget PROVE ExchangeInv'
<1>1. /\ sState = "TERMINATED" /\ sState' = "NONE"
      /\ UNCHANGED <<now, net, jAt, executions, clientVars>>
  BY DEF Forget
<1>2. Heard' /\ Beat' /\ cClock' \in Nat /\ cAEGValue' \in Nat
  BY <1>1, ClientUntouched
<1>3. Types' /\ Flight'
  BY <1>1, <1>2, NetUntouched DEF ExchangeInv, Types
<1>4. Served'
  BY <1>1 DEF ExchangeInv, Served
<1> QED
  BY <1>2, <1>3, <1>4 DEF ExchangeInv

LEMMA TickStep == ASSUME ExchangeInv, Tick PROVE ExchangeInv'
<1> USE TimerAssumption
<1>1. /\ now' = now + 1 /\ net' = {d \in net : d.until > now}
      /\ UNCHANGED <<jAt, executions, clientVars, serverVars>>
  BY DEF Tick
<1>2. Heard' /\ Beat' /\ cClock' \in Nat /\ cAEGValue' \in Nat
  BY <1>1, ClientUntouched
<1>3. Types' /\ Flight'
  BY <1>1, <1>2 DEF ExchangeInv, Types, Flight
<1>4. Served'
  BY <1>1 DEF ExchangeInv, Served, Types, InFlight, Timer64, serverVars
<1> QED
  BY <1>2, <1>3, <1>4 DEF ExchangeInv

LEMMA ExchangeStutter == ASSUME ExchangeInv, UNCHANGED exchangeVars PROVE ExchangeInv'
<1>1. UNCHANGED <<now, net, jAt, executions, clientVars, serverVars>>
  BY DEF exchangeVars
<1>2. Heard' /\ Beat' /\ cClock' \in Nat /\ cAEGValue' \in Nat
  BY <1>1, ClientUntouched
<1> QED
  BY <1>1, <1>2, NetUntouched, ServerUntouched DEF ExchangeInv, Types, Messages

LEMMA ExchangeStep == ExchangeInv /\ [ExchangeNext]_exchangeVars => ExchangeInv'
BY SendRequestStep, RepeatRequestStep, ClientTimeoutStep, ReceiveResponseStep,
   ReceiveRequestStep, ReceiveRequestAgainStep, RespondStep, ServerTimeoutStep,
   ForgetStep, TickStep, ExchangeStutter DEF ExchangeNext

-----------------------------------------------------------------------------
\* The client's repeats, the delay of a datagram and timer J fit together.
THEOREM ExchangeInvariance == ExchangeSpec => []ExchangeInv
<1> QED
  BY ExchangeInitial, ExchangeStep, PTL DEF ExchangeSpec

\* The transaction that absorbs the repeats of a request is there as long as a
\* repeat may arrive (sipTransNISEnterState starts J for 64*T1 after the client's
\* F was started for as long).
THEOREM RepeatsAreAbsorbed == ExchangeSpec => []AbsorbsRepeats
<1>1. ExchangeInv => AbsorbsRepeats
  BY RequestBeforeJ DEF AbsorbsRepeats, ExchangeInv, Types
<1> QED
  BY <1>1, ExchangeInvariance, PTL

\* The client's TU hears its first and only outcome when the client stops waiting.
LEMMA OutcomeOfStep ==
    ASSUME ExchangeInv, ExchangeNext
    PROVE  \/ UNCHANGED cTold
           \/ cTold = <<>> /\ cTold' = <<"error">>
           \/ cTold = <<>> /\ cTold' = <<"final">> /\ InFlight("final")
<1>1. CASE SendRequest
  <2>1. /\ cTold = <<>> /\ ~Client!Failed(ByUdp) /\ ByUdp.status = "UDP"
        /\ Client!EnterTrying(ByUdp)
    BY <1>1 DEF SendRequest, Client!TURequest, ExchangeInv, Heard, Client!Failed, ByUdp
  <2>2. cTold' = cTold \/ cTold' = Append(cTold, "error")
    BY Zenon, <2>1 DEF Client!EnterTrying, Client!EnterTerminated, Client!Waiting
  <2> QED
    BY <2>1, <2>2
<1>2. CASE RepeatRequest
  BY <1>2 DEF RepeatRequest, Client!TimerE, Client!Failed, ByUdp
<1>3. CASE ClientTimeout
  <2>1. CASE Client!TimerF
    BY <2>1, TimerFTells
  <2>2. CASE Client!TimerK
    BY <2>2 DEF Client!TimerK, Client!EnterTerminated, Client!Waiting
  <2> QED
    BY <1>3, <2>1, <2>2 DEF ClientTimeout
<1>4. CASE ReceiveResponse
  <2>1. CASE Client!PeerProvisional
    BY <2>1 DEF Client!PeerProvisional
  <2>2. CASE InFlight("final") /\ Client!PeerFinal
    <3>1. cTold = <<>> /\ Client!EnterCompleted(Append(cTold, "final"))
      BY <2>2 DEF Client!PeerFinal, Client!Waiting, ExchangeInv, Heard
    <3>2. cTold' = Append(cTold, "final")
      BY <3>1 DEF Client!EnterCompleted, Client!EnterTerminated, Client!Waiting
    <3> QED
      BY <2>2, <3>1, <3>2
  <2> QED
    BY <1>4, <2>1, <2>2 DEF ReceiveResponse
<1>5. ASSUME ReceiveRequest \/ ReceiveRequestAgain \/ Respond \/ ServerTimeout \/ Forget \/ Tick
      PROVE  UNCHANGED clientVars
  BY <1>5 DEF ReceiveRequest, ReceiveRequestAgain, Respond, ServerTimeout, Forget, Tick
<1> QED
  BY <1>1, <1>2, <1>3, <1>4, <1>5 DEF ExchangeNext, clientVars

\* Only a request that starts a transaction is executed.
LEMMA ExecutionOfStep ==
    ASSUME ExchangeInv, ExchangeNext
    PROVE  \/ UNCHANGED executions
           \/ executions = 0 /\ executions' = 1 /\ UNCHANGED clientVars
<1>1. CASE ReceiveRequest
  <2>1. InFlight("request") /\ sState = "NONE" /\ executions' = executions + 1 /\ UNCHANGED clientVars
    BY <1>1 DEF ReceiveRequest, Server!PeerRequest
  <2> QED
    BY <2>1, RequestBeforeJ
<1>2. CASE ~ReceiveRequest
  BY <1>2 DEF ExchangeNext, SendRequest, RepeatRequest, ClientTimeout, ReceiveResponse,
              ReceiveRequestAgain, Respond, ServerTimeout, Forget, Tick
<1> QED
  BY <1>1, <1>2

\* However a request and its responses are repeated, lost and delayed, its server's
\* TU executes it at most once, and its client's TU is told one result, a response
\* only if the request was executed (sipTransNIC and sipTransNIS together).
THEOREM RefinesAtMostOnce == ExchangeSpec => ExecutesAtMostOnce
<1> DEFINE result == IF cTold = <<>> THEN "none" ELSE cTold[1]
<1>1. ExchangeInit => Promise!Init
  BY DEF ExchangeInit, Client!Init, Promise!Init
<1>2. ExchangeInv /\ [ExchangeNext]_exchangeVars => [Promise!Next]_(Promise!vars)
  <2> SUFFICES ASSUME ExchangeInv, [ExchangeNext]_exchangeVars
               PROVE  [Promise!Next]_(Promise!vars)
    OBVIOUS
  <2>1. CASE UNCHANGED exchangeVars
    BY <2>1 DEF exchangeVars, clientVars, Promise!vars
  <2>2. CASE ExchangeNext
    <3>1. CASE UNCHANGED executions
      <4>1. CASE UNCHANGED cTold
        BY <3>1, <4>1 DEF Promise!vars
      <4>2. CASE cTold = <<>> /\ cTold' = <<"error">>
        BY <3>1, <4>2 DEF Promise!Next, Promise!GiveUp
      <4>3. CASE cTold = <<>> /\ cTold' = <<"final">> /\ InFlight("final")
        <5>1. executions = 1
          BY <4>3 DEF ExchangeInv, Types, Served
        <5> QED
          BY <3>1, <4>3, <5>1 DEF Promise!Next, Promise!Succeed
      <4> QED
        BY <2>2, <4>1, <4>2, <4>3, OutcomeOfStep
    <3>2. CASE executions = 0 /\ executions' = 1 /\ UNCHANGED clientVars
      BY <3>2 DEF clientVars, Promise!Next, Promise!Execute
    <3> QED
      BY <2>2, <3>1, <3>2, ExecutionOfStep
  <2> QED
    BY <2>1, <2>2
<1> QED
  BY <1>1, <1>2, ExchangeInvariance, PTL DEF ExchangeSpec, ExecutesAtMostOnce, Promise!Spec
=============================================================================
