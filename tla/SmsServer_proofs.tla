-------------------------- MODULE SmsServer_proofs --------------------------
(***************************************************************************)
(* Invariants of the registrar and of the SMS server, for every set of     *)
(* users and of messages and every choice of the intervals.                *)
(***************************************************************************)
EXTENDS SmsServer, TLAPS

\* The invariant of the rows: the types and the schedule.
RowInv == /\ row \in [Msgs -> Rows]
          /\ Schedule

\* The invariant of the messages: where they are, by what has become of them.
MsgInv == /\ past \in [Msgs -> SUBSET Events]
          /\ b2b \subseteq Msgs
          /\ copies \in [Msgs -> 0 .. MaxCopies]
          /\ to \in [Msgs -> Users]
          /\ AcceptedHasPlace
          /\ StoredIsKept
          /\ \A m \in Msgs : Stored(m) => "stored" \in past[m]

\* The invariant of the registrations.
RegInv == /\ reg \in [Users -> Entries]
          /\ TimersOfState

IInv == RegInv /\ RowInv /\ MsgInv

-----------------------------------------------------------------------------
\* A new row, and one that is updated, are on schedule.
LEMMA NewRowOnSchedule ==
    /\ NewRow \in Rows
    /\ NewRow # NoRow
    /\ NewRow.timerN \in T1 .. T2
    /\ NewRow.timerN < T2 => NewRow.room = M - NewRow.timerN
    /\ NewRow.room > 0
BY SmsAssumption DEF NewRow, Rows, NoRow

LEMMA UpdatedOnSchedule ==
    ASSUME NEW r \in Rows, r.wait <= 0,
           r.timerN \in T1 .. T2,
           r.timerN < T2 => r.room = M - r.timerN,
           ~IsLast(r)
    PROVE  LET s == UpdateSms(r) IN
           /\ s \in Rows
           /\ s # NoRow
           /\ s.timerN \in T1 .. T2
           /\ s.timerN < T2 => s.room = M - s.timerN
           /\ s.room > 0
<1>1. /\ r.timerN \in 0 .. T2 /\ r.wait \in -MaxLate .. T2 /\ r.room \in 0 .. M
      /\ T1 \in Int /\ T2 \in Int /\ M \in Int /\ MaxLate \in Int /\ T1 > 0 /\ T1 < T2
  BY SmsAssumption DEF Rows
<1>2. r.room > r.timerN
  BY <1>1 DEF IsLast
<1>3. /\ NextTimerN(r.timerN) \in T1 .. T2
      /\ NextTimerN(r.timerN) < T2 => NextTimerN(r.timerN) = 2 * r.timerN /\ r.timerN < T2
  BY <1>1 DEF NextTimerN
<1>4. UpdateSms(r) = [timerN |-> NextTimerN(r.timerN),
                      wait   |-> r.wait + r.timerN,
                      room   |-> r.room - r.timerN]
  BY DEF UpdateSms
<1>5. r.wait + r.timerN \in -MaxLate .. T2 /\ r.room - r.timerN \in 0 .. M
  BY <1>1, <1>2
<1>6. UpdateSms(r) \in Rows
  BY <1>1, <1>3, <1>4, <1>5 DEF Rows
<1>7. UpdateSms(r) # NoRow
  BY <1>1, <1>3, <1>4 DEF NoRow
<1> QED
  BY <1>1, <1>2, <1>3, <1>4, <1>6, <1>7

\* A row that is late has less than the longest interval left when it is the
\* last time it is tried.
LEMMA LastIsLate ==
    ASSUME NEW r \in Rows, r.wait <= 0, IsLast(r)
    PROVE  r.wait + r.room <= T2
BY SmsAssumption DEF Rows, IsLast

-----------------------------------------------------------------------------
\* The invariant holds before anything was registered or sent.
THEOREM Initial == Init => IInv
<1> SUFFICES ASSUME Init PROVE IInv
  OBVIOUS
<1>1. RegInv
  BY DEF Init, NoUsers, NotExist, RegInv, Entries, RegStates, Timers, TimersOfState, IsRegistered
<1>2. RowInv
  BY SmsAssumption DEF Init, RowInv, Rows, NoRow, Schedule, Stored
<1>3. MsgInv
  BY SmsAssumption DEF Init, MsgInv, Stored, AcceptedHasPlace, StoredIsKept
<1> QED
  BY <1>1, <1>2, <1>3 DEF IInv

\* An entry that becomes e keeps the invariant of the registrations if e does.
LEMMA EntryStep ==
    ASSUME RegInv, NEW u \in Users, NEW e, Becomes(u, e),
           e \in Entries,
           e.regState = "REGISTERED" => "expiry" \in e.timers /\ "purge" \notin e.timers,
           e.regState = "NOT_REGISTERED" => e.timers = {"purge"},
           e.regState = "NOT_EXIST" => e.timers = {}
    PROVE  RegInv'
<1>1. reg' \in [Users -> Entries]
  BY DEF RegInv, Becomes
<1>2. ASSUME NEW v \in Users
      PROVE  reg'[v] = IF v = u THEN e ELSE reg[v]
  BY DEF RegInv, Becomes
<1>3. TimersOfState'
  BY <1>2 DEF RegInv, TimersOfState, IsRegistered
<1> QED
  BY <1>1, <1>3 DEF RegInv

\* What the timers of an entry say of it.
LEMMA EntryOf ==
    ASSUME RegInv, NEW u \in Users
    PROVE  /\ reg[u] \in Entries
           /\ reg[u] = [regState |-> reg[u].regState, timers |-> reg[u].timers]
           /\ reg[u].regState = "REGISTERED" =>
                  "expiry" \in reg[u].timers /\ "purge" \notin reg[u].timers
           /\ reg[u].regState = "NOT_REGISTERED" => reg[u].timers = {"purge"}
           /\ reg[u].regState = "NOT_EXIST" => reg[u].timers = {}
           /\ reg[u].regState \in RegStates
           /\ reg[u].timers \subseteq Timers
<1>1. reg[u] \in Entries
  BY DEF RegInv
<1>2. reg[u].regState \in RegStates /\ reg[u].timers \subseteq Timers
  BY <1>1 DEF Entries
<1>3. reg[u] = [regState |-> reg[u].regState, timers |-> reg[u].timers]
  BY <1>1 DEF Entries
<1> QED
  BY <1>1, <1>2, <1>3 DEF RegInv, TimersOfState, IsRegistered

\* Every step of the registrar, and its part of the steps of the SMS server.
LEMMA RegistrarKeeps ==
    ASSUME RegInv, NEW u \in Users,
           RegistrarStep(u) \/ SmsQueried(u) \/ AddAppInfo(u)
    PROVE  RegInv'
<1> DEFINE r == reg[u]
<1>0. /\ r \in Entries
      /\ r.regState \in RegStates /\ r.timers \subseteq Timers
      /\ r.regState = "REGISTERED" => "expiry" \in r.timers /\ "purge" \notin r.timers
      /\ r.regState = "NOT_REGISTERED" => r.timers = {"purge"}
      /\ r.regState = "NOT_EXIST" => r.timers = {}
  BY EntryOf
<1>1. CASE FirstRegister(u)
  <2> DEFINE e == [regState |-> "REGISTERED",
                   timers |-> (reg[u].timers \ {"purge"}) \cup {"expiry", "smsQuery"}]
  <2>1. Becomes(u, e)
    BY <1>1 DEF FirstRegister
  <2>2. e \in Entries
    BY <1>0 DEF Entries, RegStates, Timers
  <2> QED
    BY <2>1, <2>2, EntryStep
<1>2. CASE Refresh(u)
  <2> DEFINE e == [reg[u] EXCEPT !.timers = @ \cup {"expiry"}]
  <2>1. Becomes(u, e) /\ r.regState = "REGISTERED"
    BY <1>2 DEF Refresh, IsRegistered
  <2>2. e \in Entries /\ e.regState = "REGISTERED" /\ e.timers = r.timers \cup {"expiry"}
    BY <1>0, <2>1 DEF Entries, Timers
  <2> QED
    BY <1>0, <2>1, <2>2, EntryStep
<1>3. CASE Deregister(u) \/ ExpiryTimer(u)
  <2>1. r.regState = "REGISTERED"
    BY <1>0, <1>3 DEF Deregister, IsRegistered, ExpiryTimer, RegStates
  <2>2. Becomes(u, Deregistered(u))
    BY <1>3 DEF Deregister, ExpiryTimer
  <2>3. Deregistered(u) = [regState |-> "NOT_REGISTERED", timers |-> {"purge"}]
    BY <1>0, <2>1 DEF Deregistered, Timers
  <2>4. Deregistered(u) \in Entries
    BY <2>3 DEF Entries, RegStates, Timers
  <2> QED
    BY <2>2, <2>3, <2>4, EntryStep
<1>4. CASE ResponseFailed(u) \/ PurgeTimer(u)
  <2>1. Becomes(u, NotExist)
    BY <1>4 DEF ResponseFailed, PurgeTimer
  <2>2. NotExist \in Entries
    BY DEF NotExist, Entries, RegStates
  <2> QED
    BY <2>1, <2>2, EntryStep DEF NotExist
<1>5. CASE SmsQueried(u)
  <2> DEFINE e == [reg[u] EXCEPT !.timers = @ \ {"smsQuery"}]
  <2>1. Becomes(u, e) /\ r.regState = "REGISTERED"
    BY <1>0, <1>5 DEF SmsQueried, RegStates
  <2>2. e \in Entries /\ e.regState = "REGISTERED" /\ e.timers = r.timers \ {"smsQuery"}
    BY <1>0, <2>1 DEF Entries
  <2> QED
    BY <1>0, <2>1, <2>2, EntryStep
<1>6. CASE AddAppInfo(u)
  <2> DEFINE e == IF Exists(u) THEN reg[u]
                  ELSE [regState |-> "NOT_REGISTERED", timers |-> {"purge"}]
  <2>1. Becomes(u, e)
    BY <1>6 DEF AddAppInfo
  <2>2. [regState |-> "NOT_REGISTERED", timers |-> {"purge"}] \in Entries
    BY DEF Entries, RegStates, Timers
  <2>3. e \in Entries
    BY <1>0, <2>2
  <2> QED
    BY <1>0, <2>1, <2>3, EntryStep DEF RegStates
<1> QED
  BY <1>1, <1>2, <1>3, <1>4, <1>5, <1>6 DEF RegistrarStep

\* What a message is stored with is on schedule, and no other row changes.
LEMMA StoreKeepsRows ==
    ASSUME RowInv, NEW m \in Msgs, NEW es, NEW ok \in BOOLEAN, StoreSms(m, es, ok)
    PROVE  RowInv'
<1>1. \A n \in Msgs : row'[n] = row[n] \/ row'[n] = NewRow
  BY DEF RowInv, StoreSms
<1>2. row' \in [Msgs -> Rows]
  BY NewRowOnSchedule DEF RowInv, StoreSms
<1>3. Schedule'
  BY <1>1, NewRowOnSchedule DEF RowInv, Schedule, Stored
<1> QED
  BY <1>2, <1>3 DEF RowInv

\* A row that is deleted is off the schedule.
LEMMA DeleteKeepsRows ==
    ASSUME RowInv, NEW m \in Msgs, row' = [row EXCEPT ![m] = NoRow] \/ row' = row
    PROVE  RowInv'
<1>1. NoRow \in Rows
  BY SmsAssumption DEF NoRow, Rows
<1>2. row' \in [Msgs -> Rows]
  BY <1>1 DEF RowInv
<1>3. \A n \in Msgs : row'[n] = row[n] \/ row'[n] = NoRow
  BY DEF RowInv
<1>4. Schedule'
  BY <1>3 DEF RowInv, Schedule, Stored
<1> QED
  BY <1>2, <1>4 DEF RowInv

\* A poll updates rows that are due.
LEMMA PollKeepsRows ==
    ASSUME RowInv, NEW S \in SUBSET Due, NEW U \in SUBSET Due, Poll(S, U)
    PROVE  RowInv'
<1>1. NoRow \in Rows
  BY SmsAssumption DEF NoRow, Rows
<1>2. ASSUME NEW n \in Msgs
      PROVE  /\ row'[n] \in Rows
             /\ row'[n] # NoRow =>
                   /\ row'[n].timerN \in T1 .. T2
                   /\ row'[n].timerN < T2 => row'[n].room = M - row'[n].timerN
                   /\ row'[n].room > 0
  <2>1. CASE n \notin U
    BY <2>1 DEF Poll, RowInv, Schedule, Stored
  <2>2. CASE n \in U
    <3>1. /\ row'[n] = UpdateSms(row[n])
          /\ row[n] \in Rows /\ row[n].wait <= 0
          /\ row[n].timerN \in T1 .. T2
          /\ row[n].timerN < T2 => row[n].room = M - row[n].timerN
      BY <2>2 DEF Poll, Due, RowInv, Schedule, Stored
    <3>2. CASE IsLast(row[n])
      BY <1>1, <3>1, <3>2 DEF UpdateSms
    <3>3. CASE ~IsLast(row[n])
      BY <3>1, <3>3, UpdatedOnSchedule
    <3> QED
      BY <3>2, <3>3
  <2> QED
    BY <2>1, <2>2
<1>3. row' \in [Msgs -> Rows]
  BY <1>2 DEF Poll
<1>4. Schedule'
  BY <1>2 DEF Schedule, Stored
<1> QED
  BY <1>3, <1>4 DEF RowInv

\* Time does not change the schedule.
LEMMA TickKeepsRows ==
    ASSUME RowInv, Tick
    PROVE  RowInv'
<1>1. ASSUME NEW n \in Msgs
      PROVE  /\ row'[n] \in Rows
             /\ row'[n] # NoRow => row[n] # NoRow
             /\ row'[n].timerN = row[n].timerN /\ row'[n].room = row[n].room
  <2>1. CASE Stored(n) /\ row[n].wait > -MaxLate
    <3>1. row'[n] = [row[n] EXCEPT !.wait = @ - 1]
      BY <2>1 DEF Tick
    <3>2. row[n] \in Rows
      BY DEF RowInv
    <3>3. row[n].wait - 1 \in -MaxLate .. T2
      BY <2>1, <3>2, SmsAssumption DEF Rows
    <3> QED
      BY <2>1, <3>1, <3>2, <3>3 DEF Rows, Stored
  <2>2. CASE ~(Stored(n) /\ row[n].wait > -MaxLate)
    BY <2>2 DEF Tick, RowInv
  <2> QED
    BY <2>1, <2>2
<1>2. row' \in [Msgs -> Rows]
  BY <1>1 DEF Tick
<1>3. Schedule'
  BY <1>1 DEF RowInv, Schedule, Stored
<1> QED
  BY <1>2, <1>3 DEF RowInv

-----------------------------------------------------------------------------
\* What the invariant says of one message.
Placed(m) ==
    /\ "accepted" \in past[m] =>
           \/ m \in b2b
           \/ Stored(m)
           \/ past[m] \cap {"delivered", "dropped", "unstored", "unsent"} # {}
    /\ "stored" \in past[m] /\ ~Stored(m) => past[m] \cap {"delivered", "dropped"} # {}
    /\ Stored(m) => "stored" \in past[m]

LEMMA MsgStep ==
    ASSUME past' \in [Msgs -> SUBSET Events], b2b' \subseteq Msgs,
           copies' \in [Msgs -> 0 .. MaxCopies], to' \in [Msgs -> Users],
           \A m \in Msgs : Placed(m)'
    PROVE  MsgInv'
BY DEF MsgInv, Placed, AcceptedHasPlace, StoredIsKept

LEMMA MsgNow ==
    ASSUME MsgInv
    PROVE  /\ past \in [Msgs -> SUBSET Events] /\ b2b \subseteq Msgs
           /\ copies \in [Msgs -> 0 .. MaxCopies] /\ to \in [Msgs -> Users]
           /\ \A m \in Msgs : Placed(m)
BY DEF MsgInv, Placed, AcceptedHasPlace, StoredIsKept

\* Where a message is depends on nothing but its own row, past and forwarding.
LEMMA Unmoved ==
    ASSUME NEW m, Placed(m), past'[m] = past[m], row'[m] = row[m], m \in b2b <=> m \in b2b'
    PROVE  Placed(m)'
BY DEF Placed, Stored

LEMMA SubmitKeepsMsgs ==
    ASSUME MsgInv, row \in [Msgs -> Rows], NEW m \in Msgs, Submit(m)
    PROVE  MsgInv'
<1>0. /\ past \in [Msgs -> SUBSET Events] /\ b2b \subseteq Msgs
      /\ copies \in [Msgs -> 0 .. MaxCopies] /\ to \in [Msgs -> Users]
      /\ \A n \in Msgs : Placed(n)
  BY MsgNow
<1>1. CASE \E ok \in BOOLEAN : SubmitStored(m, ok)
  <2>1. PICK ok \in BOOLEAN : SubmitStored(m, ok)
    BY <1>1
  <2>2. past' = [past EXCEPT ![m] = @ \cup ({"accepted"} \cup {IF ok THEN "stored" ELSE "unstored"})]
    BY <2>1 DEF SubmitStored, StoreSms, Happens
  <2>3. past' \in [Msgs -> SUBSET Events]
    BY <1>0, <2>2 DEF Events
  <2>4. \A n \in Msgs : n # m => Placed(n)'
    BY <1>0, <2>1, <2>2, Unmoved DEF SubmitStored, StoreSms
  <2>5. Placed(m)'
    <3>1. CASE ok
      <4>1. past'[m] = past[m] \cup {"accepted", "stored"}
        BY <1>0, <2>2, <3>1
      <4>2. Stored(m)'
        BY <1>0, <2>1, <3>1, NewRowOnSchedule DEF SubmitStored, StoreSms, Stored, RowInv
      <4> QED
        BY <4>1, <4>2 DEF Placed
    <3>2. CASE ~ok
      <4>1. past'[m] = past[m] \cup {"accepted", "unstored"}
        BY <1>0, <2>2, <3>2
      <4>2. row'[m] = row[m] /\ past[m] = {}
        BY <1>0, <2>1, <3>2 DEF SubmitStored, StoreSms
      <4>3. ~Stored(m)'
        BY <1>0, <4>2 DEF Placed, Stored
      <4> QED
        BY <4>1, <4>2, <4>3 DEF Placed
    <3> QED
      BY <3>1, <3>2
  <2> QED
    BY <1>0, <2>1, <2>3, <2>4, <2>5, MsgStep DEF SubmitStored
<1>2. CASE \E caller \in Users, sent \in BOOLEAN : SubmitForwarded(m, caller, sent)
  <2>1. PICK caller \in Users, sent \in BOOLEAN : SubmitForwarded(m, caller, sent)
    BY <1>2
  <2>2. past' = [past EXCEPT ![m] = @ \cup ({"accepted"} \cup IF sent THEN {} ELSE {"unsent"})]
    BY <2>1 DEF SubmitForwarded, Happens
  <2>3. past' \in [Msgs -> SUBSET Events]
    BY <1>0, <2>2 DEF Events
  <2>4. past[m] = {} /\ row' = row /\ b2b' = (IF sent THEN b2b \cup {m} ELSE b2b)
    BY <2>1 DEF SubmitForwarded
  <2>5. \A n \in Msgs : n # m => Placed(n)'
    BY <1>0, <2>2, <2>4, Unmoved
  <2>6. ~Stored(m)'
    BY <1>0, <2>4 DEF Placed, Stored
  <2>7. Placed(m)'
    <3>1. CASE sent
      BY <1>0, <2>2, <2>4, <2>6, <3>1 DEF Placed
    <3>2. CASE ~sent
      <4>1. past'[m] = {"accepted", "unsent"}
        BY <1>0, <2>2, <2>4, <3>2
      <4> QED
        BY <4>1, <2>6 DEF Placed
    <3> QED
      BY <3>1, <3>2
  <2> QED
    BY <1>0, <2>1, <2>3, <2>4, <2>5, <2>7, MsgStep DEF SubmitForwarded
<1> QED
  BY <1>1, <1>2 DEF Submit

LEMMA AnswerKeepsMsgs ==
    ASSUME MsgInv, row \in [Msgs -> Rows], NEW m \in Msgs, Answer(m)
    PROVE  MsgInv'
<1>0. /\ past \in [Msgs -> SUBSET Events] /\ b2b \subseteq Msgs
      /\ copies \in [Msgs -> 0 .. MaxCopies] /\ to \in [Msgs -> Users]
      /\ \A n \in Msgs : Placed(n)
  BY MsgNow
<1>1. copies' \in [Msgs -> 0 .. MaxCopies] /\ to' \in [Msgs -> Users] /\ b2b' \subseteq Msgs
  <2>1. copies' = copies \/ (copies[m] > 0 /\ copies' = [copies EXCEPT ![m] = @ - 1])
    BY DEF Answer, ForwardDelivered, ForwardRejected, ForwardFailed, Delivered, DeliveryFailed
  <2>2. copies' \in [Msgs -> 0 .. MaxCopies]
    BY <1>0, <2>1, SmsAssumption
  <2> QED
    BY <1>0, <2>2
    DEF Answer, ForwardDelivered, ForwardRejected, ForwardFailed, Delivered, DeliveryFailed
<1>2. CASE ForwardDelivered(m) \/ ForwardFailed(m)
  <2>1. /\ b2b' = b2b \ {m} /\ row' = row
        /\ \E e \in {"delivered", "unsent"} : past' = [past EXCEPT ![m] = @ \cup {e}]
    BY <1>2 DEF ForwardDelivered, ForwardFailed, Happens
  <2>2. past' \in [Msgs -> SUBSET Events]
    BY <1>0, <2>1 DEF Events
  <2>3. \A n \in Msgs : n # m => Placed(n)'
    BY <1>0, <2>1, Unmoved
  <2>4. Placed(m)'
    BY <1>0, <2>1 DEF Placed, Stored
  <2> QED
    BY <1>1, <2>2, <2>3, <2>4, MsgStep
<1>3. CASE \E ok \in BOOLEAN : ForwardRejected(m, ok)
  <2>1. PICK ok \in BOOLEAN : ForwardRejected(m, ok)
    BY <1>3
  <2>2. /\ b2b' = b2b \ {m}
        /\ row' = (IF ok THEN [row EXCEPT ![m] = NewRow] ELSE row)
        /\ past' = [past EXCEPT ![m] = @ \cup {IF ok THEN "stored" ELSE "unstored"}]
    BY <2>1 DEF ForwardRejected, StoreSms, Happens
  <2>3. past' \in [Msgs -> SUBSET Events]
    BY <1>0, <2>2 DEF Events
  <2>4. \A n \in Msgs : n # m => Placed(n)'
    BY <1>0, <2>2, Unmoved
  <2>5. CASE ok
    <3>1. Stored(m)' /\ past'[m] = past[m] \cup {"stored"}
      BY <1>0, <2>2, <2>5, NewRowOnSchedule DEF Stored
    <3> QED
      BY <1>1, <2>3, <2>4, <3>1, MsgStep DEF Placed
  <2>6. CASE ~ok
    <3>1. row'[m] = row[m] /\ past'[m] = past[m] \cup {"unstored"}
      BY <1>0, <2>2, <2>6
    <3>2. Placed(m)'
      BY <1>0, <3>1 DEF Placed, Stored
    <3> QED
      BY <1>1, <2>3, <2>4, <3>2, MsgStep
  <2> QED
    BY <2>5, <2>6
<1>4. CASE \E ok \in BOOLEAN : Delivered(m, ok)
  <2>1. /\ b2b' = b2b
        /\ row' = row \/ row' = [row EXCEPT ![m] = NoRow]
        /\ past' = [past EXCEPT ![m] = @ \cup {"delivered"}]
    BY <1>4 DEF Delivered, Happens
  <2>2. past' \in [Msgs -> SUBSET Events]
    BY <1>0, <2>1 DEF Events
  <2>3. \A n \in Msgs : n # m => Placed(n)'
    BY <1>0, <2>1, Unmoved
  <2>4. past'[m] = past[m] \cup {"delivered"} /\ (Stored(m)' => Stored(m))
    BY <1>0, <2>1 DEF Stored
  <2>5. Placed(m)'
    BY <1>0, <2>4 DEF Placed
  <2> QED
    BY <1>1, <2>2, <2>3, <2>5, MsgStep
<1>5. CASE DeliveryFailed(m)
  BY <1>0, <1>1, <1>5, Unmoved, MsgStep DEF DeliveryFailed
<1> QED
  BY <1>2, <1>3, <1>4, <1>5 DEF Answer

\* A send counts a delivery within the bound.
LEMMA SentCopies ==
    ASSUME copies \in [Msgs -> 0 .. MaxCopies], NEW S, SendStored(S)
    PROVE  copies' \in [Msgs -> 0 .. MaxCopies]
BY SmsAssumption DEF SendStored

LEMMA PollKeepsMsgs ==
    ASSUME MsgInv, RowInv, NEW S \in SUBSET Due, NEW U \in SUBSET Due, Poll(S, U)
    PROVE  MsgInv'
<1>0. /\ past \in [Msgs -> SUBSET Events] /\ b2b \subseteq Msgs
      /\ copies \in [Msgs -> 0 .. MaxCopies] /\ to \in [Msgs -> Users]
      /\ \A n \in Msgs : Placed(n)
  BY MsgNow
<1>1. copies' \in [Msgs -> 0 .. MaxCopies] /\ to' = to /\ b2b' = b2b
  BY <1>0, SentCopies DEF Poll
<1>2. past' \in [Msgs -> SUBSET Events]
  BY <1>0 DEF Poll, Events
<1>3. ASSUME NEW n \in Msgs
      PROVE  Placed(n)'
  <2>1. CASE n \notin U
    BY <1>0, <1>1, <2>1, Unmoved DEF Poll
  <2>2. CASE n \in U
    <3>1. Stored(n) /\ "stored" \in past[n] /\ row'[n] = UpdateSms(row[n])
      BY <1>0, <2>2 DEF Poll, Due, Placed
    <3>2. CASE IsLast(row[n])
      BY <1>0, <1>1, <2>2, <3>1, <3>2 DEF Poll, Placed, UpdateSms, Stored
    <3>3. CASE ~IsLast(row[n])
      <4>1. row'[n] # NoRow
        BY <2>2, <3>1, <3>3, UpdatedOnSchedule DEF RowInv, Schedule, Due
      <4>2. past'[n] = past[n]
        BY <2>2, <3>3 DEF Poll
      <4> QED
        BY <3>1, <4>1, <4>2 DEF Placed, Stored
    <3> QED
      BY <3>2, <3>3
  <2> QED
    BY <2>1, <2>2
<1> QED
  BY <1>0, <1>1, <1>2, <1>3, MsgStep

LEMMA TickKeepsMsgs ==
    ASSUME MsgInv, RowInv, Tick
    PROVE  MsgInv'
<1>0. /\ past \in [Msgs -> SUBSET Events] /\ b2b \subseteq Msgs
      /\ copies \in [Msgs -> 0 .. MaxCopies] /\ to \in [Msgs -> Users]
      /\ \A n \in Msgs : Placed(n)
  BY MsgNow
<1>1. ASSUME NEW n \in Msgs
      PROVE  Stored(n)' <=> Stored(n)
  <2>1. CASE Stored(n) /\ row[n].wait > -MaxLate
    <3>1. row'[n] = [row[n] EXCEPT !.wait = @ - 1] /\ row[n] \in Rows
      BY <2>1 DEF Tick, RowInv
    <3>2. row'[n].timerN = row[n].timerN /\ row[n].timerN \in T1 .. T2
      BY <2>1, <3>1 DEF RowInv, Schedule, Rows
    <3>3. row'[n] # NoRow
      BY <3>2, SmsAssumption DEF NoRow
    <3> QED
      BY <2>1, <3>3 DEF Stored
  <2>2. CASE ~(Stored(n) /\ row[n].wait > -MaxLate)
    BY <2>2 DEF Tick, Stored
  <2> QED
    BY <2>1, <2>2
<1>2. past' = past /\ b2b' = b2b /\ copies' = copies /\ to' = to
  BY DEF Tick
<1>3. \A n \in Msgs : Placed(n)'
  BY <1>0, <1>1, <1>2 DEF Placed
<1> QED
  BY <1>0, <1>2, <1>3, MsgStep

LEMMA RestartKeepsMsgs ==
    ASSUME MsgInv, Restart
    PROVE  MsgInv'
<1>0. /\ past \in [Msgs -> SUBSET Events] /\ b2b \subseteq Msgs
      /\ copies \in [Msgs -> 0 .. MaxCopies] /\ to \in [Msgs -> Users]
      /\ \A n \in Msgs : Placed(n)
  BY MsgNow
<1>1. row' = row /\ b2b' = {} /\ to' = to /\ copies' \in [Msgs -> 0 .. MaxCopies]
  BY SmsAssumption DEF Restart
<1>2. past' \in [Msgs -> SUBSET Events]
  BY <1>0 DEF Restart, Events
<1>3. \A n \in Msgs : past'[n] = (IF n \in b2b THEN past[n] \cup {"unsent"} ELSE past[n])
  BY DEF Restart
<1>4. ASSUME NEW n \in Msgs
      PROVE  Placed(n)'
  <2>1. CASE n \in b2b
    <3>1. past'[n] = past[n] \cup {"unsent"}
      BY <1>3, <2>1
    <3> QED
      BY <1>0, <1>1, <3>1 DEF Placed, Stored
  <2>2. CASE n \notin b2b
    BY <1>0, <1>1, <1>3, <2>2, Unmoved
  <2> QED
    BY <2>1, <2>2
<1> QED
  BY <1>0, <1>1, <1>2, <1>4, MsgStep

-----------------------------------------------------------------------------
\* The three parts do not depend on anything else.
LEMMA Unchanged ==
    /\ RegInv /\ UNCHANGED reg => RegInv'
    /\ RowInv /\ UNCHANGED row => RowInv'
    /\ MsgInv /\ UNCHANGED mvars => MsgInv'
BY DEF RegInv, RowInv, MsgInv, mvars, TimersOfState, IsRegistered, Schedule, Stored,
       AcceptedHasPlace, StoredIsKept

\* Every step keeps the invariant.
THEOREM StepKeepsInv == IInv /\ [Next]_vars => IInv'
<1> SUFFICES ASSUME IInv, [Next]_vars PROVE IInv'
  OBVIOUS
<1>0. RegInv /\ RowInv /\ MsgInv /\ row \in [Msgs -> Rows]
  BY DEF IInv, RowInv
<1>1. CASE UNCHANGED vars
  BY <1>0, <1>1, Unchanged DEF vars, mvars, IInv
<1>2. CASE \E u \in Users : RegistrarStep(u) /\ UNCHANGED mvars
  BY <1>0, <1>2, RegistrarKeeps, Unchanged DEF mvars, IInv
<1>3. CASE \E u \in Users, S \in SUBSET Msgs : SmsQueryTimer(u, S)
  <2>1. PICK u \in Users, S \in SUBSET Msgs : SmsQueryTimer(u, S)
    BY <1>3
  <2>2. RegInv' /\ RowInv'
    BY <1>0, <2>1, RegistrarKeeps, Unchanged DEF SmsQueryTimer
  <2>3. /\ copies' \in [Msgs -> 0 .. MaxCopies]
        /\ past' = past /\ b2b' = b2b /\ to' = to /\ row' = row
    BY <1>0, <2>1, MsgNow, SentCopies DEF SmsQueryTimer
  <2>4. \A m \in Msgs : Placed(m)'
    BY <1>0, <2>3, MsgNow, Unmoved
  <2>5. MsgInv'
    BY <1>0, <2>3, <2>4, MsgNow, MsgStep
  <2> QED
    BY <2>2, <2>5 DEF IInv
<1>4. CASE \E m \in Msgs : Submit(m)
  <2>1. PICK m \in Msgs : Submit(m)
    BY <1>4
  <2>2. MsgInv'
    BY <1>0, <2>1, SubmitKeepsMsgs
  <2>3. CASE \E ok \in BOOLEAN : SubmitStored(m, ok)
    <3>1. RowInv'
      BY <1>0, <2>3, StoreKeepsRows DEF SubmitStored
    <3>2. RegInv'
      BY <1>0, <2>3, Unchanged DEF SubmitStored
    <3> QED
      BY <2>2, <3>1, <3>2 DEF IInv
  <2>4. CASE \E caller \in Users, sent \in BOOLEAN : SubmitForwarded(m, caller, sent)
    <3>1. RowInv'
      BY <1>0, <2>4, Unchanged DEF SubmitForwarded
    <3>2. RegInv'
      BY <1>0, <2>4, RegistrarKeeps DEF SubmitForwarded
    <3> QED
      BY <2>2, <3>1, <3>2 DEF IInv
  <2> QED
    BY <2>1, <2>3, <2>4 DEF Submit
<1>5. CASE \E m \in Msgs : Answer(m)
  <2>1. PICK m \in Msgs : Answer(m)
    BY <1>5
  <2>2. MsgInv'
    BY <1>0, <2>1, AnswerKeepsMsgs
  <2>3. RegInv'
    BY <1>0, <2>1, Unchanged
    DEF Answer, ForwardDelivered, ForwardRejected, ForwardFailed, Delivered, DeliveryFailed
  <2>4. RowInv'
    <3>1. CASE ForwardDelivered(m) \/ ForwardFailed(m) \/ DeliveryFailed(m)
      BY <1>0, <3>1, Unchanged DEF ForwardDelivered, ForwardFailed, DeliveryFailed
    <3>2. CASE \E ok \in BOOLEAN : ForwardRejected(m, ok)
      BY <1>0, <3>2, StoreKeepsRows DEF ForwardRejected
    <3>3. CASE \E ok \in BOOLEAN : Delivered(m, ok)
      BY <1>0, <3>3, DeleteKeepsRows DEF Delivered
    <3> QED
      BY <2>1, <3>1, <3>2, <3>3 DEF Answer
  <2> QED
    BY <2>2, <2>3, <2>4 DEF IInv
<1>6. CASE \E S, U \in SUBSET Due : Poll(S, U)
  <2>1. PICK S \in SUBSET Due, U \in SUBSET Due : Poll(S, U)
    BY <1>6
  <2>2. RowInv' /\ MsgInv'
    BY <1>0, <2>1, PollKeepsRows, PollKeepsMsgs
  <2>3. RegInv'
    BY <1>0, <2>1, Unchanged DEF Poll
  <2> QED
    BY <2>2, <2>3 DEF IInv
<1>7. CASE Tick
  <2>1. RowInv' /\ MsgInv'
    BY <1>0, <1>7, TickKeepsRows, TickKeepsMsgs
  <2>2. RegInv'
    BY <1>0, <1>7, Unchanged DEF Tick
  <2> QED
    BY <2>1, <2>2 DEF IInv
<1>8. CASE Restart
  <2>1. RegInv'
    BY <1>8 DEF Restart, NoUsers, NotExist, RegInv, Entries, RegStates, Timers,
                TimersOfState, IsRegistered
  <2>2. RowInv' /\ MsgInv'
    BY <1>0, <1>8, Unchanged, RestartKeepsMsgs DEF Restart
  <2> QED
    BY <2>1, <2>2 DEF IInv
<1> QED
  BY <1>1, <1>2, <1>3, <1>4, <1>5, <1>6, <1>7, <1>8 DEF Next

\* The invariant holds in every reachable state.
THEOREM InvHolds == Spec => []IInv
BY Initial, StepKeepsInv, PTL DEF Spec

\* Every variable keeps its type.
THEOREM TypeCorrect == Spec => []TypeOK
<1>1. IInv => TypeOK
  BY DEF IInv, RegInv, RowInv, MsgInv, TypeOK
<1> QED
  BY <1>1, InvHolds, PTL

\* Whoever is registered has an expiry timer, and any other entry of the
\* registrar a purge timer and no other.
THEOREM RegistrationsEnd == Spec => []TimersOfState
<1>1. IInv => TimersOfState
  BY DEF IInv, RegInv
<1> QED
  BY <1>1, InvHolds, PTL

\* An accepted message is on its way, stored, delivered or dropped, or the
\* database refused it, or it was lost while it was being forwarded.
THEOREM AcceptedIsPlaced == Spec => []AcceptedHasPlace
<1>1. IInv => AcceptedHasPlace
  BY DEF IInv, MsgInv
<1> QED
  BY <1>1, InvHolds, PTL

\* A stored message stays until it has been delivered or its time is over.
THEOREM StoredStays == Spec => []StoredIsKept
<1>1. IInv => StoredIsKept
  BY DEF IInv, MsgInv
<1> QED
  BY <1>1, InvHolds, PTL

\* Stored messages are tried in intervals that double from T1 to T2.
THEOREM TriesOnSchedule == Spec => []Schedule
<1>1. IInv => Schedule
  BY DEF IInv, RowInv
<1> QED
  BY <1>1, InvHolds, PTL

\* No message is dropped while more than the longest interval is left.
THEOREM DropsLate == Spec => NotDroppedEarly
<1> DEFINE Late == \A m \in Msgs : "dropped" \in past'[m] \ past[m] =>
                       row[m].wait + row[m].room <= T2 /\ row'[m] = NoRow
<1>1. ASSUME IInv, [Next]_vars
      PROVE  [Late]_vars
  <2>1. SUFFICES ASSUME NEW m \in Msgs, "dropped" \in past'[m] \ past[m]
                 PROVE  row[m].wait + row[m].room <= T2 /\ row'[m] = NoRow
    BY DEF vars
  <2>2. past \in [Msgs -> SUBSET Events] /\ row \in [Msgs -> Rows]
    BY <1>1 DEF IInv, MsgInv, RowInv
  <2>3. \E S, U \in SUBSET Due : Poll(S, U)
    BY <1>1, <2>1, <2>2
    DEF Next, vars, mvars, RegistrarStep, SmsQueryTimer, Submit, SubmitStored,
        SubmitForwarded, Answer, ForwardDelivered, ForwardRejected, ForwardFailed,
        Delivered, DeliveryFailed, StoreSms, Happens, Tick, Restart
  <2>4. PICK S \in SUBSET Due, U \in SUBSET Due : Poll(S, U)
    BY <2>3
  <2>5. m \in U /\ IsLast(row[m]) /\ row'[m] = UpdateSms(row[m])
    BY <2>1, <2>4 DEF Poll
  <2>6. row[m] \in Rows /\ row[m].wait <= 0
    BY <2>2, <2>5 DEF Due
  <2> QED
    BY <2>5, <2>6, LastIsLate DEF UpdateSms
<1> QED
  BY <1>1, InvHolds, PTL DEF Spec, NotDroppedEarly

=============================================================================
