----------------------------- MODULE Registrar -----------------------------
(***************************************************************************)
(* The registrar, sipRegistrar.c: the users it knows, whether they are     *)
(* registered, and the timers that end it.                                 *)
(*                                                                         *)
(* An action is a REGISTER up to the return of masReg_onSipMsg, with the   *)
(* response sent and whatever the transaction layer reported while it was, *)
(* or the expiry of a timer.  A REGISTER that is answered 400, 423 or 503  *)
(* changes nothing and is left out.                                        *)
(***************************************************************************)

CONSTANT Users

VARIABLE reg   \* reg[u]: the tuRegistrar_t that masRegHash has for u

RegStates == {"REGISTERED", "NOT_REGISTERED", "NOT_EXIST"}
Timers    == {"expiry", "smsQuery", "purge"}
Entries   == [regState : RegStates, timers : SUBSET Timers]

NotExist == [regState |-> "NOT_EXIST", timers |-> {}]
NoUsers  == [u \in Users |-> NotExist]

IsRegistered(u) == reg[u].regState = "REGISTERED"
Exists(u)       == reg[u] # NotExist

Becomes(u, e) == reg' = [reg EXCEPT ![u] = e]

-----------------------------------------------------------------------------
\* Fault of Deregistered: the SMS query is not stopped.
DeregisteredAsking(u) == [regState |-> "NOT_REGISTERED",
                          timers |-> (reg[u].timers \ {"expiry"}) \cup {"purge"}]

\* masReg_deRegUser for a registered user: the entry stays until it is purged.
Deregistered(u) == [regState |-> "NOT_REGISTERED",
                    timers |-> (reg[u].timers \ {"expiry", "smsQuery"}) \cup {"purge"}]

\* A REGISTER of a user who is not registered: if there is no entry, one is
\* added first.
FirstRegister(u) ==
    /\ ~IsRegistered(u)
    /\ Becomes(u, [regState |-> "REGISTERED",
                   timers |-> (reg[u].timers \ {"purge"}) \cup {"expiry", "smsQuery"}])

\* A REGISTER of one who is: the expiry starts anew, the SMS query does not.
Refresh(u) ==
    /\ IsRegistered(u)
    /\ Becomes(u, [reg[u] EXCEPT !.timers = @ \cup {"expiry"}])

\* A REGISTER with expiry 0.  Unknown users and those who are leaving are
\* answered 200 and nothing changes.
Deregister(u) ==
    /\ IsRegistered(u)
    /\ Becomes(u, Deregistered(u))

(***************************************************************************)
(* A REGISTER that is answered while isRspFailed is set: its 200 could not *)
(* be sent, which the transaction layer reports from within the send, or   *)
(* that of an earlier one was reported late.  The report is dispatched by  *)
(* a field that nobody set: when it goes astray, the REGISTER takes effect *)
(* as if its 200 had left, so that there is nothing more to model.         *)
(* Otherwise a registered user is left to time out, and the entry of any   *)
(* other is deleted with its timers.                                       *)
(***************************************************************************)
ResponseFailed(u) ==
    /\ Exists(u) /\ ~IsRegistered(u)
    /\ Becomes(u, NotExist)

ExpiryTimer(u) ==
    /\ "expiry" \in reg[u].timers
    /\ Becomes(u, Deregistered(u))

PurgeTimer(u) ==
    /\ "purge" \in reg[u].timers
    /\ Becomes(u, NotExist)

\* The SMS query timer is no longer running; sipReg_onRegister may follow.
SmsQueried(u) ==
    /\ "smsQuery" \in reg[u].timers
    /\ Becomes(u, [reg[u] EXCEPT !.timers = @ \ {"smsQuery"}])

-----------------------------------------------------------------------------
\* masReg_addAppInfo: nothing is remembered of the application, but a user who
\* is not known gets an entry.
AddAppInfo(u) ==
    Becomes(u, IF Exists(u) THEN reg[u]
               ELSE [regState |-> "NOT_REGISTERED", timers |-> {"purge"}])

RegistrarStep(u) ==
    \/ FirstRegister(u)
    \/ Refresh(u)
    \/ Deregister(u)
    \/ ResponseFailed(u)
    \/ ExpiryTimer(u)
    \/ PurgeTimer(u)

-----------------------------------------------------------------------------
\* A registration ends by itself: whoever is registered has an expiry timer,
\* and any other entry has a purge timer and no other, so that no message, in
\* whatever order with the timers, leaves an entry that stays for ever or a
\* timer that comes back for an entry that is gone.
TimersOfState ==
    \A u \in Users :
        /\ IsRegistered(u) => "expiry" \in reg[u].timers /\ "purge" \notin reg[u].timers
        /\ reg[u].regState = "NOT_REGISTERED" => reg[u].timers = {"purge"}
        /\ reg[u].regState = "NOT_EXIST" => reg[u].timers = {}
=============================================================================
