------------------------------ MODULE ScscfIfc ------------------------------
(***************************************************************************)
(* The initial filter criteria of the S-CSCF: which application server     *)
(* (AS) a request goes to next (scscfIfc.c).                               *)
(*                                                                         *)
(* A criterion is a scscfIfc_t: the shared set it belongs to (id), whether *)
(* its conditions are in conjunctive normal form, its groups of triggers,  *)
(* what follows when its AS cannot be asked (isDefaultSessContinued), and  *)
(* whether the AS is a name that DNS has to resolve.                       *)
(***************************************************************************)
EXTENDS Naturals, Sequences

CONSTANT Criteria   \* gSIfcSet, a sequence of criteria

SessCases == {"INVALID", "ORIGINATING", "ORIG_UNREGISTERED",
              "TERM_REGISTERED", "TERM_UNREGISTERED"}

\* A trigger is on the method and, for REGISTER, the type of registration, or
\* on the session case.  Triggers on a header are never evaluated.
ASSUME IfcAssumption ==
    /\ Len(Criteria) \in Nat /\ DOMAIN Criteria = 1..Len(Criteria)
    /\ \A j \in DOMAIN Criteria :
          /\ Criteria[j].cnf \in BOOLEAN
          /\ Criteria[j].continued \in BOOLEAN
          /\ Criteria[j].named \in BOOLEAN
          /\ \A g \in Criteria[j].groups : \A t \in g :
                /\ t.type \in {"METHOD", "SESSION_CASE", "HEADER"}
                /\ t.negated \in BOOLEAN
                /\ t.type = "SESSION_CASE" => t.case \in SessCases

\* scscfIfc_getSessCase.
SessCase(reg, half) ==
    CASE reg = "REGISTERED" -> IF half = "MO" THEN "ORIGINATING" ELSE "TERM_REGISTERED"
      [] reg = "UN_REGISTERED" ->
            IF half = "MO" THEN "ORIG_UNREGISTERED" ELSE "TERM_UNREGISTERED"
      [] OTHER -> "INVALID"

\* A trigger of a group holds.  One on REGISTER has to name the type of the
\* registration as well, and does not hold if it is negated.
TriggerHolds(t, event) ==
    CASE t.type = "METHOD" ->
            /\ (t.method = event.method) # t.negated
            /\ t.method = "REGISTER" => ~t.negated /\ event.regType \in t.regTypes
      [] t.type = "SESSION_CASE" -> (t.case = event.case) # t.negated
      [] OTHER -> TRUE

(***************************************************************************)
(* scscfIfc_getNextAS takes a criterion: its set is the user's, and it has *)
(* no triggers, or one group of which all triggers hold.  With conditions  *)
(* in conjunctive form the loop over the groups ends at the first that     *)
(* fails and comes to the same place as when all hold: the AS is taken.    *)
(***************************************************************************)
Matches(c, ids, event) ==
    /\ c.id \in ids
    /\ \/ c.groups = {}
       \/ c.cnf
       \/ \E g \in c.groups : \A t \in g : TriggerHolds(t, event)
=============================================================================
