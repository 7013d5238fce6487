--------------------------- MODULE MCScscfSession ---------------------------
(***************************************************************************)
(* Three criteria in two shared sets: one for a registered caller, one for *)
(* a registered called user, and one that takes every request; the first   *)
(* and the last have a name for an AS and let the call go on without it.   *)
(***************************************************************************)
EXTENDS ScscfSession

Method(m) == [type |-> "METHOD", method |-> m, negated |-> FALSE, regTypes |-> {}]
Case(c)   == [type |-> "SESSION_CASE", case |-> c, negated |-> FALSE]

MCCriteria == <<
    [id |-> 1, cnf |-> FALSE, continued |-> TRUE, named |-> TRUE,
     groups |-> {{Method("invite"), Case("ORIGINATING")}}],
    [id |-> 1, cnf |-> FALSE, continued |-> FALSE, named |-> FALSE,
     groups |-> {{Method("invite"), Case("TERM_REGISTERED")}}],
    [id |-> 2, cnf |-> FALSE, continued |-> TRUE, named |-> TRUE, groups |-> {}]>>

MCProfiles == {{1}, {1, 2}}
=============================================================================
