------------------------ MODULE MCScscfRegistration ------------------------
(***************************************************************************)
(* Two filter criteria, of which either may let the session go on, and a   *)
(* profile that has the name the user registers with or another.           *)
(***************************************************************************)
EXTENDS ScscfRegistration

MCProfiles == [ids : {{"key", "impu"}, {"impi", "impu"}}, barred : BOOLEAN,
               continued : {{1}, {2}}]
===========================================================================
