------------------------------ MODULE Platform ------------------------------
(***************************************************************************)
(* The two parts of the platform that one run looks at: the accounts, and  *)
(* the incidents with the agent that reports them.  They share no state,   *)
(* so that both go on as each does alone.                                  *)
(***************************************************************************)
EXTENDS Accounts, Incidents

PlatformSpec == Spec /\ IncidentsSpec

\* The types of both: no membership, group or session of a tenant that is gone, a burst
\* holds the error that opened it, and a handler writes to a row that exists.
TypesOK == TypeOK /\ IncidentsTypeOK
=============================================================================
