--------------------------- MODULE DelegateContract ---------------------------
(***************************************************************************)
(* What client_delegate promises the application about a connection it     *)
(* started: on_connect is called once, with success or with an error;      *)
(* on_disconnect follows a successful on_connect, once, and only that.  A  *)
(* start that is refused is never heard of.                                *)
(***************************************************************************)
CONSTANT Runs

VARIABLE life   \* what the application knows of each start() it called

contractVars == <<life>>

ContractTypeOK ==
  life \in [Runs -> {"idle", "running", "connected", "failed", "disconnected"}]

ContractInit == life = [r \in Runs |-> "idle"]

Step(r, from, to) == life[r] = from /\ life' = [life EXCEPT ![r] = to]

ContractNext ==
  \E r \in Runs :
    \/ Step(r, "idle", "running")
    \/ Step(r, "running", "connected")
    \/ Step(r, "running", "failed")
    \/ Step(r, "connected", "disconnected")

ContractSpec == ContractInit /\ [][ContractNext]_contractVars
=============================================================================
