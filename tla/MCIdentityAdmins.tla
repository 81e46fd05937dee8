-------------------------- MODULE MCIdentityAdmins --------------------------
(***************************************************************************)
(* Two workloads of IdentityStore in one run: the system administrators'   *)
(* requests, while replicas start and rows come to refer to users, and the *)
(* requests about teams.  Each request of one is served beside another of  *)
(* the same workload.                                                      *)
(***************************************************************************)
EXTENDS MCIdentityStore

VARIABLE work      \* the workload, "system" or "team"

AllOps == StartingOps \cup TeamOps
AllSeeds == StartingSeeds \cup TeamSeeds

Workload == IF work = "system" THEN StartingOps ELSE TeamOps

WorkInit ==
  /\ Init
  /\ work = IF Cardinality({u \in Users : Exists(u)}) < 2 THEN "system" ELSE "team"

WorkNext ==
  /\ \/ \E x \in Tx : (\E o \in Workload : Begin(x, o)) \/ Step(x) \/ Abort(x)
     \/ work = "system" /\ \E a \in Assets, u \in Users : InsertAsset(a, u)
  /\ UNCHANGED work

WorkSpec == WorkInit /\ [][WorkNext]_<<vars, work>>
=============================================================================
