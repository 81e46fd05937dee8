-------------------------- MODULE MCIdentityStore --------------------------
(***************************************************************************)
(* Workloads and initial databases for checking IdentityStore.  A field an *)
(* operation does not read has a fixed value, so that equal requests are   *)
(* equal records.                                                          *)
(***************************************************************************)
EXTENDS IdentityStore, TLC

CONSTANTS u1, u2, u3, t1

AnyTeam == CHOOSE t \in Teams : TRUE
NoAssign == [t \in Teams |-> "none"]

Request(kind, actor, target, t, role, off, assign) ==
  [kind |-> kind, actor |-> actor, target |-> target, team |-> t,
   role |-> role, disabled |-> off, assign |-> assign]

Creates == {Request("CreateUser", a, u, AnyTeam, r, FALSE, NoAssign) :
              a \in Users, u \in Users, r \in {"member", "admin"}}
Updates == {Request("UpdateUser", a, u, AnyTeam, r, d, NoAssign) :
              a \in Users, u \in Users, r \in {"member", "admin"}, d \in BOOLEAN}
Deletes == {Request("DeleteUser", a, u, AnyTeam, "member", FALSE, NoAssign) :
              a \in Users, u \in Users}
Bootstraps == {Request("BootstrapAdmin", u, u, AnyTeam, "admin", FALSE, NoAssign) : u \in Users}
NewTeams == {Request("CreateTeam", a, a, t, "member", FALSE, NoAssign) :
               a \in Users, t \in Teams}
TeamUpdates(kind) == {Request(kind, a, a, t, "member", FALSE, NoAssign) :
               a \in Users, t \in Teams}
Memberships(kind, roles) == {Request(kind, a, u, t, r, FALSE, NoAssign) :
               a \in Users, u \in Users, t \in Teams, r \in roles}
Assigns == {Request("SetUserTeamMemberships", a, u, AnyTeam, "member", FALSE, s) :
              a \in Users, u \in Users, s \in [Teams -> TeamRole]}

\* The system administrators' requests, and the same while replicas start.
SystemOps == Creates \cup Updates \cup Deletes
StartingOps == SystemOps \cup Bootstraps

\* Promotions, demotions, removals and assignments in a team, with the creation
\* and deletion of teams; AddTeamMember only adds administrators.
TeamOps == NewTeams \cup TeamUpdates("UpdateTeam") \cup TeamUpdates("DeleteTeam")
           \cup Memberships("SetTeamMemberRole", {"member", "admin"})
           \cup Memberships("RemoveTeamMember", {"member"})
           \cup Memberships("AddTeamMember", {"admin"})
           \cup Assigns

Seed(roles, off, teams, mem, refs) ==
  [sysRole |-> roles, disabled |-> off, team |-> teams, member |-> mem, createdBy |-> refs]

NobodyOff == [u \in Users |-> FALSE]
NoTeam == [t \in Teams |-> "none"]
NoMember == [t \in Teams |-> [u \in Users |-> "none"]]
NoRef == [r \in Refs |-> None]

EmptySeed == {Seed([u \in Users |-> "none"], NobodyOff, NoTeam, NoMember, NoRef)}

\* One administrator, the other identifiers unused.
OneAdminSeeds == {Seed([u \in Users |-> IF u = u1 THEN "admin" ELSE "none"],
                       NobodyOff, NoTeam, NoMember, NoRef)}

\* An empty database, or one administrator.
StartingSeeds == EmptySeed \cup OneAdminSeeds

\* Two administrators and a member, and a team in any state it may be in.
TeamSeeds ==
  {d \in {Seed([u \in Users |-> IF u = u3 THEN "member" ELSE "admin"], NobodyOff,
               teams, [t \in Teams |-> m], [r \in Refs |-> IF r \in Teams /\ teams[r] = "live"
                                                          THEN u1 ELSE None]) :
             teams \in [Teams -> {"none", "live"}], m \in [Users -> TeamRole]} : Consistent(d)}

Symmetry == Permutations(Tx)
=============================================================================
