--------------------------- MODULE IdentityStore ---------------------------
(***************************************************************************)
(* The identity store: users, teams and team memberships kept in           *)
(* PostgreSQL, and the operations of api/internal/identity/store.go on     *)
(* them.  Every operation but AddTeamMember is one READ COMMITTED          *)
(* transaction: it locks the actor's row, then the rows it reads (SELECT   *)
(* ... FOR UPDATE), checks that an administrator remains, writes and       *)
(* commits.  One step of a transaction here is one SQL statement; the      *)
(* writes and the COMMIT that follows them are a single step, because no   *)
(* other transaction sees a write before the commit and the rows written   *)
(* are locked from the write to the commit.                                *)
(*                                                                         *)
(* Names, passwords and display names are left out: an operation that      *)
(* fails because of them is one that aborts.                               *)
(***************************************************************************)
EXTENDS Integers, FiniteSets

CONSTANTS
  Users,      \* the identifiers newID("usr_") may return
  Teams,      \* the identifiers newID("team_") may return
  Assets,     \* rows of other tables whose created_by refers to a user
  Tx,         \* the requests being served at the same time
  Ops,        \* the operations clients request, a subset of OpType
  Seeds,      \* the databases the system may be found in at the start
  None        \* no transaction, no user, no operation

\* A row that was never inserted and one that was deleted are told apart,
\* because identifiers are random and never used twice.
SystemRole == {"none", "member", "admin", "deleted"}
TeamRole == {"none", "member", "admin"}
TeamState == {"none", "live", "deleted"}

Kinds == {"BootstrapAdmin", "CreateUser", "CreateTeam", "UpdateUser", "DeleteUser",
          "UpdateTeam", "DeleteTeam", "AddTeamMember", "SetTeamMemberRole",
          "RemoveTeamMember", "SetUserTeamMemberships"}

\* A request.  actor is the signed-in user, target the user acted on (the fresh
\* identifier for CreateUser and BootstrapAdmin); role and disabled are the
\* values UpdateUser computes from its optional fields, which it reads under the
\* lock of the row; assign is the membership list of SetUserTeamMemberships.
OpType == [kind: Kinds, actor: Users, target: Users, team: Teams,
           role: {"member", "admin"}, disabled: BOOLEAN,
           assign: [Teams -> TeamRole]]

Refs == Teams \cup Assets

Database == [sysRole: [Users -> SystemRole], disabled: [Users -> BOOLEAN],
             team: [Teams -> TeamState], member: [Teams -> [Users -> TeamRole]],
             createdBy: [Refs -> Users \cup {None}]]

\* What earlier runs of the program leave behind: some active administrator once
\* there are users, an administrator in every team, and no reference to a user
\* or team that is not there.
Consistent(d) ==
  /\ (\E u \in Users : d.sysRole[u] \in {"member", "admin"})
        => \E u \in Users : d.sysRole[u] = "admin" /\ ~d.disabled[u]
  /\ \A t \in Teams : /\ d.team[t] = "live" <=> \E u \in Users : d.member[t][u] = "admin"
                      /\ d.team[t] = "live" <=> d.createdBy[t] # None
                      /\ \A u \in Users : d.member[t][u] # "none" => d.team[t] = "live"
  /\ \A t \in Teams, u \in Users :
        d.member[t][u] # "none" => d.sysRole[u] \in {"member", "admin"}
  /\ \A r \in Refs : d.createdBy[r] # None => d.sysRole[d.createdBy[r]] \in {"member", "admin"}

ASSUME NoneAssumption == None \notin Tx \cup Users \cup OpType
ASSUME OpsAssumption == Ops \subseteq OpType
ASSUME SeedsAssumption == Seeds \subseteq Database /\ \A d \in Seeds : Consistent(d)

VARIABLES
  sysRole,     \* users.system_role
  disabled,    \* users.disabled_at IS NOT NULL
  team,        \* the rows of teams
  member,      \* team_members.role, "none" where there is no row
  createdBy,   \* created_by of teams and of the other tables
  userLock,    \* the transaction that holds a users row FOR UPDATE
  memberLock,  \* the transaction that holds a team_members row FOR UPDATE
  bootLock,    \* the transaction that holds the bootstrap advisory lock
  pc,          \* the next statement of a transaction
  op,          \* the request it serves
  want,        \* rows a SELECT ... FOR UPDATE still has to lock
  todo,        \* teams that must be shown to have another administrator
  cur,         \* the team ensureAnotherTeamAdmin is looking at
  moved        \* references DeleteUser has reassigned

db == <<sysRole, disabled, team, member, createdBy>>
locks == <<userLock, memberLock, bootLock>>
local == <<pc, op, want, todo, cur, moved>>
vars == <<db, locks, local>>

PCs == {"idle", "authorize", "authorizeMember", "lockTarget", "lockMember",
        "anotherAdmin", "memberships", "lockMemberships", "readTeam", "lockTeam",
        "reassign", "bootstrap", "exists", "authorized", "write"}

TypeOK ==
  /\ sysRole \in [Users -> SystemRole]
  /\ disabled \in [Users -> BOOLEAN]
  /\ team \in [Teams -> TeamState]
  /\ member \in [Teams -> [Users -> TeamRole]]
  /\ createdBy \in [Refs -> Users \cup {None}]
  /\ userLock \in [Users -> Tx \cup {None}]
  /\ memberLock \in [Teams -> [Users -> Tx \cup {None}]]
  /\ bootLock \in Tx \cup {None}
  /\ pc \in [Tx -> PCs]
  /\ op \in [Tx -> Ops \cup {None}]
  /\ want \in [Tx -> SUBSET (Teams \X Users)]
  /\ todo \in [Tx -> SUBSET Teams]
  /\ cur \in [Tx -> Teams \cup {None}]
  /\ moved \in [Tx -> SUBSET Refs]

Exists(u) == sysRole[u] \in {"member", "admin"}
ActiveAdmin(u) == sysRole[u] = "admin" /\ ~disabled[u]
TeamAdmin(t, u) == member[t][u] = "admin"
ActiveAdmins == {u \in Users : ActiveAdmin(u)}

UserFree(x, u) == userLock[u] \in {x, None}
MemberFree(x, t, u) == memberLock[t][u] \in {x, None}

-----------------------------------------------------------------------------
(* Begin, commit and roll back.                                            *)

Init ==
  /\ \E d \in Seeds : /\ sysRole = d.sysRole /\ disabled = d.disabled
                      /\ team = d.team /\ member = d.member
                      /\ createdBy = d.createdBy
  /\ userLock = [u \in Users |-> None]
  /\ memberLock = [t \in Teams |-> [u \in Users |-> None]]
  /\ bootLock = None
  /\ pc = [x \in Tx |-> "idle"]
  /\ op = [x \in Tx |-> None]
  /\ want = [x \in Tx |-> {}]
  /\ todo = [x \in Tx |-> {}]
  /\ cur = [x \in Tx |-> None]
  /\ moved = [x \in Tx |-> {}]

First(o) == IF o.kind = "BootstrapAdmin" THEN "bootstrap"
            ELSE IF o.kind = "AddTeamMember" THEN "authorized" ELSE "authorize"

\* newID returns an identifier that no row and no other request uses.
Fresh(o) ==
  LET others == {op[y] : y \in {z \in Tx : pc[z] # "idle"}} IN
  /\ o.kind \in {"CreateUser", "BootstrapAdmin"} =>
       /\ sysRole[o.target] = "none"
       /\ \A q \in others : q.kind \in {"CreateUser", "BootstrapAdmin"} => q.target # o.target
  /\ o.kind = "CreateTeam" =>
       /\ team[o.team] = "none"
       /\ \A q \in others : q.kind = "CreateTeam" => q.team # o.team

Begin(x, o) ==
  /\ pc[x] = "idle"
  /\ Fresh(o)
  /\ pc' = [pc EXCEPT ![x] = First(o)]
  /\ op' = [op EXCEPT ![x] = o]
  /\ UNCHANGED <<db, locks, want, todo, cur, moved>>

\* COMMIT, or the deferred tx.Rollback: every lock is released.
Finish(x) ==
  /\ userLock' = [u \in Users |-> IF userLock[u] = x THEN None ELSE userLock[u]]
  /\ memberLock' = [t \in Teams |-> [u \in Users |->
                      IF memberLock[t][u] = x THEN None ELSE memberLock[t][u]]]
  /\ bootLock' = IF bootLock = x THEN None ELSE bootLock
  /\ pc' = [pc EXCEPT ![x] = "idle"]
  /\ op' = [op EXCEPT ![x] = None]
  /\ want' = [want EXCEPT ![x] = {}]
  /\ todo' = [todo EXCEPT ![x] = {}]
  /\ cur' = [cur EXCEPT ![x] = None]
  /\ moved' = [moved EXCEPT ![x] = {}]

Fail(x) == Finish(x) /\ UNCHANGED db

Goto(x, p) == pc' = [pc EXCEPT ![x] = p]

\* A statement that only moves the transaction on.
Advance(x, p) == Goto(x, p) /\ UNCHANGED <<db, locks, op, want, todo, cur, moved>>

\* The client disconnects, PostgreSQL breaks a deadlock, or a constraint on the
\* data left out of this model is violated.
Abort(x) == pc[x] # "idle" /\ Fail(x)

-----------------------------------------------------------------------------
(* Authorization.                                                          *)

ActsOnUser(o) == o.kind \in {"UpdateUser", "DeleteUser", "SetUserTeamMemberships"}
TeamScoped(o) == o.kind \in {"SetTeamMemberRole", "RemoveTeamMember"}

AfterAuthorize(o) ==
  IF ActsOnUser(o) THEN "lockTarget" ELSE IF TeamScoped(o) THEN "lockMember" ELSE "write"

LockUser(x, u, p) ==
  /\ userLock' = [userLock EXCEPT ![u] = x]
  /\ Goto(x, p)
  /\ UNCHANGED <<db, memberLock, bootLock, op, want, todo, cur, moved>>

\* Mutant: the actor is read without FOR UPDATE.
AuthorizeActorUnlocked(x) ==
  LET a == op[x].actor IN
  /\ pc[x] = "authorize"
  /\ \/ ActiveAdmin(a) /\ Advance(x, AfterAuthorize(op[x]))
     \/ /\ Exists(a) /\ ~disabled[a] /\ sysRole[a] # "admin" /\ TeamScoped(op[x])
        /\ Advance(x, "authorizeMember")
     \/ /\ ~ActiveAdmin(a)
        /\ ~Exists(a) \/ disabled[a] \/ ~TeamScoped(op[x])
        /\ Fail(x)

\* authorizeSystemAdminForUpdate, and the users half of authorizeTeamAdminForUpdate.
AuthorizeActor(x) ==
  LET a == op[x].actor IN
  /\ pc[x] = "authorize"
  /\ Exists(a) => UserFree(x, a)
  /\ \/ ActiveAdmin(a) /\ LockUser(x, a, AfterAuthorize(op[x]))
     \/ /\ Exists(a) /\ ~disabled[a] /\ sysRole[a] # "admin" /\ TeamScoped(op[x])
        /\ LockUser(x, a, "authorizeMember")
     \/ /\ ~ActiveAdmin(a)
        /\ ~Exists(a) \/ disabled[a] \/ ~TeamScoped(op[x])
        /\ Fail(x)

LockMember(x, t, u, p) ==
  /\ memberLock' = [memberLock EXCEPT ![t][u] = x]
  /\ Goto(x, p)
  /\ UNCHANGED <<db, userLock, bootLock, op, want, cur, moved>>

\* The team_members half of authorizeTeamAdminForUpdate.
AuthorizeMember(x) ==
  LET t == op[x].team  a == op[x].actor IN
  /\ pc[x] = "authorizeMember"
  /\ member[t][a] # "none" => MemberFree(x, t, a)
  /\ \/ TeamAdmin(t, a) /\ LockMember(x, t, a, "lockMember") /\ UNCHANGED todo
     \/ ~TeamAdmin(t, a) /\ Fail(x)

\* The WITH authorized AS (...) query of AddTeamMember.  It locks nothing, and
\* the statement may then wait for the row it writes.
ReadAuthorized(x) ==
  LET a == op[x].actor IN
  /\ pc[x] = "authorized"
  /\ IF Exists(a) /\ ~disabled[a] /\ (sysRole[a] = "admin" \/ TeamAdmin(op[x].team, a))
       THEN Advance(x, "write")
       ELSE Fail(x)

-----------------------------------------------------------------------------
(* The target's row, and the administrators that must remain.              *)

\* UpdateUser takes an active administrator away: the check is called.
Demotes(o) == sysRole[o.target] = "admin" /\ (o.role # "admin" \/ o.disabled)

AfterTarget(o) ==
  IF o.kind = "UpdateUser" THEN IF Demotes(o) THEN "anotherAdmin" ELSE "write"
  ELSE IF o.kind = "DeleteUser" /\ sysRole[o.target] = "admin" THEN "anotherAdmin"
  ELSE "memberships"

\* Mutant: only the deletion of one's own account is refused.
SelfDeleteForbidden(o) == o.target = o.actor /\ o.kind = "DeleteUser"

\* Nobody disables or deletes their own account.
SelfForbidden(o) ==
  /\ o.target = o.actor
  /\ o.kind = "DeleteUser" \/ (o.kind = "UpdateUser" /\ o.disabled)

\* Mutant: the target is read without FOR UPDATE.
LockTargetUnlocked(x) ==
  LET u == op[x].target IN
  /\ pc[x] = "lockTarget"
  /\ IF Exists(u) /\ ~SelfForbidden(op[x])
       THEN Advance(x, AfterTarget(op[x]))
       ELSE Fail(x)

LockTarget(x) ==
  LET u == op[x].target IN
  /\ pc[x] = "lockTarget"
  /\ Exists(u) => UserFree(x, u)
  /\ IF Exists(u) /\ ~SelfForbidden(op[x])
       THEN LockUser(x, u, AfterTarget(op[x]))
       ELSE Fail(x)

\* A plain SELECT: the rows it counts are not locked.
EnsureAnotherActiveSystemAdmin(x) ==
  /\ pc[x] = "anotherAdmin"
  /\ IF \E u \in Users \ {op[x].target} : ActiveAdmin(u)
       THEN Advance(x, IF op[x].kind = "DeleteUser" THEN "memberships" ELSE "write")
       ELSE Fail(x)

\* lockTeamMember, then the last-administrator test of SetTeamMemberRole and
\* RemoveTeamMember.
LockTeamMember(x) ==
  LET t == op[x].team
      u == op[x].target
      last == TeamAdmin(t, u) /\ (op[x].kind = "RemoveTeamMember" \/ op[x].role # "admin")
  IN
  /\ pc[x] = "lockMember"
  /\ member[t][u] # "none" => MemberFree(x, t, u)
  /\ \/ /\ member[t][u] # "none"
        /\ LockMember(x, t, u, IF last THEN "readTeam" ELSE "write")
        /\ todo' = [todo EXCEPT ![x] = IF last THEN {t} ELSE {}]
     \/ member[t][u] = "none" /\ Fail(x)

\* The snapshot of the memberships SELECT ... FOR UPDATE: DeleteUser asks only
\* for the teams the user administers.
ReadMemberships(x) ==
  /\ pc[x] = "memberships"
  /\ want' = [want EXCEPT ![x] =
       {r \in Teams \X {op[x].target} :
          member[r[1]][r[2]] \in IF op[x].kind = "DeleteUser" THEN {"admin"}
                                                              ELSE {"member", "admin"}}]
  /\ Goto(x, "lockMemberships")
  /\ UNCHANGED <<db, locks, op, todo, cur, moved>>

\* One row of a SELECT ... FOR UPDATE.  A row deleted since the snapshot is
\* skipped; the others are locked and read again.
TakeRow(x, r) ==
  /\ member[r[1]][r[2]] # "none" => MemberFree(x, r[1], r[2])
  /\ memberLock' = IF member[r[1]][r[2]] = "none" THEN memberLock
                     ELSE [memberLock EXCEPT ![r[1]][r[2]] = x]
  /\ want' = [want EXCEPT ![x] = @ \ {r}]
  /\ UNCHANGED <<db, userLock, bootLock, pc, op, cur, moved>>

LoseAdmin(o, t) == o.kind = "DeleteUser" \/ o.assign[t] # "admin"

LockMembership(x, r) ==
  /\ pc[x] = "lockMemberships"
  /\ r \in want[x]
  /\ TakeRow(x, r)
  /\ todo' = [todo EXCEPT ![x] =
       IF TeamAdmin(r[1], r[2]) /\ LoseAdmin(op[x], r[1]) THEN @ \cup {r[1]} ELSE @]

AfterEnsure(o) == IF o.kind = "DeleteUser" THEN "reassign" ELSE "write"

MembershipsLocked(x) ==
  /\ pc[x] = "lockMemberships"
  /\ want[x] = {}
  /\ Advance(x, IF todo[x] = {} THEN AfterEnsure(op[x]) ELSE "readTeam")

\* Mutant: the members of the team are counted without being locked.
ReadTeamUnlocked(x, t) ==
  /\ pc[x] = "readTeam"
  /\ t \in todo[x]
  /\ cur' = [cur EXCEPT ![x] = t]
  /\ Goto(x, "lockTeam")
  /\ UNCHANGED <<db, locks, op, want, todo, moved>>

\* ensureAnotherTeamAdmin: lock every member of the team, then look again.
ReadTeam(x, t) ==
  /\ pc[x] = "readTeam"
  /\ t \in todo[x]
  /\ cur' = [cur EXCEPT ![x] = t]
  /\ want' = [want EXCEPT ![x] = {r \in {t} \X Users : member[t][r[2]] # "none"}]
  /\ Goto(x, "lockTeam")
  /\ UNCHANGED <<db, locks, op, todo, moved>>

LockTeamRow(x, r) ==
  /\ pc[x] = "lockTeam"
  /\ r \in want[x]
  /\ TakeRow(x, r)
  /\ UNCHANGED todo

EnsureAnotherTeamAdmin(x) ==
  /\ pc[x] = "lockTeam"
  /\ want[x] = {}
  /\ IF \E u \in Users \ {op[x].target} : TeamAdmin(cur[x], u)
       THEN /\ todo' = [todo EXCEPT ![x] = @ \ {cur[x]}]
            /\ Goto(x, IF todo[x] = {cur[x]} THEN AfterEnsure(op[x]) ELSE "readTeam")
            /\ UNCHANGED <<db, locks, op, want, cur, moved>>
       ELSE Fail(x)

-----------------------------------------------------------------------------
(* The writes, each with the commit that ends its transaction.             *)

Writing(x, kind) == pc[x] = "write" /\ op[x].kind = kind

CreateUser(x) ==
  /\ Writing(x, "CreateUser")
  /\ sysRole' = [sysRole EXCEPT ![op[x].target] = op[x].role]
  /\ disabled' = [disabled EXCEPT ![op[x].target] = FALSE]
  /\ UNCHANGED <<team, member, createdBy>>
  /\ Finish(x)

CreateTeam(x) ==
  LET t == op[x].team IN
  /\ Writing(x, "CreateTeam")
  /\ team' = [team EXCEPT ![t] = "live"]
  /\ member' = [member EXCEPT ![t][op[x].actor] = "admin"]
  /\ createdBy' = [createdBy EXCEPT ![t] = op[x].actor]
  /\ UNCHANGED <<sysRole, disabled>>
  /\ Finish(x)

\* Mutant: the requested role is stored without being validated.
UpdateUserUnvalidated(x) ==
  /\ Writing(x, "UpdateUser")
  /\ sysRole' = [sysRole EXCEPT ![op[x].target] = "owner"]
  /\ UNCHANGED <<disabled, team, member, createdBy>>
  /\ Finish(x)

UpdateUser(x) ==
  LET u == op[x].target IN
  /\ Writing(x, "UpdateUser")
  /\ sysRole' = [sysRole EXCEPT ![u] = op[x].role]
  /\ disabled' = [disabled EXCEPT ![u] = op[x].disabled]
  /\ UNCHANGED <<team, member, createdBy>>
  /\ Finish(x)

\* The UPDATE ... SET created_by statements see the rows committed so far.
Reassign(x) ==
  /\ pc[x] = "reassign"
  /\ moved' = [moved EXCEPT ![x] = {r \in Refs : createdBy[r] = op[x].target}]
  /\ Goto(x, "write")
  /\ UNCHANGED <<db, locks, op, want, todo, cur>>

\* A reference that was not reassigned stops the DELETE (foreign key).
Referenced(x) == \E r \in Refs \ moved[x] : createdBy[r] = op[x].target

\* The DELETE cascades to the memberships of the user, and waits for their locks.
DeleteUser(x) ==
  LET u == op[x].target IN
  /\ Writing(x, "DeleteUser")
  /\ \A t \in Teams : member[t][u] # "none" => MemberFree(x, t, u)
  /\ \/ /\ ~Referenced(x)
        /\ sysRole' = [sysRole EXCEPT ![u] = "deleted"]
        /\ disabled' = [disabled EXCEPT ![u] = FALSE]
        /\ member' = [t \in Teams |-> [member[t] EXCEPT ![u] = "none"]]
        /\ createdBy' = [r \in Refs |-> IF createdBy[r] = u THEN op[x].actor ELSE createdBy[r]]
        /\ UNCHANGED team
        /\ Finish(x)
     \/ Referenced(x) /\ Fail(x)

\* Only the name changes, which is left out.
UpdateTeam(x) == Writing(x, "UpdateTeam") /\ Finish(x) /\ UNCHANGED db

\* The DELETE cascades to the memberships of the team, and waits for their locks.
DeleteTeam(x) ==
  LET t == op[x].team IN
  /\ Writing(x, "DeleteTeam")
  /\ \A u \in Users : member[t][u] # "none" => MemberFree(x, t, u)
  /\ \/ /\ team[t] = "live"
        /\ team' = [team EXCEPT ![t] = "deleted"]
        /\ member' = [member EXCEPT ![t] = [u \in Users |-> "none"]]
        /\ createdBy' = [createdBy EXCEPT ![t] = None]
        /\ UNCHANGED <<sysRole, disabled>>
        /\ Finish(x)
     \/ team[t] # "live" /\ Fail(x)

\* INSERT ... ON CONFLICT DO UPDATE: an existing row is updated once its lock is
\* free; a new row first takes FOR KEY SHARE on the users row (foreign key).
AddTeamMember(x) ==
  LET t == op[x].team  u == op[x].target IN
  /\ Writing(x, "AddTeamMember")
  /\ IF member[t][u] # "none" THEN MemberFree(x, t, u) ELSE UserFree(x, u)
  /\ \/ /\ Exists(u) /\ team[t] = "live"
        /\ member' = [member EXCEPT ![t][u] = op[x].role]
        /\ UNCHANGED <<sysRole, disabled, team, createdBy>>
        /\ Finish(x)
     \/ ~(Exists(u) /\ team[t] = "live") /\ Fail(x)

SetTeamMemberRole(x) ==
  /\ Writing(x, "SetTeamMemberRole")
  /\ member' = [member EXCEPT ![op[x].team][op[x].target] = op[x].role]
  /\ UNCHANGED <<sysRole, disabled, team, createdBy>>
  /\ Finish(x)

RemoveTeamMember(x) ==
  /\ Writing(x, "RemoveTeamMember")
  /\ member' = [member EXCEPT ![op[x].team][op[x].target] = "none"]
  /\ UNCHANGED <<sysRole, disabled, team, createdBy>>
  /\ Finish(x)

\* Memberships that were read and are not desired are deleted, the desired ones
\* upserted; a team that is gone stops the upsert (foreign key).
SetUserTeamMemberships(x) ==
  LET u == op[x].target
      desired == {t \in Teams : op[x].assign[t] # "none"}
  IN
  /\ Writing(x, "SetUserTeamMemberships")
  /\ \A t \in desired : member[t][u] # "none" => MemberFree(x, t, u)
  /\ \/ /\ \A t \in desired : team[t] = "live"
        /\ member' = [t \in Teams |-> [member[t] EXCEPT ![u] =
                        IF t \in desired THEN op[x].assign[t]
                        ELSE IF memberLock[t][u] = x THEN "none" ELSE @]]
        /\ UNCHANGED <<sysRole, disabled, team, createdBy>>
        /\ Finish(x)
     \/ (\E t \in desired : team[t] # "live") /\ Fail(x)

-----------------------------------------------------------------------------
(* BootstrapAdmin, run by every replica of the server when it starts.      *)

LockBootstrap(x) ==
  /\ pc[x] = "bootstrap"
  /\ bootLock = None
  /\ bootLock' = x
  /\ Goto(x, "exists")
  /\ UNCHANGED <<db, userLock, memberLock, op, want, todo, cur, moved>>

CheckBootstrapped(x) ==
  /\ pc[x] = "exists"
  /\ IF \E u \in Users : Exists(u) THEN Fail(x) ELSE Advance(x, "write")

BootstrapAdmin(x) ==
  /\ Writing(x, "BootstrapAdmin")
  /\ sysRole' = [sysRole EXCEPT ![op[x].target] = "admin"]
  /\ disabled' = [disabled EXCEPT ![op[x].target] = FALSE]
  /\ UNCHANGED <<team, member, createdBy>>
  /\ Finish(x)

-----------------------------------------------------------------------------
\* The INSERT of another table (a shared connection, a log session): its
\* created_by takes FOR KEY SHARE on the users row.
InsertAsset(a, u) ==
  /\ createdBy[a] = None
  /\ Exists(u) /\ userLock[u] = None
  /\ createdBy' = [createdBy EXCEPT ![a] = u]
  /\ UNCHANGED <<sysRole, disabled, team, member, locks, local>>

Check(x) ==
  \/ AuthorizeActor(x) \/ AuthorizeMember(x) \/ ReadAuthorized(x)
  \/ LockTarget(x) \/ EnsureAnotherActiveSystemAdmin(x) \/ LockTeamMember(x)
  \/ ReadMemberships(x) \/ MembershipsLocked(x)
  \/ \E r \in want[x] : LockMembership(x, r) \/ LockTeamRow(x, r)
  \/ \E t \in todo[x] : ReadTeam(x, t)
  \/ EnsureAnotherTeamAdmin(x)
  \/ Reassign(x) \/ LockBootstrap(x) \/ CheckBootstrapped(x)

Write(x) ==
  \/ BootstrapAdmin(x) \/ CreateUser(x) \/ CreateTeam(x)
  \/ UpdateUser(x) \/ DeleteUser(x) \/ UpdateTeam(x) \/ DeleteTeam(x)
  \/ AddTeamMember(x) \/ SetTeamMemberRole(x) \/ RemoveTeamMember(x)
  \/ SetUserTeamMemberships(x)

Step(x) == Check(x) \/ Write(x)

Next ==
  \/ \E x \in Tx : (\E o \in Ops : Begin(x, o)) \/ Step(x) \/ Abort(x)
  \/ \E a \in Assets, u \in Users : InsertAsset(a, u)

Spec == Init /\ [][Next]_vars

-----------------------------------------------------------------------------
(* Progress.  PostgreSQL queues the transactions that wait for a row, so a *)
(* transaction whose next statement can run again and again does run, and  *)
(* its deadlock detector aborts a transaction of every cycle of waits.     *)

\* The transactions the next statement of x waits for.
WaitsFor(x) ==
  LET o == op[x]
      holders(rows) == {memberLock[r[1]][r[2]] :
                          r \in {q \in rows : member[q[1]][q[2]] # "none"}} \ {x, None}
      free(rows) == \E r \in rows : member[r[1]][r[2]] = "none" \/ MemberFree(x, r[1], r[2])
  IN CASE pc[x] = "authorize" -> {userLock[o.actor]} \ {x, None}
       [] pc[x] = "lockTarget" -> {userLock[o.target]} \ {x, None}
       [] pc[x] = "authorizeMember" -> holders({<<o.team, o.actor>>})
       [] pc[x] = "lockMember" -> holders({<<o.team, o.target>>})
       [] pc[x] \in {"lockMemberships", "lockTeam"} ->
            IF free(want[x]) THEN {} ELSE holders(want[x])
       [] pc[x] = "bootstrap" -> {bootLock} \ {x, None}
       [] Writing(x, "DeleteUser") -> holders(Teams \X {o.target})
       [] Writing(x, "SetUserTeamMemberships") ->
            holders({t \in Teams : o.assign[t] # "none"} \X {o.target})
       [] Writing(x, "DeleteTeam") -> holders({o.team} \X Users)
       [] Writing(x, "AddTeamMember") ->
            IF member[o.team][o.target] # "none" THEN holders({<<o.team, o.target>>})
                                                 ELSE {userLock[o.target]} \ {x, None}
       [] OTHER -> {}

Deadlocked(x) ==
  \E cycle \in SUBSET Tx : x \in cycle /\ \A y \in cycle : WaitsFor(y) \cap cycle # {}

DetectDeadlock(x) == Deadlocked(x) /\ Abort(x)

-----------------------------------------------------------------------------
(* Properties.                                                             *)

\* Once the system has users, one of them is an administrator that is not
\* disabled: what ErrLastSystemAdmin is there to guarantee, whatever requests
\* run at the same time.
SystemKeepsAdmin == (\E u \in Users : Exists(u)) => \E u \in Users : ActiveAdmin(u)

\* A request by which an administrator takes away its own role.
SelfDemotion(o) == o.kind = "UpdateUser" /\ o.actor = o.target /\ o.role # "admin"

\* The last active administrator disappears only when an administrator demotes
\* itself: every other mutation keeps its actor locked and active to the end.
LastAdminLostOnlyBySelfDemotion ==
  [][ActiveAdmins # {} /\ ActiveAdmins' = {} =>
       \E x \in Tx : Writing(x, "UpdateUser") /\ SelfDemotion(op[x])]_vars

\* Every live team has an administrator (ErrLastTeamAdmin), whatever promotions,
\* demotions, removals and assignments run at the same time.
TeamKeepsAdmin == \A t \in Teams : team[t] = "live" => \E u \in Users : TeamAdmin(t, u)

\* The transactions that authorize their actor FOR UPDATE.
Locking(o) == o.kind \notin {"BootstrapAdmin", "AddTeamMember"}

MayAct(o) ==
  \/ ActiveAdmin(o.actor)
  \/ TeamScoped(o) /\ Exists(o.actor) /\ ~disabled[o.actor] /\ TeamAdmin(o.team, o.actor)

\* A transaction that was authorized and has not finished still acts for an actor
\* who may do what it asks: nobody is disabled, demoted, deleted or removed from
\* the team between the authorization of its request and the commit.
AuthorizedUntilCommit ==
  \A x \in Tx : pc[x] \notin {"idle", "authorize", "authorizeMember"} /\ Locking(op[x])
                 => MayAct(op[x])

\* When DeleteUser comes to delete the user, every row that refers to the user has
\* been reassigned: the DELETE is never stopped by a foreign key.
DeleteFindsNoReference == \A x \in Tx : Writing(x, "DeleteUser") => ~Referenced(x)

\* However many replicas start together, the bootstrap administrator is created
\* only in a system that has no user at the moment of the commit.
BootstrapOnlyWhenEmpty ==
  \A x \in Tx : Writing(x, "BootstrapAdmin") => \A u \in Users : ~Exists(u)

\* What an operation has looked at still holds when it comes to write: nobody has
\* come to refer to a user that DeleteUser deletes, and BootstrapAdmin finds the
\* system empty (store.go 79-117 and 346-403).
ChecksHoldAtWrite == DeleteFindsNoReference /\ BootstrapOnlyWhenEmpty

=============================================================================
